------------------------------ MODULE Settlement ------------------------------
(***************************************************************************)
(* Post-race settlement of saved V85/V86 rounds: the jobs of               *)
(* post_race_settlement_jobs and the batches that run                      *)
(* runNextPostRaceSettlement on them.  A step settles one leg from its     *)
(* exact official race; when every leg has one factual winner the final    *)
(* game is captured, the closing market repaired, the payout persisted,    *)
(* X-Labs queued and the job completed.                                    *)
(*                                                                         *)
(* Results are upserted start by start, by this and by every other import  *)
(* of the race: between two starts a dead heat has one winner, and a later *)
(* payload may take a placing back.                                        *)
(*                                                                         *)
(* The rounds are those whose last race lies 45 minutes back; a greater    *)
(* round is a later date.  Leases are as in OfficialBackfill.              *)
(***************************************************************************)
EXTENDS Integers, FiniteSets

CONSTANTS
    Workers,     \* batches that may overlap
    NoWorker,    \* lease_token IS NULL
    Rounds,      \* saved rounds, ordered by round_date
    Legs,        \* the legs of a round
    Starts,      \* the starts of a race
    MaxSteps,    \* steps of one batch
    MaxMishaps   \* bound: killed batches and overrun leases

ASSUME RoundAssumption == /\ Rounds \subseteq Int
                          /\ Legs \subseteq Int
                          /\ Legs # {}
                          /\ IsFiniteSet(Legs)
                          /\ IsFiniteSet(Starts)
                          /\ Starts # {}
ASSUME BoundsAssumption == MaxSteps \in Nat \ {0} /\ MaxMishaps \in Nat
ASSUME WorkerAssumption == NoWorker \notin Workers

VARIABLES
    \* rows of post_race_settlement_jobs, by round
    status, settled_legs, next_check, lease_token, lease_until,
    placed,       \* round -> leg -> starts stored with placing 1
    market,       \* rounds whose closing market is completely repaired
    final_result, \* rounds with a row in game_round_final_results
    legacy,       \* rounds completed before final results were kept
    xlabs,        \* rounds whose date has had its X-Labs job queued
    pc, round, leg, todo, settled, steps, \* of a batch: label, job, target,
                  \* starts of the payload not yet written, count, budget
    mishaps,      \* batches killed, or slower than their lease, so far
    \* history, which nothing reads
    decided,      \* rounds that had, at some moment, one winner in every leg
    peak          \* round -> most legs decided at one moment of its last lease

lease == <<lease_token, lease_until>>
job == <<status, settled_legs, next_check, lease>>
results == <<placed, decided, peak>>
facts == <<results, market, final_result, legacy, xlabs>>
local == <<round, leg, todo, settled, steps, mishaps>>
vars == <<job, facts, pc, local>>

Statuses == {"none", "pending", "waiting", "completed", "manual_review"}
Open == {"pending", "waiting"}
Leased == {"state", "capture", "normalize", "after", "final", "market",
           "persist", "queue", "completed", "pending", "waiting", "manual", "error"}

Winners(r, l) == Cardinality(placed[r][l])
Decided(r) == {l \in Legs : Winners(r, l) = 1}
Ambiguous(r) == \E l \in Legs : Winners(r, l) > 1
AllDecided(r) == Decided(r) = Legs

AnyLeg == CHOOSE l \in Legs : TRUE

Init ==
    /\ legacy \in SUBSET Rounds
    /\ status = [r \in Rounds |-> IF r \in legacy THEN "completed" ELSE "none"]
    /\ settled_legs = [r \in Rounds |-> IF r \in legacy THEN Cardinality(Legs) ELSE 0]
    /\ next_check = [r \in Rounds |-> "due"]
    /\ lease_token = [r \in Rounds |-> NoWorker]
    /\ lease_until = [r \in Rounds |-> "null"]
    /\ placed \in [Rounds -> [Legs -> SUBSET Starts]]
    /\ \A r \in Rounds, l \in Legs : Winners(r, l) = IF r \in legacy THEN 1 ELSE 0
    /\ market = {}
    /\ final_result = {}
    /\ xlabs = {}
    /\ pc = [w \in Workers |-> "idle"]
    /\ round = [w \in Workers |-> CHOOSE r \in Rounds : TRUE]
    /\ leg = [w \in Workers |-> AnyLeg]
    /\ todo = [w \in Workers |-> {}]
    /\ settled = [w \in Workers |-> 0]
    /\ steps = [w \in Workers |-> 0]
    /\ mishaps = 0
    /\ decided = legacy
    /\ peak = [r \in Rounds |-> 0]

Goto(w, label) == pc' = [pc EXCEPT ![w] = label]
HoldsLease(w) == lease_token[round[w]] = w

\* The end of a step: its variables are gone, and unless the batch goes on with
\* another step so is its budget.
Leaves(w, label) ==
    /\ Goto(w, label)
    /\ leg' = [leg EXCEPT ![w] = AnyLeg]
    /\ todo' = [todo EXCEPT ![w] = {}]
    /\ settled' = [settled EXCEPT ![w] = 0]
    /\ steps' = [steps EXCEPT ![w] = IF label = "ensure" THEN @ - 1 ELSE 0]
    /\ UNCHANGED <<round, facts>>

\* The fenced UPDATEs end the step: what they write, and where the batch goes
\* from there; a lost lease is thrown as an error.
Release(w, newStatus, count, check, label) ==
    LET r == round[w] IN
    IF HoldsLease(w)
    THEN /\ status' = [status EXCEPT ![r] = newStatus]
         /\ settled_legs' = [settled_legs EXCEPT ![r] = count]
         /\ next_check' = [next_check EXCEPT ![r] = check]
         /\ lease_token' = [lease_token EXCEPT ![r] = NoWorker]
         /\ lease_until' = [lease_until EXCEPT ![r] = "null"]
         /\ Leaves(w, label)
    ELSE Leaves(w, "error") /\ UNCHANGED job

-----------------------------------------------------------------------------
(* Plausible bugs, used only to see that the properties would notice them. *)

\* The payout is stored without the repair of the closing market.
FinalizeSkipsMarket(w) ==
    /\ pc[w] = "final"
    /\ IF round[w] \in final_result
       THEN Goto(w, "queue")
       ELSE Goto(w, "persist") \/ Goto(w, "waiting")
    /\ UNCHANGED <<job, facts, local>>

\* A reused final result is completed without queueing X-Labs.
FinalizeForgetsXlabs(w) ==
    /\ pc[w] = "final"
    /\ IF round[w] \in final_result
       THEN Goto(w, "completed")
       ELSE Goto(w, "market") \/ Goto(w, "waiting")
    /\ UNCHANGED <<job, facts, local>>

\* The waiting row is written without looking at the token.
ReleaseWaitingUnfenced(w) ==
    /\ pc[w] = "waiting"
    /\ status' = [status EXCEPT ![round[w]] = "waiting"]
    /\ settled_legs' = [settled_legs EXCEPT ![round[w]] = settled[w]]
    /\ next_check' = [next_check EXCEPT ![round[w]] = "later"]
    /\ Goto(w, "idle")
    /\ UNCHANGED <<lease, facts, local>>

-----------------------------------------------------------------------------
(* The official results and the clock.                                     *)

\* mapHistoricalStart: the upsert of one start's result writes its placing over
\* the one before (a start without a result is left alone).
Upsert(r, l, s) ==
    \E stored \in {placed[r][l] \union {s}, placed[r][l] \ {s}} :
        /\ placed' = [placed EXCEPT ![r][l] = stored]
        /\ decided' = decided \union {q \in Rounds : AllDecided(q)'}
        /\ peak' = [q \in Rounds |-> LET now == Cardinality(Decided(q)') IN
                       IF lease_token[q] # NoWorker /\ now > peak[q] THEN now ELSE peak[q]]

\* Another import of the same race writes a start, first or as a correction.
OtherImport(r, l, s) ==
    /\ Upsert(r, l, s)
    /\ placed' # placed
    /\ UNCHANGED <<job, market, final_result, legacy, xlabs, pc, local>>

\* next_check_at comes.
CheckDue(r) ==
    /\ next_check[r] = "later"
    /\ next_check' = [next_check EXCEPT ![r] = "due"]
    /\ UNCHANGED <<status, settled_legs, lease, facts, pc, local>>

HolderAtWork(r) == \E w \in Workers : /\ lease_token[r] = w
                                      /\ round[w] = r
                                      /\ pc[w] \in Leased

\* lease_until passes: of a killed batch, or (at most MaxMishaps times) of
\* one still at work.
LeaseExpires(r) ==
    /\ lease_until[r] = "live"
    /\ HolderAtWork(r) => mishaps < MaxMishaps
    /\ mishaps' = mishaps + (IF HolderAtWork(r) THEN 1 ELSE 0)
    /\ lease_until' = [lease_until EXCEPT ![r] = "past"]
    /\ UNCHANGED <<status, settled_legs, next_check, lease_token, facts, pc,
                   round, leg, todo, settled, steps>>

-----------------------------------------------------------------------------
(* runPostRaceSettlementBatch and runNextPostRaceSettlement.               *)

StartBatch(w, budget) ==
    /\ pc[w] = "idle"
    /\ steps' = [steps EXCEPT ![w] = budget]
    /\ Goto(w, "ensure")
    /\ UNCHANGED <<job, facts, round, leg, todo, settled, mishaps>>

\* The daily schedule: every retry delay of the day before has passed.
MorningBatch(w) ==
    /\ \A r \in Rounds : next_check[r] = "due"
    /\ StartBatch(w, MaxSteps)

\* The operator's route asks for a single step, at any time.
OperatorStep(w) == StartBatch(w, 1)

\* ensurePostRaceSettlementJobs: jobs for unresolved rounds, and completed
\* jobs without a final result are reopened.
EnsureJobs(w) ==
    LET eligible == {r \in Rounds : ~AllDecided(r) \/ r \notin final_result}
        reopened == {r \in eligible : status[r] = "completed" /\ r \notin final_result}
    IN
    /\ pc[w] = "ensure"
    /\ status' = [r \in Rounds |-> IF \/ r \in eligible /\ status[r] = "none"
                                      \/ r \in reopened
                                   THEN "pending" ELSE status[r]]
    /\ next_check' = [r \in Rounds |-> IF r \in reopened THEN "due" ELSE next_check[r]]
    /\ Goto(w, "select")
    /\ UNCHANGED <<settled_legs, lease, facts, local>>

\* selectJob: the newest open round that is due and free.
Candidates == {r \in Rounds : /\ status[r] \in Open
                              /\ next_check[r] = "due"
                              /\ lease_until[r] \in {"null", "past"}}
Newest(r) == r \in Candidates /\ \A other \in Candidates : other <= r

SelectJob(w) ==
    /\ pc[w] = "select"
    /\ \/ Candidates = {} /\ Leaves(w, "idle")
       \/ \E r \in Rounds : /\ Newest(r)
                            /\ round' = [round EXCEPT ![w] = r]
                            /\ Goto(w, "lease")
                            /\ UNCHANGED <<facts, leg, todo, settled, steps>>
    /\ UNCHANGED <<job, mishaps>>

\* The conditional UPDATE does not look at next_check_at again.
AcquireLease(w) ==
    LET r == round[w] IN
    /\ pc[w] = "lease"
    /\ IF status[r] \in Open /\ lease_until[r] \in {"null", "past"}
       THEN /\ lease_token' = [lease_token EXCEPT ![r] = w]
            /\ lease_until' = [lease_until EXCEPT ![r] = "live"]
            /\ peak' = [peak EXCEPT ![r] = Cardinality(Decided(r))]
            /\ Goto(w, "state")
            /\ UNCHANGED <<placed, decided, market, final_result, legacy, xlabs,
                           round, leg, todo, settled, steps>>
       ELSE Leaves(w, "idle") /\ UNCHANGED lease
    /\ UNCHANGED <<status, settled_legs, next_check, mishaps>>

\* roundState: ambiguity stops the round, eight winners finish it, and
\* otherwise the first leg without a winner is the target.
ReadState(w) ==
    LET r == round[w]
        first(l) == /\ Winners(r, l) = 0
                    /\ \A k \in Legs : Winners(r, k) = 0 => l <= k
    IN
    /\ pc[w] = "state"
    /\ settled' = [settled EXCEPT ![w] = Cardinality(Decided(r))]
    /\ \/ Ambiguous(r) /\ Goto(w, "manual") /\ UNCHANGED leg
       \/ AllDecided(r) /\ Goto(w, "final") /\ UNCHANGED leg
       \/ ~Ambiguous(r) /\ \E l \in Legs : /\ first(l)
                                           /\ leg' = [leg EXCEPT ![w] = l]
                                           /\ Goto(w, "capture")
    /\ UNCHANGED <<job, facts, round, todo, steps, mishaps>>

\* captureRace: the archived payload is final, or the round waits.
CaptureRace(w) ==
    /\ pc[w] = "capture"
    /\ \/ /\ Goto(w, "normalize")
          /\ todo' = [todo EXCEPT ![w] = Starts]
          /\ settled' = [settled EXCEPT ![w] = 0]
       \/ Goto(w, "waiting") /\ UNCHANGED <<todo, settled>>
    /\ UNCHANGED <<job, facts, round, leg, steps, mishaps>>

\* normalizeCapturedOfficialRace, one start of the payload.
NormalizeStart(w) ==
    /\ pc[w] = "normalize"
    /\ \E s \in todo[w] :
        /\ Upsert(round[w], leg[w], s)
        /\ todo' = [todo EXCEPT ![w] = @ \ {s}]
        /\ Goto(w, IF todo[w] = {s} THEN "after" ELSE "normalize")
    /\ UNCHANGED <<job, market, final_result, legacy, xlabs, round, leg, settled, steps, mishaps>>

\* roundState again: no unique winner for the target is left to a person.
ReadStateAfter(w) ==
    LET r == round[w] IN
    /\ pc[w] = "after"
    /\ settled' = [settled EXCEPT ![w] = Cardinality(Decided(r))]
    /\ Goto(w, CASE Ambiguous(r) \/ Winners(r, leg[w]) = 0 -> "manual"
                 [] AllDecided(r)                         -> "final"
                 [] OTHER                                 -> "pending")
    /\ leg' = [leg EXCEPT ![w] = AnyLeg]
    /\ UNCHANGED <<job, facts, round, todo, steps, mishaps>>

\* finalizeRoundGame: an existing final result is reused, or the game is
\* captured and its results are final, or not yet.
FinalizeGame(w) ==
    /\ pc[w] = "final"
    /\ IF round[w] \in final_result
       THEN Goto(w, "queue")
       ELSE Goto(w, "market") \/ Goto(w, "waiting")
    /\ UNCHANGED <<job, facts, local>>

\* repairCapturedOfficialClosingMarket: every start matched (or it throws).
RepairMarket(w) ==
    /\ pc[w] = "market"
    /\ market' = market \union {round[w]}
    /\ Goto(w, "persist")
    /\ UNCHANGED <<job, results, final_result, legacy, xlabs, local>>

\* persistFinalGameResult: upsert of the payout row.
PersistFinal(w) ==
    /\ pc[w] = "persist"
    /\ final_result' = final_result \union {round[w]}
    /\ Goto(w, "queue")
    /\ UNCHANGED <<job, results, market, legacy, xlabs, local>>

\* markCompleted first queues or reopens the X-Labs job of the date ...
QueueXlabs(w) ==
    /\ pc[w] = "queue"
    /\ xlabs' = xlabs \union {round[w]}
    /\ Goto(w, "completed")
    /\ UNCHANGED <<job, results, market, final_result, legacy, local>>

\* ... and then writes the fenced row.
MarkCompleted(w) ==
    /\ pc[w] = "completed"
    /\ Release(w, "completed", Cardinality(Legs), "due", "idle")
    /\ UNCHANGED mishaps

\* releaseWaiting for results that are not final; the batch ends.
ReleaseWaiting(w) ==
    /\ pc[w] = "waiting"
    /\ Release(w, "waiting", settled[w], "later", "idle")
    /\ UNCHANGED mishaps

\* markManualReview; the batch ends.
MarkManualReview(w) ==
    /\ pc[w] = "manual"
    /\ Release(w, "manual_review", settled[w], "due", "idle")
    /\ UNCHANGED mishaps

\* releasePending after a settled leg; the batch goes on within its budget.
ReleasePending(w) ==
    /\ pc[w] = "pending"
    /\ Release(w, "pending", settled[w], "due", IF steps[w] > 1 THEN "ensure" ELSE "idle")
    /\ UNCHANGED mishaps

\* Any call of the step may throw: the provider, the database, the bucket.
Throw(w) ==
    /\ pc[w] \in Leased \ {"error"}
    /\ Leaves(w, "error")
    /\ UNCHANGED <<job, mishaps>>

\* The catch: the legs are counted again (as none if even that fails) and the
\* round waits; a lost lease leaves the row alone.
RecordError(w) ==
    LET r == round[w] IN
    /\ pc[w] = "error"
    /\ IF HoldsLease(w)
       THEN \E count \in {0, Cardinality(Decided(r))} :
                Release(w, "waiting", count, "later", "idle")
       ELSE Leaves(w, "idle") /\ UNCHANGED job
    /\ UNCHANGED mishaps

\* The platform kills a batch: its memory is gone, the lease stays.
Crash(w) ==
    /\ pc[w] # "idle"
    /\ mishaps < MaxMishaps
    /\ mishaps' = mishaps + 1
    /\ Leaves(w, "idle")
    /\ UNCHANGED job

Step(w) ==
    \/ EnsureJobs(w) \/ SelectJob(w) \/ AcquireLease(w) \/ ReadState(w)
    \/ CaptureRace(w) \/ NormalizeStart(w) \/ ReadStateAfter(w)
    \/ FinalizeGame(w) \/ RepairMarket(w) \/ PersistFinal(w) \/ QueueXlabs(w)
    \/ MarkCompleted(w) \/ ReleaseWaiting(w) \/ MarkManualReview(w)
    \/ ReleasePending(w) \/ RecordError(w)

Next ==
    \/ \E r \in Rounds : CheckDue(r) \/ LeaseExpires(r)
    \/ \E r \in Rounds, l \in Legs, s \in Starts : OtherImport(r, l, s)
    \/ \E w \in Workers : MorningBatch(w) \/ OperatorStep(w) \/ Step(w) \/ Throw(w) \/ Crash(w)

Spec == Init /\ [][Next]_vars

\* Every morning starts a batch, a batch that is not killed runs on, and the
\* clock passes every deadline; operators promise nothing.
FairSpec ==
    /\ Spec
    /\ \A r \in Rounds : WF_vars(CheckDue(r)) /\ WF_vars(LeaseExpires(r))
    /\ \A w \in Workers : WF_vars(MorningBatch(w)) /\ WF_vars(Step(w))

-----------------------------------------------------------------------------
(* Correctness.                                                            *)

\* Every variable stays in its range (one type invariant for the module).
TypeOK ==
    /\ status \in [Rounds -> Statuses]
    /\ settled_legs \in [Rounds -> 0..Cardinality(Legs)]
    /\ next_check \in [Rounds -> {"due", "later"}]
    /\ lease_token \in [Rounds -> Workers \union {NoWorker}]
    /\ lease_until \in [Rounds -> {"null", "live", "past"}]
    /\ placed \in [Rounds -> [Legs -> SUBSET Starts]]
    /\ market \subseteq Rounds /\ final_result \subseteq Rounds
    /\ legacy \subseteq Rounds /\ xlabs \subseteq Rounds
    /\ pc \in [Workers -> Leased \union {"idle", "ensure", "select", "lease"}]
    /\ round \in [Workers -> Rounds]
    /\ leg \in [Workers -> Legs]
    /\ todo \in [Workers -> SUBSET Starts]
    /\ settled \in [Workers -> 0..Cardinality(Legs)]
    /\ steps \in [Workers -> 0..MaxSteps]
    /\ mishaps \in 0..MaxMishaps
    /\ decided \subseteq Rounds
    /\ peak \in [Rounds -> 0..Cardinality(Legs)]

\* The payout of a round is stored only when each leg has had exactly one
\* factual winner, all of them at one moment, and the closing market is
\* complete, whichever batch got there and whatever was corrected meanwhile.
FinalResultEarned ==
    \A r \in final_result : r \in decided /\ r \in market

\* A job is completed only with its final result stored and X-Labs queued;
\* the jobs completed before final results were kept are the exception.
CompletedIsFinal ==
    \A r \in Rounds : status[r] = "completed" =>
        \/ r \in final_result /\ r \in xlabs
        \/ r \in legacy /\ r \notin final_result

\* The settled_legs a batch writes were a fact while it held the job: there was
\* a moment since its lease was taken at which that many legs (or more) had one
\* winner each, although it counted in memory, other imports added and took back
\* placings, and it wrote several calls later.
OverstatedStep ==
    \A r \in Rounds :
        settled_legs'[r] # settled_legs[r] => settled_legs'[r] <= peak[r]
SettledNeverOverstated == [][OverstatedStep]_vars

\* "Exactly one factual winner per leg is required for automatic round
\* completion" (docs/DECISIONS.md:277).  A batch cut short between two starts of
\* a dead heat leaves one winner behind, which nobody reads again.
PayoutOverUniqueWinners ==
    \A r \in final_result : AllDecided(r)

\* What a person or a final result has closed stays closed: manual review is
\* left by no batch, and a completed job is reopened only without a result.
ClosedStep ==
    \A r \in Rounds :
        /\ status[r] = "manual_review" => status'[r] = "manual_review"
        /\ status[r] = "completed" /\ status'[r] # "completed" => r \notin final_result
ClosedStaysClosed == [][ClosedStep]_vars

\* The jobs implement RoundClosing: whichever batches overlap, are killed or
\* lose their lease, a round is closed over its payout and its X-Labs job, the
\* payout over its winners and its market, and closed rounds stay closed.
Stage(r) == IF status[r] = "completed" THEN "closed"
            ELSE IF status[r] = "manual_review" THEN "review" ELSE "open"
Closing == INSTANCE RoundClosing WITH
    stage <- [r \in Rounds |-> Stage(r)],
    payout <- final_result,
    queued <- xlabs
RoundRefinement == Closing!ClosingSpec

\* "Older unresolved saved rounds are recovered immediately": an open round
\* is eventually taken up by some batch.
EveryRoundTaken ==
    \A r \in Rounds : status[r] = "pending" ~> \/ status[r] # "pending"
                                               \/ lease_token[r] # NoWorker
=============================================================================
