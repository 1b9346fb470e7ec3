-------------------------- MODULE Settlement_proofs --------------------------
(***************************************************************************)
(* Proofs about Settlement, for any rounds, legs and starts, any           *)
(* overlapping batches, and any number of kills and overrun leases.        *)
(* Placings come and go under a batch at work, so nothing below says that  *)
(* what it has read still holds.  What lasts is that it held: `decided`    *)
(* remembers the rounds that had their winners at one moment, and `peak`   *)
(* the most legs decided at one moment of a lease; the fence ties the      *)
(* count a batch writes to the lease under which it counted.               *)
(***************************************************************************)
EXTENDS Settlement, FiniteSetTheorems, TLAPS

AnyRound == CHOOSE r \in Rounds : TRUE
AtRound == Leased \union {"lease"}
Counted == Leased \ {"state", "error"}
AtFinal == {"final", "market", "persist", "queue", "completed"}

(***************************************************************************)
(* The conjuncts of TypeOK by what they are about.  Before it selects its  *)
(* first job a batch has no round, and there may be none.                  *)
(***************************************************************************)
RowsOK ==
    /\ status \in [Rounds -> Statuses]
    /\ settled_legs \in [Rounds -> 0..Cardinality(Legs)]
    /\ next_check \in [Rounds -> {"due", "later"}]
    /\ lease_token \in [Rounds -> Workers \union {NoWorker}]
    /\ lease_until \in [Rounds -> {"null", "live", "past"}]
FactsOK ==
    /\ placed \in [Rounds -> [Legs -> SUBSET Starts]]
    /\ market \subseteq Rounds /\ final_result \subseteq Rounds
    /\ legacy \subseteq Rounds /\ xlabs \subseteq Rounds
    /\ decided \subseteq Rounds
    /\ peak \in [Rounds -> 0..Cardinality(Legs)]
LocalOK ==
    /\ pc \in [Workers -> Leased \union {"idle", "ensure", "select", "lease"}]
    /\ round \in [Workers -> Rounds \union {AnyRound}]
    /\ leg \in [Workers -> Legs]
    /\ todo \in [Workers -> SUBSET Starts]
    /\ settled \in [Workers -> 0..Cardinality(Legs)]
    /\ steps \in [Workers -> 0..MaxSteps]
    /\ mishaps \in 0..MaxMishaps

\* What a batch has read or done by the time it stands at a label.
HasRound == \A w \in Workers : pc[w] \in AtRound => round[w] \in Rounds
HasBudget == \A w \in Workers : pc[w] \notin {"idle", "error"} => steps[w] >= 1
HasCounted == \A w \in Workers :
    pc[w] \in Counted /\ HoldsLease(w) => settled[w] <= peak[round[w]]
HasWinners == \A w \in Workers :
    pc[w] \in AtFinal => round[w] \in decided /\ settled[w] = Cardinality(Legs)
HasFinished == \A w \in Workers :
    /\ pc[w] = "persist" => round[w] \in market
    /\ pc[w] \in {"queue", "completed"} => round[w] \in final_result
    /\ pc[w] = "completed" => round[w] \in xlabs

\* The histories have seen the present.
Witnessed == \A r \in Rounds :
    /\ AllDecided(r) => r \in decided
    /\ lease_token[r] # NoWorker => Cardinality(Decided(r)) <= peak[r]

\* No batch is at work on a job that was completed before final results were
\* kept and has not been reopened.
LegacyUntouched == \A r \in Rounds, w \in Workers :
    status[r] = "completed" /\ r \notin final_result /\ round[w] = r => pc[w] \notin AtRound

TypeInv == RowsOK /\ FactsOK /\ LocalOK /\ HasRound /\ HasBudget
Known ==
    /\ HasCounted /\ HasWinners /\ HasFinished /\ Witnessed /\ LegacyUntouched
    /\ FinalResultEarned /\ CompletedIsFinal
IInv == TypeInv /\ Known

(***************************************************************************)
(* Lemmas.                                                                 *)
(***************************************************************************)
LEMMA LegsFinite == /\ IsFiniteSet(Legs) /\ Cardinality(Legs) \in Nat
                    /\ AnyLeg \in Legs
BY RoundAssumption, FS_CardinalityType DEF AnyLeg

\* The decided legs of a round are among its legs, before and after a step.
LEMMA DecidedBounded ==
  ASSUME NEW r \in Rounds
  PROVE  /\ Cardinality(Decided(r)) \in 0..Cardinality(Legs)
         /\ Cardinality(Decided(r)') \in 0..Cardinality(Legs)
         /\ AllDecided(r) => Cardinality(Decided(r)) = Cardinality(Legs)
<1>1. ASSUME NEW S \in SUBSET Legs PROVE Cardinality(S) \in 0..Cardinality(Legs)
  <2>1. IsFiniteSet(S) /\ Cardinality(S) <= Cardinality(Legs) BY LegsFinite, FS_Subset
  <2>2. Cardinality(S) \in Nat BY <2>1, FS_CardinalityType
  <2> QED BY <2>1, <2>2, LegsFinite
<1>2. Decided(r) \in SUBSET Legs /\ Decided(r)' \in SUBSET Legs BY DEF Decided
<1> QED BY <1>1, <1>2 DEF AllDecided

\* Where no placing is written, what is decided stays as it is.
LEMMA DecidedStays ==
  ASSUME placed' = placed
  PROVE  \A r \in Rounds : Decided(r)' = Decided(r) /\ (AllDecided(r)' <=> AllDecided(r))
BY DEF Decided, AllDecided, Winners

\* One start's result, whoever writes it: the histories take note of what it
\* decides, and forget nothing when it takes a winner away.
LEMMA UpsertNoted ==
  ASSUME TypeInv, NEW r \in Rounds, NEW l \in Legs, NEW s \in Starts, Upsert(r, l, s)
  PROVE  /\ placed' \in [Rounds -> [Legs -> SUBSET Starts]]
         /\ \A q \in Rounds \ {r} : placed'[q] = placed[q]
         /\ decided \subseteq decided' /\ decided' \subseteq Rounds
         /\ peak' \in [Rounds -> 0..Cardinality(Legs)]
         /\ \A q \in Rounds : /\ peak[q] <= peak'[q]
                              /\ AllDecided(q)' => q \in decided'
                              /\ q \in decided' => q \in decided \/ AllDecided(q)'
                              /\ lease_token[q] # NoWorker => Cardinality(Decided(q)') <= peak'[q]
<1>0. PICK stored \in {placed[r][l] \union {s}, placed[r][l] \ {s}} :
          placed' = [placed EXCEPT ![r][l] = stored]
  BY DEF Upsert
<1>1. stored \in SUBSET Starts BY DEF TypeInv, FactsOK
<1>2. /\ placed' \in [Rounds -> [Legs -> SUBSET Starts]]
      /\ \A q \in Rounds \ {r} : placed'[q] = placed[q]
  BY <1>0, <1>1 DEF TypeInv, FactsOK
<1>3. decided' = decided \union {q \in Rounds : AllDecided(q)'} BY DEF Upsert
<1>4. peak' = [q \in Rounds |-> IF lease_token[q] # NoWorker /\ Cardinality(Decided(q)') > peak[q]
                               THEN Cardinality(Decided(q)') ELSE peak[q]]
  BY DEF Upsert
<1>5. \A q \in Rounds : /\ peak[q] \in 0..Cardinality(Legs)
                        /\ Cardinality(Decided(q)') \in 0..Cardinality(Legs)
  BY DecidedBounded DEF TypeInv, FactsOK
<1>6. /\ peak' \in [Rounds -> 0..Cardinality(Legs)]
      /\ \A q \in Rounds : /\ peak[q] <= peak'[q]
                           /\ lease_token[q] # NoWorker => Cardinality(Decided(q)') <= peak'[q]
  BY <1>4, <1>5, LegsFinite
<1>7. /\ decided \subseteq decided' /\ decided' \subseteq Rounds
      /\ \A q \in Rounds : /\ AllDecided(q)' => q \in decided'
                           /\ q \in decided' => q \in decided \/ AllDecided(q)'
  BY <1>3 DEF TypeInv, FactsOK
<1> QED BY <1>2, <1>6, <1>7

LEMMA InitIInv == Init => IInv
<1> SUFFICES ASSUME Init PROVE IInv
  OBVIOUS
<1> USE LegsFinite, RoundAssumption, BoundsAssumption DEF Init
<1>1. RowsOK BY DEF RowsOK, Statuses
<1>2. FactsOK BY DEF FactsOK
<1>3. LocalOK BY DEF LocalOK, AnyRound, Leased
<1>4. HasRound /\ HasBudget /\ HasCounted /\ HasWinners /\ HasFinished
  BY DEF HasRound, HasBudget, HasCounted, HasWinners, HasFinished, AtRound, Counted, AtFinal,
         Leased
<1>5. LegacyUntouched /\ FinalResultEarned
  BY DEF LegacyUntouched, FinalResultEarned, AtRound, Leased
<1>6. CompletedIsFinal BY DEF CompletedIsFinal
<1>7. Witnessed
  <2>1. ASSUME NEW r \in Rounds, AllDecided(r) PROVE r \in decided
    <3>1. AnyLeg \in Decided(r) BY <2>1 DEF AllDecided
    <3> QED BY <3>1 DEF Decided
  <2> QED BY <2>1 DEF Witnessed
<1> QED BY <1>1, <1>2, <1>3, <1>4, <1>5, <1>6, <1>7 DEF IInv, TypeInv, Known

\* The end of a step leaves every variable in its range.
LEMMA LeavesTyped ==
  ASSUME TypeInv, NEW w \in Workers, NEW label \in {"idle", "ensure", "error"},
         Leaves(w, label), label = "ensure" => steps[w] > 1,
         label = "error" => round[w] \in Rounds, mishaps' \in 0..MaxMishaps
  PROVE  FactsOK' /\ LocalOK' /\ HasRound' /\ HasBudget'
<1> USE LegsFinite, BoundsAssumption DEF TypeInv, Leaves, Goto, facts, results
<1>1. FactsOK' BY DEF FactsOK
<1>2. LocalOK'
  <2>1. /\ steps \in [Workers -> 0..MaxSteps]
        /\ steps' = [steps EXCEPT ![w] = IF label = "ensure" THEN @ - 1 ELSE 0]
    BY DEF LocalOK
  <2>2. steps' \in [Workers -> 0..MaxSteps] BY <2>1
  <2>3. /\ pc' \in [Workers -> Leased \union {"idle", "ensure", "select", "lease"}]
        /\ todo' \in [Workers -> SUBSET Starts]
        /\ leg' \in [Workers -> Legs] /\ settled' \in [Workers -> 0..Cardinality(Legs)]
        /\ round' \in [Workers -> Rounds \union {AnyRound}]
    BY DEF LocalOK, Leased
  <2> QED BY <2>2, <2>3 DEF LocalOK
<1>3. HasRound' BY DEF LocalOK, HasRound, AtRound, Leased
<1>4. HasBudget'
  <2> SUFFICES ASSUME NEW v \in Workers, pc'[v] \notin {"idle", "error"} PROVE steps'[v] >= 1
    BY DEF HasBudget
  <2>1. steps[w] \in 0..MaxSteps BY DEF LocalOK
  <2>2. CASE v = w BY <2>1, <2>2 DEF LocalOK
  <2>3. CASE v # w BY <2>3 DEF LocalOK, HasBudget
  <2> QED BY <2>2, <2>3
<1> QED BY <1>1, <1>2, <1>3, <1>4

\* A fenced write of a status and of a count that is one.
LEMMA ReleaseTyped ==
  ASSUME TypeInv, NEW w \in Workers, round[w] \in Rounds, NEW s \in Statuses,
         NEW n \in 0..Cardinality(Legs), NEW c \in {"due", "later"},
         NEW label \in {"idle", "ensure"}, label = "ensure" => steps[w] > 1,
         Release(w, s, n, c, label), UNCHANGED mishaps
  PROVE  TypeInv'
<1>1. RowsOK' BY DEF TypeInv, RowsOK, Release, HoldsLease, job, lease
<1>2. mishaps' \in 0..MaxMishaps BY DEF TypeInv, LocalOK
<1>3. PICK next \in {"idle", "ensure", "error"} :
          Leaves(w, next) /\ (next = "ensure" => steps[w] > 1)
  BY DEF Release
<1>4. FactsOK' /\ LocalOK' /\ HasRound' /\ HasBudget' BY <1>2, <1>3, LeavesTyped
<1> QED BY <1>1, <1>4 DEF TypeInv

LEMMA NextTypeInv == TypeInv /\ [Next]_vars => TypeInv'
<1> SUFFICES ASSUME TypeInv, [Next]_vars PROVE TypeInv'
  OBVIOUS
<1>b. \A r \in Rounds : Cardinality(Decided(r)) \in 0..Cardinality(Legs)
  BY DecidedBounded
<1>t. RowsOK /\ FactsOK /\ LocalOK /\ HasRound /\ HasBudget BY DEF TypeInv
<1>r. \A w \in Workers : /\ pc[w] \in AtRound => round[w] \in Rounds
                         /\ settled[w] \in 0..Cardinality(Legs)
                         /\ leg[w] \in Legs
                         /\ todo[w] \in SUBSET Starts
  BY DEF TypeInv, HasRound, LocalOK
<1> USE <1>t, LegsFinite DEF Goto, lease, job, facts, local, results
<1>1. ASSUME NEW r \in Rounds, CheckDue(r) PROVE TypeInv'
  <2>1. RowsOK' BY <1>1 DEF CheckDue, RowsOK, Statuses
  <2>2. FactsOK' BY <1>1 DEF CheckDue, FactsOK
  <2>3. LocalOK' BY <1>1 DEF CheckDue, LocalOK, Leased
  <2>4. HasRound' BY <1>1 DEF CheckDue, LocalOK, HasRound, AtRound, Leased
  <2>5. HasBudget' BY <1>1 DEF CheckDue, LocalOK, HasBudget
  <2> QED BY <2>1, <2>2, <2>3, <2>4, <2>5 DEF TypeInv
<1>2. ASSUME NEW r \in Rounds, LeaseExpires(r) PROVE TypeInv'
  <2>1. RowsOK' BY <1>2 DEF LeaseExpires, RowsOK, Statuses
  <2>2. FactsOK' BY <1>2 DEF LeaseExpires, FactsOK
  <2>3. LocalOK' BY <1>2, BoundsAssumption DEF LeaseExpires, LocalOK, Leased
  <2>4. HasRound' BY <1>2 DEF LeaseExpires, LocalOK, HasRound, AtRound, Leased
  <2>5. HasBudget' BY <1>2, BoundsAssumption DEF LeaseExpires, LocalOK, HasBudget
  <2> QED BY <2>1, <2>2, <2>3, <2>4, <2>5 DEF TypeInv
<1>3. ASSUME NEW r \in Rounds, NEW l \in Legs, NEW s \in Starts, OtherImport(r, l, s)
      PROVE TypeInv'
  <2>0. Upsert(r, l, s) BY <1>3 DEF OtherImport
  <2>1. RowsOK' BY <1>3 DEF OtherImport, RowsOK, Statuses
  <2>2. FactsOK' BY <1>3, <2>0, UpsertNoted DEF OtherImport, FactsOK
  <2>3. LocalOK' BY <1>3 DEF OtherImport, LocalOK, Leased
  <2>4. HasRound' BY <1>3 DEF OtherImport, LocalOK, HasRound, AtRound, Leased
  <2>5. HasBudget' BY <1>3 DEF OtherImport, LocalOK, HasBudget
  <2> QED BY <2>1, <2>2, <2>3, <2>4, <2>5 DEF TypeInv
<1>4. ASSUME NEW w \in Workers, MorningBatch(w) PROVE TypeInv'
  <2>1. RowsOK' BY <1>4 DEF MorningBatch, StartBatch, RowsOK, Statuses
  <2>2. FactsOK' BY <1>4 DEF MorningBatch, StartBatch, FactsOK
  <2>3. LocalOK' BY <1>4, BoundsAssumption DEF MorningBatch, StartBatch, LocalOK, Leased
  <2>4. HasRound' BY <1>4 DEF MorningBatch, StartBatch, LocalOK, HasRound, AtRound, Leased
  <2>5. HasBudget' BY <1>4, BoundsAssumption DEF MorningBatch, StartBatch, LocalOK, HasBudget
  <2> QED BY <2>1, <2>2, <2>3, <2>4, <2>5 DEF TypeInv
<1>5. ASSUME NEW w \in Workers, OperatorStep(w) PROVE TypeInv'
  <2>1. RowsOK' BY <1>5 DEF OperatorStep, StartBatch, RowsOK, Statuses
  <2>2. FactsOK' BY <1>5 DEF OperatorStep, StartBatch, FactsOK
  <2>3. LocalOK' BY <1>5, BoundsAssumption DEF OperatorStep, StartBatch, LocalOK, Leased
  <2>4. HasRound' BY <1>5 DEF OperatorStep, StartBatch, LocalOK, HasRound, AtRound, Leased
  <2>5. HasBudget' BY <1>5, BoundsAssumption DEF OperatorStep, StartBatch, LocalOK, HasBudget
  <2> QED BY <2>1, <2>2, <2>3, <2>4, <2>5 DEF TypeInv
<1>6. ASSUME NEW w \in Workers, EnsureJobs(w) PROVE TypeInv'
  <2>1. RowsOK' BY <1>6 DEF EnsureJobs, RowsOK, Statuses
  <2>2. FactsOK' BY <1>6 DEF EnsureJobs, FactsOK
  <2>3. LocalOK' BY <1>6 DEF EnsureJobs, LocalOK, Leased
  <2>4. HasRound' BY <1>6 DEF EnsureJobs, LocalOK, HasRound, AtRound, Leased
  <2>5. HasBudget' BY <1>6 DEF EnsureJobs, LocalOK, HasBudget
  <2> QED BY <2>1, <2>2, <2>3, <2>4, <2>5 DEF TypeInv
<1>7. ASSUME NEW w \in Workers, SelectJob(w) PROVE TypeInv'
  <2>1. RowsOK' BY <1>7 DEF SelectJob, RowsOK, Statuses
  <2>2. CASE Leaves(w, "idle")
    <3>1. mishaps' \in 0..MaxMishaps BY <1>7 DEF SelectJob, LocalOK
    <3>2. FactsOK' /\ LocalOK' /\ HasRound' /\ HasBudget' BY <2>2, <3>1, LeavesTyped
    <3> QED BY <2>1, <3>2 DEF TypeInv
  <2>3. ASSUME NEW r \in Rounds, round' = [round EXCEPT ![w] = r],
               pc' = [pc EXCEPT ![w] = "lease"], UNCHANGED <<facts, leg, todo, settled, steps>>
        PROVE  TypeInv'
    <3>1. FactsOK' BY <2>3 DEF FactsOK
    <3>2. LocalOK' BY <1>7, <2>3 DEF SelectJob, LocalOK, Leased
    <3>3. HasRound' BY <2>3 DEF LocalOK, HasRound, AtRound, Leased
    <3>4. HasBudget' BY <1>7, <2>3 DEF SelectJob, LocalOK, HasBudget
    <3> QED BY <2>1, <3>1, <3>2, <3>3, <3>4 DEF TypeInv
  <2> QED BY <1>7, <2>2, <2>3 DEF SelectJob
<1>8. ASSUME NEW w \in Workers, AcquireLease(w) PROVE TypeInv'
  <2>0. round[w] \in Rounds BY <1>8, <1>r DEF AcquireLease, AtRound
  <2>1. RowsOK' BY <1>8, <2>0 DEF AcquireLease, RowsOK, Statuses
  <2>2. CASE Leaves(w, "idle")
    <3>1. mishaps' \in 0..MaxMishaps BY <1>8 DEF AcquireLease, LocalOK
    <3>2. FactsOK' /\ LocalOK' /\ HasRound' /\ HasBudget' BY <2>2, <3>1, LeavesTyped
    <3> QED BY <2>1, <3>2 DEF TypeInv
  <2>3. CASE /\ peak' = [peak EXCEPT ![round[w]] = Cardinality(Decided(round[w]))]
             /\ pc' = [pc EXCEPT ![w] = "state"]
             /\ UNCHANGED <<placed, decided, market, final_result, legacy, xlabs,
                            round, leg, todo, settled, steps, mishaps>>
    <3>1. FactsOK' BY <2>0, <2>3, <1>b DEF FactsOK
    <3>2. LocalOK' BY <2>3 DEF LocalOK, Leased
    <3>3. HasRound' BY <2>0, <2>3 DEF LocalOK, HasRound, AtRound, Leased
    <3>4. HasBudget' BY <1>8, <2>3 DEF AcquireLease, LocalOK, HasBudget
    <3> QED BY <2>1, <3>1, <3>2, <3>3, <3>4 DEF TypeInv
  <2> QED BY <1>8, <2>2, <2>3 DEF AcquireLease
<1>9. ASSUME NEW w \in Workers, ReadState(w) PROVE TypeInv'
  <2>1. RowsOK' BY <1>9 DEF ReadState, RowsOK, Statuses
  <2>2. FactsOK' BY <1>9 DEF ReadState, FactsOK
  <2>3. LocalOK' BY <1>9, <1>b, <1>r DEF ReadState, LocalOK, Leased, AtRound
  <2>4. HasRound' BY <1>9 DEF ReadState, LocalOK, HasRound, AtRound, Leased
  <2>5. HasBudget' BY <1>9 DEF ReadState, LocalOK, HasBudget
  <2> QED BY <2>1, <2>2, <2>3, <2>4, <2>5 DEF TypeInv
<1>10. ASSUME NEW w \in Workers, CaptureRace(w) PROVE TypeInv'
  <2>1. RowsOK' BY <1>10 DEF CaptureRace, RowsOK, Statuses
  <2>2. FactsOK' BY <1>10 DEF CaptureRace, FactsOK
  <2>3. LocalOK' BY <1>10 DEF CaptureRace, LocalOK, Leased
  <2>4. HasRound' BY <1>10 DEF CaptureRace, LocalOK, HasRound, AtRound, Leased
  <2>5. HasBudget' BY <1>10 DEF CaptureRace, LocalOK, HasBudget
  <2> QED BY <2>1, <2>2, <2>3, <2>4, <2>5 DEF TypeInv
<1>11. ASSUME NEW w \in Workers, NormalizeStart(w) PROVE TypeInv'
  <2>0. round[w] \in Rounds BY <1>11, <1>r DEF NormalizeStart, AtRound, Leased
  <2>s. PICK s \in todo[w] : /\ Upsert(round[w], leg[w], s)
                             /\ todo' = [todo EXCEPT ![w] = @ \ {s}]
                             /\ pc' \in {[pc EXCEPT ![w] = "after"], [pc EXCEPT ![w] = "normalize"]}
    BY <1>11 DEF NormalizeStart
  <2>1. RowsOK' BY <1>11 DEF NormalizeStart, RowsOK, Statuses
  <2>2. FactsOK'
    <3>1. leg[w] \in Legs /\ s \in Starts BY <1>r, <2>s
    <3>2. UNCHANGED <<market, final_result, legacy, xlabs>> BY <1>11 DEF NormalizeStart
    <3> QED BY <2>0, <2>s, <3>1, <3>2, UpsertNoted DEF FactsOK
  <2>3. LocalOK' BY <1>11, <2>s DEF NormalizeStart, LocalOK, Leased
  <2>4. HasRound' BY <1>11, <2>0, <2>s DEF NormalizeStart, LocalOK, HasRound, AtRound, Leased
  <2>5. HasBudget' BY <1>11, <2>s DEF NormalizeStart, LocalOK, HasBudget
  <2> QED BY <2>1, <2>2, <2>3, <2>4, <2>5 DEF TypeInv
<1>12. ASSUME NEW w \in Workers, ReadStateAfter(w) PROVE TypeInv'
  <2>1. RowsOK' BY <1>12 DEF ReadStateAfter, RowsOK, Statuses
  <2>2. FactsOK' BY <1>12 DEF ReadStateAfter, FactsOK
  <2>3. LocalOK' BY <1>12, <1>b, <1>r DEF ReadStateAfter, LocalOK, Leased, AtRound
  <2>4. HasRound' BY <1>12 DEF ReadStateAfter, LocalOK, HasRound, AtRound, Leased
  <2>5. HasBudget' BY <1>12 DEF ReadStateAfter, LocalOK, HasBudget
  <2> QED BY <2>1, <2>2, <2>3, <2>4, <2>5 DEF TypeInv
<1>13. ASSUME NEW w \in Workers, FinalizeGame(w) PROVE TypeInv'
  <2>1. RowsOK' BY <1>13 DEF FinalizeGame, RowsOK, Statuses
  <2>2. FactsOK' BY <1>13 DEF FinalizeGame, FactsOK
  <2>3. LocalOK' BY <1>13 DEF FinalizeGame, LocalOK, Leased
  <2>4. HasRound' BY <1>13 DEF FinalizeGame, LocalOK, HasRound, AtRound, Leased
  <2>5. HasBudget' BY <1>13 DEF FinalizeGame, LocalOK, HasBudget
  <2> QED BY <2>1, <2>2, <2>3, <2>4, <2>5 DEF TypeInv
<1>14. ASSUME NEW w \in Workers, RepairMarket(w) PROVE TypeInv'
  <2>1. RowsOK' BY <1>14 DEF RepairMarket, RowsOK, Statuses
  <2>2. FactsOK' BY <1>14, <1>r DEF RepairMarket, FactsOK, AtRound, Leased
  <2>3. LocalOK' BY <1>14 DEF RepairMarket, LocalOK, Leased
  <2>4. HasRound' BY <1>14 DEF RepairMarket, LocalOK, HasRound, AtRound, Leased
  <2>5. HasBudget' BY <1>14 DEF RepairMarket, LocalOK, HasBudget
  <2> QED BY <2>1, <2>2, <2>3, <2>4, <2>5 DEF TypeInv
<1>15. ASSUME NEW w \in Workers, PersistFinal(w) PROVE TypeInv'
  <2>1. RowsOK' BY <1>15 DEF PersistFinal, RowsOK, Statuses
  <2>2. FactsOK' BY <1>15, <1>r DEF PersistFinal, FactsOK, AtRound, Leased
  <2>3. LocalOK' BY <1>15 DEF PersistFinal, LocalOK, Leased
  <2>4. HasRound' BY <1>15 DEF PersistFinal, LocalOK, HasRound, AtRound, Leased
  <2>5. HasBudget' BY <1>15 DEF PersistFinal, LocalOK, HasBudget
  <2> QED BY <2>1, <2>2, <2>3, <2>4, <2>5 DEF TypeInv
<1>16. ASSUME NEW w \in Workers, QueueXlabs(w) PROVE TypeInv'
  <2>1. RowsOK' BY <1>16 DEF QueueXlabs, RowsOK, Statuses
  <2>2. FactsOK' BY <1>16, <1>r DEF QueueXlabs, FactsOK, AtRound, Leased
  <2>3. LocalOK' BY <1>16 DEF QueueXlabs, LocalOK, Leased
  <2>4. HasRound' BY <1>16 DEF QueueXlabs, LocalOK, HasRound, AtRound, Leased
  <2>5. HasBudget' BY <1>16 DEF QueueXlabs, LocalOK, HasBudget
  <2> QED BY <2>1, <2>2, <2>3, <2>4, <2>5 DEF TypeInv
<1>17. ASSUME NEW w \in Workers, MarkCompleted(w) PROVE TypeInv'
  <2>1. round[w] \in Rounds BY <1>17, <1>r DEF MarkCompleted, AtRound, Leased
  <2>2. "completed" \in Statuses /\ Cardinality(Legs) \in 0..Cardinality(Legs) BY DEF Statuses
  <2> QED BY <1>17, <2>1, <2>2, ReleaseTyped DEF MarkCompleted
<1>18. ASSUME NEW w \in Workers, ReleaseWaiting(w) PROVE TypeInv'
  <2>1. round[w] \in Rounds BY <1>18, <1>r DEF ReleaseWaiting, AtRound, Leased
  <2>2. "waiting" \in Statuses BY DEF Statuses
  <2> QED BY <1>18, <1>r, <2>1, <2>2, ReleaseTyped DEF ReleaseWaiting
<1>19. ASSUME NEW w \in Workers, MarkManualReview(w) PROVE TypeInv'
  <2>1. round[w] \in Rounds BY <1>19, <1>r DEF MarkManualReview, AtRound, Leased
  <2>2. "manual_review" \in Statuses BY DEF Statuses
  <2> QED BY <1>19, <1>r, <2>1, <2>2, ReleaseTyped DEF MarkManualReview
<1>20. ASSUME NEW w \in Workers, ReleasePending(w) PROVE TypeInv'
  <2>1. round[w] \in Rounds BY <1>20, <1>r DEF ReleasePending, AtRound, Leased
  <2>2. "pending" \in Statuses BY DEF Statuses
  <2> DEFINE label == IF steps[w] > 1 THEN "ensure" ELSE "idle"
  <2>3. label \in {"idle", "ensure"} /\ (label = "ensure" => steps[w] > 1) OBVIOUS
  <2>4. Release(w, "pending", settled[w], "due", label) /\ UNCHANGED mishaps
    BY <1>20 DEF ReleasePending
  <2> HIDE DEF label
  <2> QED BY <1>r, <2>1, <2>2, <2>3, <2>4, ReleaseTyped
<1>21. ASSUME NEW w \in Workers, RecordError(w) PROVE TypeInv'
  <2>1. round[w] \in Rounds BY <1>21, <1>r DEF RecordError, AtRound, Leased
  <2>2. "waiting" \in Statuses BY DEF Statuses
  <2>3. \A n \in {0, Cardinality(Decided(round[w]))} : n \in 0..Cardinality(Legs)
    BY <2>1, <1>b
  <2>4. CASE \E n \in {0, Cardinality(Decided(round[w]))} : Release(w, "waiting", n, "later", "idle")
    BY <1>21, <2>1, <2>2, <2>3, <2>4, ReleaseTyped DEF RecordError
  <2>5. CASE Leaves(w, "idle") /\ UNCHANGED job
    <3>1. mishaps' \in 0..MaxMishaps BY <1>21 DEF RecordError, LocalOK
    <3>2. FactsOK' /\ LocalOK' /\ HasRound' /\ HasBudget' BY <2>5, <3>1, LeavesTyped
    <3>3. RowsOK' BY <2>5 DEF RowsOK
    <3> QED BY <3>2, <3>3 DEF TypeInv
  <2> QED BY <1>21, <2>4, <2>5 DEF RecordError
<1>22. ASSUME NEW w \in Workers, Throw(w) PROVE TypeInv'
  <2>1. RowsOK' BY <1>22 DEF Throw, RowsOK
  <2>2. mishaps' \in 0..MaxMishaps BY <1>22 DEF Throw, LocalOK
  <2>3. round[w] \in Rounds BY <1>22, <1>r DEF Throw, AtRound
  <2>4. FactsOK' /\ LocalOK' /\ HasRound' /\ HasBudget'
    BY <1>22, <2>2, <2>3, LeavesTyped DEF Throw
  <2> QED BY <2>1, <2>4 DEF TypeInv
<1>23. ASSUME NEW w \in Workers, Crash(w) PROVE TypeInv'
  <2>1. RowsOK' BY <1>23 DEF Crash, RowsOK
  <2>2. mishaps' \in 0..MaxMishaps BY <1>23, BoundsAssumption DEF Crash, LocalOK
  <2>3. FactsOK' /\ LocalOK' /\ HasRound' /\ HasBudget' BY <1>23, <2>2, LeavesTyped DEF Crash
  <2> QED BY <2>1, <2>3 DEF TypeInv
<1>24. CASE UNCHANGED vars
  BY <1>24 DEF vars, TypeInv, RowsOK, FactsOK, LocalOK, HasRound, HasBudget
<1> QED BY <1>1, <1>2, <1>3, <1>4, <1>5, <1>6, <1>7, <1>8, <1>9, <1>10, <1>11, <1>12, <1>13,
       <1>14, <1>15, <1>16, <1>17, <1>18, <1>19, <1>20, <1>21, <1>22, <1>23, <1>24
     DEF Next, Step

\* The end of a step, where the row is left alone or given back as ReleaseKnown
\* says: a batch that stands nowhere has read nothing.
LEMMA LeavesKnown ==
  ASSUME IInv, NEW w \in Workers, NEW label \in {"idle", "ensure", "error"},
         Leaves(w, label), UNCHANGED <<status, lease_token>>,
         label = "error" => pc[w] \in AtRound
  PROVE  Known'
<1> USE DEF Leaves, Goto, facts, results, AtRound, Leased
<1>t. pc \in [Workers -> Leased \union {"idle", "ensure", "select", "lease"}]
  BY DEF IInv, TypeInv, LocalOK
<1>d. \A r \in Rounds : Decided(r)' = Decided(r) /\ (AllDecided(r)' <=> AllDecided(r))
  BY DecidedStays
<1>p. \A v \in Workers : IF v = w THEN pc'[v] = label ELSE pc'[v] = pc[v] /\ settled'[v] = settled[v]
  BY <1>t DEF IInv, TypeInv, LocalOK
<1>1. HasCounted' BY <1>p DEF IInv, Known, HasCounted, Counted, HoldsLease
<1>2. HasWinners' BY <1>p DEF IInv, Known, HasWinners, AtFinal
<1>3. HasFinished' BY <1>p DEF IInv, Known, HasFinished
<1>4. Witnessed' BY <1>d DEF IInv, Known, Witnessed
<1>5. LegacyUntouched' BY <1>p DEF IInv, Known, LegacyUntouched
<1>6. FinalResultEarned' /\ CompletedIsFinal'
  BY DEF IInv, Known, FinalResultEarned, CompletedIsFinal
<1> QED BY <1>1, <1>2, <1>3, <1>4, <1>5, <1>6 DEF Known

\* A fenced write: a round is completed only over its payout and its X-Labs job.
LEMMA ReleaseKnown ==
  ASSUME IInv, NEW w \in Workers, pc[w] \in Leased, round[w] \in Rounds,
         NEW s, NEW n, NEW c, NEW label \in {"idle", "ensure"}, Release(w, s, n, c, label),
         s = "completed" => round[w] \in final_result /\ round[w] \in xlabs
  PROVE  Known'
<1>1. CASE ~HoldsLease(w)
  <2>1. Leaves(w, "error") /\ UNCHANGED <<status, lease_token>>
    BY <1>1 DEF Release, job, lease
  <2> QED BY <2>1, LeavesKnown DEF AtRound
<1>2. CASE HoldsLease(w)
  <2>1. /\ status' = [status EXCEPT ![round[w]] = s]
        /\ lease_token' = [lease_token EXCEPT ![round[w]] = NoWorker]
        /\ Leaves(w, label)
    BY <1>2 DEF Release
  <2> USE <2>1, WorkerAssumption DEF Leaves, Goto, facts, results, AtRound, Leased
  <2>t. /\ pc \in [Workers -> Leased \union {"idle", "ensure", "select", "lease"}]
        /\ status \in [Rounds -> Statuses]
        /\ lease_token \in [Rounds -> Workers \union {NoWorker}]
        /\ \A v \in Workers : pc[v] \in AtRound => round[v] \in Rounds
    BY DEF IInv, TypeInv, LocalOK, RowsOK, HasRound
  <2>d. \A r \in Rounds : Decided(r)' = Decided(r) /\ (AllDecided(r)' <=> AllDecided(r))
    BY DecidedStays
  <2>p. \A v \in Workers : IF v = w THEN pc'[v] = label
                           ELSE pc'[v] = pc[v] /\ settled'[v] = settled[v]
    BY <2>t DEF IInv, TypeInv, LocalOK
  <2>2. HasCounted'
    <3> SUFFICES ASSUME NEW v \in Workers, pc'[v] \in Counted, lease_token'[round[v]] = v
                 PROVE  settled'[v] <= peak[round[v]]
      BY DEF HasCounted, HoldsLease
    <3>1. v # w /\ pc[v] \in Counted BY <2>p DEF Counted
    <3>2. lease_token[round[v]] = v BY <2>t, <3>1 DEF Counted
    <3> QED BY <2>p, <3>1, <3>2 DEF IInv, Known, HasCounted, HoldsLease
  <2>3. HasWinners' BY <2>p DEF IInv, Known, HasWinners, AtFinal
  <2>4. HasFinished' BY <2>p DEF IInv, Known, HasFinished
  <2>5. Witnessed' BY <2>d, <2>t DEF IInv, Known, Witnessed
  <2>6. LegacyUntouched'
    <3> SUFFICES ASSUME NEW r \in Rounds, NEW v \in Workers, status'[r] = "completed",
                        r \notin final_result, round[v] = r
                 PROVE  pc'[v] \notin AtRound
      BY DEF LegacyUntouched
    <3>1. r # round[w] BY <2>t
    <3>2. pc[v] \notin AtRound BY <2>t, <3>1 DEF IInv, Known, LegacyUntouched
    <3> QED BY <2>p, <3>2
  <2>7. FinalResultEarned' BY DEF IInv, Known, FinalResultEarned
  <2>8. CompletedIsFinal' BY <2>t DEF IInv, Known, CompletedIsFinal
  <2> QED BY <2>2, <2>3, <2>4, <2>5, <2>6, <2>7, <2>8 DEF Known
<1> QED BY <1>1, <1>2

\* A start's result, whoever writes it, takes nothing that lasts away.
LEMMA UpsertKnown ==
  ASSUME IInv, NEW r \in Rounds, NEW l \in Legs, NEW s \in Starts, Upsert(r, l, s),
         UNCHANGED <<status, lease_token, market, final_result, legacy, xlabs, round, settled>>,
         \A v \in Workers : pc'[v] # pc[v] => /\ pc[v] = "normalize"
                                              /\ pc'[v] \in {"normalize", "after"}
  PROVE  Known'
<1>u. /\ decided \subseteq decided'
      /\ \A q \in Rounds : /\ peak[q] <= peak'[q] /\ peak[q] \in Nat /\ peak'[q] \in Nat
                           /\ AllDecided(q)' => q \in decided'
                           /\ lease_token[q] # NoWorker => Cardinality(Decided(q)') <= peak'[q]
  BY UpsertNoted, LegsFinite DEF IInv, TypeInv, FactsOK
<1>t. \A v \in Workers : /\ pc[v] \in AtRound => round[v] \in Rounds
                         /\ settled[v] \in Nat
  BY LegsFinite DEF IInv, TypeInv, LocalOK, HasRound
<1> USE DEF IInv, Known, AtRound, Leased
<1>1. HasCounted' BY <1>u, <1>t DEF HasCounted, Counted, HoldsLease
<1>2. HasWinners' BY <1>u DEF HasWinners, AtFinal
<1>3. HasFinished' BY DEF HasFinished
<1>4. Witnessed' BY <1>u DEF Witnessed
<1>5. LegacyUntouched' BY DEF LegacyUntouched
<1>6. FinalResultEarned' BY <1>u DEF FinalResultEarned
<1>7. CompletedIsFinal' BY DEF CompletedIsFinal
<1> QED BY <1>1, <1>2, <1>3, <1>4, <1>5, <1>6, <1>7

LEMMA NextIInv == IInv /\ [Next]_vars => IInv'
<1> SUFFICES ASSUME IInv, [Next]_vars PROVE Known'
  BY NextTypeInv DEF IInv
<1>b. \A r \in Rounds : /\ Cardinality(Decided(r)) \in 0..Cardinality(Legs)
                        /\ AllDecided(r) => Cardinality(Decided(r)) = Cardinality(Legs)
  BY DecidedBounded
<1>d. placed' = placed =>
        \A r \in Rounds : Decided(r)' = Decided(r) /\ (AllDecided(r)' <=> AllDecided(r))
  BY DecidedStays
<1>t. /\ \A w \in Workers : pc[w] \in AtRound => round[w] \in Rounds
      /\ pc \in [Workers -> Leased \union {"idle", "ensure", "select", "lease"}]
      /\ round \in [Workers -> Rounds \union {AnyRound}]
      /\ leg \in [Workers -> Legs]
      /\ todo \in [Workers -> SUBSET Starts]
      /\ settled \in [Workers -> 0..Cardinality(Legs)]
      /\ status \in [Rounds -> Statuses]
      /\ lease_token \in [Rounds -> Workers \union {NoWorker}]
      /\ final_result \subseteq Rounds
      /\ peak \in [Rounds -> 0..Cardinality(Legs)]
  BY DEF IInv, TypeInv, HasRound, LocalOK, RowsOK, FactsOK
<1> USE LegsFinite, <1>t DEF AtRound, Leased, Goto, HoldsLease, lease, job, facts, results, local,
                             IInv, Known
<1>1. ASSUME NEW r \in Rounds, CheckDue(r) PROVE Known'
  <2>1. HasCounted' BY <1>1 DEF CheckDue, HasCounted, Counted
  <2>2. HasWinners' BY <1>1 DEF CheckDue, HasWinners, AtFinal
  <2>3. HasFinished' BY <1>1 DEF CheckDue, HasFinished
  <2>4. Witnessed' BY <1>1, <1>d DEF CheckDue, Witnessed
  <2>5. LegacyUntouched' BY <1>1 DEF CheckDue, LegacyUntouched
  <2>6. FinalResultEarned' BY <1>1 DEF CheckDue, FinalResultEarned
  <2>7. CompletedIsFinal' BY <1>1 DEF CheckDue, CompletedIsFinal
  <2> QED BY <2>1, <2>2, <2>3, <2>4, <2>5, <2>6, <2>7
<1>2. ASSUME NEW r \in Rounds, LeaseExpires(r) PROVE Known'
  <2>1. HasCounted' BY <1>2 DEF LeaseExpires, HasCounted, Counted
  <2>2. HasWinners' BY <1>2 DEF LeaseExpires, HasWinners, AtFinal
  <2>3. HasFinished' BY <1>2 DEF LeaseExpires, HasFinished
  <2>4. Witnessed' BY <1>2, <1>d DEF LeaseExpires, Witnessed
  <2>5. LegacyUntouched' BY <1>2 DEF LeaseExpires, LegacyUntouched
  <2>6. FinalResultEarned' BY <1>2 DEF LeaseExpires, FinalResultEarned
  <2>7. CompletedIsFinal' BY <1>2 DEF LeaseExpires, CompletedIsFinal
  <2> QED BY <2>1, <2>2, <2>3, <2>4, <2>5, <2>6, <2>7
<1>3. ASSUME NEW r \in Rounds, NEW l \in Legs, NEW s \in Starts, OtherImport(r, l, s)
      PROVE Known'
  <2>1. UNCHANGED <<status, lease_token, market, final_result, legacy, xlabs, round, settled, pc>>
    BY <1>3 DEF OtherImport
  <2>2. Upsert(r, l, s) BY <1>3 DEF OtherImport
  <2>3. \A v \in Workers : pc'[v] # pc[v] => /\ pc[v] = "normalize"
                                             /\ pc'[v] \in {"normalize", "after"}
    BY <2>1
  <2> QED BY <2>1, <2>2, <2>3, UpsertKnown
<1>4. ASSUME NEW w \in Workers, MorningBatch(w) PROVE Known'
  <2>1. HasCounted' BY <1>4 DEF MorningBatch, StartBatch, HasCounted, Counted
  <2>2. HasWinners' BY <1>4 DEF MorningBatch, StartBatch, HasWinners, AtFinal
  <2>3. HasFinished' BY <1>4 DEF MorningBatch, StartBatch, HasFinished
  <2>4. Witnessed' BY <1>4, <1>d DEF MorningBatch, StartBatch, Witnessed
  <2>5. LegacyUntouched' BY <1>4 DEF MorningBatch, StartBatch, LegacyUntouched
  <2>6. FinalResultEarned' BY <1>4 DEF MorningBatch, StartBatch, FinalResultEarned
  <2>7. CompletedIsFinal' BY <1>4 DEF MorningBatch, StartBatch, CompletedIsFinal
  <2> QED BY <2>1, <2>2, <2>3, <2>4, <2>5, <2>6, <2>7
<1>5. ASSUME NEW w \in Workers, OperatorStep(w) PROVE Known'
  <2>1. HasCounted' BY <1>5 DEF OperatorStep, StartBatch, HasCounted, Counted
  <2>2. HasWinners' BY <1>5 DEF OperatorStep, StartBatch, HasWinners, AtFinal
  <2>3. HasFinished' BY <1>5 DEF OperatorStep, StartBatch, HasFinished
  <2>4. Witnessed' BY <1>5, <1>d DEF OperatorStep, StartBatch, Witnessed
  <2>5. LegacyUntouched' BY <1>5 DEF OperatorStep, StartBatch, LegacyUntouched
  <2>6. FinalResultEarned' BY <1>5 DEF OperatorStep, StartBatch, FinalResultEarned
  <2>7. CompletedIsFinal' BY <1>5 DEF OperatorStep, StartBatch, CompletedIsFinal
  <2> QED BY <2>1, <2>2, <2>3, <2>4, <2>5, <2>6, <2>7
<1>6. ASSUME NEW w \in Workers, EnsureJobs(w) PROVE Known'
  <2>1. HasCounted' BY <1>6 DEF EnsureJobs, HasCounted, Counted
  <2>2. HasWinners' BY <1>6 DEF EnsureJobs, HasWinners, AtFinal
  <2>3. HasFinished' BY <1>6 DEF EnsureJobs, HasFinished
  <2>4. Witnessed' BY <1>6, <1>d DEF EnsureJobs, Witnessed
  <2>5. LegacyUntouched' BY <1>6 DEF EnsureJobs, LegacyUntouched
  <2>6. FinalResultEarned' BY <1>6 DEF EnsureJobs, FinalResultEarned
  <2>7. CompletedIsFinal' BY <1>6 DEF EnsureJobs, CompletedIsFinal
  <2> QED BY <2>1, <2>2, <2>3, <2>4, <2>5, <2>6, <2>7
<1>7. ASSUME NEW w \in Workers, SelectJob(w) PROVE Known'
  <2>1. CASE Leaves(w, "idle") BY <1>7, <2>1, LeavesKnown DEF SelectJob
  <2>2. ASSUME NEW r \in Rounds, Newest(r), round' = [round EXCEPT ![w] = r],
               pc' = [pc EXCEPT ![w] = "lease"], UNCHANGED <<facts, leg, todo, settled, steps>>,
               UNCHANGED job
        PROVE  Known'
    <3>1. HasCounted' BY <2>2 DEF HasCounted, Counted
    <3>2. HasWinners' BY <2>2 DEF HasWinners, AtFinal
    <3>3. HasFinished' BY <2>2 DEF HasFinished
    <3>4. Witnessed' BY <2>2, <1>d DEF Witnessed
    <3>5. LegacyUntouched' BY <2>2 DEF LegacyUntouched, Newest, Candidates, Open
    <3>6. FinalResultEarned' BY <2>2 DEF FinalResultEarned
    <3>7. CompletedIsFinal' BY <2>2 DEF CompletedIsFinal
    <3> QED BY <3>1, <3>2, <3>3, <3>4, <3>5, <3>6, <3>7
  <2> QED BY <1>7, <2>1, <2>2 DEF SelectJob
<1>8. ASSUME NEW w \in Workers, AcquireLease(w) PROVE Known'
  <2>1. CASE Leaves(w, "idle") /\ UNCHANGED lease BY <1>8, <2>1, LeavesKnown DEF AcquireLease
  <2>2. CASE /\ status[round[w]] \in Open
             /\ lease_token' = [lease_token EXCEPT ![round[w]] = w]
             /\ peak' = [peak EXCEPT ![round[w]] = Cardinality(Decided(round[w]))]
             /\ pc' = [pc EXCEPT ![w] = "state"]
             /\ UNCHANGED <<status, placed, decided, market, final_result, legacy, xlabs,
                            round, settled>>
    <3>0. round[w] \in Rounds BY <1>8 DEF AcquireLease
    <3>1. HasCounted'
      <4> SUFFICES ASSUME NEW v \in Workers, pc'[v] \in Counted, lease_token'[round[v]] = v
                   PROVE  settled[v] <= peak'[round[v]]
        BY <2>2 DEF HasCounted
      <4>1. v # w /\ pc[v] \in Counted BY <2>2 DEF Counted
      <4>2. round[v] \in Rounds /\ round[v] # round[w] BY <2>2, <3>0, <4>1 DEF Counted
      <4> QED BY <2>2, <3>0, <4>1, <4>2 DEF HasCounted
    <3>2. HasWinners' BY <2>2 DEF HasWinners, AtFinal
    <3>3. HasFinished' BY <2>2 DEF HasFinished
    <3>4. Witnessed' BY <2>2, <3>0, <1>b, <1>d DEF Witnessed
    <3>5. LegacyUntouched' BY <1>8, <2>2 DEF LegacyUntouched, AcquireLease
    <3>6. FinalResultEarned' BY <2>2 DEF FinalResultEarned
    <3>7. CompletedIsFinal' BY <2>2 DEF CompletedIsFinal
    <3> QED BY <3>1, <3>2, <3>3, <3>4, <3>5, <3>6, <3>7
  <2> QED BY <1>8, <2>1, <2>2 DEF AcquireLease
<1>9. ASSUME NEW w \in Workers, ReadState(w) PROVE Known'
  <2>0. round[w] \in Rounds BY <1>9 DEF ReadState
  <2>1. HasCounted' BY <1>9, <2>0, <1>b, WorkerAssumption DEF ReadState, HasCounted, Counted, Witnessed
  <2>2. HasWinners'
    BY <1>9, <2>0, <1>b DEF ReadState, HasWinners, AtFinal, Witnessed
  <2>3. HasFinished' BY <1>9 DEF ReadState, HasFinished
  <2>4. Witnessed' BY <1>9, <1>d DEF ReadState, Witnessed
  <2>5. LegacyUntouched' BY <1>9 DEF ReadState, LegacyUntouched
  <2>6. FinalResultEarned' BY <1>9 DEF ReadState, FinalResultEarned
  <2>7. CompletedIsFinal' BY <1>9 DEF ReadState, CompletedIsFinal
  <2> QED BY <2>1, <2>2, <2>3, <2>4, <2>5, <2>6, <2>7
<1>10. ASSUME NEW w \in Workers, CaptureRace(w) PROVE Known'
  <2>1. HasCounted' BY <1>10 DEF CaptureRace, HasCounted, Counted
  <2>2. HasWinners' BY <1>10 DEF CaptureRace, HasWinners, AtFinal
  <2>3. HasFinished' BY <1>10 DEF CaptureRace, HasFinished
  <2>4. Witnessed' BY <1>10, <1>d DEF CaptureRace, Witnessed
  <2>5. LegacyUntouched' BY <1>10 DEF CaptureRace, LegacyUntouched
  <2>6. FinalResultEarned' BY <1>10 DEF CaptureRace, FinalResultEarned
  <2>7. CompletedIsFinal' BY <1>10 DEF CaptureRace, CompletedIsFinal
  <2> QED BY <2>1, <2>2, <2>3, <2>4, <2>5, <2>6, <2>7
<1>11. ASSUME NEW w \in Workers, NormalizeStart(w) PROVE Known'
  <2>1. round[w] \in Rounds /\ leg[w] \in Legs /\ pc[w] = "normalize" BY <1>11 DEF NormalizeStart
  <2>a. PICK s \in todo[w] : Upsert(round[w], leg[w], s) BY <1>11 DEF NormalizeStart
  <2>2. s \in Starts BY <2>a
  <2>3. \A v \in Workers : pc'[v] # pc[v] => /\ pc[v] = "normalize"
                                             /\ pc'[v] \in {"normalize", "after"}
    BY <1>11, <2>1 DEF NormalizeStart
  <2>4. UNCHANGED <<status, lease_token, market, final_result, legacy, xlabs, round, settled>>
    BY <1>11 DEF NormalizeStart
  <2> QED BY <2>1, <2>a, <2>2, <2>3, <2>4, UpsertKnown
<1>12. ASSUME NEW w \in Workers, ReadStateAfter(w) PROVE Known'
  <2>0. round[w] \in Rounds BY <1>12 DEF ReadStateAfter
  <2>1. HasCounted' BY <1>12, <2>0, <1>b, WorkerAssumption DEF ReadStateAfter, HasCounted, Counted, Witnessed
  <2>2. HasWinners'
    BY <1>12, <2>0, <1>b DEF ReadStateAfter, HasWinners, AtFinal, Witnessed
  <2>3. HasFinished' BY <1>12 DEF ReadStateAfter, HasFinished
  <2>4. Witnessed' BY <1>12, <1>d DEF ReadStateAfter, Witnessed
  <2>5. LegacyUntouched' BY <1>12 DEF ReadStateAfter, LegacyUntouched
  <2>6. FinalResultEarned' BY <1>12 DEF ReadStateAfter, FinalResultEarned
  <2>7. CompletedIsFinal' BY <1>12 DEF ReadStateAfter, CompletedIsFinal
  <2> QED BY <2>1, <2>2, <2>3, <2>4, <2>5, <2>6, <2>7
<1>13. ASSUME NEW w \in Workers, FinalizeGame(w) PROVE Known'
  <2>1. HasCounted' BY <1>13 DEF FinalizeGame, HasCounted, Counted
  <2>2. HasWinners' BY <1>13 DEF FinalizeGame, HasWinners, AtFinal
  <2>3. HasFinished' BY <1>13 DEF FinalizeGame, HasFinished
  <2>4. Witnessed' BY <1>13, <1>d DEF FinalizeGame, Witnessed
  <2>5. LegacyUntouched' BY <1>13 DEF FinalizeGame, LegacyUntouched
  <2>6. FinalResultEarned' BY <1>13 DEF FinalizeGame, FinalResultEarned
  <2>7. CompletedIsFinal' BY <1>13 DEF FinalizeGame, CompletedIsFinal
  <2> QED BY <2>1, <2>2, <2>3, <2>4, <2>5, <2>6, <2>7
<1>14. ASSUME NEW w \in Workers, RepairMarket(w) PROVE Known'
  <2>1. HasCounted' BY <1>14 DEF RepairMarket, HasCounted, Counted
  <2>2. HasWinners' BY <1>14 DEF RepairMarket, HasWinners, AtFinal
  <2>3. HasFinished' BY <1>14 DEF RepairMarket, HasFinished
  <2>4. Witnessed' BY <1>14, <1>d DEF RepairMarket, Witnessed
  <2>5. LegacyUntouched' BY <1>14 DEF RepairMarket, LegacyUntouched
  <2>6. FinalResultEarned' BY <1>14 DEF RepairMarket, FinalResultEarned
  <2>7. CompletedIsFinal' BY <1>14 DEF RepairMarket, CompletedIsFinal
  <2> QED BY <2>1, <2>2, <2>3, <2>4, <2>5, <2>6, <2>7
<1>15. ASSUME NEW w \in Workers, PersistFinal(w) PROVE Known'
  <2>1. HasCounted' BY <1>15 DEF PersistFinal, HasCounted, Counted
  <2>2. HasWinners' BY <1>15 DEF PersistFinal, HasWinners, AtFinal
  <2>3. HasFinished' BY <1>15 DEF PersistFinal, HasFinished
  <2>4. Witnessed' BY <1>15, <1>d DEF PersistFinal, Witnessed
  <2>5. LegacyUntouched' BY <1>15 DEF PersistFinal, LegacyUntouched
  <2>6. FinalResultEarned'
    BY <1>15 DEF PersistFinal, FinalResultEarned, HasFinished, HasWinners, AtFinal
  <2>7. CompletedIsFinal' BY <1>15 DEF PersistFinal, CompletedIsFinal, LegacyUntouched
  <2> QED BY <2>1, <2>2, <2>3, <2>4, <2>5, <2>6, <2>7
<1>16. ASSUME NEW w \in Workers, QueueXlabs(w) PROVE Known'
  <2>1. HasCounted' BY <1>16 DEF QueueXlabs, HasCounted, Counted
  <2>2. HasWinners' BY <1>16 DEF QueueXlabs, HasWinners, AtFinal
  <2>3. HasFinished' BY <1>16 DEF QueueXlabs, HasFinished
  <2>4. Witnessed' BY <1>16, <1>d DEF QueueXlabs, Witnessed
  <2>5. LegacyUntouched' BY <1>16 DEF QueueXlabs, LegacyUntouched
  <2>6. FinalResultEarned' BY <1>16 DEF QueueXlabs, FinalResultEarned
  <2>7. CompletedIsFinal' BY <1>16 DEF QueueXlabs, CompletedIsFinal
  <2> QED BY <2>1, <2>2, <2>3, <2>4, <2>5, <2>6, <2>7
<1>17. ASSUME NEW w \in Workers, MarkCompleted(w) PROVE Known'
  <2>1. round[w] \in final_result /\ round[w] \in xlabs
    BY <1>17 DEF MarkCompleted, HasFinished
  <2>2. round[w] \in Rounds BY <1>17 DEF MarkCompleted
  <2> QED BY <1>17, <2>1, <2>2, ReleaseKnown DEF MarkCompleted
<1>18. ASSUME NEW w \in Workers,
              ReleaseWaiting(w) \/ MarkManualReview(w) \/ ReleasePending(w) \/ RecordError(w)
       PROVE Known'
  <2>1. pc[w] \in Leased /\ round[w] \in Rounds
    BY <1>18 DEF ReleaseWaiting, MarkManualReview, ReleasePending, RecordError
  <2>2. ASSUME NEW s \in {"waiting", "manual_review", "pending"}, NEW n, NEW c,
               NEW label \in {"idle", "ensure"}, Release(w, s, n, c, label)
        PROVE  Known'
    BY <2>1, <2>2, ReleaseKnown
  <2>3. CASE ReleaseWaiting(w) BY <2>2, <2>3 DEF ReleaseWaiting
  <2>4. CASE MarkManualReview(w) BY <2>2, <2>4 DEF MarkManualReview
  <2>5. CASE ReleasePending(w)
    <3> DEFINE label == IF steps[w] > 1 THEN "ensure" ELSE "idle"
    <3>1. label \in {"idle", "ensure"} OBVIOUS
    <3>2. Release(w, "pending", settled[w], "due", label) BY <2>5 DEF ReleasePending
    <3> HIDE DEF label
    <3> QED BY <2>2, <3>1, <3>2
  <2>6. CASE RecordError(w)
    <3>1. CASE Leaves(w, "idle") /\ UNCHANGED job BY <3>1, LeavesKnown
    <3>2. CASE \E n : Release(w, "waiting", n, "later", "idle") BY <2>2, <3>2
    <3> QED BY <2>6, <3>1, <3>2 DEF RecordError
  <2> QED BY <1>18, <2>3, <2>4, <2>5, <2>6
<1>19. ASSUME NEW w \in Workers, Throw(w) \/ Crash(w) PROVE Known'
  <2>1. CASE Throw(w) BY <2>1, LeavesKnown DEF Throw
  <2>2. CASE Crash(w) BY <2>2, LeavesKnown DEF Crash
  <2> QED BY <1>19, <2>1, <2>2
<1>20. CASE UNCHANGED vars
  BY <1>20, <1>d DEF vars, HasCounted, HasWinners, HasFinished, Witnessed, LegacyUntouched,
     FinalResultEarned, CompletedIsFinal
<1> QED BY <1>1, <1>2, <1>3, <1>4, <1>5, <1>6, <1>7, <1>8, <1>9, <1>10, <1>11, <1>12, <1>13,
       <1>14, <1>15, <1>16, <1>17, <1>18, <1>19, <1>20
     DEF Next, Step

(***************************************************************************)
(* What a batch writes as settled was a fact under its lease.              *)
(***************************************************************************)
LEMMA NextOverstates == IInv /\ [Next]_vars => OverstatedStep
<1> SUFFICES ASSUME IInv, [Next]_vars PROVE OverstatedStep
  OBVIOUS
<1>t. /\ \A w \in Workers : pc[w] \in AtRound => round[w] \in Rounds
      /\ settled_legs \in [Rounds -> 0..Cardinality(Legs)]
      /\ peak \in [Rounds -> 0..Cardinality(Legs)]
      /\ lease_token \in [Rounds -> Workers \union {NoWorker}]
  BY DEF IInv, TypeInv, HasRound, RowsOK, FactsOK
<1>1. CASE UNCHANGED settled_legs BY <1>1 DEF OverstatedStep
<1>2. ASSUME NEW w \in Workers, NEW s, NEW n, NEW c, NEW label, pc[w] \in Leased,
             Release(w, s, n, c, label), HoldsLease(w) => n <= peak[round[w]]
      PROVE  OverstatedStep
  <2>1. round[w] \in Rounds BY <1>2, <1>t DEF AtRound
  <2>2. CASE HoldsLease(w)
    <3>1. settled_legs' = [settled_legs EXCEPT ![round[w]] = n] BY <1>2, <2>2 DEF Release
    <3> QED BY <1>2, <1>t, <2>1, <2>2, <3>1 DEF OverstatedStep
  <2>3. CASE ~HoldsLease(w) BY <1>2, <2>3, <1>1 DEF Release, job
  <2> QED BY <2>2, <2>3
<1> USE DEF IInv, Known, HasCounted, Counted, Leased
<1>3. ASSUME NEW w \in Workers, MarkCompleted(w) PROVE OverstatedStep
  <2>1. HoldsLease(w) => Cardinality(Legs) <= peak[round[w]]
    BY <1>3 DEF MarkCompleted, HasWinners, AtFinal
  <2> QED BY <1>2, <1>3, <2>1 DEF MarkCompleted
<1>4. ASSUME NEW w \in Workers, ReleaseWaiting(w) PROVE OverstatedStep
  <2>1. HoldsLease(w) => settled[w] <= peak[round[w]] BY <1>4 DEF ReleaseWaiting
  <2> QED BY <1>2, <1>4, <2>1 DEF ReleaseWaiting
<1>5. ASSUME NEW w \in Workers, MarkManualReview(w) PROVE OverstatedStep
  <2>1. HoldsLease(w) => settled[w] <= peak[round[w]] BY <1>5 DEF MarkManualReview
  <2> QED BY <1>2, <1>5, <2>1 DEF MarkManualReview
<1>6. ASSUME NEW w \in Workers, ReleasePending(w) PROVE OverstatedStep
  <2>1. HoldsLease(w) => settled[w] <= peak[round[w]] BY <1>6 DEF ReleasePending
  <2>2. pc[w] \in Leased BY <1>6 DEF ReleasePending
  <2>3. \E label : Release(w, "pending", settled[w], "due", label) BY <1>6 DEF ReleasePending
  <2> QED BY <1>2, <2>1, <2>2, <2>3
<1>7. ASSUME NEW w \in Workers, RecordError(w) PROVE OverstatedStep
  <2>1. CASE UNCHANGED job BY <2>1, <1>1 DEF job
  <2>2. ASSUME NEW n \in {0, Cardinality(Decided(round[w]))},
               Release(w, "waiting", n, "later", "idle")
        PROVE  OverstatedStep
    <3>1. pc[w] \in Leased /\ round[w] \in Rounds BY <1>7, <1>t DEF RecordError, AtRound
    <3>2. HoldsLease(w) => n <= peak[round[w]]
      BY <3>1, <1>t, WorkerAssumption, LegsFinite DEF HoldsLease, Witnessed
    <3> QED BY <1>2, <2>2, <3>1, <3>2
  <2> QED BY <1>7, <2>1, <2>2 DEF RecordError
<1> QED BY <1>1, <1>3, <1>4, <1>5, <1>6, <1>7
     DEF Next, Step, vars, job, lease, local, CheckDue, LeaseExpires, OtherImport, MorningBatch,
         OperatorStep, StartBatch, EnsureJobs, SelectJob, AcquireLease, ReadState, CaptureRace,
         NormalizeStart, ReadStateAfter, FinalizeGame, RepairMarket, PersistFinal, QueueXlabs,
         Throw, Crash

(* Every variable of the jobs and batches stays in its range, once there is a  *)
(* round at all: a batch never counts below nought in its budget of steps.     *)
THEOREM TypeCorrect == ASSUME Rounds # {} PROVE Spec => []TypeOK
<1>1. IInv => TypeOK
  BY DEF IInv, TypeInv, RowsOK, FactsOK, LocalOK, TypeOK, AnyRound
<1> QED BY InitIInv, NextIInv, <1>1, PTL DEF Spec

(* A payout is stored only for a round whose legs all had exactly one winner   *)
(* at one moment and whose closing market has been repaired, whatever batches  *)
(* overlapped and whatever other imports wrote over the placings meanwhile.    *)
THEOREM FinalResultsAreEarned == Spec => []FinalResultEarned
<1>1. IInv => FinalResultEarned BY DEF IInv, Known
<1> QED BY InitIInv, NextIInv, <1>1, PTL DEF Spec

(* A completed job has its final result stored and X-Labs queued, unless it    *)
(* was completed before final results were kept and has none.                  *)
THEOREM CompletedJobsAreFinal == Spec => []CompletedIsFinal
<1>1. IInv => CompletedIsFinal BY DEF IInv, Known
<1> QED BY InitIInv, NextIInv, <1>1, PTL DEF Spec

(* The settled_legs a batch writes are no more than the legs that had one      *)
(* winner at one moment of its own lease, although it counted in memory and    *)
(* wrote after other calls, and corrections may have come in between: a batch  *)
(* that has lost its lease writes nothing.                                     *)
THEOREM SettledLegsAreFactual == Spec => SettledNeverOverstated
<1>1. Spec => []IInv BY InitIInv, NextIInv, PTL DEF Spec
<1>2. IInv /\ [Next]_vars => [OverstatedStep]_vars BY NextOverstates
<1> QED BY <1>1, <1>2, PTL DEF Spec, SettledNeverOverstated

(***************************************************************************)
(* Who writes a job.  A row that is not open is held by nobody: a lease is     *)
(* only taken on an open row, and every write that closes one gives it back.   *)
(***************************************************************************)
ClosedIsFree == \A r \in Rounds : status[r] \notin Open => lease_token[r] = NoWorker
HeldHasDeadline == \A r \in Rounds : lease_token[r] # NoWorker => lease_until[r] # "null"
FenceInv == TypeInv /\ ClosedIsFree /\ HeldHasDeadline

\* A held job changes its status and its count only by the hand of its holder,
\* who gives it back with the same write; another batch takes it over only
\* when the lease has run out.
FencedStep ==
    \A r \in Rounds : lease_token[r] # NoWorker =>
        /\ status'[r] # status[r] \/ settled_legs'[r] # settled_legs[r] =>
               /\ lease_token'[r] = NoWorker
               /\ round[lease_token[r]] = r /\ pc[lease_token[r]] \in Leased
        /\ lease_token'[r] \notin {lease_token[r], NoWorker} => lease_until[r] = "past"

LEMMA InitFenceInv == Init => FenceInv
<1>1. Init => TypeInv BY InitIInv DEF IInv
<1>2. Init => ClosedIsFree /\ HeldHasDeadline BY DEF Init, ClosedIsFree, HeldHasDeadline
<1> QED BY <1>1, <1>2 DEF FenceInv

\* A fenced write of one of the statuses the steps write.
LEMMA ReleaseKeeps ==
  ASSUME FenceInv, NEW w \in Workers, pc[w] \in Leased, round[w] \in Rounds,
         NEW s, NEW n, NEW c, NEW label, Release(w, s, n, c, label)
  PROVE  ClosedIsFree' /\ HeldHasDeadline' /\ ClosedStep /\ FencedStep
<1> USE WorkerAssumption DEF FenceInv, TypeInv, RowsOK
<1>1. CASE ~HoldsLease(w)
  <2>1. UNCHANGED job BY <1>1 DEF Release
  <2> QED BY <2>1 DEF job, lease, ClosedIsFree, HeldHasDeadline, ClosedStep, FencedStep
<1>2. CASE HoldsLease(w)
  <2>1. /\ status' = [status EXCEPT ![round[w]] = s]
        /\ settled_legs' = [settled_legs EXCEPT ![round[w]] = n]
        /\ lease_token' = [lease_token EXCEPT ![round[w]] = NoWorker]
        /\ lease_until' = [lease_until EXCEPT ![round[w]] = "null"]
    BY <1>2 DEF Release
  <2>2. lease_token[round[w]] = w /\ status[round[w]] \in Open
    BY <1>2 DEF HoldsLease, ClosedIsFree
  <2>3. ClosedIsFree' /\ HeldHasDeadline' BY <2>1 DEF ClosedIsFree, HeldHasDeadline
  <2>4. ClosedStep BY <2>1, <2>2 DEF ClosedStep, Open
  <2>5. FencedStep BY <2>1, <2>2 DEF FencedStep
  <2> QED BY <2>3, <2>4, <2>5
<1> QED BY <1>1, <1>2

LEMMA NextFences == FenceInv /\ [Next]_vars => FenceInv' /\ ClosedStep /\ FencedStep
<1> SUFFICES ASSUME FenceInv, [Next]_vars PROVE FenceInv' /\ ClosedStep /\ FencedStep
  OBVIOUS
<1>t. TypeInv' BY NextTypeInv DEF FenceInv
<1>r. \A w \in Workers : pc[w] \in AtRound => round[w] \in Rounds
  BY DEF FenceInv, TypeInv, HasRound
<1> DEFINE Goal == ClosedIsFree' /\ HeldHasDeadline' /\ ClosedStep /\ FencedStep
<1> SUFFICES Goal BY <1>t DEF FenceInv
<1>1. CASE UNCHANGED <<status, settled_legs, lease>>
  BY <1>1 DEF lease, FenceInv, ClosedIsFree, HeldHasDeadline, ClosedStep, FencedStep
<1>2. ASSUME NEW w \in Workers, EnsureJobs(w) PROVE Goal
  <2>1. UNCHANGED <<settled_legs, lease_token, lease_until>> BY <1>2 DEF EnsureJobs, lease
  <2>2. ASSUME NEW r \in Rounds
        PROVE  /\ status'[r] \in {status[r], "pending"}
               /\ status'[r] # status[r] =>
                      \/ status[r] = "none"
                      \/ status[r] = "completed" /\ r \notin final_result
    BY <1>2 DEF EnsureJobs
  <2>3. ClosedIsFree' /\ HeldHasDeadline'
    BY <2>1, <2>2 DEF FenceInv, ClosedIsFree, HeldHasDeadline, Open
  <2>4. ClosedStep BY <2>2 DEF ClosedStep
  <2>5. FencedStep BY <2>1, <2>2 DEF FenceInv, ClosedIsFree, FencedStep, Open
  <2> QED BY <2>3, <2>4, <2>5
<1>3. ASSUME NEW w \in Workers, AcquireLease(w) PROVE Goal
  <2>1. UNCHANGED <<status, settled_legs>> BY <1>3 DEF AcquireLease
  <2>2. ClosedStep BY <2>1 DEF ClosedStep
  <2>3. CASE UNCHANGED lease BY <2>1, <2>3, <1>1
  <2>4. CASE /\ status[round[w]] \in Open /\ lease_until[round[w]] \in {"null", "past"}
             /\ lease_token' = [lease_token EXCEPT ![round[w]] = w]
             /\ lease_until' = [lease_until EXCEPT ![round[w]] = "live"]
    <3>1. round[w] \in Rounds BY <1>3, <1>r DEF AcquireLease, AtRound
    <3>2. ClosedIsFree' /\ HeldHasDeadline'
      BY <2>1, <2>4, <3>1 DEF FenceInv, ClosedIsFree, HeldHasDeadline, TypeInv, RowsOK
    <3>3. FencedStep
      BY <2>1, <2>4, <3>1 DEF FenceInv, HeldHasDeadline, TypeInv, RowsOK, FencedStep
    <3> QED BY <2>2, <3>2, <3>3
  <2> QED BY <1>3, <2>3, <2>4 DEF AcquireLease, lease
<1>4. ASSUME NEW w \in Workers,
             MarkCompleted(w) \/ ReleaseWaiting(w) \/ MarkManualReview(w)
                 \/ ReleasePending(w) \/ RecordError(w)
      PROVE Goal
  <2>1. pc[w] \in Leased
    BY <1>4 DEF MarkCompleted, ReleaseWaiting, MarkManualReview, ReleasePending, RecordError,
       Leased
  <2>2. round[w] \in Rounds BY <2>1, <1>r DEF AtRound
  <2>3. CASE \E s, n, c, label : Release(w, s, n, c, label)
    BY <2>1, <2>2, <2>3, ReleaseKeeps
  <2>4. CASE UNCHANGED job BY <2>4, <1>1 DEF job, lease
  <2> QED BY <1>4, <2>3, <2>4
       DEF MarkCompleted, ReleaseWaiting, MarkManualReview, ReleasePending, RecordError
<1>5. ASSUME NEW r \in Rounds, LeaseExpires(r) PROVE Goal
  <2>1. /\ UNCHANGED <<status, settled_legs, lease_token>>
        /\ lease_until' = [lease_until EXCEPT ![r] = "past"]
    BY <1>5 DEF LeaseExpires
  <2> QED BY <2>1 DEF FenceInv, TypeInv, RowsOK, ClosedIsFree, HeldHasDeadline, ClosedStep,
       FencedStep
<1> QED BY <1>1, <1>2, <1>3, <1>4, <1>5
     DEF Next, Step, vars, job, lease, local, CheckDue, OtherImport, MorningBatch,
         OperatorStep, StartBatch, SelectJob, ReadState, CaptureRace, NormalizeStart,
         ReadStateAfter, FinalizeGame, RepairMarket, PersistFinal, QueueXlabs, Throw, Crash

(* No batch, however late it writes, takes a round back from a person, and a    *)
(* completed job is reopened only while its final result is missing.            *)
THEOREM ClosedJobsStayClosed == Spec => ClosedStaysClosed
<1>1. Spec => []FenceInv BY InitFenceInv, NextFences, PTL DEF Spec
<1>2. FenceInv /\ [Next]_vars => [ClosedStep]_vars BY NextFences
<1> QED BY <1>1, <1>2, PTL DEF Spec, ClosedStaysClosed

(* While a batch holds a job nobody else writes its outcome, and the job        *)
(* changes hands only after the lease of its holder has run out.                *)
THEOREM SettlementIsFenced == Spec => [][FencedStep]_vars
<1>1. Spec => []FenceInv BY InitFenceInv, NextFences, PTL DEF Spec
<1>2. FenceInv /\ [Next]_vars => [FencedStep]_vars BY NextFences
<1> QED BY <1>1, <1>2, PTL DEF Spec

(***************************************************************************)
(* The refinement of RoundClosing.  What a batch remembers is enough for   *)
(* each abstract guard (IInv), a fenced write meets an open round          *)
(* (FenceInv), and a corrected placing decides a round or changes nothing. *)
(***************************************************************************)
AbsStage == [r \in Rounds |-> Stage(r)]

LEMMA ClosingStutters ==
  ASSUME UNCHANGED <<status, decided, market, final_result, xlabs>>
  PROVE  UNCHANGED Closing!closingVars
BY DEF Closing!closingVars, Stage

\* A start's result decides its round, or leaves the abstract state alone.
LEMMA WinnersDecide ==
  ASSUME IInv, NEW r \in Rounds, NEW l \in Legs, NEW s \in Starts, Upsert(r, l, s),
         UNCHANGED <<status, market, final_result, xlabs>>
  PROVE  Closing!Decide(r) \/ UNCHANGED Closing!closingVars
<1>1. UNCHANGED AbsStage BY DEF AbsStage, Stage
<1>2. /\ \A q \in Rounds \ {r} : placed'[q] = placed[q]
      /\ decided \subseteq decided' /\ decided' \subseteq Rounds
      /\ \A q \in Rounds : q \in decided' => q \in decided \/ AllDecided(q)'
  BY UpsertNoted DEF IInv
<1>3. \A q \in Rounds \ {r} : AllDecided(q)' <=> AllDecided(q)
  BY <1>2 DEF AllDecided, Decided, Winners
<1>4. \A q \in Rounds \ {r} : q \in decided' => q \in decided
  BY <1>2, <1>3 DEF IInv, Known, Witnessed
<1>5. decided' \in {decided, decided \union {r}} BY <1>2, <1>4
<1> QED BY <1>1, <1>5 DEF Closing!Decide, Closing!closingVars, AbsStage

\* A fenced write is a step of the abstract row, or leaves it alone.
LEMMA ReleaseSimulates ==
  ASSUME FenceInv, NEW w \in Workers, round[w] \in Rounds,
         NEW s, NEW n, NEW c, NEW label, Release(w, s, n, c, label)
  PROVE  \/ UNCHANGED Closing!closingVars
         \/ /\ Stage(round[w]) = "open"
            /\ status' = [status EXCEPT ![round[w]] = s]
            /\ UNCHANGED <<decided, market, final_result, xlabs>>
<1>1. UNCHANGED <<decided, market, final_result, xlabs>>
  BY DEF Release, Leaves, facts, results
<1>2. CASE ~HoldsLease(w)
  <2>1. UNCHANGED status BY <1>2 DEF Release, job
  <2> QED BY <1>1, <2>1, ClosingStutters
<1>3. CASE HoldsLease(w)
  <2>1. status' = [status EXCEPT ![round[w]] = s] BY <1>3 DEF Release
  <2>2. Stage(round[w]) = "open"
    BY <1>3, WorkerAssumption DEF HoldsLease, FenceInv, ClosedIsFree, Open, Stage
  <2> QED BY <1>1, <2>1, <2>2
<1> QED BY <1>2, <1>3

LEMMA ClosingStep == IInv /\ FenceInv /\ [Next]_vars => [Closing!ClosingNext]_(Closing!closingVars)
<1> SUFFICES ASSUME IInv, FenceInv, [Next]_vars
             PROVE  Closing!ClosingNext \/ UNCHANGED Closing!closingVars
  OBVIOUS
<1>t. TypeInv /\ RowsOK /\ HasRound BY DEF IInv, TypeInv
<1>r. \A w \in Workers : pc[w] \in AtRound => round[w] \in Rounds BY <1>t DEF HasRound
<1>k. HasWinners /\ HasFinished BY DEF IInv, Known
<1> DEFINE Goal == Closing!ClosingNext \/ UNCHANGED Closing!closingVars
<1>1. CASE UNCHANGED <<status, decided, market, final_result, xlabs>>
  BY <1>1, ClosingStutters
<1>2. ASSUME NEW r \in Rounds, NEW l \in Legs, NEW s \in Starts, OtherImport(r, l, s) PROVE Goal
  <2>1. Upsert(r, l, s) /\ UNCHANGED <<status, market, final_result, xlabs>>
    BY <1>2 DEF OtherImport, job
  <2>2. Closing!Decide(r) \/ UNCHANGED Closing!closingVars BY <2>1, WinnersDecide
  <2> QED BY <2>2 DEF Closing!ClosingNext
<1>3. ASSUME NEW w \in Workers, NormalizeStart(w) PROVE Goal
  <2>1. round[w] \in Rounds BY <1>3, <1>r DEF NormalizeStart, AtRound, Leased
  <2>2. leg[w] \in Legs /\ todo[w] \in SUBSET Starts BY <1>t DEF TypeInv, LocalOK
  <2>3. UNCHANGED <<status, market, final_result, xlabs>> BY <1>3 DEF NormalizeStart, job
  <2>4. PICK s \in todo[w] : Upsert(round[w], leg[w], s) BY <1>3 DEF NormalizeStart
  <2>5. s \in Starts BY <2>2, <2>4
  <2>6. Closing!Decide(round[w]) \/ UNCHANGED Closing!closingVars
    BY <2>1, <2>2, <2>3, <2>4, <2>5, WinnersDecide
  <2> QED BY <2>1, <2>6 DEF Closing!ClosingNext
<1>4. ASSUME NEW w \in Workers, EnsureJobs(w) PROVE Goal
  <2> DEFINE S == {r \in Rounds : status[r] = "completed" /\ r \notin final_result}
  <2>1. UNCHANGED <<decided, market, final_result, xlabs>> BY <1>4 DEF EnsureJobs, facts, results
  <2>2. ASSUME NEW r \in Rounds
        PROVE  /\ r \in S => status'[r] = "pending"
               /\ r \notin S => \/ status'[r] = status[r]
                                \/ status[r] = "none" /\ status'[r] = "pending"
    BY <1>4 DEF EnsureJobs
  <2>3. AbsStage' = [r \in Rounds |-> IF r \in S THEN "open" ELSE AbsStage[r]]
    BY <2>2 DEF AbsStage, Stage
  <2>4. \A r \in S : AbsStage[r] = "closed" /\ r \notin final_result BY DEF AbsStage, Stage
  <2>5. Closing!Reopen(S) BY <2>1, <2>3, <2>4 DEF Closing!Reopen, AbsStage
  <2>6. S \in SUBSET Rounds OBVIOUS
  <2> QED BY <2>5, <2>6 DEF Closing!ClosingNext
<1>5. ASSUME NEW w \in Workers, RepairMarket(w) PROVE Goal
  <2>1. round[w] \in Rounds /\ round[w] \in decided
    BY <1>5, <1>r, <1>k DEF RepairMarket, AtRound, Leased, HasWinners, AtFinal
  <2>2. UNCHANGED <<AbsStage, decided, final_result, xlabs>>
    BY <1>5 DEF RepairMarket, job, results, AbsStage, Stage
  <2>3. Closing!Repair(round[w])
    BY <1>5, <2>1, <2>2 DEF RepairMarket, Closing!Repair, AbsStage
  <2> QED BY <2>1, <2>3 DEF Closing!ClosingNext
<1>6. ASSUME NEW w \in Workers, PersistFinal(w) PROVE Goal
  <2>1. round[w] \in Rounds /\ round[w] \in decided /\ round[w] \in market
    BY <1>6, <1>r, <1>k DEF PersistFinal, AtRound, Leased, HasWinners, HasFinished, AtFinal
  <2>2. UNCHANGED <<AbsStage, decided, market, xlabs>>
    BY <1>6 DEF PersistFinal, job, results, AbsStage, Stage
  <2>3. Closing!StorePayout(round[w])
    BY <1>6, <2>1, <2>2 DEF PersistFinal, Closing!StorePayout, AbsStage
  <2> QED BY <2>1, <2>3 DEF Closing!ClosingNext
<1>7. ASSUME NEW w \in Workers, QueueXlabs(w) PROVE Goal
  <2>1. round[w] \in Rounds /\ round[w] \in final_result
    BY <1>7, <1>r, <1>k DEF QueueXlabs, AtRound, Leased, HasFinished
  <2>2. UNCHANGED <<AbsStage, decided, market, final_result>>
    BY <1>7 DEF QueueXlabs, job, results, AbsStage, Stage
  <2>3. Closing!Queue(round[w])
    BY <1>7, <2>1, <2>2 DEF QueueXlabs, Closing!Queue, AbsStage
  <2> QED BY <2>1, <2>3 DEF Closing!ClosingNext
<1>8. ASSUME NEW w \in Workers, MarkCompleted(w) PROVE Goal
  <2>1. /\ round[w] \in Rounds /\ round[w] \in final_result /\ round[w] \in xlabs
    BY <1>8, <1>r, <1>k DEF MarkCompleted, AtRound, Leased, HasFinished
  <2>2. Release(w, "completed", Cardinality(Legs), "due", "idle")
    BY <1>8 DEF MarkCompleted
  <2>3. \/ UNCHANGED Closing!closingVars
        \/ /\ Stage(round[w]) = "open" /\ status' = [status EXCEPT ![round[w]] = "completed"]
           /\ UNCHANGED <<decided, market, final_result, xlabs>>
    BY <2>1, <2>2, ReleaseSimulates
  <2>4. CASE /\ Stage(round[w]) = "open" /\ status' = [status EXCEPT ![round[w]] = "completed"]
             /\ UNCHANGED <<decided, market, final_result, xlabs>>
    <3>1. AbsStage' = [AbsStage EXCEPT ![round[w]] = "closed"]
      BY <2>1, <2>4, <1>t DEF AbsStage, Stage, RowsOK
    <3>2. Closing!Close(round[w])
      BY <2>1, <2>4, <3>1 DEF Closing!Close, AbsStage
    <3> QED BY <2>1, <3>2 DEF Closing!ClosingNext
  <2> QED BY <2>3, <2>4
<1>9. ASSUME NEW w \in Workers, MarkManualReview(w) PROVE Goal
  <2>1. round[w] \in Rounds BY <1>9, <1>r DEF MarkManualReview, AtRound, Leased
  <2>2. Release(w, "manual_review", settled[w], "due", "idle")
    BY <1>9 DEF MarkManualReview
  <2>3. \/ UNCHANGED Closing!closingVars
        \/ /\ Stage(round[w]) = "open"
           /\ status' = [status EXCEPT ![round[w]] = "manual_review"]
           /\ UNCHANGED <<decided, market, final_result, xlabs>>
    BY <2>1, <2>2, ReleaseSimulates
  <2>4. CASE /\ Stage(round[w]) = "open"
             /\ status' = [status EXCEPT ![round[w]] = "manual_review"]
             /\ UNCHANGED <<decided, market, final_result, xlabs>>
    <3>1. AbsStage' = [AbsStage EXCEPT ![round[w]] = "review"]
      BY <2>1, <2>4, <1>t DEF AbsStage, Stage, RowsOK
    <3>2. Closing!Review(round[w])
      BY <2>1, <2>4, <3>1 DEF Closing!Review, AbsStage
    <3> QED BY <2>1, <3>2 DEF Closing!ClosingNext
  <2> QED BY <2>3, <2>4
<1>10. ASSUME NEW w \in Workers, ReleaseWaiting(w) \/ ReleasePending(w) \/ RecordError(w)
       PROVE UNCHANGED Closing!closingVars
  <2>1. round[w] \in Rounds
    BY <1>10, <1>r DEF ReleaseWaiting, ReleasePending, RecordError, AtRound, Leased
  <2>3. ASSUME NEW s \in {"waiting", "pending"}, NEW n, NEW c, NEW label,
               Release(w, s, n, c, label)
        PROVE UNCHANGED Closing!closingVars
    <3>1. \/ UNCHANGED Closing!closingVars
          \/ /\ Stage(round[w]) = "open" /\ status' = [status EXCEPT ![round[w]] = s]
             /\ UNCHANGED <<decided, market, final_result, xlabs>>
      BY <2>1, <2>3, ReleaseSimulates
    <3>2. CASE /\ Stage(round[w]) = "open" /\ status' = [status EXCEPT ![round[w]] = s]
               /\ UNCHANGED <<decided, market, final_result, xlabs>>
      <4>1. UNCHANGED AbsStage BY <2>1, <3>2, <1>t DEF AbsStage, Stage, RowsOK
      <4> QED BY <3>2, <4>1 DEF Closing!closingVars, AbsStage
    <3> QED BY <3>1, <3>2
  <2>4. CASE Leaves(w, "idle") /\ UNCHANGED job
    BY <2>4, ClosingStutters DEF Leaves, job, facts, results
  <2> QED BY <1>10, <2>3, <2>4 DEF ReleaseWaiting, ReleasePending, RecordError
<1> QED BY <1>1, <1>2, <1>3, <1>4, <1>5, <1>6, <1>7, <1>8, <1>9, <1>10
     DEF Next, Step, vars, job, facts, results, Leaves, CheckDue, LeaseExpires, MorningBatch,
         OperatorStep, StartBatch, SelectJob, AcquireLease, ReadState, CaptureRace,
         ReadStateAfter, FinalizeGame, Throw, Crash

(* The settlement jobs implement RoundClosing: whichever batches overlap, are  *)
(* killed or lose their lease, and whatever other imports write over the       *)
(* placings, a round is closed over its payout and its X-Labs job, the payout  *)
(* stored over a moment at which every leg had one winner and over its market, *)
(* and what is closed stays closed.                                            *)
THEOREM JobsImplementRoundClosing == Spec => RoundRefinement
<1>1. Init => Closing!ClosingInit
  <2> SUFFICES ASSUME Init PROVE Closing!ClosingInit
    OBVIOUS
  <2>1. \A r \in Rounds : Stage(r) = IF r \in legacy THEN "closed" ELSE "open"
    BY DEF Init, Stage
  <2> QED BY <2>1 DEF Init, Closing!ClosingInit
<1>2. Spec => [](IInv /\ FenceInv)
  BY InitIInv, NextIInv, InitFenceInv, NextFences, PTL DEF Spec
<1> QED BY <1>1, <1>2, ClosingStep, PTL DEF Spec, RoundRefinement, Closing!ClosingSpec
=============================================================================
