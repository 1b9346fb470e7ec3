---------------------------- MODULE XlabsBackfill ----------------------------
(***************************************************************************)
(* The checkpointed import of X-Labs telemetry: one row of                 *)
(* xlabs_backfill_jobs, the invocations of runXlabsBackfillStep on it, and *)
(* the callers of ensureXlabsDailyDateJob that queue or reopen it.  A      *)
(* historical job walks a range of dates behind the official import; a     *)
(* daily job covers the V85/V86 races of the one date EndDate.             *)
(*                                                                         *)
(* Leases are as in OfficialBackfill: a worker's name stands for its fresh *)
(* token and lease_until is "null", "live" or "past".  retry_after only    *)
(* narrows the automatic choice of a job; a step asked for by job id, as   *)
(* the daily schedule does, never looks at it, so it is left out.          *)
(***************************************************************************)
EXTENDS Integers, FiniteSets

CONSTANTS
    Workers,            \* invocations of the step that may overlap
    NoWorker,           \* lease_token IS NULL
    Ensurers,           \* callers of ensureXlabsDailyDateJob that may overlap
    Scopes,             \* the scopes a job may have
    StartDate, EndDate, \* the range of a historical job
    MaxRaces,           \* bound: scope -> eligible races of one date
    MaxErrors,          \* consecutive failures that stop the job
    MaxMishaps,         \* bound: killed invocations and overrun leases
    MaxChanges          \* bound: later changes of the official data of a date

ASSUME RangeAssumption == /\ StartDate \in Int
                          /\ EndDate \in Int
                          /\ StartDate <= EndDate
ASSUME ScopeAssumption == Scopes \subseteq {"daily", "historical"}
ASSUME BoundsAssumption == /\ MaxRaces \in [Scopes -> Nat \ {0}]
                           /\ MaxErrors \in Nat \ {0}
                           /\ MaxMishaps \in Nat
                           /\ MaxChanges \in Nat
ASSUME WorkerAssumption == NoWorker \notin Workers

VARIABLES
    \* the row of xlabs_backfill_jobs
    scope, status, next_date, next_race_index, processed_races,
    consecutive_errors, lease_token, lease_until,
    readiness, \* date -> what the official data say: waiting, ready, no_game
    eligible,  \* date -> races with official entries the job must cover
    expired,   \* the daily date lies before yesterday
    changes,   \* changes of readiness and eligible after the first answer
    page,      \* dates whose X-Labs page and scripts are archived
    telemetry, \* race -> quality_status of its X-Labs record
    derived,   \* races whose intervals and positions have been computed
    absent,    \* races for which X-Labs answered not found
    pc, seen, race,   \* of an invocation: label, checkpoint read, race chosen
    restarting,       \* callers that have decided to reopen the job
    mishaps           \* invocations killed, or slower than their lease, so far

checkpoint == <<next_date, next_race_index>>
lease == <<lease_token, lease_until>>
job == <<scope, status, checkpoint, processed_races, consecutive_errors, lease>>
official == <<readiness, eligible, expired, changes>>
archive == <<page, telemetry, derived, absent>>
local == <<seen, race, restarting, mishaps>>
vars == <<job, official, archive, pc, local>>

Dates == (StartDate - 1)..EndDate
RaceNumbers == 0..(MaxRaces[scope] - 1)
Races == Dates \X RaceNumbers
FirstDate == IF scope = "daily" THEN EndDate ELSE StartDate
Leased == {"prerequisite", "defer", "expire", "races", "context", "source",
           "normalize", "derive", "complete", "unavailable", "advance", "error"}

Init ==
    /\ scope \in Scopes
    /\ status = "none"
    /\ next_date = EndDate
    /\ next_race_index = 0
    /\ processed_races = 0
    /\ consecutive_errors = 0
    /\ lease_token = NoWorker
    /\ lease_until = "null"
    /\ readiness = [d \in Dates |-> "waiting"]
    /\ eligible = [d \in Dates |-> {}]
    /\ expired = FALSE
    /\ changes = 0
    /\ page = {}
    /\ telemetry = [r \in Races |-> "none"]
    /\ derived = {}
    /\ absent = {}
    /\ pc = [w \in Workers |-> "idle"]
    /\ seen = [w \in Workers |-> [date |-> EndDate, index |-> 0]]
    /\ race = [w \in Workers |-> 0]
    /\ restarting = {}
    /\ mishaps = 0

RaceOf(w) == <<seen[w].date, race[w]>>
Goto(w, label) == pc' = [pc EXCEPT ![w] = label]
HoldsLease(w) == lease_token = w
ReleaseLease == lease_token' = NoWorker /\ lease_until' = "null"
\* The list of a date is sorted; a race's index is the number of those before.
Position(r, list) == Cardinality({q \in list : q < r})
\* processed_races matters only against the number of eligible races.
OneMore(n) == IF n < MaxRaces[scope] THEN n + 1 ELSE n
\* X-Labs has said all it has about a race.
Handled(r) == r \in derived \/ r \in absent \/ telemetry[r] = "gap"

-----------------------------------------------------------------------------
(* Plausible bugs, used only to see that the properties would notice them. *)

\* Only daily jobs look at the official data.
PrerequisiteForDailyOnly(w) ==
    LET answer == readiness[seen[w].date] IN
    /\ pc[w] = "prerequisite"
    /\ \/ (answer = "ready" \/ scope = "historical") /\ Goto(w, "races")
       \/ answer = "no_game" /\ Goto(w, "advance")
       \/ answer = "waiting" /\ expired /\ Goto(w, "expire")
       \/ answer = "waiting" /\ ~expired /\ scope = "daily" /\ Goto(w, "defer")
    /\ UNCHANGED <<job, official, archive, local>>

\* A record normalized by an unfinished step is taken for a finished race.
CaptureTrustsNormalized(w) ==
    LET r == RaceOf(w) IN
    /\ pc[w] = "source"
    /\ \/ /\ telemetry[r] = "none"
          /\ \E payload \in {"captured", "malformed"} :
                telemetry' = [telemetry EXCEPT ![r] = payload]
          /\ Goto(w, "normalize")
       \/ /\ telemetry[r] # "none"
          /\ Goto(w, CASE telemetry[r] \in {"captured", "malformed"} -> "normalize"
                       [] telemetry[r] = "normalized" -> "complete"
                       [] OTHER -> "unavailable")
          /\ UNCHANGED telemetry
    /\ UNCHANGED <<job, official, page, derived, absent, local>>

\* The race is recorded without looking at the token.
RecordRaceUnfenced(w) ==
    /\ pc[w] \in {"complete", "unavailable"}
    /\ next_race_index' = seen[w].index + 1
    /\ processed_races' = OneMore(processed_races)
    /\ consecutive_errors' = 0
    /\ ReleaseLease
    /\ Goto(w, "idle")
    /\ UNCHANGED <<scope, status, next_date, official, archive, local>>

\* The job is stopped one failure too late.
RecordErrorTooLate(w) ==
    /\ pc[w] = "error"
    /\ HoldsLease(w)
    /\ consecutive_errors' = consecutive_errors + 1
    /\ status' = IF consecutive_errors + 1 > MaxErrors THEN "failed" ELSE "running"
    /\ ReleaseLease
    /\ Goto(w, "idle")
    /\ UNCHANGED <<scope, checkpoint, processed_races, official, archive, local>>

-----------------------------------------------------------------------------
(* The official data, external to this job.                                *)

\* The date's official import is through, or its V85/V86 rounds are
\* normalized or settled; a daily date may turn out to have no such round.
OfficialReady(d) ==
    /\ d >= FirstDate
    /\ readiness[d] = "waiting"
    /\ \E answer \in {"ready", "no_game"}, races \in SUBSET RaceNumbers :
        /\ answer = "no_game" => scope = "daily" /\ races = {}
        /\ eligible[d] \subseteq races
        /\ readiness' = [readiness EXCEPT ![d] = answer]
        /\ eligible' = [eligible EXCEPT ![d] = races]
    /\ UNCHANGED <<job, expired, changes, archive, pc, local>>

\* A second round of the date is normalized later, or a round is captured
\* again and is pending until that capture is normalized.
OfficialChanges ==
    /\ scope = "daily"
    /\ changes < MaxChanges
    /\ changes' = changes + 1
    /\ readiness[EndDate] # "waiting"
    /\ \/ \E races \in SUBSET RaceNumbers :
            /\ eligible[EndDate] \subseteq races
            /\ eligible' = [eligible EXCEPT ![EndDate] = races]
            /\ readiness' = [readiness EXCEPT ![EndDate] = "ready"]
       \/ /\ readiness' = [readiness EXCEPT ![EndDate] = "waiting"]
          /\ UNCHANGED eligible
    /\ UNCHANGED <<job, expired, archive, pc, local>>

\* dailyPrerequisiteExpired becomes true with the calendar.
DateExpires ==
    /\ scope = "daily"
    /\ ~expired
    /\ expired' = TRUE
    /\ UNCHANGED <<job, readiness, eligible, changes, archive, pc, local>>

HolderAtWork == \E w \in Workers : HoldsLease(w) /\ pc[w] \in Leased

\* The clock passes lease_until: of a killed invocation, or (at most
\* MaxMishaps times) of one still at work.
TimePasses ==
    /\ lease_until = "live"
    /\ HolderAtWork => mishaps < MaxMishaps
    /\ mishaps' = mishaps + (IF HolderAtWork THEN 1 ELSE 0)
    /\ lease_until' = "past"
    /\ UNCHANGED <<scope, status, checkpoint, processed_races, consecutive_errors,
                   lease_token, official, archive, pc, seen, race, restarting>>

-----------------------------------------------------------------------------
(* Starting, resuming and reopening.                                       *)

\* startXlabsBackfill: INSERT OR IGNORE of the historical row.
StartHistorical ==
    /\ scope = "historical"
    /\ status = "none"
    /\ status' = "running"
    /\ UNCHANGED <<scope, checkpoint, processed_races, consecutive_errors, lease,
                   official, archive, pc, local>>

\* startXlabsBackfill with resume: a failed job runs again, in place.
ResumeHistorical ==
    /\ scope = "historical"
    /\ status = "failed"
    /\ status' = IF next_date >= FirstDate THEN "running" ELSE status
    /\ consecutive_errors' = 0
    /\ UNCHANGED <<scope, checkpoint, processed_races, lease, official, archive,
                   pc, local>>

\* What ensureXlabsDailyDateJob reopens: every failed job, and a completed
\* one whose count of processed races is below that of the eligible ones.
ShouldRestart ==
    \/ status = "failed"
    \/ status = "completed" /\ Cardinality(eligible[EndDate]) > processed_races

\* The row is inserted if it is missing, then read and judged.
EnsureDaily(e) ==
    /\ scope = "daily"
    /\ e \notin restarting
    /\ status' = IF status = "none" THEN "running" ELSE status
    /\ restarting' = IF ShouldRestart THEN restarting \union {e} ELSE restarting
    /\ UNCHANGED <<scope, checkpoint, processed_races, consecutive_errors, lease,
                   official, archive, pc, seen, race, mishaps>>

\* The reset of the judged row looks at nothing again; the count stays.
RestartDaily(e) ==
    /\ e \in restarting
    /\ restarting' = restarting \ {e}
    /\ status' = "running"
    /\ next_date' = EndDate
    /\ next_race_index' = 0
    /\ consecutive_errors' = 0
    /\ ReleaseLease
    /\ UNCHANGED <<scope, processed_races, official, archive, pc, seen, race, mishaps>>

-----------------------------------------------------------------------------
(* runXlabsBackfillStep.                                                   *)

\* The row is read into memory before the lease is asked for.
LoadJob(w) ==
    /\ pc[w] = "idle"
    /\ status = "running"
    /\ seen' = [seen EXCEPT ![w] = [date |-> next_date, index |-> next_race_index]]
    /\ Goto(w, "loaded")
    /\ UNCHANGED <<job, official, archive, race, restarting, mishaps>>

\* The conditional UPDATE looks at status and lease_until only.
AcquireLease(w) ==
    /\ pc[w] = "loaded"
    /\ IF status = "running" /\ lease_until \in {"null", "past"}
       THEN /\ lease_token' = w
            /\ lease_until' = "live"
            /\ Goto(w, "prerequisite")
       ELSE /\ Goto(w, "idle")
            /\ UNCHANGED lease
    /\ UNCHANGED <<scope, status, checkpoint, processed_races, consecutive_errors,
                   official, archive, local>>

\* officialDateReady and dailyOfficialReadiness decide what the step does.
CheckPrerequisite(w) ==
    LET answer == readiness[seen[w].date] IN
    /\ pc[w] = "prerequisite"
    /\ \/ answer = "ready" /\ Goto(w, "races")
       \/ answer = "no_game" /\ Goto(w, "advance")
       \/ answer = "waiting" /\ expired /\ Goto(w, "expire")
       \/ answer = "waiting" /\ ~expired /\ Goto(w, "defer")
    /\ UNCHANGED <<job, official, archive, local>>

\* deferJob: the lease is given back, the checkpoint and the errors stay.
DeferJob(w) ==
    /\ pc[w] = "defer"
    /\ IF HoldsLease(w)
       THEN ReleaseLease /\ Goto(w, "idle")
       ELSE UNCHANGED lease /\ Goto(w, "error")
    /\ UNCHANGED <<scope, status, checkpoint, processed_races, consecutive_errors,
                   official, archive, local>>

\* What advanceDate and completeExpiredDailyPrerequisite write.
MoveToDate(w, next) ==
    IF HoldsLease(w)
    THEN /\ next_date' = next
         /\ next_race_index' = 0
         /\ status' = IF next < FirstDate THEN "completed" ELSE "running"
         /\ consecutive_errors' = 0
         /\ ReleaseLease
         /\ Goto(w, "idle")
         /\ UNCHANGED <<scope, processed_races>>
    ELSE Goto(w, "error") /\ UNCHANGED job

\* completeExpiredDailyPrerequisite: a daily date that never became ready.
CompleteExpired(w) ==
    /\ pc[w] = "expire"
    /\ MoveToDate(w, seen[w].date - 1)
    /\ UNCHANGED <<official, archive, local>>

\* advanceDate: past the list, no round, or no X-Labs page for the date.
AdvanceDate(w) ==
    /\ pc[w] = "advance"
    /\ MoveToDate(w, seen[w].date - 1)
    /\ UNCHANGED <<official, archive, local>>

\* racesForJobDate: the list is queried afresh and indexed by the checkpoint.
ReadRaces(w) ==
    LET list == eligible[seen[w].date] IN
    /\ pc[w] = "races"
    /\ \/ /\ scope = "daily" /\ list = {}
          /\ Goto(w, "error")
          /\ UNCHANGED race
       \/ /\ seen[w].index >= Cardinality(list)
          /\ scope = "daily" => list # {}
          /\ Goto(w, "advance")
          /\ UNCHANGED race
       \/ /\ \E r \in list : /\ Position(r, list) = seen[w].index
                             /\ race' = [race EXCEPT ![w] = r]
          /\ Goto(w, "context")
    /\ UNCHANGED <<job, official, archive, seen, restarting, mishaps>>

\* ensureDateContext: an archived page is reused; a date that has none is
\* unavailable and passed as a whole.
DateContext(w) ==
    /\ pc[w] = "context"
    /\ \/ page' = page \union {seen[w].date} /\ Goto(w, "source")
       \/ seen[w].date \notin page /\ Goto(w, "advance") /\ UNCHANGED page
    /\ UNCHANGED <<job, official, telemetry, derived, absent, local>>

\* The race's record is reused, or captured now; not found is an answer.  The
\* payload settles whether normalization will find a structural gap in it.
CaptureRace(w) ==
    LET r == RaceOf(w) IN
    /\ pc[w] = "source"
    /\ \/ /\ telemetry[r] = "none"
          /\ \E payload \in {"captured", "malformed"} :
                telemetry' = [telemetry EXCEPT ![r] = payload]
          /\ Goto(w, "normalize")
          /\ UNCHANGED absent
       \/ /\ telemetry[r] = "none"
          /\ absent' = absent \union {r}
          /\ Goto(w, "unavailable")
          /\ UNCHANGED telemetry
       \/ /\ telemetry[r] # "none"
          /\ Goto(w, CASE telemetry[r] \in {"captured", "malformed"} -> "normalize"
                       [] telemetry[r] = "normalized" -> "derive"
                       [] telemetry[r] = "gap"        -> "unavailable")
          /\ UNCHANGED <<telemetry, absent>>
    /\ UNCHANGED <<job, official, page, derived, local>>

\* normalizeCapturedXlabsRace, or markXlabsSourceGap for a structural gap.
NormalizeRace(w) ==
    /\ pc[w] = "normalize"
    /\ IF telemetry[RaceOf(w)] \in {"malformed", "gap"}
       THEN /\ telemetry' = [telemetry EXCEPT ![RaceOf(w)] = "gap"]
            /\ Goto(w, "unavailable")
       ELSE /\ telemetry' = [telemetry EXCEPT ![RaceOf(w)] = "normalized"]
            /\ Goto(w, "derive")
    /\ UNCHANGED <<job, official, page, derived, absent, local>>

\* ensureXlabsIntervalsForSource and the position reconstruction, for a
\* record normalized by an earlier, unfinished step as well.
DeriveRace(w) ==
    /\ pc[w] = "derive"
    /\ derived' = derived \union {RaceOf(w)}
    /\ Goto(w, "complete")
    /\ UNCHANGED <<job, official, page, telemetry, absent, local>>

\* recordCompletedRace and recordUnavailableRace: fenced by the token, they
\* write the in-memory index plus one and leave next_date alone.
RecordRace(w) ==
    /\ pc[w] \in {"complete", "unavailable"}
    /\ IF HoldsLease(w)
       THEN /\ next_race_index' = seen[w].index + 1
            /\ processed_races' = OneMore(processed_races)
            /\ consecutive_errors' = 0
            /\ ReleaseLease
            /\ Goto(w, "idle")
            /\ UNCHANGED <<scope, status, next_date>>
       ELSE Goto(w, "error") /\ UNCHANGED job
    /\ UNCHANGED <<official, archive, local>>

\* Any call of the step may throw: the provider, the database, the bucket.
Throw(w) ==
    /\ pc[w] \in Leased \ {"error"}
    /\ Goto(w, "error")
    /\ UNCHANGED <<job, official, archive, local>>

\* The step's catch: fenced by the token; the third failure stops the job.
RecordError(w) ==
    /\ pc[w] = "error"
    /\ IF HoldsLease(w)
       THEN /\ consecutive_errors' = consecutive_errors + 1
            /\ status' = IF consecutive_errors + 1 >= MaxErrors
                         THEN "failed" ELSE "running"
            /\ ReleaseLease
            /\ UNCHANGED <<scope, checkpoint, processed_races>>
       ELSE UNCHANGED job
    /\ Goto(w, "idle")
    /\ UNCHANGED <<official, archive, local>>

\* The platform kills an invocation: its memory is gone, the lease stays.
Crash(w) ==
    /\ pc[w] # "idle"
    /\ mishaps < MaxMishaps
    /\ mishaps' = mishaps + 1
    /\ Goto(w, "idle")
    /\ UNCHANGED <<job, official, archive, seen, race, restarting>>

Step(w) ==
    \/ AcquireLease(w) \/ CheckPrerequisite(w) \/ DeferJob(w)
    \/ CompleteExpired(w) \/ AdvanceDate(w) \/ ReadRaces(w) \/ DateContext(w)
    \/ CaptureRace(w) \/ NormalizeRace(w) \/ DeriveRace(w) \/ RecordRace(w)
    \/ RecordError(w)

Next ==
    \/ \E d \in Dates : OfficialReady(d)
    \/ OfficialChanges \/ DateExpires \/ TimePasses
    \/ StartHistorical \/ ResumeHistorical
    \/ \E e \in Ensurers : EnsureDaily(e) \/ RestartDaily(e)
    \/ \E w \in Workers : LoadJob(w) \/ Step(w) \/ Throw(w) \/ Crash(w)

Spec == Init /\ [][Next]_vars

-----------------------------------------------------------------------------
(* Correctness.                                                            *)

\* Every variable stays in its range (one type invariant for the module).
TypeOK ==
    /\ scope \in Scopes
    /\ status \in {"none", "running", "failed", "completed"}
    /\ next_date \in Dates
    /\ next_race_index \in 0..MaxRaces[scope]
    /\ processed_races \in 0..MaxRaces[scope]
    /\ consecutive_errors \in 0..MaxErrors
    /\ lease_token \in Workers \union {NoWorker}
    /\ lease_until \in {"null", "live", "past"}
    /\ readiness \in [Dates -> {"waiting", "ready", "no_game"}]
    /\ eligible \in [Dates -> SUBSET RaceNumbers]
    /\ expired \in BOOLEAN
    /\ changes \in 0..MaxChanges
    /\ page \subseteq Dates
    /\ telemetry \in [Races -> {"none", "captured", "malformed", "normalized", "gap"}]
    /\ derived \subseteq Races /\ absent \subseteq Races
    /\ pc \in [Workers -> Leased \union {"idle", "loaded"}]
    /\ seen \in [Workers -> [date: Dates, index: 0..MaxRaces[scope]]]
    /\ race \in [Workers -> RaceNumbers]
    /\ restarting \subseteq Ensurers
    /\ mishaps \in 0..MaxMishaps

\* "Queued or reopened": a daily job that is completed although an eligible
\* race has no answer from X-Labs is one that ensureXlabsDailyDateJob reopens,
\* as long as the list of its date has not changed since it was first ready.
UncoveredReopens ==
    scope = "daily" /\ status = "completed" /\ changes = 0 =>
        \/ \A r \in eligible[EndDate] : Handled(<<EndDate, r>>)
        \/ ShouldRestart

\* Historical telemetry never outruns official data: the checkpoint passes a
\* date only after the official import of that date is through.
NeverOutrunsOfficial ==
    scope = "historical" =>
        \A d \in StartDate..EndDate : next_date < d => readiness[d] = "ready"

\* Only the holder of the token moves the checkpoint, except that a daily
\* job is restarted; a completed job changes only by being restarted.
CheckpointStep ==
    \/ restarting' # restarting
    \/ /\ checkpoint' # checkpoint =>
              \E w \in Workers : HoldsLease(w) /\ pc'[w] = "idle" /\ pc[w] \in
                  {"advance", "expire", "complete", "unavailable"}
       /\ status = "completed" => job' = job
CheckpointFenced == [][CheckpointStep]_vars
=============================================================================
