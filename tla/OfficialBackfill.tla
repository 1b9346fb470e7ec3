-------------------------- MODULE OfficialBackfill --------------------------
(***************************************************************************)
(* The checkpointed import of official race results: one row of            *)
(* historical_backfill_jobs and the Worker invocations that run            *)
(* runHistoricalBackfillStep on it.  Dates are walked newest first, and    *)
(* every await of the step is an action, so that invocations interleave,   *)
(* die, or outlive their lease between any two database calls.             *)
(*                                                                         *)
(* A lease token is a fresh UUID; a Worker here is one invocation at a     *)
(* time, so its name stands for the token of its latest acquisition.       *)
(* Time appears only through lease_until: "live" (in the future), "past",  *)
(* or "null".  The audit rows of import_runs and the display counters      *)
(* processed_* and reused_races are read by no step and are left out.      *)
(***************************************************************************)
EXTENDS Integers

CONSTANTS
    Workers,            \* invocations of the step that may overlap
    NoWorker,           \* lease_token IS NULL
    StartDate, EndDate, \* the job's inclusive range of dates
    MaxRaces,           \* bound: Swedish trotting races on one calendar
    MaxEmptyDates,      \* MAX_EMPTY_DATES_PER_STEP
    MaxErrors,          \* consecutive failures that stop the job
    MaxMishaps          \* bound: killed invocations and overrun leases

ASSUME RangeAssumption == /\ StartDate \in Int
                          /\ EndDate \in Int
                          /\ StartDate <= EndDate
ASSUME BoundsAssumption == /\ MaxRaces \in Nat
                           /\ MaxEmptyDates \in Nat \ {0}
                           /\ MaxErrors \in Nat \ {0}
                           /\ MaxMishaps \in Nat
ASSUME WorkerAssumption == NoWorker \notin Workers

VARIABLES
    \* the row of historical_backfill_jobs
    status, next_date, next_race_index, consecutive_errors, lease_token, lease_until,
    calendar,  \* date -> number of Swedish trotting races archived, -1 before
    source,    \* race -> quality_status of the record sourceForIdentity picks
    facts,     \* races whose facts a normalization has completely written
    observed,  \* races whose game membership has been recorded
    gaps,      \* races with a record marked captured_source_gap
    pc,        \* where each invocation stands
    seen,      \* the checkpoint an invocation read: its in-memory job row
    skipped,   \* dates without races an invocation has passed in this step
    mishaps    \* invocations killed, or slower than their lease, so far

checkpoint == <<next_date, next_race_index>>
lease == <<lease_token, lease_until>>
job == <<status, checkpoint, consecutive_errors, lease>>
archive == <<calendar, source, facts, observed, gaps>>
local == <<seen, skipped, mishaps>>
vars == <<job, archive, pc, local>>

Missing == -1
\* An invocation that lost its lease may reload a finished job, whose
\* next_date lies one day before the range, and read that day's calendar.
Dates == (StartDate - 1)..EndDate
JobDates == StartDate..EndDate
Races == Dates \X (0..MaxRaces)

Statuses == {"absent", "running", "failed", "completed"}
Qualities == {"none", "captured_unmapped", "normalized", "captured_source_gap"}
Leased == {"calendar", "advance", "reload", "source", "normalize", "gap",
           "membership", "checkpoint", "empty_limit", "error"}

Init ==
    /\ status = "absent"
    /\ next_date = EndDate
    /\ next_race_index = 0
    /\ consecutive_errors = 0
    /\ lease_token = NoWorker
    /\ lease_until = "null"
    /\ calendar = [d \in Dates |-> Missing]
    /\ source = [r \in Races |-> "none"]
    /\ facts = {}
    /\ observed = {}
    /\ gaps = {}
    /\ pc = [w \in Workers |-> "idle"]
    /\ seen = [w \in Workers |-> [date |-> EndDate, index |-> 0]]
    /\ skipped = [w \in Workers |-> 0]
    /\ mishaps = 0

RaceOf(w) == <<seen[w].date, seen[w].index>>
Goto(w, label) == pc' = [pc EXCEPT ![w] = label]
HoldsLease(w) == lease_token = w
ReleaseLease == lease_token' = NoWorker /\ lease_until' = "null"
\* What a checkpoint means for a race: facts and membership, or a known gap.
Handled(r) == r \in gaps \/ (r \in facts /\ r \in observed)

-----------------------------------------------------------------------------
(* Plausible bugs, used only to see that the properties would notice them. *)

\* The last race of the list is taken for the end of the list.
ReadCalendarOffByOne(w) ==
    /\ pc[w] = "calendar"
    /\ \E n \in 0..MaxRaces :
        /\ calendar[seen[w].date] \in {Missing, n}
        /\ calendar' = [calendar EXCEPT ![seen[w].date] = n]
        /\ Goto(w, IF seen[w].index + 1 >= n THEN "advance" ELSE "source")
    /\ UNCHANGED <<job, source, facts, observed, gaps, local>>

\* Passing a date keeps the error count.
AdvanceDateKeepsErrors(w) ==
    /\ pc[w] = "advance"
    /\ HoldsLease(w)
    /\ next_date' = seen[w].date - 1
    /\ next_race_index' = 0
    /\ status' = IF next_date' < StartDate THEN "completed" ELSE "running"
    /\ IF next_date' < StartDate THEN ReleaseLease ELSE UNCHANGED lease
    /\ Goto(w, IF next_date' < StartDate THEN "idle" ELSE "reload")
    /\ UNCHANGED <<consecutive_errors, archive, local>>

\* The membership is recorded for new facts only, not for reused ones.
NormalizeForgetsMembership(w) ==
    LET r == RaceOf(w) IN
    /\ pc[w] = "normalize"
    /\ source[r] \in {"captured_unmapped", "normalized"}
    /\ source' = [source EXCEPT ![r] = "normalized"]
    /\ facts' = facts \union {r}
    /\ Goto(w, IF source[r] = "normalized" THEN "checkpoint" ELSE "membership")
    /\ UNCHANGED <<job, calendar, observed, gaps, local>>

\* The checkpoint is written without looking at the token.
CheckpointRaceUnfenced(w) ==
    /\ pc[w] = "checkpoint"
    /\ next_race_index' = seen[w].index + 1
    /\ consecutive_errors' = 0
    /\ ReleaseLease
    /\ Goto(w, "idle")
    /\ UNCHANGED <<status, next_date, archive, local>>

\* The job is stopped one failure too late.
RecordErrorTooLate(w) ==
    /\ pc[w] \in {"error", "empty_limit"}
    /\ HoldsLease(w)
    /\ consecutive_errors' = consecutive_errors + 1
    /\ status' = IF consecutive_errors + 1 > MaxErrors THEN "failed" ELSE "running"
    /\ lease_token' = NoWorker
    /\ lease_until' \in {"null", "live"}
    /\ Goto(w, "idle")
    /\ UNCHANGED <<checkpoint, archive, local>>

-----------------------------------------------------------------------------
(* Operators and the scheduler.                                            *)

\* startHistoricalBackfill: INSERT OR IGNORE of the row.
StartJob ==
    /\ status = "absent"
    /\ status' = "running"
    /\ UNCHANGED <<checkpoint, consecutive_errors, lease, archive, pc, local>>

\* startHistoricalBackfill with resume: a failed job runs again, in place.
ResumeJob ==
    /\ status = "failed"
    /\ status' = IF next_date >= StartDate THEN "running" ELSE status
    /\ consecutive_errors' = 0
    /\ ReleaseLease
    /\ UNCHANGED <<checkpoint, archive, pc, local>>

\* The clock passes lease_until: of a retry delay, of the lease of a killed
\* invocation, or (at most MaxMishaps times) of one still at work.
HolderAtWork == \E w \in Workers : HoldsLease(w) /\ pc[w] \in Leased

TimePasses ==
    /\ lease_until = "live"
    /\ HolderAtWork => mishaps < MaxMishaps
    /\ mishaps' = mishaps + (IF HolderAtWork THEN 1 ELSE 0)
    /\ lease_until' = "past"
    /\ UNCHANGED <<status, checkpoint, consecutive_errors, lease_token, archive,
                   pc, seen, skipped>>

-----------------------------------------------------------------------------
(* runHistoricalBackfillStep.                                              *)

\* The row is read into memory before the lease is asked for.
LoadJob(w) ==
    /\ pc[w] = "idle"
    /\ status = "running"
    /\ seen' = [seen EXCEPT ![w] = [date |-> next_date,
                                    index |-> next_race_index]]
    /\ skipped' = [skipped EXCEPT ![w] = 0]
    /\ Goto(w, "loaded")
    /\ UNCHANGED <<job, archive, mishaps>>

\* The conditional UPDATE looks at status and lease_until only: the row may
\* have moved on since it was read, and the in-memory checkpoint stays.
LeaseFree == status = "running" /\ lease_until \in {"null", "past"}

AcquireLease(w) ==
    /\ pc[w] = "loaded"
    /\ IF LeaseFree
       THEN /\ lease_token' = w
            /\ lease_until' = "live"
            /\ Goto(w, "calendar")
       ELSE /\ Goto(w, "idle")
            /\ UNCHANGED lease
    /\ UNCHANGED <<status, checkpoint, consecutive_errors, archive, local>>

\* The archived calendar is reused, or captured now; a race of its list is
\* next, or the list is exhausted.
ReadCalendar(w) ==
    /\ pc[w] = "calendar"
    /\ \E n \in 0..MaxRaces :
        /\ calendar[seen[w].date] \in {Missing, n}
        /\ calendar' = [calendar EXCEPT ![seen[w].date] = n]
        /\ Goto(w, IF seen[w].index >= n THEN "advance" ELSE "source")
    /\ UNCHANGED <<job, source, facts, observed, gaps, local>>

\* advanceDate: fenced by the token; the lease is kept unless the job is done.
AdvanceDate(w) ==
    /\ pc[w] = "advance"
    /\ LET next == seen[w].date - 1
           completed == next < StartDate
       IN IF HoldsLease(w)
          THEN /\ next_date' = next
               /\ next_race_index' = 0
               /\ status' = IF completed THEN "completed" ELSE "running"
               /\ consecutive_errors' = 0
               /\ IF completed THEN ReleaseLease ELSE UNCHANGED lease
               /\ Goto(w, IF completed THEN "idle" ELSE "reload")
          ELSE /\ Goto(w, "error")
               /\ UNCHANGED job
    /\ UNCHANGED <<archive, local>>

\* The row is read again; the loop goes on unless it has passed too many
\* dates without a race, which it reports as an error.
ReloadJob(w) ==
    /\ pc[w] = "reload"
    /\ seen' = [seen EXCEPT ![w] = [date |-> next_date,
                                    index |-> next_race_index]]
    /\ skipped' = [skipped EXCEPT ![w] = @ + 1]
    /\ Goto(w, IF skipped[w] + 1 < MaxEmptyDates THEN "calendar" ELSE "empty_limit")
    /\ UNCHANGED <<job, archive, mishaps>>

\* chooseRaceSource: a normalized record is taken as it is, a cached one is
\* reused or captured again, a gap is captured again; equal bytes are archived
\* as the same record, so a gap may stay a gap.
ChooseSource(w) ==
    LET r == RaceOf(w) IN
    /\ pc[w] = "source"
    /\ \E quality \in Qualities \ {"none"} :
        /\ quality = "normalized" <=> source[r] = "normalized"
        /\ quality = "captured_source_gap" => source[r] = "captured_source_gap"
        /\ source' = [source EXCEPT ![r] = quality]
    /\ Goto(w, "normalize")
    /\ UNCHANGED <<job, calendar, facts, observed, gaps, local>>

\* normalizeCapturedOfficialRace: writes the facts of a captured record,
\* reuses a normalized one, and refuses a record of any other quality; a
\* payload without horse identities ends in a source gap instead.
Normalize(w) ==
    LET r == RaceOf(w) IN
    /\ pc[w] = "normalize"
    /\ \/ /\ source[r] \in {"captured_unmapped", "normalized"}
          /\ source' = [source EXCEPT ![r] = "normalized"]
          /\ facts' = facts \union {r}
          /\ Goto(w, "membership")
       \/ /\ source[r] = "captured_unmapped"
          /\ Goto(w, "gap")
          /\ UNCHANGED <<source, facts>>
       \/ /\ source[r] \notin {"captured_unmapped", "normalized"}
          /\ Goto(w, "error")
          /\ UNCHANGED <<source, facts>>
    /\ UNCHANGED <<job, calendar, observed, gaps, local>>

\* markOfficialRaceSourceGap: the UPDATE does not look at the old quality.
MarkSourceGap(w) ==
    LET r == RaceOf(w) IN
    /\ pc[w] = "gap"
    /\ source' = [source EXCEPT ![r] = "captured_source_gap"]
    /\ gaps' = gaps \union {r}
    /\ Goto(w, "checkpoint")
    /\ UNCHANGED <<job, calendar, facts, observed, local>>

\* recordHistoricalGameMembership, for reused and for new facts alike.
RecordMembership(w) ==
    /\ pc[w] = "membership"
    /\ observed' = observed \union {RaceOf(w)}
    /\ Goto(w, "checkpoint")
    /\ UNCHANGED <<job, calendar, source, facts, gaps, local>>

\* checkpointRace: fenced by the token, writes the in-memory index plus one
\* and leaves next_date alone; the lease is given back.
CheckpointRace(w) ==
    /\ pc[w] = "checkpoint"
    /\ IF HoldsLease(w)
       THEN /\ next_race_index' = seen[w].index + 1
            /\ consecutive_errors' = 0
            /\ ReleaseLease
            /\ Goto(w, "idle")
            /\ UNCHANGED <<status, next_date>>
       ELSE /\ Goto(w, "error")
            /\ UNCHANGED job
    /\ UNCHANGED <<archive, local>>

\* Any call of the step may throw: the provider, the database, the bucket.
Throw(w) ==
    /\ pc[w] \in Leased \ {"error", "empty_limit"}
    /\ Goto(w, "error")
    /\ UNCHANGED <<job, archive, local>>

\* The step's outer catch: fenced by the token; the third failure in a row
\* stops the job, and a retry delay is kept in lease_until without a token.
RecordError(w) ==
    /\ pc[w] \in {"error", "empty_limit"}
    /\ IF HoldsLease(w)
       THEN /\ consecutive_errors' = consecutive_errors + 1
            /\ status' = IF consecutive_errors + 1 >= MaxErrors
                         THEN "failed" ELSE "running"
            /\ lease_token' = NoWorker
            /\ lease_until' \in {"null", "live"}
            /\ UNCHANGED checkpoint
       ELSE UNCHANGED job
    /\ Goto(w, "idle")
    /\ UNCHANGED <<archive, local>>

\* The platform kills an invocation: its memory is gone, the lease stays.
Crash(w) ==
    /\ pc[w] # "idle"
    /\ mishaps < MaxMishaps
    /\ mishaps' = mishaps + 1
    /\ Goto(w, "idle")
    /\ UNCHANGED <<job, archive, seen, skipped>>

Step(w) ==
    \/ AcquireLease(w) \/ ReadCalendar(w) \/ AdvanceDate(w) \/ ReloadJob(w)
    \/ ChooseSource(w) \/ Normalize(w) \/ MarkSourceGap(w)
    \/ RecordMembership(w) \/ CheckpointRace(w) \/ RecordError(w)

Next ==
    \/ StartJob \/ ResumeJob \/ TimePasses
    \/ \E w \in Workers : LoadJob(w) \/ Step(w) \/ Throw(w) \/ Crash(w)

Spec == Init /\ [][Next]_vars

-----------------------------------------------------------------------------
(* Correctness.                                                            *)

\* Every variable stays in its range (one type invariant for the module).
TypeOK ==
    /\ status \in Statuses
    /\ next_date \in Dates
    /\ next_race_index \in 0..MaxRaces
    /\ consecutive_errors \in 0..MaxErrors
    /\ lease_token \in Workers \union {NoWorker}
    /\ lease_until \in {"null", "live", "past"}
    /\ calendar \in [Dates -> 0..MaxRaces \union {Missing}]
    /\ source \in [Races -> Qualities]
    /\ facts \subseteq Races /\ observed \subseteq Races /\ gaps \subseteq Races
    /\ pc \in [Workers -> Leased \union {"idle", "loaded"}]
    /\ seen \in [Workers -> [date: Dates, index: 0..MaxRaces]]
    /\ skipped \in [Workers -> Nat]
    /\ mishaps \in 0..MaxMishaps

\* The races the durable checkpoint has left behind.
Passed(d, i) ==
    \/ d > next_date
    \/ d = next_date /\ i < next_race_index

\* "An explicit resume cannot skip facts": every race the checkpoint has
\* passed has its facts and membership stored, or is a recorded source gap.
PassedRacesHandled ==
    \A d \in JobDates : \A i \in 0..MaxRaces :
        (i < calendar[d] /\ Passed(d, i)) => Handled(<<d, i>>)

\* A job is completed only when each race of each calendar of its range is
\* handled, whoever finished it and however often its lease changed hands.
CompletedIsComplete ==
    status = "completed" =>
        \A d \in JobDates :
            /\ calendar[d] # Missing
            /\ \A i \in 0..MaxRaces : i < calendar[d] => Handled(<<d, i>>)

\* A lease is held on a running job only: an invocation that comes late to a
\* failed or completed job no longer owns the row, and a completed job waits
\* for nothing.
StoppedJobHasNoLease ==
    /\ status # "running" => lease_token = NoWorker
    /\ status = "completed" => lease_until = "null"

\* Running into MAX_EMPTY_DATES_PER_STEP is counted as an error, but never
\* as one that stops the job: the dates passed before it reset the count.
EmptyDatesNeverStopJob ==
    \A w \in Workers :
        pc[w] = "empty_limit" /\ HoldsLease(w) => consecutive_errors = 0

\* Only an invocation whose token is in the row moves the checkpoint, and a
\* completed job is never reopened or rewritten by a late invocation.
CheckpointStep ==
    /\ checkpoint' # checkpoint =>
           \E w \in Workers : HoldsLease(w) /\ pc[w] \in {"advance", "checkpoint"}
    /\ status = "completed" => job' = job
CheckpointFenced == [][CheckpointStep]_vars

\* A one-day job implements DayImport: its checkpoint is only the memory of
\* which races of the listed day are handled.
Day == INSTANCE DayImport WITH
    Unlisted <- Missing,
    phase <- status,
    listed <- calendar[StartDate],
    handled <- {i \in 0..MaxRaces : Handled(<<StartDate, i>>)}
DayRefinement == Day!DaySpec
=============================================================================
