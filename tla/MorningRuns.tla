----------------------------- MODULE MorningRuns -----------------------------
(***************************************************************************)
(* Who calls the backfills: handleScheduled, once a morning, and its parts *)
(* runDailyOfficialIncremental and runDailyXlabsIncremental.  A date is    *)
(* served on the Lookback mornings after it and then never again; a part   *)
(* hands out a fixed number of batches among the dates of its window, and  *)
(* a batch is at most Checkpoints steps.  What a step does to its job is   *)
(* in OfficialBackfill and XlabsBackfill; here a batch is one action that  *)
(* says how far it came.                                                   *)
(*                                                                         *)
(* A day that is too long for its mornings is left running with nobody to  *)
(* call it: what the schedule does promise is counted in `owed`.           *)
(***************************************************************************)
EXTENDS Integers

CONSTANTS
    LastDate,           \* bound: the dates whose jobs are followed are 1..LastDate
    Lookback,           \* DAILY_OFFICIAL_LOOKBACK_DAYS, and the X-Labs days
    OfficialRuns,       \* DAILY_OFFICIAL_BATCH_RUNS
    XlabsRuns,          \* DAILY_XLABS_BATCH_RUNS
    Checkpoints,        \* MAX_HISTORICAL_CHECKPOINTS_PER_BATCH, and X-Labs
    MaxErrors,          \* consecutive failures that stop a job
    RaceCounts,         \* bound: Swedish races a calendar may list
    EligibleCounts,     \* bound: races a date's normalized rounds may have
    MaxDisturbances     \* bound: failures, kills, stops and late changes

ASSUME ScheduleAssumption ==
    /\ {LastDate, Lookback, OfficialRuns, XlabsRuns, Checkpoints, MaxErrors} \subseteq Nat \ {0}
    /\ RaceCounts \subseteq Nat /\ EligibleCounts \subseteq Nat
    /\ MaxDisturbances \in Nat

VARIABLES
    today,      \* the date of the latest morning
    part,       \* "night", or where the morning's run stands
    races,      \* date -> races of its archived calendar
    official,   \* date -> the row of its one-day historical_backfill_jobs job
    rounds,     \* date -> what dailyOfficialReadiness says of it
    eligible,   \* date -> races of its normalized V85/V86 rounds
    xlabs,      \* date -> the row of its daily xlabs_backfill_jobs job
    active,     \* the dates the part still gives batches to
    turn,       \* the offset at which the for loop stands
    remaining,  \* batches the part may still run
    cut,        \* dates the part could not serve to the end of their share
    owed,       \* steps the jobs' undisturbed mornings promised (kept for the
                \* properties), [official, xlabs]: date -> steps
    disturbances

jobs == <<official, xlabs>>
data == <<races, rounds, eligible>>
loop == <<active, turn, remaining, cut>>
vars == <<today, part, jobs, data, loop, owed, disturbances>>

\* The first mornings still look at dates whose jobs ended before.
Dates == (2 - Lookback)..LastDate
Window == {d \in Dates : today - Lookback <= d /\ d < today}
Offset(d) == today - d
Fewer(m, n) == IF m <= n THEN m ELSE n
Disturb == disturbances < MaxDisturbances /\ disturbances' = disturbances + 1

\* The batches that the job at an offset is sure of when the for loop hands
\* out a part's runs in turn: the other jobs can only drop out.
Share(offset, runs) == IF offset > runs THEN 0 ELSE (runs - offset) \div Lookback + 1

NoJob == [status |-> "none", index |-> 0, errors |-> 0, processed |-> 0]
FirstJobs == [d \in Dates |-> IF d < 1 THEN [NoJob EXCEPT !.status = "completed"] ELSE NoJob]

Init ==
    /\ today = 1
    /\ part = "night"
    /\ races = [d \in Dates |-> 0]
    /\ official = FirstJobs
    /\ rounds = [d \in Dates |-> IF d < 1 THEN "no_game" ELSE "waiting"]
    /\ eligible = [d \in Dates |-> 0]
    /\ xlabs = FirstJobs
    /\ active = {} /\ turn = 1 /\ remaining = 0 /\ cut = {}
    /\ owed = [official |-> [d \in Dates |-> 0], xlabs |-> [d \in Dates |-> 0]]
    /\ disturbances = 0

-----------------------------------------------------------------------------
(* A batch: steps until the job is done, stops, or has had Checkpoints.    *)

\* A list of n races needs a step for each and one that finds its end.
Batch(job, n) ==
    LET left == n - job.index
    IN  [job EXCEPT !.status = IF left < Checkpoints THEN "completed" ELSE @,
                    !.index = IF left < Checkpoints THEN 0 ELSE @ + Checkpoints,
                    !.errors = 0,
                    !.processed = @ + Fewer(left, Checkpoints)]

\* The batch throws after k steps, or finds the lease taken; a throw counts
\* when the step still owns the row.
BrokenBatches(job, n) ==
    UNION {LET errors == IF k = 0 THEN job.errors ELSE 0
               moved == [job EXCEPT !.index = @ + k, !.errors = errors, !.processed = @ + k]
           IN  {moved,
                [moved EXCEPT !.errors = errors + 1,
                              !.status = IF errors + 1 >= MaxErrors THEN "failed" ELSE @]}
           : k \in 0..Fewer(Checkpoints - 1, n - job.index)}

\* Without its official data a daily job comes no further than it is.
Reachable(d) == IF rounds[d] = "ready" THEN eligible[d] ELSE xlabs[d].index

\* What ensureXlabsDailyDateJob leaves: a missing job is queued, a failed or
\* uncovered one starts again from the first race, its count of races kept.
Restarted(d) ==
    \/ xlabs[d].status = "failed"
    \/ xlabs[d].status = "completed" /\ eligible[d] > xlabs[d].processed
Ensured(d) ==
    IF xlabs[d].status = "none" \/ Restarted(d)
    THEN [xlabs[d] EXCEPT !.status = "running", !.index = 0, !.errors = 0]
    ELSE xlabs[d]
Ensure(D) ==
    /\ xlabs' = [d \in Dates |-> IF d \in D THEN Ensured(d) ELSE xlabs[d]]
    /\ owed' = [owed EXCEPT !.xlabs = [d \in Dates |-> IF d \in D /\ Restarted(d) THEN 0 ELSE @[d]]]

-----------------------------------------------------------------------------
(* Plausible bugs, used only to see that the properties would notice them. *)

\* One job is worked to its end before the next has a batch.
OfficialTurnDrains == CHOOSE d \in active : \A e \in active : Offset(d) <= Offset(e)

\* The first batch that throws ends the part.
XlabsBreaksLoop(d) ==
    /\ part = "xlabs" /\ remaining > 0 /\ d \in Window /\ Offset(d) = turn
    /\ xlabs[d].status = "running"
    /\ Disturb
    /\ \E job \in BrokenBatches(xlabs[d], Reachable(d)) : xlabs' = [xlabs EXCEPT ![d] = job]
    /\ cut' = cut \union {d}
    /\ remaining' = 0 /\ turn' = turn + 1
    /\ UNCHANGED <<today, part, official, data, active, owed>>

\* A date without its official data is waited for without end.
XlabsUnreadyWaits(d) ==
    /\ part = "xlabs" /\ remaining > 0 /\ d \in Window /\ Offset(d) = turn
    /\ xlabs[d].status = "running" /\ rounds[d] = "waiting"
    /\ cut' = IF Offset(d) = 1 THEN cut \union {d} ELSE cut
    /\ remaining' = remaining - 1 /\ turn' = turn + 1
    /\ UNCHANGED <<today, part, jobs, data, active, owed, disturbances>>

-----------------------------------------------------------------------------
(* handleScheduled: the order of the parts, and what stops them.           *)

\* The morning's run comes to the official part: ensureDailyOfficialHistoryJobs
\* adds the missing jobs, and those that run are the ones to serve.
BeginOfficial ==
    LET new == {d \in Window' : official[d].status = "none"}
    IN  /\ part = "night" /\ today <= LastDate
        /\ today' = today + 1
        /\ \E n \in [new -> RaceCounts] :
               races' = [d \in Dates |-> IF d \in new THEN n[d] ELSE races[d]]
        /\ official' = [d \in Dates |-> IF d \in new THEN [NoJob EXCEPT !.status = "running"]
                                                    ELSE official[d]]
        /\ active' = {d \in Window' : official'[d].status = "running"}
        /\ cut' = Window' \ active'
        /\ turn' = 1 /\ remaining' = OfficialRuns
        /\ part' = "official"
        /\ UNCHANGED <<xlabs, rounds, eligible, owed, disturbances>>

\* The parts before it stop the run (the switch is off or cannot be read, the
\* cost limit is passed), or the run does not come at all.
MorningLost ==
    /\ part = "night" /\ today <= LastDate
    /\ Disturb
    /\ today' = today + 1
    /\ UNCHANGED <<part, jobs, data, loop, owed>>

\* The for loop skips what has dropped out and starts over at the newest.
OfficialTurn ==
    LET ahead == {d \in active : Offset(d) >= turn}
        candidates == IF ahead = {} THEN active ELSE ahead
    IN  CHOOSE d \in candidates : \A e \in candidates : Offset(d) <= Offset(e)

\* runHistoricalBackfillBatch for the job whose turn it is; a job that is
\* done leaves the loop.
OfficialBatch(d) ==
    /\ part = "official" /\ remaining > 0
    /\ active # {} /\ d = OfficialTurn
    /\ official' = [official EXCEPT ![d] = Batch(@, races[d])]
    /\ active' = IF official'[d].status = "running" THEN active ELSE active \ {d}
    /\ turn' = Offset(d) + 1 /\ remaining' = remaining - 1
    /\ UNCHANGED <<today, part, xlabs, data, cut, owed, disturbances>>

\* The batch throws or finds the job busy: the job drops out for the morning,
\* the others keep their turns.
OfficialBatchBreaks(d) ==
    /\ part = "official" /\ remaining > 0
    /\ active # {} /\ d = OfficialTurn
    /\ Disturb
    /\ \E job \in BrokenBatches(official[d], races[d]) : official' = [official EXCEPT ![d] = job]
    /\ active' = active \ {d} /\ cut' = cut \union {d}
    /\ turn' = Offset(d) + 1 /\ remaining' = remaining - 1
    /\ UNCHANGED <<today, part, xlabs, data, owed>>

\* The part's runs are used up, or no job is left: also when it reports the
\* failures of its batches, the parts after it follow.
EndOfficial ==
    /\ part = "official"
    /\ remaining = 0 \/ active = {}
    /\ owed' = [owed EXCEPT !.official =
                  [d \in Dates |-> IF d \in Window \ cut
                                   THEN @[d] + Checkpoints * Share(Offset(d), OfficialRuns)
                                   ELSE @[d]]]
    /\ part' = "settlement"
    /\ UNCHANGED <<today, jobs, data, loop, disturbances>>

\* ensureRecentDailyXlabsJobs, newest first, then one batch for each job.
BeginXlabs ==
    /\ part = "settlement"
    /\ Ensure(Window)
    /\ cut' = {d \in Window : xlabs'[d].status # "running"}
    /\ turn' = 1 /\ remaining' = XlabsRuns
    /\ part' = "xlabs"
    /\ UNCHANGED <<today, official, data, active, disturbances>>

\* runXlabsBackfillBatch of a job that no longer runs returns at once.
XlabsIdle(d) ==
    /\ part = "xlabs" /\ remaining > 0 /\ d \in Window /\ Offset(d) = turn
    /\ xlabs[d].status # "running"
    /\ remaining' = remaining - 1 /\ turn' = turn + 1
    /\ UNCHANGED <<today, part, jobs, data, active, cut, owed, disturbances>>

\* Without normalized rounds: yesterday is deferred, an older date is closed.
XlabsUnready(d) ==
    /\ part = "xlabs" /\ remaining > 0 /\ d \in Window /\ Offset(d) = turn
    /\ xlabs[d].status = "running" /\ rounds[d] = "waiting"
    /\ IF Offset(d) = 1
       THEN cut' = cut \union {d} /\ UNCHANGED xlabs
       ELSE /\ xlabs' = [xlabs EXCEPT ![d].status = "completed", ![d].index = 0, ![d].errors = 0]
            /\ UNCHANGED cut
    /\ remaining' = remaining - 1 /\ turn' = turn + 1
    /\ UNCHANGED <<today, part, official, data, active, owed, disturbances>>

\* A date without rounds is passed by the first step, one with rounds by the
\* step that finds the end of its races.
XlabsBatch(d) ==
    /\ part = "xlabs" /\ remaining > 0 /\ d \in Window /\ Offset(d) = turn
    /\ xlabs[d].status = "running"
    /\ rounds[d] = "no_game" \/ (rounds[d] = "ready" /\ eligible[d] > 0)
    /\ xlabs' = [xlabs EXCEPT ![d] = IF rounds[d] = "ready" THEN Batch(@, eligible[d])
                                     ELSE [@ EXCEPT !.status = "completed", !.index = 0, !.errors = 0]]
    /\ remaining' = remaining - 1 /\ turn' = turn + 1
    /\ UNCHANGED <<today, part, official, data, active, cut, owed, disturbances>>

\* The batch throws (as it does for rounds without a linked entry) or finds
\* the job busy; the next job has its batch.
XlabsBatchBreaks(d) ==
    /\ part = "xlabs" /\ remaining > 0 /\ d \in Window /\ Offset(d) = turn
    /\ xlabs[d].status = "running"
    /\ Disturb
    /\ \E job \in BrokenBatches(xlabs[d], Reachable(d)) : xlabs' = [xlabs EXCEPT ![d] = job]
    /\ cut' = cut \union {d}
    /\ remaining' = remaining - 1 /\ turn' = turn + 1
    /\ UNCHANGED <<today, part, official, data, active, owed>>

EndXlabs ==
    /\ part = "xlabs"
    /\ remaining = 0 \/ turn > Lookback
    /\ owed' = [owed EXCEPT !.xlabs =
                  [d \in Dates |-> IF d \in Window \ cut THEN @[d] + Checkpoints ELSE @[d]]]
    /\ part' = "night"
    /\ UNCHANGED <<today, jobs, data, loop, disturbances>>

\* The run is killed, or a stop skips every part that is left.
RunStops ==
    /\ part # "night"
    /\ Disturb
    /\ part' = "night"
    /\ UNCHANGED <<today, jobs, data, loop, owed>>

-----------------------------------------------------------------------------
(* Between the parts and between the mornings.                             *)

Quiet == part \in {"night", "settlement"}

\* The rounds of a date are normalized, or it turns out to have none.
RoundsNormalized(d) ==
    /\ Quiet /\ d <= today /\ rounds[d] = "waiting" /\ eligible[d] = 0
    /\ \/ /\ rounds' = [rounds EXCEPT ![d] = "ready"]
          /\ \E n \in EligibleCounts : eligible' = [eligible EXCEPT ![d] = n]
       \/ rounds' = [rounds EXCEPT ![d] = "no_game"] /\ UNCHANGED eligible
    /\ UNCHANGED <<today, part, jobs, races, loop, owed, disturbances>>

\* Another round of the date is normalized late, or one is captured again and
\* pending until that capture is normalized.
RoundsChange(d) ==
    /\ Quiet /\ d <= today /\ rounds[d] # "waiting"
    /\ Disturb
    /\ \/ /\ \E n \in EligibleCounts : n > eligible[d] /\ eligible' = [eligible EXCEPT ![d] = n]
          /\ rounds' = [rounds EXCEPT ![d] = "ready"]
       \/ rounds' = [rounds EXCEPT ![d] = "waiting"] /\ UNCHANGED eligible
    /\ UNCHANGED <<today, part, jobs, races, loop, owed>>

\* Settlement closes a round and asks for the X-Labs job of its date, which
\* may have left the window: nobody serves what is queued then.
SettlementQueues(d) ==
    /\ Quiet /\ d < today
    /\ xlabs[d].status = "none" \/ Restarted(d)
    /\ Ensure({d})
    /\ UNCHANGED <<today, part, official, data, loop, disturbances>>

Next ==
    \/ BeginOfficial \/ MorningLost \/ EndOfficial \/ BeginXlabs \/ EndXlabs \/ RunStops
    \/ \E d \in Dates :
           \/ OfficialBatch(d) \/ OfficialBatchBreaks(d)
           \/ XlabsIdle(d) \/ XlabsUnready(d) \/ XlabsBatch(d) \/ XlabsBatchBreaks(d)
           \/ RoundsNormalized(d) \/ RoundsChange(d) \/ SettlementQueues(d)

Spec == Init /\ [][Next]_vars

-----------------------------------------------------------------------------
(* Correctness.                                                            *)

\* What the morning promises a date whatever the other dates do - long days,
\* failures, jobs that drop out: each morning that does not break this date's
\* own batches brings it its share of steps, so a day that is still running
\* is longer than what its mornings owed it.
OfficialKeepsUp ==
    part = "night" => \A d \in Dates :
        official[d].status = "running" =>
            owed.official[d] <= official[d].index /\ official[d].index <= races[d]

\* The same for the X-Labs jobs, one batch a morning since the job was queued
\* or started again; one whose official data have not come by the second
\* morning does not run on at all.
XlabsKeepsUp ==
    part = "night" => \A d \in Dates :
        xlabs[d].status = "running" =>
            owed.xlabs[d] <= xlabs[d].index /\ xlabs[d].index <= eligible[d]
=============================================================================
