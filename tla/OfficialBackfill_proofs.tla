----------------------- MODULE OfficialBackfill_proofs -----------------------
(***************************************************************************)
(* Proofs about OfficialBackfill, for any set of overlapping invocations,  *)
(* any range of dates, any calendars and any number of errors, kills and   *)
(* overrun leases.  The first part is the inductive invariant of every     *)
(* job; the second part is about the one-day jobs of the daily schedule.   *)
(***************************************************************************)
EXTENDS OfficialBackfill, TLAPS

AtRace == {"source", "normalize", "gap", "membership", "checkpoint"}

\* Only a completed job has walked past the first day of its range.
CursorInRange == status # "completed" => next_date >= StartDate

\* A job that may still be leased is below its error limit.
ErrorsBelowLimit ==
    status \in {"absent", "running"} => consecutive_errors < MaxErrors

\* An invocation that can still write holds a checkpoint inside the range.
WriterInRange ==
    \A w \in Workers :
        pc[w] = "loaded" \/ (pc[w] \in Leased /\ HoldsLease(w))
            => seen[w].date >= StartDate

\* An invocation at work on a race works on one of the archived calendar.
RaceOnCalendar ==
    \A w \in Workers : pc[w] \in AtRace => seen[w].index < calendar[seen[w].date]

\* Passing a date resets the error count while the lease is kept.
CountReset ==
    \A w \in Workers :
        pc[w] \in {"reload", "empty_limit"} /\ HoldsLease(w)
            => consecutive_errors = 0

IInv == /\ TypeOK
        /\ StoppedJobHasNoLease
        /\ CursorInRange
        /\ ErrorsBelowLimit
        /\ WriterInRange
        /\ RaceOnCalendar
        /\ CountReset

LEMMA InitIInv == Init => IInv
  BY RangeAssumption, BoundsAssumption, WorkerAssumption
  DEF Init, IInv, TypeOK, StoppedJobHasNoLease, CursorInRange, ErrorsBelowLimit,
      WriterInRange, RaceOnCalendar, CountReset, HoldsLease, Statuses,
      Dates, Races, Qualities, Missing, Leased, AtRace

LEMMA NextIInv == IInv /\ [Next]_vars => IInv'
<1> SUFFICES ASSUME IInv, [Next]_vars PROVE IInv'
  OBVIOUS
<1> USE RangeAssumption, BoundsAssumption, WorkerAssumption
<1> USE DEF IInv, TypeOK, StoppedJobHasNoLease, CursorInRange, ErrorsBelowLimit,
      WriterInRange, RaceOnCalendar, CountReset, HoldsLease, Statuses,
      Dates, Races, Qualities, Missing, Leased, AtRace, Goto, RaceOf, ReleaseLease,
      checkpoint, lease, job, archive, local
<1>1. CASE StartJob
  BY <1>1 DEF StartJob
<1>2. CASE ResumeJob
  BY <1>2 DEF ResumeJob
<1>3. CASE TimePasses BY <1>3 DEF TimePasses
<1>4. ASSUME NEW w \in Workers, LoadJob(w) PROVE IInv'
  BY <1>4 DEF LoadJob
<1>5. ASSUME NEW w \in Workers, AcquireLease(w) PROVE IInv'
  BY <1>5 DEF AcquireLease, LeaseFree
<1>6. ASSUME NEW w \in Workers, ReadCalendar(w) PROVE IInv'
  BY <1>6 DEF ReadCalendar
<1>7. ASSUME NEW w \in Workers, AdvanceDate(w) PROVE IInv'
  <2>0. HoldsLease(w) => seen[w].date - 1 \in Dates
    BY <1>7 DEF AdvanceDate
  <2>1. TypeOK'
    <3>1. CASE HoldsLease(w)
      <4>1. next_date' = seen[w].date - 1 /\ next_race_index' = 0
            /\ status' \in {"completed", "running"} /\ consecutive_errors' = 0
        BY <1>7, <3>1 DEF AdvanceDate
      <4>2. lease_token' \in Workers \union {NoWorker}
            /\ lease_until' \in {"null", "live", "past"}
        BY <1>7, <3>1 DEF AdvanceDate
      <4>3. pc' \in [Workers -> Leased \union {"idle", "loaded"}]
        BY <1>7, <3>1 DEF AdvanceDate
      <4> QED BY <1>7, <2>0, <3>1, <4>1, <4>2, <4>3 DEF AdvanceDate
    <3>2. CASE ~HoldsLease(w) BY <1>7, <3>2 DEF AdvanceDate
    <3> QED BY <3>1, <3>2
  <2>2. StoppedJobHasNoLease' /\ CursorInRange' /\ ErrorsBelowLimit'
    BY <1>7 DEF AdvanceDate
  <2>3. WriterInRange' BY <1>7 DEF AdvanceDate
  <2>4. RaceOnCalendar' BY <1>7 DEF AdvanceDate
  <2>5. CountReset' BY <1>7 DEF AdvanceDate
  <2> QED BY <2>1, <2>2, <2>3, <2>4, <2>5
<1>8. ASSUME NEW w \in Workers, ReloadJob(w) PROVE IInv'
  <2>1. TypeOK' BY <1>8 DEF ReloadJob
  <2>2. StoppedJobHasNoLease' /\ CursorInRange' /\ ErrorsBelowLimit'
    BY <1>8 DEF ReloadJob
  <2>3. WriterInRange' BY <1>8 DEF ReloadJob
  <2>4. RaceOnCalendar' BY <1>8 DEF ReloadJob
  <2>5. CountReset' BY <1>8 DEF ReloadJob
  <2> QED BY <2>1, <2>2, <2>3, <2>4, <2>5
<1>9. ASSUME NEW w \in Workers, ChooseSource(w) PROVE IInv'
  BY <1>9 DEF ChooseSource
<1>10. ASSUME NEW w \in Workers, Normalize(w) PROVE IInv'
  <2>0. RaceOf(w) \in Races BY <1>10 DEF Normalize
  <2>1. TypeOK'
    <3>1. facts' \subseteq Races BY <1>10, <2>0 DEF Normalize
    <3>2. source' \in [Races -> Qualities] BY <1>10, <2>0 DEF Normalize
    <3>3. pc' \in [Workers -> Leased \union {"idle", "loaded"}]
      BY <1>10 DEF Normalize
    <3> QED BY <1>10, <3>1, <3>2, <3>3 DEF Normalize
  <2>2. StoppedJobHasNoLease' /\ CursorInRange' /\ ErrorsBelowLimit'
    BY <1>10 DEF Normalize
  <2>3. WriterInRange' BY <1>10 DEF Normalize
  <2>4. RaceOnCalendar' BY <1>10 DEF Normalize
  <2>5. CountReset' BY <1>10 DEF Normalize
  <2> QED BY <2>1, <2>2, <2>3, <2>4, <2>5
<1>11. ASSUME NEW w \in Workers, MarkSourceGap(w) PROVE IInv'
  BY <1>11 DEF MarkSourceGap
<1>12. ASSUME NEW w \in Workers, RecordMembership(w) PROVE IInv'
  BY <1>12 DEF RecordMembership
<1>13. ASSUME NEW w \in Workers, CheckpointRace(w) PROVE IInv'
  <2>0. seen[w].index + 1 \in 0..MaxRaces
    <3>1. seen[w] \in [date: Dates, index: 0..MaxRaces] OBVIOUS
    <3>2. calendar[seen[w].date] \in 0..MaxRaces \union {Missing} BY <3>1
    <3>3. seen[w].index < calendar[seen[w].date] BY <1>13 DEF CheckpointRace
    <3> QED BY <3>1, <3>2, <3>3
  <2>1. TypeOK'
    <3>1. pc' \in [Workers -> Leased \union {"idle", "loaded"}]
      BY <1>13 DEF CheckpointRace
    <3>2. next_race_index' \in 0..MaxRaces /\ consecutive_errors' \in 0..MaxErrors
      BY <1>13, <2>0 DEF CheckpointRace
    <3> QED BY <1>13, <3>1, <3>2 DEF CheckpointRace
  <2>2. StoppedJobHasNoLease' /\ CursorInRange' /\ ErrorsBelowLimit'
    BY <1>13 DEF CheckpointRace
  <2>3. WriterInRange' BY <1>13 DEF CheckpointRace
  <2>4. RaceOnCalendar' BY <1>13 DEF CheckpointRace
  <2>5. CountReset' BY <1>13 DEF CheckpointRace
  <2> QED BY <2>1, <2>2, <2>3, <2>4, <2>5
<1>14. ASSUME NEW w \in Workers, Throw(w) PROVE IInv'
  BY <1>14 DEF Throw
<1>15. ASSUME NEW w \in Workers, RecordError(w) PROVE IInv'
  <2>0. HoldsLease(w) => consecutive_errors + 1 \in 0..MaxErrors
    BY <1>15 DEF RecordError
  <2>1. TypeOK'
    <3>1. pc' \in [Workers -> Leased \union {"idle", "loaded"}]
      BY <1>15 DEF RecordError
    <3>2. consecutive_errors' \in 0..MaxErrors BY <1>15, <2>0 DEF RecordError
    <3> QED BY <1>15, <3>1, <3>2 DEF RecordError
  <2>2. StoppedJobHasNoLease' /\ CursorInRange' /\ ErrorsBelowLimit'
    BY <1>15 DEF RecordError
  <2>3. WriterInRange' BY <1>15 DEF RecordError
  <2>4. RaceOnCalendar' BY <1>15 DEF RecordError
  <2>5. CountReset' BY <1>15 DEF RecordError
  <2> QED BY <2>1, <2>2, <2>3, <2>4, <2>5
<1>16. ASSUME NEW w \in Workers, Crash(w) PROVE IInv'
  BY <1>16 DEF Crash
<1>17. CASE UNCHANGED vars BY <1>17 DEF vars
<1> QED
  BY <1>1, <1>2, <1>3, <1>4, <1>5, <1>6, <1>7, <1>8, <1>9, <1>10, <1>11, <1>12,
     <1>13, <1>14, <1>15, <1>16, <1>17 DEF Next, Step

\* Type correctness of every job, for all values of the constants.
THEOREM TypeCorrect == Spec => []TypeOK
<1>1. IInv => TypeOK BY DEF IInv
<1> QED BY <1>1, InitIInv, NextIInv, PTL DEF Spec

THEOREM IInvHolds == Spec => []IInv
BY InitIInv, NextIInv, PTL DEF Spec

\* No invocation holds the lease of a failed, completed or unstarted job.
THEOREM StoppedJobReleased == Spec => []StoppedJobHasNoLease
<1>1. IInv => StoppedJobHasNoLease BY DEF IInv
<1> QED BY <1>1, IInvHolds, PTL

\* Running into MAX_EMPTY_DATES_PER_STEP alone never stops a job.
THEOREM EmptyDatesHarmless == Spec => []EmptyDatesNeverStopJob
<1>1. IInv => EmptyDatesNeverStopJob BY DEF IInv, CountReset, EmptyDatesNeverStopJob
<1> QED BY <1>1, IInvHolds, PTL

\* The checkpoint moves only under the token, and a completed job is final.
THEOREM CheckpointIsFenced == Spec => CheckpointFenced
<1>1. IInv /\ [Next]_vars => [CheckpointStep]_vars
  <2> SUFFICES ASSUME IInv, Next PROVE CheckpointStep
    BY DEF vars
  <2>1. \A w \in Workers : HoldsLease(w) => status = "running"
    BY WorkerAssumption DEF IInv, StoppedJobHasNoLease, HoldsLease
  <2> USE DEF CheckpointStep, checkpoint, lease, job, archive, local, Goto, ReleaseLease
  <2>2. ASSUME NEW w \in Workers, Step(w) PROVE CheckpointStep
    BY <2>1, <2>2 DEF Step, AcquireLease, LeaseFree, ReadCalendar, AdvanceDate,
       ReloadJob, ChooseSource, Normalize, MarkSourceGap, RecordMembership,
       CheckpointRace, RecordError
  <2>3. ASSUME NEW w \in Workers, LoadJob(w) \/ Throw(w) \/ Crash(w)
        PROVE CheckpointStep
    BY <2>3 DEF LoadJob, Throw, Crash
  <2>4. CASE StartJob \/ ResumeJob BY <2>4 DEF StartJob, ResumeJob
  <2>5. CASE TimePasses
    BY <2>5 DEF TimePasses, IInv, StoppedJobHasNoLease
  <2> QED BY <2>2, <2>3, <2>4, <2>5 DEF Next
<1> QED BY <1>1, IInvHolds, PTL DEF Spec, CheckpointFenced

-----------------------------------------------------------------------------
(***************************************************************************)
(* One-day jobs.  An invocation may act on a checkpoint that is out of     *)
(* date, but in a job of one day whatever it read is a position that was   *)
(* reached, so everything before it is handled.                            *)
(***************************************************************************)

HandledBefore(index) ==
    \A i \in 0..MaxRaces :
        i < index => i < calendar[StartDate] /\ Handled(<<StartDate, i>>)

DayHandled == calendar[StartDate] # Missing /\ HandledBefore(calendar[StartDate])

CheckpointSound == next_date = StartDate => HandledBefore(next_race_index)

CompletedSound ==
    /\ next_date < StartDate => status = "completed" /\ DayHandled
    /\ status = "completed" => next_date < StartDate

\* What an invocation relies on: its remembered checkpoint was reached, the
\* race it is about to pass is handled, the list it leaves is exhausted.
InvocationSound(w) ==
    /\ pc[w] # "idle" /\ seen[w].date = StartDate => HandledBefore(seen[w].index)
    /\ pc[w] = "membership" => RaceOf(w) \in facts
    /\ pc[w] = "checkpoint" => Handled(RaceOf(w))
    /\ pc[w] = "advance" => /\ calendar[seen[w].date] # Missing
                            /\ calendar[seen[w].date] <= seen[w].index

DayInv == /\ IInv
          /\ CheckpointSound
          /\ CompletedSound
          /\ \A w \in Workers : InvocationSound(w)

\* Archived calendars and handled races are never taken back.
LEMMA ArchiveGrows ==
    ASSUME IInv, [Next]_vars
    PROVE  /\ \A r : Handled(r) => Handled(r)'
           /\ \A d \in Dates : calendar[d] # Missing => calendar'[d] = calendar[d]
           /\ facts \subseteq facts'
<1> USE DEF Handled, archive, job, local
<1>1. ASSUME NEW w \in Workers, ReadCalendar(w)
      PROVE \A d \in Dates : calendar[d] # Missing => calendar'[d] = calendar[d]
  BY <1>1 DEF ReadCalendar, IInv, TypeOK
<1>2. ASSUME NEW w \in Workers, Step(w)
      PROVE \A d \in Dates : calendar[d] # Missing => calendar'[d] = calendar[d]
  BY <1>1, <1>2 DEF Step, AcquireLease, AdvanceDate,
       ReloadJob, ChooseSource, Normalize, MarkSourceGap, RecordMembership,
       CheckpointRace, RecordError
<1>3. ASSUME NEW w \in Workers, Step(w)
      PROVE facts \subseteq facts' /\ observed \subseteq observed' /\ gaps \subseteq gaps'
  BY <1>3 DEF Step, AcquireLease, ReadCalendar, AdvanceDate,
       ReloadJob, ChooseSource, Normalize, MarkSourceGap, RecordMembership,
       CheckpointRace, RecordError
<1>4. ASSUME Next \/ UNCHANGED vars, \A w \in Workers : ~Step(w) PROVE UNCHANGED archive
  BY <1>4 DEF Next, vars, StartJob, ResumeJob, TimePasses, LoadJob, Throw, Crash
<1> QED BY <1>2, <1>3, <1>4

LEMMA InitDayInv == StartDate = EndDate /\ Init => DayInv
<1> SUFFICES ASSUME StartDate = EndDate, Init PROVE DayInv
  OBVIOUS
<1>1. IInv BY InitIInv
<1>2. HandledBefore(0) BY BoundsAssumption DEF HandledBefore
<1> QED BY <1>1, <1>2, RangeAssumption
        DEF DayInv, Init, CheckpointSound, CompletedSound, InvocationSound

LEMMA NextDayInv == StartDate = EndDate /\ DayInv /\ [Next]_vars => DayInv'
<1> SUFFICES ASSUME StartDate = EndDate, DayInv, [Next]_vars PROVE DayInv'
  OBVIOUS
<1> USE RangeAssumption, BoundsAssumption, WorkerAssumption
<1>1. IInv /\ IInv' BY NextIInv DEF DayInv
<1>0. /\ pc \in [Workers -> Leased \union {"idle", "loaded"}]
      /\ seen \in [Workers -> [date: Dates, index: 0..MaxRaces]]
  BY <1>1 DEF IInv, TypeOK
<1>2. /\ \A r : Handled(r) => Handled(r)'
      /\ \A d \in Dates : calendar[d] # Missing => calendar'[d] = calendar[d]
      /\ facts \subseteq facts'
  BY <1>1, ArchiveGrows
<1>3. StartDate \in Dates BY DEF Dates
<1>4. calendar[StartDate] \in 0..MaxRaces \union {Missing}
  BY <1>1, <1>3 DEF IInv, TypeOK
<1>5. \A n : HandledBefore(n) =>
        \A i \in 0..MaxRaces :
            i < n => i < calendar'[StartDate] /\ Handled(<<StartDate, i>>)'
  BY <1>2, <1>3, <1>4 DEF HandledBefore, Missing
<1>6. DayHandled => DayHandled'
  BY <1>2, <1>3, <1>5 DEF DayHandled, HandledBefore
\* A step that leaves the row's checkpoint and an invocation's memory alone
\* leaves what is handled before them alone.
<1>7. UNCHANGED checkpoint => CheckpointSound'
  BY <1>5 DEF DayInv, CheckpointSound, HandledBefore, checkpoint
<1>8. UNCHANGED <<next_date, status>> => CompletedSound'
  BY <1>6 DEF DayInv, CompletedSound
<1>9. ASSUME NEW v \in Workers, pc'[v] = pc[v], seen'[v] = seen[v]
      PROVE InvocationSound(v)'
  <2>1. seen[v].date \in Dates BY <1>1 DEF IInv, TypeOK
  <2>2. InvocationSound(v) BY DEF DayInv
  <2>3. pc[v] # "idle" /\ seen[v].date = StartDate => HandledBefore(seen[v].index)'
    BY <1>5, <1>9, <2>2 DEF InvocationSound, HandledBefore
  <2> QED BY <1>2, <1>9, <2>1, <2>2, <2>3 DEF InvocationSound, RaceOf
<1>10. ASSUME NEW v \in Workers, pc'[v] = "idle" PROVE InvocationSound(v)'
  BY <1>10 DEF InvocationSound
\* It remains to look at the actor and at what it does to the row.
<1>11. ASSUME NEW w \in Workers, LoadJob(w) \/ Step(w) \/ Throw(w) \/ Crash(w)
       PROVE \A v \in Workers \ {w} : InvocationSound(v)'
  <2>1. \A v \in Workers \ {w} : pc'[v] = pc[v] /\ seen'[v] = seen[v]
    BY <1>1, <1>11 DEF IInv, TypeOK, LoadJob, Step, Throw, Crash, AcquireLease,
       ReadCalendar, AdvanceDate, ReloadJob, ChooseSource, Normalize, MarkSourceGap,
       RecordMembership, CheckpointRace, RecordError, Goto, local
  <2> QED BY <1>9, <2>1
<1> USE DEF job, checkpoint, lease, archive, local, Goto
<1>12. ASSUME NEW w \in Workers, LoadJob(w) PROVE DayInv'
  <2>1. seen'[w].date = next_date /\ seen'[w].index = next_race_index
    BY <1>0, <1>12 DEF LoadJob
  <2>2. UNCHANGED checkpoint BY <1>12 DEF LoadJob
  <2>3. pc'[w] = "loaded" BY <1>0, <1>12 DEF LoadJob
  <2>4. InvocationSound(w)'
    BY <1>7, <2>1, <2>2, <2>3 DEF InvocationSound, CheckpointSound, HandledBefore
  <2> QED BY <1>1, <1>7, <1>8, <1>11, <1>12, <2>4 DEF DayInv, LoadJob
<1>13. ASSUME NEW w \in Workers, ReloadJob(w) PROVE DayInv'
  <2>1. seen'[w].date = next_date /\ seen'[w].index = next_race_index
    BY <1>0, <1>13 DEF ReloadJob
  <2>2. UNCHANGED checkpoint BY <1>13 DEF ReloadJob
  <2>3. pc'[w] \in {"calendar", "empty_limit"} BY <1>0, <1>13 DEF ReloadJob
  <2>4. InvocationSound(w)'
    BY <1>7, <2>1, <2>2, <2>3 DEF InvocationSound, CheckpointSound, HandledBefore
  <2> QED BY <1>1, <1>7, <1>8, <1>11, <1>13, <2>4 DEF DayInv, ReloadJob, Step
\* Steps of an invocation that keep the row's checkpoint and its own memory.
<1>14. ASSUME NEW w \in Workers, pc[w] # "idle", seen'[w] = seen[w],
              pc'[w] \notin {"membership", "checkpoint", "advance"}
       PROVE InvocationSound(w)'
  <2>1. seen[w].date = StartDate => HandledBefore(seen[w].index)'
    BY <1>5, <1>14 DEF DayInv, InvocationSound, HandledBefore
  <2> QED BY <1>14, <2>1 DEF InvocationSound
<1>15. ASSUME NEW w \in Workers, AcquireLease(w) \/ ChooseSource(w) \/ Throw(w)
       PROVE DayInv'
  <2>1. pc[w] # "idle" /\ seen'[w] = seen[w]
        /\ pc'[w] \notin {"membership", "checkpoint", "advance"}
    BY <1>1, <1>15 DEF IInv, TypeOK, AcquireLease, ChooseSource, Throw, Leased
  <2>2. UNCHANGED <<checkpoint, status>>
    BY <1>15 DEF AcquireLease, ChooseSource, Throw
  <2> QED BY <1>1, <1>7, <1>8, <1>11, <1>14, <1>15, <2>1, <2>2 DEF DayInv, Step
<1>16. ASSUME NEW w \in Workers, RecordError(w) \/ Crash(w) PROVE DayInv'
  <2>1. pc'[w] = "idle" BY <1>1, <1>16 DEF IInv, TypeOK, RecordError, Crash
  <2>2. UNCHANGED checkpoint BY <1>16 DEF RecordError, Crash
  <2>3. status' = "completed" <=> status = "completed"
    BY <1>1, <1>16 DEF RecordError, Crash, IInv, StoppedJobHasNoLease, HoldsLease
  <2>4. CompletedSound' BY <1>6, <2>2, <2>3 DEF DayInv, CompletedSound
  <2> QED BY <1>1, <1>7, <1>10, <1>11, <1>16, <2>1, <2>2, <2>4 DEF DayInv, Step
<1>17. CASE StartJob \/ ResumeJob \/ TimePasses
  <2>1. UNCHANGED <<checkpoint, pc, seen>>
    BY <1>17 DEF StartJob, ResumeJob, TimePasses
  <2>2. status' = "completed" <=> status = "completed"
    BY <1>17 DEF StartJob, ResumeJob, TimePasses
  <2>3. CompletedSound' BY <1>6, <2>1, <2>2 DEF DayInv, CompletedSound
  <2> QED BY <1>1, <1>7, <1>9, <2>1, <2>3 DEF DayInv
<1>18. CASE UNCHANGED vars
  <2>1. \A v \in Workers : InvocationSound(v)' BY <1>9, <1>18 DEF vars
  <2>2. UNCHANGED <<checkpoint, next_date, status>> BY <1>18 DEF vars
  <2> QED BY <1>1, <1>7, <1>8, <2>1, <2>2 DEF DayInv
<1>19. ASSUME NEW w \in Workers, ReadCalendar(w) PROVE DayInv'
  <2>1. pc[w] # "idle" /\ seen'[w] = seen[w] /\ UNCHANGED <<checkpoint, status>>
    BY <1>19 DEF ReadCalendar
  <2>2. pc'[w] = "advance" =>
            calendar'[seen[w].date] # Missing /\ calendar'[seen[w].date] <= seen[w].index
    <3>1. PICK n \in 0..MaxRaces :
            /\ calendar' = [calendar EXCEPT ![seen[w].date] = n]
            /\ pc' = [pc EXCEPT ![w] = IF seen[w].index >= n THEN "advance" ELSE "source"]
      BY <1>19 DEF ReadCalendar
    <3>2. seen[w].date \in Dates /\ seen[w].index \in 0..MaxRaces BY <1>0
    <3>3. calendar \in [Dates -> 0..MaxRaces \union {Missing}] BY <1>1 DEF IInv, TypeOK
    <3>4. calendar'[seen[w].date] = n BY <3>1, <3>2, <3>3
    <3> QED BY <1>0, <3>1, <3>2, <3>4 DEF Missing
  <2>3. pc'[w] \in {"advance", "source"} BY <1>0, <1>19 DEF ReadCalendar
  <2>4. seen[w].date = StartDate => HandledBefore(seen[w].index)'
    BY <1>5, <2>1 DEF DayInv, InvocationSound, HandledBefore
  <2>5. InvocationSound(w)' BY <2>1, <2>2, <2>3, <2>4 DEF InvocationSound
  <2> QED BY <1>1, <1>7, <1>8, <1>11, <1>19, <2>1, <2>5 DEF DayInv, Step
<1>20. ASSUME NEW w \in Workers, Normalize(w) PROVE DayInv'
  <2>1. pc[w] # "idle" /\ seen'[w] = seen[w] /\ UNCHANGED <<checkpoint, status>>
    BY <1>20 DEF Normalize
  <2>2. pc'[w] \in {"membership", "gap", "error"} BY <1>0, <1>20 DEF Normalize
  <2>3. pc'[w] = "membership" => RaceOf(w) \in facts'
    BY <1>0, <1>20 DEF Normalize
  <2>4. seen[w].date = StartDate => HandledBefore(seen[w].index)'
    BY <1>5, <2>1 DEF DayInv, InvocationSound, HandledBefore
  <2>5. InvocationSound(w)' BY <2>1, <2>2, <2>3, <2>4 DEF InvocationSound, RaceOf
  <2> QED BY <1>1, <1>7, <1>8, <1>11, <1>20, <2>1, <2>5 DEF DayInv, Step
<1>21. ASSUME NEW w \in Workers, MarkSourceGap(w) \/ RecordMembership(w) PROVE DayInv'
  <2>1. pc[w] # "idle" /\ seen'[w] = seen[w] /\ UNCHANGED <<checkpoint, status>>
    BY <1>21 DEF MarkSourceGap, RecordMembership
  <2>2. pc'[w] = "checkpoint" BY <1>0, <1>21 DEF MarkSourceGap, RecordMembership
  <2>3. Handled(RaceOf(w))'
    BY <1>21, <2>1
       DEF MarkSourceGap, RecordMembership, Handled, DayInv, InvocationSound, RaceOf
  <2>4. seen[w].date = StartDate => HandledBefore(seen[w].index)'
    BY <1>5, <2>1 DEF DayInv, InvocationSound, HandledBefore
  <2>5. InvocationSound(w)' BY <2>1, <2>2, <2>3, <2>4 DEF InvocationSound, RaceOf
  <2> QED BY <1>1, <1>7, <1>8, <1>11, <1>21, <2>1, <2>5 DEF DayInv, Step
\* The two writes of the row.  The writer holds the lease, so its checkpoint
\* is of the one day; what it may not know is how far others have come.
<1>22. ASSUME NEW w \in Workers, pc[w] \in Leased, HoldsLease(w)
       PROVE seen[w].date = StartDate /\ status = "running"
  <2>1. seen[w].date \in Dates BY <1>0
  <2>2. seen[w].date >= StartDate BY <1>1, <1>22 DEF IInv, WriterInRange
  <2>3. seen[w].date = StartDate BY <2>1, <2>2 DEF Dates
  <2> QED BY <1>1, <1>22, <2>3 DEF IInv, StoppedJobHasNoLease, HoldsLease
<1>23. ASSUME NEW w \in Workers, AdvanceDate(w) PROVE DayInv'
  <2>1. CASE HoldsLease(w)
    <3>1. seen[w].date = StartDate BY <1>22, <1>23, <2>1 DEF AdvanceDate, Leased
    <3>2. next_date' = StartDate - 1 /\ status' = "completed"
      BY <1>23, <2>1, <3>1 DEF AdvanceDate
    <3>3. DayHandled
      <4>1. /\ HandledBefore(seen[w].index)
            /\ calendar[StartDate] # Missing
            /\ calendar[StartDate] <= seen[w].index
        BY <1>23, <3>1 DEF AdvanceDate, DayInv, InvocationSound
      <4>2. seen[w].index \in 0..MaxRaces BY <1>0
      <4> QED BY <1>4, <4>1, <4>2 DEF DayHandled, HandledBefore, Missing
    <3>4. CompletedSound' BY <1>6, <3>2, <3>3 DEF CompletedSound
    <3>5. CheckpointSound' BY <3>2 DEF CheckpointSound
    <3>6. pc'[w] = "idle" BY <1>0, <1>23, <2>1, <3>1 DEF AdvanceDate
    <3> QED BY <1>1, <1>10, <1>11, <1>23, <3>4, <3>5, <3>6 DEF DayInv, Step
  <2>2. CASE ~HoldsLease(w)
    <3>1. /\ pc[w] # "idle" /\ pc'[w] = "error" /\ seen'[w] = seen[w]
          /\ UNCHANGED <<checkpoint, status>>
      BY <1>0, <1>23, <2>2 DEF AdvanceDate
    <3> QED BY <1>1, <1>7, <1>8, <1>11, <1>14, <1>23, <3>1 DEF DayInv, Step
  <2> QED BY <2>1, <2>2
<1>24. ASSUME NEW w \in Workers, CheckpointRace(w) PROVE DayInv'
  <2>1. CASE HoldsLease(w)
    <3>1. seen[w].date = StartDate BY <1>22, <1>24, <2>1 DEF CheckpointRace, Leased
    <3>2. /\ next_race_index' = seen[w].index + 1
          /\ UNCHANGED <<archive, status, next_date>>
      BY <1>24, <2>1 DEF CheckpointRace
    <3>3. HandledBefore(seen[w].index + 1)
      <4>1. HandledBefore(seen[w].index) /\ Handled(<<StartDate, seen[w].index>>)
        BY <1>24, <3>1 DEF CheckpointRace, DayInv, InvocationSound, RaceOf
      <4>2. seen[w].index \in 0..MaxRaces BY <1>0
      <4>3. seen[w].index < calendar[StartDate]
        BY <1>1, <1>24, <3>1 DEF CheckpointRace, IInv, RaceOnCalendar, AtRace
      <4> QED BY <4>1, <4>2, <4>3 DEF HandledBefore
    <3>4. CheckpointSound'
      BY <3>2, <3>3 DEF CheckpointSound, HandledBefore, Handled
    <3>5. pc'[w] = "idle" BY <1>0, <1>24, <2>1 DEF CheckpointRace
    <3> QED BY <1>1, <1>8, <1>10, <1>11, <1>24, <3>2, <3>4, <3>5 DEF DayInv, Step
  <2>2. CASE ~HoldsLease(w)
    <3>1. /\ pc[w] # "idle" /\ pc'[w] = "error" /\ seen'[w] = seen[w]
          /\ UNCHANGED <<checkpoint, status>>
      BY <1>0, <1>24, <2>2 DEF CheckpointRace
    <3> QED BY <1>1, <1>7, <1>8, <1>11, <1>14, <1>24, <3>1 DEF DayInv, Step
  <2> QED BY <2>1, <2>2
<1> QED
  BY <1>12, <1>13, <1>15, <1>16, <1>17, <1>18, <1>19, <1>20, <1>21, <1>23, <1>24
  DEF Next, Step

THEOREM DayInvHolds == ASSUME StartDate = EndDate PROVE Spec => []DayInv
BY InitDayInv, NextDayInv, PTL DEF Spec

\* In a one-day job no race is passed before its facts and membership, or its
\* source gap, are stored: for any number of overlapping invocations.
THEOREM DayCheckpointSound ==
    ASSUME StartDate = EndDate PROVE Spec => []PassedRacesHandled
<1>1. DayInv => PassedRacesHandled
  <2> SUFFICES ASSUME DayInv, NEW i \in 0..MaxRaces,
                      i < calendar[StartDate], Passed(StartDate, i)
               PROVE Handled(<<StartDate, i>>)
    BY RangeAssumption DEF PassedRacesHandled, JobDates
  <2>1. next_date \in Dates BY DEF DayInv, IInv, TypeOK
  <2> QED BY <2>1, RangeAssumption
          DEF Passed, DayInv, CheckpointSound, CompletedSound, DayHandled,
              HandledBefore, Dates
<1> QED BY <1>1, DayInvHolds, PTL

\* A completed one-day job has stored every race of its calendar.
THEOREM DayCompletedIsComplete ==
    ASSUME StartDate = EndDate PROVE Spec => []CompletedIsComplete
<1>1. DayInv /\ status = "completed" => next_date < StartDate
  BY DEF DayInv, CompletedSound
<1>2. DayInv => CompletedIsComplete
  BY <1>1, RangeAssumption
  DEF DayInv, CompletedSound, DayHandled, HandledBefore, CompletedIsComplete, JobDates
<1> QED BY <1>2, DayInvHolds, PTL

-----------------------------------------------------------------------------
(* A one-day job implements DayImport.                                     *)

HandledRaces == {i \in 0..MaxRaces : Handled(<<StartDate, i>>)}

\* Every step of a one-day job is a step of DayImport or leaves it alone.
LEMMA DayStep ==
    StartDate = EndDate /\ DayInv /\ [Next]_vars => [Day!DayNext]_(Day!dayVars)
<1> SUFFICES ASSUME StartDate = EndDate, DayInv, [Next]_vars
             PROVE  Day!DayNext \/ UNCHANGED Day!dayVars
  BY DEF vars
<1> USE RangeAssumption, BoundsAssumption, WorkerAssumption
<1> USE DEF Day!DayNext, Day!dayVars, job, checkpoint, lease, archive, local
<1>0. IInv BY DEF DayInv
<1>1. CASE UNCHANGED vars BY <1>1 DEF vars, Handled
<1>2. CASE UNCHANGED <<status, archive>> BY <1>2 DEF Handled
<1>3. CASE StartJob BY <1>3 DEF StartJob, Day!Begin, Handled
<1>4. CASE ResumeJob
  BY <1>0, <1>4 DEF ResumeJob, Day!Begin, Handled, IInv, CursorInRange
<1>5. CASE TimePasses BY <1>2, <1>5 DEF TimePasses
<1>6. ASSUME NEW w \in Workers, LoadJob(w) \/ Throw(w) \/ Crash(w) \/ AcquireLease(w)
                                \/ ReloadJob(w) \/ CheckpointRace(w)
      PROVE Day!DayNext \/ UNCHANGED Day!dayVars
  BY <1>2, <1>6 DEF LoadJob, Throw, Crash, AcquireLease, ReloadJob, CheckpointRace
<1>7. ASSUME NEW w \in Workers, ReadCalendar(w)
      PROVE Day!DayNext \/ UNCHANGED Day!dayVars
  <2>1. calendar \in [Dates -> 0..MaxRaces \union {Missing}] BY <1>0 DEF IInv, TypeOK
  <2>2. StartDate \in Dates BY DEF Dates
  <2>3. PICK n \in 0..MaxRaces : /\ calendar[seen[w].date] \in {Missing, n}
                                 /\ calendar' = [calendar EXCEPT ![seen[w].date] = n]
    BY <1>7 DEF ReadCalendar
  <2>4. UNCHANGED <<status, source, facts, observed, gaps>> BY <1>7 DEF ReadCalendar
  <2>5. CASE seen[w].date = StartDate /\ calendar[StartDate] = Missing
    BY <2>1, <2>2, <2>3, <2>4, <2>5 DEF Day!List, Handled
  <2>6. CASE ~(seen[w].date = StartDate /\ calendar[StartDate] = Missing)
    BY <2>1, <2>2, <2>3, <2>4, <2>6 DEF Handled
  <2> QED BY <2>5, <2>6
<1>8. ASSUME NEW w \in Workers, Normalize(w) \/ MarkSourceGap(w)
                                 \/ RecordMembership(w) \/ ChooseSource(w)
      PROVE Day!DayNext \/ UNCHANGED Day!dayVars
  <2>1. seen[w].index \in 0..MaxRaces BY <1>0 DEF IInv, TypeOK
  <2>2. \A r : r # RaceOf(w) => (Handled(r)' <=> Handled(r))
    BY <1>8 DEF Normalize, MarkSourceGap, RecordMembership, ChooseSource, Handled
  <2>3. \A r : Handled(r) => Handled(r)' BY <1>0, ArchiveGrows
  <2>4. HandledRaces' = HandledRaces \/ HandledRaces' = HandledRaces \union {seen[w].index}
    BY <2>1, <2>2, <2>3 DEF HandledRaces, RaceOf
  <2>5. UNCHANGED <<status, calendar>>
    BY <1>8 DEF Normalize, MarkSourceGap, RecordMembership, ChooseSource
  <2> QED BY <2>1, <2>4, <2>5 DEF Day!Handle, HandledRaces
<1>9. ASSUME NEW w \in Workers, RecordError(w)
      PROVE Day!DayNext \/ UNCHANGED Day!dayVars
  <2>1. HoldsLease(w) => status = "running"
    BY <1>0 DEF IInv, StoppedJobHasNoLease, HoldsLease
  <2>2. UNCHANGED archive BY <1>9 DEF RecordError
  <2>3. status' = status \/ (status = "running" /\ status' = "failed")
    BY <1>9, <2>1 DEF RecordError
  <2> QED BY <1>2, <2>2, <2>3 DEF Day!Stop, Handled
<1>10. ASSUME NEW w \in Workers, AdvanceDate(w)
       PROVE Day!DayNext \/ UNCHANGED Day!dayVars
  <2>1. CASE HoldsLease(w)
    <3>1. status = "running" BY <1>0, <2>1 DEF IInv, StoppedJobHasNoLease, HoldsLease
    <3>2. seen[w].date \in Dates BY <1>0 DEF IInv, TypeOK
    <3>3. seen[w].date = StartDate
      BY <1>0, <1>10, <2>1, <3>2 DEF AdvanceDate, IInv, WriterInRange, Leased, Dates
    <3>4. status' = "completed" /\ UNCHANGED archive
      BY <1>10, <2>1, <3>3 DEF AdvanceDate
    <3>5. next_date' < StartDate BY <1>10, <2>1, <3>3 DEF AdvanceDate
    <3>6. DayInv' BY NextDayInv
    <3>7. DayHandled
      BY <3>4, <3>5, <3>6
      DEF DayInv, CompletedSound, DayHandled, HandledBefore, Handled
    <3> QED BY <3>1, <3>4, <3>7 DEF Day!Complete, DayHandled, HandledBefore, Handled
  <2>2. CASE ~HoldsLease(w) BY <1>2, <1>10, <2>2 DEF AdvanceDate
  <2> QED BY <2>1, <2>2
<1> QED
  BY <1>1, <1>3, <1>4, <1>5, <1>6, <1>7, <1>8, <1>9, <1>10 DEF Next, Step

\* The daily jobs of the schedule keep the promise of DayImport.
THEOREM DayJobImplementsDayImport ==
    ASSUME StartDate = EndDate PROVE Spec => DayRefinement
<1>1. Init => Day!DayInit
  BY RangeAssumption DEF Init, Day!DayInit, Handled, Dates
<1> QED
  BY <1>1, DayStep, DayInvHolds, PTL DEF Spec, DayRefinement, Day!DaySpec
=============================================================================
