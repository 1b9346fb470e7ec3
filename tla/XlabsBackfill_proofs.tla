------------------------ MODULE XlabsBackfill_proofs ------------------------
(***************************************************************************)
(* Proofs about XlabsBackfill, for any range of dates, any lists of races,    *)
(* any invocations and callers, and any number of errors, kills and overrun    *)
(* leases.  The first part is the inductive invariant of every job, the       *)
(* second is about historical jobs, the third about daily ones.              *)
(***************************************************************************)
EXTENDS XlabsBackfill, FiniteSetTheorems, TLAPS

Qualities == {"none", "captured", "malformed", "normalized", "gap"}
AtRace == {"context", "source", "normalize", "derive", "complete", "unavailable"}

(***************************************************************************)
(* The conjuncts of TypeOK by what they are about.                            *)
(***************************************************************************)
RowOK ==
    /\ scope \in Scopes
    /\ status \in {"none", "running", "failed", "completed"}
    /\ next_date \in Dates
    /\ next_race_index \in 0..MaxRaces[scope]
    /\ processed_races \in 0..MaxRaces[scope]
    /\ consecutive_errors \in 0..MaxErrors
    /\ lease_token \in Workers \union {NoWorker}
    /\ lease_until \in {"null", "live", "past"}
OfficialOK ==
    /\ readiness \in [Dates -> {"waiting", "ready", "no_game"}]
    /\ eligible \in [Dates -> SUBSET RaceNumbers]
    /\ expired \in BOOLEAN
    /\ changes \in 0..MaxChanges
ArchiveOK ==
    /\ page \subseteq Dates
    /\ telemetry \in [Races -> Qualities]
    /\ derived \subseteq Races /\ absent \subseteq Races
LocalOK ==
    /\ pc \in [Workers -> Leased \union {"idle", "loaded"}]
    /\ seen \in [Workers -> [date : Dates, index : 0..MaxRaces[scope]]]
    /\ race \in [Workers -> RaceNumbers]
    /\ restarting \subseteq Ensurers
    /\ mishaps \in 0..MaxMishaps

\* Only a completed job has walked past its range, only a running one is leased.
RunsInRange ==
    /\ status # "completed" => next_date >= StartDate
    /\ lease_token # NoWorker \/ lease_until # "null" => status = "running"
    /\ \A w \in Workers : seen[w].date >= StartDate

\* A job that runs is below its limit of errors.
ErrorsBelowLimit == status \in {"none", "running"} => consecutive_errors < MaxErrors

\* An invocation at work on a race has found it in the list.
IndexInList == \A w \in Workers : pc[w] \in AtRace => seen[w].index < MaxRaces[scope]

IInv ==
    /\ RowOK /\ OfficialOK /\ ArchiveOK /\ LocalOK
    /\ RunsInRange /\ ErrorsBelowLimit /\ IndexInList

(***************************************************************************)
(* Lemmas.                                                                   *)
(***************************************************************************)
LEMMA ScopeStays ==
  [Next]_vars => scope' = scope /\ RaceNumbers' = RaceNumbers /\ Races' = Races
<1> SUFFICES ASSUME [Next]_vars PROVE scope' = scope
  BY DEF RaceNumbers, Races
<1> QED
  BY DEF Next, Step, vars, job, OfficialReady, OfficialChanges, DateExpires, TimePasses,
         StartHistorical, ResumeHistorical, EnsureDaily, RestartDaily, LoadJob, AcquireLease,
         CheckPrerequisite, DeferJob, CompleteExpired, AdvanceDate, MoveToDate, ReadRaces,
         DateContext, CaptureRace, NormalizeRace, DeriveRace, RecordRace, Throw, RecordError,
         Crash

\* A race of a list lies behind fewer others than there are numbers.
LEMMA PositionBelow ==
  ASSUME NEW n \in Nat, NEW list \in SUBSET (0..(n - 1)), NEW r \in list
  PROVE  Position(r, list) \in Nat /\ Position(r, list) < n
<1> DEFINE before == {q \in list : q < r}
<1>1. r \in Nat /\ r < n /\ r - 1 \in Int BY SMT
<1>2. before \in SUBSET (0..(r - 1))
  <2> SUFFICES ASSUME NEW q \in list, q < r PROVE q \in 0..(r - 1)
    OBVIOUS
  <2> q \in 0..(n - 1) OBVIOUS
  <2> QED BY <1>1
<1>3. IsFiniteSet(0..(r - 1)) /\ Cardinality(0..(r - 1)) = IF 0 > r - 1 THEN 0 ELSE (r - 1) - 0 + 1
  BY <1>1, FS_Interval
<1>4. Cardinality(0..(r - 1)) = r BY <1>1, <1>3
<1>5. IsFiniteSet(before) /\ Cardinality(before) <= Cardinality(0..(r - 1))
  BY <1>2, <1>3, FS_Subset
<1>6. Cardinality(before) \in Nat BY <1>5, FS_CardinalityType
<1> HIDE DEF before
<1>7. Cardinality(before) < n BY <1>1, <1>4, <1>5, <1>6
<1> QED BY <1>6, <1>7 DEF Position, before

LEMMA InitIInv == Init => IInv
<1> SUFFICES ASSUME Init PROVE IInv
  OBVIOUS
<1> USE RangeAssumption, ScopeAssumption, BoundsAssumption, WorkerAssumption DEF Init
<1>1. MaxRaces[scope] \in Nat \ {0} OBVIOUS
<1>2. RowOK BY <1>1 DEF RowOK, Dates
<1>3. OfficialOK
  <2>1. readiness \in [Dates -> {"waiting", "ready", "no_game"}] OBVIOUS
  <2>2. eligible \in [Dates -> SUBSET RaceNumbers] OBVIOUS
  <2>3. changes \in 0..MaxChanges OBVIOUS
  <2>4. expired \in BOOLEAN BY Zenon
  <2> QED BY <2>1, <2>2, <2>3, <2>4 DEF OfficialOK
<1>4. ArchiveOK BY DEF ArchiveOK, Qualities
<1>5. LocalOK BY <1>1 DEF LocalOK, Dates, RaceNumbers, Leased
<1>6. RunsInRange /\ ErrorsBelowLimit /\ IndexInList
  BY DEF RunsInRange, ErrorsBelowLimit, IndexInList, AtRace
<1> QED BY <1>2, <1>3, <1>4, <1>5, <1>6 DEF IInv

LEMMA NextIInv == IInv /\ [Next]_vars => IInv'
<1> SUFFICES ASSUME IInv, [Next]_vars PROVE IInv'
  OBVIOUS
<1> USE RangeAssumption, ScopeAssumption, BoundsAssumption, WorkerAssumption
<1>s. scope' = scope /\ RaceNumbers' = RaceNumbers /\ Races' = Races BY ScopeStays
<1> USE <1>s
<1> USE DEF IInv, RunsInRange, ErrorsBelowLimit, IndexInList,
            Dates, Leased, AtRace, Qualities, Goto, HoldsLease, ReleaseLease,
            FirstDate, OneMore, checkpoint, lease, job, official, archive, local
<1>0. MaxRaces[scope] \in Nat \ {0} BY DEF RowOK
<1>a. \A w \in Workers : RaceOf(w) \in Races BY DEF LocalOK, RaceOf, Races
<1>1. ASSUME NEW d \in Dates, OfficialReady(d) PROVE IInv'
  <2>1. OfficialOK' BY <1>0, <1>1 DEF OfficialReady, OfficialOK
  <2>2. RowOK' /\ ArchiveOK' /\ LocalOK' BY <1>1 DEF OfficialReady, RowOK, ArchiveOK, LocalOK
  <2>3. RunsInRange' /\ ErrorsBelowLimit' BY <1>1 DEF OfficialReady, RowOK, LocalOK
  <2>4. IndexInList' BY <1>0, <1>1 DEF OfficialReady, LocalOK, RowOK
  <2> QED BY <2>1, <2>2, <2>3, <2>4 DEF IInv
<1>2. CASE OfficialChanges
  <2>1. OfficialOK' BY <1>0, <1>2 DEF OfficialChanges, OfficialOK
  <2>2. RowOK' /\ ArchiveOK' /\ LocalOK' BY <1>2 DEF OfficialChanges, RowOK, ArchiveOK, LocalOK
  <2>3. RunsInRange' /\ ErrorsBelowLimit' BY <1>2 DEF OfficialChanges, RowOK, LocalOK
  <2>4. IndexInList' BY <1>0, <1>2 DEF OfficialChanges, LocalOK, RowOK
  <2> QED BY <2>1, <2>2, <2>3, <2>4 DEF IInv
<1>3. CASE DateExpires
  <2>1. OfficialOK' BY <1>0, <1>3 DEF DateExpires, OfficialOK
  <2>2. RowOK' /\ ArchiveOK' /\ LocalOK' BY <1>3 DEF DateExpires, RowOK, ArchiveOK, LocalOK
  <2>3. RunsInRange' /\ ErrorsBelowLimit' BY <1>3 DEF DateExpires, RowOK, LocalOK
  <2>4. IndexInList' BY <1>0, <1>3 DEF DateExpires, LocalOK, RowOK
  <2> QED BY <2>1, <2>2, <2>3, <2>4 DEF IInv
<1>4. CASE TimePasses
  <2>1. RowOK' BY <1>0, <1>4 DEF TimePasses, RowOK
  <2>2. LocalOK' BY <1>0, <1>4 DEF TimePasses, LocalOK
  <2>3. OfficialOK' /\ ArchiveOK' BY <1>4 DEF TimePasses, OfficialOK, ArchiveOK
  <2>4. RunsInRange' /\ ErrorsBelowLimit' BY <1>4 DEF TimePasses, RowOK, LocalOK
  <2>5. IndexInList' BY <1>0, <1>4 DEF TimePasses, LocalOK, RowOK
  <2> QED BY <2>1, <2>2, <2>3, <2>4, <2>5 DEF IInv
<1>5. CASE StartHistorical
  <2>1. RowOK' BY <1>0, <1>5 DEF StartHistorical, RowOK
  <2>2. OfficialOK' /\ ArchiveOK' /\ LocalOK'
    BY <1>5 DEF StartHistorical, OfficialOK, ArchiveOK, LocalOK
  <2>3. RunsInRange' /\ ErrorsBelowLimit' BY <1>5 DEF StartHistorical, RowOK, LocalOK
  <2>4. IndexInList' BY <1>0, <1>5 DEF StartHistorical, LocalOK, RowOK
  <2> QED BY <2>1, <2>2, <2>3, <2>4 DEF IInv
<1>6. CASE ResumeHistorical
  <2>1. RowOK' BY <1>0, <1>6 DEF ResumeHistorical, RowOK
  <2>2. OfficialOK' /\ ArchiveOK' /\ LocalOK'
    BY <1>6 DEF ResumeHistorical, OfficialOK, ArchiveOK, LocalOK
  <2>3. RunsInRange' /\ ErrorsBelowLimit' BY <1>6 DEF ResumeHistorical, RowOK, LocalOK
  <2>4. IndexInList' BY <1>0, <1>6 DEF ResumeHistorical, LocalOK, RowOK
  <2> QED BY <2>1, <2>2, <2>3, <2>4 DEF IInv
<1>7. ASSUME NEW e \in Ensurers, EnsureDaily(e) PROVE IInv'
  <2>1. RowOK' BY <1>0, <1>7 DEF EnsureDaily, RowOK
  <2>2. LocalOK' BY <1>0, <1>7 DEF EnsureDaily, LocalOK
  <2>3. OfficialOK' /\ ArchiveOK' BY <1>7 DEF EnsureDaily, OfficialOK, ArchiveOK
  <2>4. RunsInRange' /\ ErrorsBelowLimit' BY <1>7 DEF EnsureDaily, RowOK, LocalOK
  <2>5. IndexInList' BY <1>0, <1>7 DEF EnsureDaily, LocalOK, RowOK
  <2> QED BY <2>1, <2>2, <2>3, <2>4, <2>5 DEF IInv
<1>8. ASSUME NEW e \in Ensurers, RestartDaily(e) PROVE IInv'
  <2>1. RowOK' BY <1>0, <1>8 DEF RestartDaily, RowOK
  <2>2. LocalOK' BY <1>0, <1>8 DEF RestartDaily, LocalOK
  <2>3. OfficialOK' /\ ArchiveOK' BY <1>8 DEF RestartDaily, OfficialOK, ArchiveOK
  <2>4. RunsInRange' /\ ErrorsBelowLimit' BY <1>8 DEF RestartDaily, RowOK, LocalOK
  <2>5. IndexInList' BY <1>0, <1>8 DEF RestartDaily, LocalOK, RowOK
  <2> QED BY <2>1, <2>2, <2>3, <2>4, <2>5 DEF IInv
<1>9. ASSUME NEW w \in Workers, LoadJob(w) PROVE IInv'
  <2>1. LocalOK' BY <1>0, <1>9 DEF LoadJob, LocalOK, RowOK
  <2>2. RowOK' /\ OfficialOK' /\ ArchiveOK' BY <1>9 DEF LoadJob, RowOK, OfficialOK, ArchiveOK
  <2>3. RunsInRange' /\ ErrorsBelowLimit' BY <1>9 DEF LoadJob, RowOK, LocalOK
  <2>4. IndexInList' BY <1>0, <1>9 DEF LoadJob, LocalOK, RowOK
  <2> QED BY <2>1, <2>2, <2>3, <2>4 DEF IInv
<1>10. ASSUME NEW w \in Workers, AcquireLease(w) PROVE IInv'
  <2>1. RowOK' BY <1>0, <1>10 DEF AcquireLease, RowOK
  <2>2. LocalOK' BY <1>0, <1>10 DEF AcquireLease, LocalOK
  <2>3. OfficialOK' /\ ArchiveOK' BY <1>10 DEF AcquireLease, OfficialOK, ArchiveOK
  <2>4. RunsInRange' /\ ErrorsBelowLimit' BY <1>10 DEF AcquireLease, RowOK, LocalOK
  <2>5. IndexInList' BY <1>0, <1>10 DEF AcquireLease, LocalOK, RowOK
  <2> QED BY <2>1, <2>2, <2>3, <2>4, <2>5 DEF IInv
<1>11. ASSUME NEW w \in Workers, CheckPrerequisite(w) PROVE IInv'
  <2>1. LocalOK' BY <1>0, <1>11 DEF CheckPrerequisite, LocalOK
  <2>2. RowOK' /\ OfficialOK' /\ ArchiveOK'
    BY <1>11 DEF CheckPrerequisite, RowOK, OfficialOK, ArchiveOK
  <2>3. RunsInRange' /\ ErrorsBelowLimit' BY <1>11 DEF CheckPrerequisite, RowOK, LocalOK
  <2>4. IndexInList' BY <1>0, <1>11 DEF CheckPrerequisite, LocalOK, RowOK
  <2> QED BY <2>1, <2>2, <2>3, <2>4 DEF IInv
<1>12. ASSUME NEW w \in Workers, DeferJob(w) PROVE IInv'
  <2>1. RowOK' BY <1>0, <1>12 DEF DeferJob, RowOK
  <2>2. LocalOK' BY <1>0, <1>12 DEF DeferJob, LocalOK
  <2>3. OfficialOK' /\ ArchiveOK' BY <1>12 DEF DeferJob, OfficialOK, ArchiveOK
  <2>4. RunsInRange' /\ ErrorsBelowLimit' BY <1>12 DEF DeferJob, RowOK, LocalOK
  <2>5. IndexInList' BY <1>0, <1>12 DEF DeferJob, LocalOK, RowOK
  <2> QED BY <2>1, <2>2, <2>3, <2>4, <2>5 DEF IInv
<1>13. ASSUME NEW w \in Workers, CompleteExpired(w) PROVE IInv'
  <2>1. RowOK' BY <1>0, <1>13 DEF CompleteExpired, MoveToDate, RowOK, LocalOK
  <2>2. LocalOK' BY <1>0, <1>13 DEF CompleteExpired, MoveToDate, LocalOK
  <2>3. OfficialOK' /\ ArchiveOK'
    BY <1>13 DEF CompleteExpired, MoveToDate, OfficialOK, ArchiveOK
  <2>4. RunsInRange' /\ ErrorsBelowLimit'
    BY <1>13 DEF CompleteExpired, MoveToDate, RowOK, LocalOK
  <2>5. IndexInList' BY <1>0, <1>13 DEF CompleteExpired, MoveToDate, LocalOK, RowOK
  <2> QED BY <2>1, <2>2, <2>3, <2>4, <2>5 DEF IInv
<1>14. ASSUME NEW w \in Workers, AdvanceDate(w) PROVE IInv'
  <2>1. RowOK' BY <1>0, <1>14 DEF AdvanceDate, MoveToDate, RowOK, LocalOK
  <2>2. LocalOK' BY <1>0, <1>14 DEF AdvanceDate, MoveToDate, LocalOK
  <2>3. OfficialOK' /\ ArchiveOK' BY <1>14 DEF AdvanceDate, MoveToDate, OfficialOK, ArchiveOK
  <2>4. RunsInRange' /\ ErrorsBelowLimit' BY <1>14 DEF AdvanceDate, MoveToDate, RowOK, LocalOK
  <2>5. IndexInList' BY <1>0, <1>14 DEF AdvanceDate, MoveToDate, LocalOK, RowOK
  <2> QED BY <2>1, <2>2, <2>3, <2>4, <2>5 DEF IInv
<1>15. ASSUME NEW w \in Workers, ReadRaces(w) PROVE IInv'
  <2>a. ASSUME NEW r \in eligible[seen[w].date], Position(r, eligible[seen[w].date]) = seen[w].index
        PROVE  r \in RaceNumbers /\ seen[w].index < MaxRaces[scope]
    BY <1>0, <2>a, PositionBelow DEF LocalOK, OfficialOK, RaceNumbers
  <2>1. LocalOK' BY <1>0, <1>15, <2>a DEF ReadRaces, LocalOK
  <2>2. RowOK' /\ OfficialOK' /\ ArchiveOK' BY <1>15 DEF ReadRaces, RowOK, OfficialOK, ArchiveOK
  <2>3. RunsInRange' /\ ErrorsBelowLimit' BY <1>15 DEF ReadRaces, RowOK, LocalOK
  <2>4. IndexInList' BY <1>0, <1>15, <2>a DEF ReadRaces, LocalOK, RowOK
  <2> QED BY <2>1, <2>2, <2>3, <2>4 DEF IInv
<1>16. ASSUME NEW w \in Workers, DateContext(w) PROVE IInv'
  <2>a. page' \subseteq Dates
    <3>1. seen[w].date \in Dates BY DEF LocalOK
    <3> QED BY <1>16, <3>1 DEF DateContext, ArchiveOK
  <2>1. ArchiveOK' BY <1>0, <1>16, <2>a, <1>a DEF DateContext, ArchiveOK
  <2>2. LocalOK' BY <1>0, <1>16, <2>a DEF DateContext, LocalOK
  <2>3. RowOK' /\ OfficialOK' BY <1>16 DEF DateContext, RowOK, OfficialOK
  <2>4. RunsInRange' /\ ErrorsBelowLimit' BY <1>16 DEF DateContext, RowOK, LocalOK
  <2>5. IndexInList' BY <1>0, <1>16, <2>a DEF DateContext, LocalOK, RowOK
  <2> QED BY <2>1, <2>2, <2>3, <2>4, <2>5 DEF IInv
<1>17. ASSUME NEW w \in Workers, CaptureRace(w) PROVE IInv'
  <2>a. telemetry[RaceOf(w)] \in Qualities BY <1>a DEF ArchiveOK
  <2>1. ArchiveOK' BY <1>0, <1>17, <2>a, <1>a DEF CaptureRace, ArchiveOK
  <2>2. LocalOK' BY <1>0, <1>17, <2>a DEF CaptureRace, LocalOK
  <2>3. RowOK' /\ OfficialOK' BY <1>17 DEF CaptureRace, RowOK, OfficialOK
  <2>4. RunsInRange' /\ ErrorsBelowLimit' BY <1>17 DEF CaptureRace, RowOK, LocalOK
  <2>5. IndexInList' BY <1>0, <1>17, <2>a DEF CaptureRace, LocalOK, RowOK
  <2> QED BY <2>1, <2>2, <2>3, <2>4, <2>5 DEF IInv
<1>18. ASSUME NEW w \in Workers, NormalizeRace(w) PROVE IInv'
  <2>1. ArchiveOK' BY <1>0, <1>18, <1>a DEF NormalizeRace, ArchiveOK
  <2>2. LocalOK' BY <1>0, <1>18 DEF NormalizeRace, LocalOK
  <2>3. RowOK' /\ OfficialOK' BY <1>18 DEF NormalizeRace, RowOK, OfficialOK
  <2>4. RunsInRange' /\ ErrorsBelowLimit' BY <1>18 DEF NormalizeRace, RowOK, LocalOK
  <2>5. IndexInList' BY <1>0, <1>18 DEF NormalizeRace, LocalOK, RowOK
  <2> QED BY <2>1, <2>2, <2>3, <2>4, <2>5 DEF IInv
<1>19. ASSUME NEW w \in Workers, DeriveRace(w) PROVE IInv'
  <2>1. ArchiveOK' BY <1>0, <1>19, <1>a DEF DeriveRace, ArchiveOK
  <2>2. LocalOK' BY <1>0, <1>19 DEF DeriveRace, LocalOK
  <2>3. RowOK' /\ OfficialOK' BY <1>19 DEF DeriveRace, RowOK, OfficialOK
  <2>4. RunsInRange' /\ ErrorsBelowLimit' BY <1>19 DEF DeriveRace, RowOK, LocalOK
  <2>5. IndexInList' BY <1>0, <1>19 DEF DeriveRace, LocalOK, RowOK
  <2> QED BY <2>1, <2>2, <2>3, <2>4, <2>5 DEF IInv
<1>20. ASSUME NEW w \in Workers, RecordRace(w) PROVE IInv'
  <2>1. RowOK' BY <1>0, <1>20 DEF RecordRace, RowOK, LocalOK
  <2>2. LocalOK' BY <1>0, <1>20 DEF RecordRace, LocalOK
  <2>3. OfficialOK' /\ ArchiveOK' BY <1>20 DEF RecordRace, OfficialOK, ArchiveOK
  <2>4. RunsInRange' /\ ErrorsBelowLimit' BY <1>20 DEF RecordRace, RowOK, LocalOK
  <2>5. IndexInList' BY <1>0, <1>20 DEF RecordRace, LocalOK, RowOK
  <2> QED BY <2>1, <2>2, <2>3, <2>4, <2>5 DEF IInv
<1>21. ASSUME NEW w \in Workers, Throw(w) PROVE IInv'
  <2>1. LocalOK' BY <1>0, <1>21 DEF Throw, LocalOK
  <2>2. RowOK' /\ OfficialOK' /\ ArchiveOK' BY <1>21 DEF Throw, RowOK, OfficialOK, ArchiveOK
  <2>3. RunsInRange' /\ ErrorsBelowLimit' BY <1>21 DEF Throw, RowOK, LocalOK
  <2>4. IndexInList' BY <1>0, <1>21 DEF Throw, LocalOK, RowOK
  <2> QED BY <2>1, <2>2, <2>3, <2>4 DEF IInv
<1>22. ASSUME NEW w \in Workers, RecordError(w) PROVE IInv'
  <2>1. RowOK' BY <1>0, <1>22 DEF RecordError, RowOK
  <2>2. LocalOK' BY <1>0, <1>22 DEF RecordError, LocalOK
  <2>3. OfficialOK' /\ ArchiveOK' BY <1>22 DEF RecordError, OfficialOK, ArchiveOK
  <2>4. RunsInRange' /\ ErrorsBelowLimit' BY <1>22 DEF RecordError, RowOK, LocalOK
  <2>5. IndexInList' BY <1>0, <1>22 DEF RecordError, LocalOK, RowOK
  <2> QED BY <2>1, <2>2, <2>3, <2>4, <2>5 DEF IInv
<1>23. ASSUME NEW w \in Workers, Crash(w) PROVE IInv'
  <2>1. LocalOK' BY <1>0, <1>23 DEF Crash, LocalOK
  <2>2. RowOK' /\ OfficialOK' /\ ArchiveOK' BY <1>23 DEF Crash, RowOK, OfficialOK, ArchiveOK
  <2>3. RunsInRange' /\ ErrorsBelowLimit' BY <1>23 DEF Crash, RowOK, LocalOK
  <2>4. IndexInList' BY <1>0, <1>23 DEF Crash, LocalOK, RowOK
  <2> QED BY <2>1, <2>2, <2>3, <2>4 DEF IInv
<1>24. CASE UNCHANGED vars
  BY <1>24 DEF vars, RowOK, OfficialOK, ArchiveOK, LocalOK
<1> QED BY <1>1, <1>2, <1>3, <1>4, <1>5, <1>6, <1>7, <1>8, <1>9, <1>10, <1>11, <1>12, <1>13,
       <1>14, <1>15, <1>16, <1>17, <1>18, <1>19, <1>20, <1>21, <1>22, <1>23, <1>24
     DEF Next, Step

(* Every variable of an X-Labs job stays in its range: its checkpoint inside   *)
(* the range of dates and the list of races, its errors within the limit.      *)
THEOREM TypeCorrect == Spec => []TypeOK
<1>1. IInv => TypeOK
  BY DEF IInv, RowOK, OfficialOK, ArchiveOK, LocalOK, Qualities, TypeOK
<1> QED BY InitIInv, NextIInv, <1>1, PTL DEF Spec

(***************************************************************************)
(* Historical jobs.  No date lies above the checkpoint without its official   *)
(* import, an invocation knows as much of the dates above the one it read,    *)
(* and past the prerequisite it knows it of its own date too: what it writes   *)
(* when it advances is covered, however late it writes.                       *)
(***************************************************************************)
AfterAnswer == AtRace \union {"races", "advance"}

\* Only daily jobs expire, are reopened, or find that there is no game.
DailyOnly ==
    /\ ~expired /\ restarting = {}
    /\ \A d \in Dates : readiness[d] # "no_game"
    /\ \A w \in Workers : pc[w] # "expire"

PassedReady == \A d \in StartDate..EndDate : next_date < d => readiness[d] = "ready"

WorkedReady ==
    \A w \in Workers :
        /\ \A d \in StartDate..EndDate : seen[w].date < d => readiness[d] = "ready"
        /\ pc[w] \in AfterAnswer => readiness[seen[w].date] = "ready"

HistoricalInv == scope = "historical" => DailyOnly /\ PassedReady /\ WorkedReady

LEMMA InitHistoricalInv == Init => HistoricalInv
<1> SUFFICES ASSUME Init, scope = "historical" PROVE DailyOnly /\ PassedReady /\ WorkedReady
  BY DEF HistoricalInv
<1> USE RangeAssumption DEF Init
<1>1. DailyOnly BY DEF DailyOnly
<1>2. PassedReady BY DEF PassedReady
<1>3. WorkedReady BY DEF WorkedReady, AfterAnswer, AtRace
<1> QED BY <1>1, <1>2, <1>3

LEMMA NextHistoricalInv == IInv /\ HistoricalInv /\ [Next]_vars => HistoricalInv'
<1> SUFFICES ASSUME IInv, HistoricalInv, [Next]_vars, scope = "historical"
             PROVE  DailyOnly' /\ PassedReady' /\ WorkedReady'
  BY ScopeStays DEF HistoricalInv
<1>s. scope' = scope /\ RaceNumbers' = RaceNumbers /\ Races' = Races BY ScopeStays
<1>h. DailyOnly /\ PassedReady /\ WorkedReady BY DEF HistoricalInv
<1> USE RangeAssumption, <1>s, <1>h DEF Dates, Leased, AtRace, AfterAnswer, Goto,
        HoldsLease, ReleaseLease, FirstDate, checkpoint, lease, job, official, archive, local
<1>t. /\ readiness \in [Dates -> {"waiting", "ready", "no_game"}]
      /\ pc \in [Workers -> Leased \union {"idle", "loaded"}]
      /\ seen \in [Workers -> [date : Dates, index : 0..MaxRaces[scope]]]
      /\ next_date \in Dates
      /\ \A w \in Workers : seen[w].date >= StartDate
  BY DEF IInv, RowOK, OfficialOK, LocalOK, RunsInRange
<1>1. ASSUME NEW d \in Dates, OfficialReady(d) PROVE DailyOnly' /\ PassedReady' /\ WorkedReady'
  <2>1. DailyOnly' BY <1>1, <1>t DEF OfficialReady, DailyOnly
  <2>2. PassedReady' BY <1>1, <1>t DEF OfficialReady, PassedReady
  <2>3. WorkedReady' BY <1>1, <1>t DEF OfficialReady, WorkedReady
  <2> QED BY <2>1, <2>2, <2>3
<1>2. CASE OfficialChanges
  BY <1>2 DEF OfficialChanges
<1>3. CASE DateExpires
  BY <1>3 DEF DateExpires
<1>4. CASE TimePasses
  <2>1. DailyOnly' BY <1>4, <1>t DEF TimePasses, DailyOnly
  <2>2. PassedReady' BY <1>4, <1>t DEF TimePasses, PassedReady
  <2>3. WorkedReady' BY <1>4, <1>t DEF TimePasses, WorkedReady
  <2> QED BY <2>1, <2>2, <2>3
<1>5. CASE StartHistorical
  <2>1. DailyOnly' BY <1>5, <1>t DEF StartHistorical, DailyOnly
  <2>2. PassedReady' BY <1>5, <1>t DEF StartHistorical, PassedReady
  <2>3. WorkedReady' BY <1>5, <1>t DEF StartHistorical, WorkedReady
  <2> QED BY <2>1, <2>2, <2>3
<1>6. CASE ResumeHistorical
  <2>1. DailyOnly' BY <1>6, <1>t DEF ResumeHistorical, DailyOnly
  <2>2. PassedReady' BY <1>6, <1>t DEF ResumeHistorical, PassedReady
  <2>3. WorkedReady' BY <1>6, <1>t DEF ResumeHistorical, WorkedReady
  <2> QED BY <2>1, <2>2, <2>3
<1>7. ASSUME NEW e \in Ensurers, EnsureDaily(e) PROVE FALSE
  BY <1>7 DEF EnsureDaily, DailyOnly
<1>8. ASSUME NEW e \in Ensurers, RestartDaily(e) PROVE FALSE
  BY <1>8 DEF RestartDaily, DailyOnly
<1>9. ASSUME NEW w \in Workers, LoadJob(w) PROVE DailyOnly' /\ PassedReady' /\ WorkedReady'
  <2>1. DailyOnly' BY <1>9, <1>t DEF LoadJob, DailyOnly
  <2>2. PassedReady' BY <1>9, <1>t DEF LoadJob, PassedReady
  <2>3. WorkedReady' BY <1>9, <1>t DEF LoadJob, WorkedReady, PassedReady
  <2> QED BY <2>1, <2>2, <2>3
<1>10. ASSUME NEW w \in Workers, AcquireLease(w) PROVE DailyOnly' /\ PassedReady' /\ WorkedReady'
  <2>1. DailyOnly' BY <1>10, <1>t DEF AcquireLease, DailyOnly
  <2>2. PassedReady' BY <1>10, <1>t DEF AcquireLease, PassedReady
  <2>3. WorkedReady' BY <1>10, <1>t DEF AcquireLease, WorkedReady
  <2> QED BY <2>1, <2>2, <2>3
<1>11. ASSUME NEW w \in Workers, CheckPrerequisite(w) PROVE DailyOnly' /\ PassedReady' /\ WorkedReady'
  <2>1. DailyOnly' BY <1>11, <1>t DEF CheckPrerequisite, DailyOnly
  <2>2. PassedReady' BY <1>11, <1>t DEF CheckPrerequisite, PassedReady
  <2>3. WorkedReady' BY <1>11, <1>t DEF CheckPrerequisite, WorkedReady, DailyOnly
  <2> QED BY <2>1, <2>2, <2>3
<1>12. ASSUME NEW w \in Workers, DeferJob(w) PROVE DailyOnly' /\ PassedReady' /\ WorkedReady'
  <2>1. DailyOnly' BY <1>12, <1>t DEF DeferJob, DailyOnly
  <2>2. PassedReady' BY <1>12, <1>t DEF DeferJob, PassedReady
  <2>3. WorkedReady' BY <1>12, <1>t DEF DeferJob, WorkedReady
  <2> QED BY <2>1, <2>2, <2>3
<1>13. ASSUME NEW w \in Workers, CompleteExpired(w) PROVE FALSE
  BY <1>13 DEF CompleteExpired, MoveToDate, DailyOnly
<1>14. ASSUME NEW w \in Workers, AdvanceDate(w) PROVE DailyOnly' /\ PassedReady' /\ WorkedReady'
  <2>1. DailyOnly' BY <1>14, <1>t DEF AdvanceDate, MoveToDate, DailyOnly
  <2>2. PassedReady' BY <1>14, <1>t DEF AdvanceDate, MoveToDate, PassedReady, WorkedReady
  <2>3. WorkedReady' BY <1>14, <1>t DEF AdvanceDate, MoveToDate, WorkedReady
  <2> QED BY <2>1, <2>2, <2>3
<1>15. ASSUME NEW w \in Workers, ReadRaces(w) PROVE DailyOnly' /\ PassedReady' /\ WorkedReady'
  <2>1. DailyOnly' BY <1>15, <1>t DEF ReadRaces, DailyOnly
  <2>2. PassedReady' BY <1>15, <1>t DEF ReadRaces, PassedReady
  <2>3. WorkedReady' BY <1>15, <1>t DEF ReadRaces, WorkedReady
  <2> QED BY <2>1, <2>2, <2>3
<1>16. ASSUME NEW w \in Workers, DateContext(w) PROVE DailyOnly' /\ PassedReady' /\ WorkedReady'
  <2>1. DailyOnly' BY <1>16, <1>t DEF DateContext, DailyOnly
  <2>2. PassedReady' BY <1>16, <1>t DEF DateContext, PassedReady
  <2>3. WorkedReady' BY <1>16, <1>t DEF DateContext, WorkedReady
  <2> QED BY <2>1, <2>2, <2>3
<1>17. ASSUME NEW w \in Workers, CaptureRace(w) PROVE DailyOnly' /\ PassedReady' /\ WorkedReady'
  <2>q. telemetry[RaceOf(w)] \in Qualities
    BY DEF IInv, LocalOK, ArchiveOK, RaceOf, Races
  <2>1. DailyOnly' BY <1>17, <2>q, <1>t DEF CaptureRace, DailyOnly, Qualities
  <2>2. PassedReady' BY <1>17, <1>t DEF CaptureRace, PassedReady
  <2>3. WorkedReady' BY <1>17, <1>t DEF CaptureRace, WorkedReady
  <2> QED BY <2>1, <2>2, <2>3
<1>18. ASSUME NEW w \in Workers, NormalizeRace(w) PROVE DailyOnly' /\ PassedReady' /\ WorkedReady'
  <2>1. DailyOnly' BY <1>18, <1>t DEF NormalizeRace, DailyOnly
  <2>2. PassedReady' BY <1>18, <1>t DEF NormalizeRace, PassedReady
  <2>3. WorkedReady' BY <1>18, <1>t DEF NormalizeRace, WorkedReady
  <2> QED BY <2>1, <2>2, <2>3
<1>19. ASSUME NEW w \in Workers, DeriveRace(w) PROVE DailyOnly' /\ PassedReady' /\ WorkedReady'
  <2>1. DailyOnly' BY <1>19, <1>t DEF DeriveRace, DailyOnly
  <2>2. PassedReady' BY <1>19, <1>t DEF DeriveRace, PassedReady
  <2>3. WorkedReady' BY <1>19, <1>t DEF DeriveRace, WorkedReady
  <2> QED BY <2>1, <2>2, <2>3
<1>20. ASSUME NEW w \in Workers, RecordRace(w) PROVE DailyOnly' /\ PassedReady' /\ WorkedReady'
  <2>1. DailyOnly' BY <1>20, <1>t DEF RecordRace, DailyOnly
  <2>2. PassedReady' BY <1>20, <1>t DEF RecordRace, PassedReady
  <2>3. WorkedReady' BY <1>20, <1>t DEF RecordRace, WorkedReady
  <2> QED BY <2>1, <2>2, <2>3
<1>21. ASSUME NEW w \in Workers, Throw(w) PROVE DailyOnly' /\ PassedReady' /\ WorkedReady'
  <2>1. DailyOnly' BY <1>21, <1>t DEF Throw, DailyOnly
  <2>2. PassedReady' BY <1>21, <1>t DEF Throw, PassedReady
  <2>3. WorkedReady' BY <1>21, <1>t DEF Throw, WorkedReady
  <2> QED BY <2>1, <2>2, <2>3
<1>22. ASSUME NEW w \in Workers, RecordError(w) PROVE DailyOnly' /\ PassedReady' /\ WorkedReady'
  <2>1. DailyOnly' BY <1>22, <1>t DEF RecordError, DailyOnly
  <2>2. PassedReady' BY <1>22, <1>t DEF RecordError, PassedReady
  <2>3. WorkedReady' BY <1>22, <1>t DEF RecordError, WorkedReady
  <2> QED BY <2>1, <2>2, <2>3
<1>23. ASSUME NEW w \in Workers, Crash(w) PROVE DailyOnly' /\ PassedReady' /\ WorkedReady'
  <2>1. DailyOnly' BY <1>23, <1>t DEF Crash, DailyOnly
  <2>2. PassedReady' BY <1>23, <1>t DEF Crash, PassedReady
  <2>3. WorkedReady' BY <1>23, <1>t DEF Crash, WorkedReady
  <2> QED BY <2>1, <2>2, <2>3
<1>24. CASE UNCHANGED vars
  BY <1>24 DEF vars, DailyOnly, PassedReady, WorkedReady
<1> QED BY <1>1, <1>2, <1>3, <1>4, <1>5, <1>6, <1>7, <1>8, <1>9, <1>10, <1>11, <1>12, <1>13,
       <1>14, <1>15, <1>16, <1>17, <1>18, <1>19, <1>20, <1>21, <1>22, <1>23, <1>24
     DEF Next, Step

(* The telemetry of a historical job never outruns the official import: every   *)
(* date its checkpoint has passed was ready, whatever overlapping invocations,   *)
(* crashes, overrun leases and resumptions did in between.                       *)
THEOREM HistoricalFollowsOfficial == Spec => []NeverOutrunsOfficial
<1>1. HistoricalInv => NeverOutrunsOfficial
  BY DEF HistoricalInv, PassedReady, NeverOutrunsOfficial
<1> QED BY InitIInv, NextIInv, InitHistoricalInv, NextHistoricalInv, <1>1, PTL DEF Spec

(***************************************************************************)
(* Daily jobs whose official data have not changed since the first answer.    *)
(* Every cursor, stored or remembered, has only handled races before it, and  *)
(* the count of processed races is still zero while the date waits and as     *)
(* long as no X-Labs page of it has been seen: whoever may write that the job *)
(* is completed has either covered the list or leaves a count below it.       *)
(***************************************************************************)
DailyUnchanged == scope = "daily" /\ changes = 0
List == eligible[EndDate]
HandledBefore(i) == \A r \in List : Position(r, List) < i => Handled(<<EndDate, r>>)
CoveredOrCounted ==
    (\A r \in List : Handled(<<EndDate, r>>)) \/ Cardinality(List) > processed_races

\* A daily job has one date.
OneDate ==
    /\ status # "completed" => next_date = EndDate
    /\ \A w \in Workers : seen[w].date = EndDate

\* Before the official answer nothing has been listed, walked or counted.
NothingBeforeAnswer ==
    /\ readiness[EndDate] # "ready" => List = {}
    /\ readiness[EndDate] = "waiting" =>
           /\ processed_races = 0 /\ next_race_index = 0
           /\ \A w \in Workers : seen[w].index = 0
    /\ \A w \in Workers : pc[w] \in AtRace \union {"races"} => readiness[EndDate] = "ready"

\* Nothing is counted without an archived page of the date.
CountedHasPage ==
    /\ processed_races > 0 => EndDate \in page
    /\ \A w \in Workers : pc[w] \in AtRace \ {"context"} => EndDate \in page

CursorsCovered ==
    /\ HandledBefore(next_race_index)
    /\ \A w \in Workers :
        /\ HandledBefore(seen[w].index)
        /\ pc[w] \in AtRace => race[w] \in List /\ Position(race[w], List) = seen[w].index
        /\ pc[w] \in {"complete", "unavailable"} => Handled(RaceOf(w))

\* Who is about to complete the job, and a job that is completed.
ClosersKnow ==
    /\ \A w \in Workers : HoldsLease(w) =>
           /\ pc[w] = "advance" => CoveredOrCounted
           /\ pc[w] = "expire" => processed_races = 0
    /\ status = "completed" => CoveredOrCounted

DailyFacts == OneDate /\ NothingBeforeAnswer /\ CountedHasPage /\ CursorsCovered /\ ClosersKnow
DailyInv == DailyUnchanged => DailyFacts

\* The races before a race, and the race itself, are races of the list.
LEMMA PositionOrders ==
  ASSUME NEW n \in Nat, NEW list \in SUBSET (0..(n - 1)), NEW r \in list
  PROVE  /\ Position(r, list) \in Nat /\ Cardinality(list) \in Nat
         /\ Position(r, list) < Cardinality(list)
         /\ \A s \in list : r < s => Position(r, list) < Position(s, list)
<1> DEFINE before(s) == {q \in list : q < s}
<1>1. IsFiniteSet(list)
  <2>1. IsFiniteSet(0..(n - 1)) BY FS_Interval
  <2> QED BY <2>1, FS_Subset
<1>2. \A s \in list : before(s) \subseteq list /\ IsFiniteSet(before(s))
  BY <1>1, FS_Subset
<1>3. r \in Int /\ r \notin before(r)
  <2>1. r \in 0..(n - 1) OBVIOUS
  <2> QED BY <2>1
<1>4. /\ IsFiniteSet(before(r) \union {r})
      /\ Cardinality(before(r) \union {r}) = Cardinality(before(r)) + 1
      /\ Cardinality(before(r)) \in Nat
  BY <1>2, <1>3, FS_AddElement, FS_CardinalityType
<1>5. Cardinality(before(r)) + 1 <= Cardinality(list) /\ Cardinality(list) \in Nat
  <2>1. before(r) \union {r} \subseteq list OBVIOUS
  <2>2. Cardinality(before(r) \union {r}) <= Cardinality(list) BY <2>1, <1>1, FS_Subset
  <2>3. Cardinality(list) \in Nat BY <1>1, FS_CardinalityType
  <2> QED BY <2>2, <2>3, <1>4
<1>6. ASSUME NEW s \in list, r < s PROVE Cardinality(before(r)) < Cardinality(before(s))
  <2>1. s \in Int
    <3>1. s \in 0..(n - 1) OBVIOUS
    <3> QED BY <3>1
  <2>2. before(r) \union {r} \subseteq before(s)
    <3> SUFFICES ASSUME NEW q \in before(r) \union {r} PROVE q \in before(s)
      OBVIOUS
    <3>1. q \in list /\ q \in 0..(n - 1) OBVIOUS
    <3> QED BY <3>1, <1>3, <2>1, <1>6
  <2>3. Cardinality(before(r) \union {r}) <= Cardinality(before(s)) /\ Cardinality(before(s)) \in Nat
    BY <2>2, <1>2, FS_Subset, FS_CardinalityType
  <2> QED BY <2>3, <1>4
<1> HIDE DEF before
<1>7. \A s : Position(s, list) = Cardinality(before(s)) BY DEF Position, before
<1> QED BY <1>4, <1>5, <1>6, <1>7

LEMMA HandledStays ==
  IInv /\ [Next]_vars => \A r \in Races : Handled(r) => Handled(r)'
<1> SUFFICES ASSUME IInv, [Next]_vars, NEW r \in Races, Handled(r) PROVE Handled(r)'
  OBVIOUS
<1>t. telemetry \in [Races -> Qualities] BY DEF IInv, ArchiveOK
<1> USE <1>t DEF Handled, Goto, archive
<1>1. ASSUME NEW w \in Workers, CaptureRace(w) PROVE Handled(r)'
  BY <1>1 DEF CaptureRace
<1>2. ASSUME NEW w \in Workers, NormalizeRace(w) PROVE Handled(r)'
  BY <1>2 DEF NormalizeRace
<1>3. ASSUME NEW w \in Workers, DeriveRace(w) PROVE Handled(r)'
  BY <1>3 DEF DeriveRace
<1>4. ASSUME NEW w \in Workers, DateContext(w) PROVE Handled(r)'
  BY <1>4 DEF DateContext
<1>5. CASE archive' = archive
  BY <1>5
<1> QED BY <1>1, <1>2, <1>3, <1>4, <1>5
      DEF Next, Step, vars, OfficialReady, OfficialChanges, DateExpires, TimePasses,
          StartHistorical, ResumeHistorical, EnsureDaily, RestartDaily, LoadJob, AcquireLease,
          CheckPrerequisite, DeferJob, CompleteExpired, AdvanceDate, ReadRaces, RecordRace,
          Throw, RecordError, Crash

LEMMA InitDailyInv == Init => DailyInv
<1> SUFFICES ASSUME Init, DailyUnchanged
             PROVE  DailyFacts
  BY DEF DailyInv
<1> USE RangeAssumption, WorkerAssumption DEF Init
<1>1. EndDate \in Dates BY DEF Dates
<1>2. List = {} BY <1>1 DEF List
<1>3. OneDate BY DEF OneDate
<1>4. NothingBeforeAnswer BY <1>1, <1>2 DEF NothingBeforeAnswer, AtRace
<1>5. CountedHasPage BY DEF CountedHasPage, AtRace
<1>6. CursorsCovered BY <1>2 DEF CursorsCovered, HandledBefore, AtRace
<1>7. ClosersKnow BY DEF ClosersKnow, HoldsLease
<1> QED BY <1>3, <1>4, <1>5, <1>6, <1>7 DEF DailyFacts

LEMMA NextDailyInv == IInv /\ DailyInv /\ [Next]_vars => DailyInv'
<1> SUFFICES ASSUME IInv, DailyInv, [Next]_vars, DailyUnchanged'
             PROVE  DailyFacts'
  BY DEF DailyInv
<1>s. scope' = scope /\ RaceNumbers' = RaceNumbers /\ Races' = Races BY ScopeStays
<1>u. scope = "daily" /\ changes = 0 /\ ~OfficialChanges
  <2>1. changes \in Nat BY BoundsAssumption DEF IInv, OfficialOK
  <2>2. changes' \in {changes, changes + 1} /\ (OfficialChanges => changes' = changes + 1)
    BY DEF Next, Step, vars, official, OfficialReady, OfficialChanges, DateExpires, TimePasses,
         StartHistorical, ResumeHistorical, EnsureDaily, RestartDaily, LoadJob, AcquireLease,
         CheckPrerequisite, DeferJob, CompleteExpired, AdvanceDate, MoveToDate, ReadRaces,
         DateContext, CaptureRace, NormalizeRace, DeriveRace, RecordRace, Throw, RecordError,
         Crash
  <2> QED BY <1>s, <2>1, <2>2 DEF DailyUnchanged
<1>h. OneDate /\ NothingBeforeAnswer /\ CountedHasPage /\ CursorsCovered /\ ClosersKnow
  BY <1>u DEF DailyInv, DailyUnchanged, DailyFacts
<1>n. MaxRaces[scope] \in Nat \ {0} BY BoundsAssumption DEF IInv, RowOK
<1>t. /\ EndDate \in Dates /\ EndDate \in Int
      /\ readiness \in [Dates -> {"waiting", "ready", "no_game"}]
      /\ eligible \in [Dates -> SUBSET RaceNumbers]
      /\ List \in SUBSET (0..(MaxRaces[scope] - 1)) /\ List \subseteq RaceNumbers
      /\ pc \in [Workers -> Leased \union {"idle", "loaded"}]
      /\ seen \in [Workers -> [date : Dates, index : 0..MaxRaces[scope]]]
      /\ race \in [Workers -> RaceNumbers]
      /\ processed_races \in Nat /\ next_race_index \in Nat
      /\ telemetry \in [Races -> Qualities]
  BY RangeAssumption, <1>n DEF IInv, RowOK, OfficialOK, ArchiveOK, LocalOK, Dates, List, RaceNumbers
<1>r. /\ lease_token # NoWorker => status = "running"
      /\ status \in {"none", "running", "failed", "completed"}
      /\ NoWorker \notin Workers /\ page \subseteq Dates
  BY WorkerAssumption DEF IInv, RunsInRange, RowOK, ArchiveOK
<1>k. \A r \in List : Handled(<<EndDate, r>>) => Handled(<<EndDate, r>>)'
  BY <1>t, HandledStays DEF Races
<1>p. \A r \in List : /\ Position(r, List) \in Nat /\ Cardinality(List) \in Nat
                      /\ Position(r, List) < Cardinality(List)
                      /\ \A q \in List : r < q => Position(r, List) < Position(q, List)
  BY <1>n, <1>t, PositionOrders
<1>w. \A w \in Workers : RaceOf(w) = <<EndDate, race[w]>> /\ RaceOf(w) \in Races
  BY <1>h, <1>t DEF OneDate, RaceOf, Races
<1> USE <1>s, <1>u, <1>h, <1>t, <1>r DEF HoldsLease, Goto, ReleaseLease, FirstDate, Leased, AtRace,
        checkpoint, lease, job, official, archive, local
<1>1. ASSUME NEW d \in Dates, OfficialReady(d) PROVE DailyFacts'
  <2>1. OneDate' BY <1>1 DEF OfficialReady, OneDate
  <2>2. NothingBeforeAnswer' BY <1>1 DEF OfficialReady, NothingBeforeAnswer, OneDate, List
  <2>3. CountedHasPage' BY <1>1 DEF OfficialReady, CountedHasPage, OneDate
  <2>a. d = EndDate BY <1>1, RangeAssumption DEF OfficialReady, Dates
  <2>b. /\ List = {} /\ processed_races = 0 /\ next_race_index = 0
        /\ \A w \in Workers : seen[w].index = 0 /\ pc[w] \notin AtRace \union {"races"}
    BY <1>1, <2>a DEF OfficialReady, NothingBeforeAnswer
  <2>c. List' \in SUBSET (0..(MaxRaces[scope] - 1))
    BY <1>1, <2>a, <1>n DEF OfficialReady, List, RaceNumbers
  <2>d. \A r \in List' : Position(r, List') \in Nat /\ Cardinality(List') \in Nat
                           /\ Position(r, List') < Cardinality(List')
    BY <2>c, <1>n, PositionOrders
  <2>e. /\ next_race_index' = next_race_index /\ processed_races' = processed_races
        /\ pc' = pc /\ seen' = seen /\ race' = race /\ status' = status /\ lease_token' = lease_token
    BY <1>1 DEF OfficialReady
  <2>f. CoveredOrCounted'
    BY <2>b, <2>d, <2>e DEF CoveredOrCounted
  <2>4. CursorsCovered'
    <3>1. HandledBefore(0)' BY <2>d DEF HandledBefore
    <3>2. HandledBefore(next_race_index)' BY <3>1, <2>b, <2>e DEF HandledBefore
    <3>3. \A w \in Workers : HandledBefore(seen[w].index)' BY <3>1, <2>b, <2>e DEF HandledBefore
    <3>4. \A w \in Workers : pc'[w] \notin AtRace BY <2>b, <2>e
    <3> QED BY <3>2, <3>3, <3>4 DEF CursorsCovered
  <2>5. ClosersKnow' BY <2>e, <2>f DEF ClosersKnow
  <2> QED BY <2>1, <2>2, <2>3, <2>4, <2>5 DEF DailyFacts
<1>2. CASE TimePasses
  <2>a. List' = List BY <1>2 DEF TimePasses, List
  <2>1. OneDate' BY <1>2 DEF TimePasses, OneDate
  <2>2. NothingBeforeAnswer' BY <1>2, <2>a DEF TimePasses, NothingBeforeAnswer, OneDate
  <2>3. CountedHasPage' BY <1>2 DEF TimePasses, CountedHasPage, OneDate
  <2>4. CursorsCovered'
    BY <1>2, <2>a, <1>k, <1>p, <1>w DEF TimePasses, CursorsCovered, HandledBefore, RaceOf,
      Handled, OneDate
  <2>5. ClosersKnow' BY <1>2, <2>a, <1>k, <1>p, <1>w DEF TimePasses, ClosersKnow, CoveredOrCounted
  <2> QED BY <2>1, <2>2, <2>3, <2>4, <2>5 DEF DailyFacts
<1>3. CASE DateExpires
  <2>a. List' = List BY <1>3 DEF DateExpires, List
  <2>1. OneDate' BY <1>3 DEF DateExpires, OneDate
  <2>2. NothingBeforeAnswer' BY <1>3, <2>a DEF DateExpires, NothingBeforeAnswer, OneDate
  <2>3. CountedHasPage' BY <1>3 DEF DateExpires, CountedHasPage, OneDate
  <2>4. CursorsCovered'
    BY <1>3, <2>a, <1>k, <1>p, <1>w DEF DateExpires, CursorsCovered, HandledBefore, RaceOf,
      Handled, OneDate
  <2>5. ClosersKnow' BY <1>3, <2>a, <1>k, <1>p, <1>w DEF DateExpires, ClosersKnow, CoveredOrCounted
  <2> QED BY <2>1, <2>2, <2>3, <2>4, <2>5 DEF DailyFacts
<1>4. ASSUME NEW e \in Ensurers, EnsureDaily(e) PROVE DailyFacts'
  <2>a. List' = List BY <1>4 DEF EnsureDaily, List
  <2>1. OneDate' BY <1>4 DEF EnsureDaily, OneDate
  <2>2. NothingBeforeAnswer' BY <1>4, <2>a DEF EnsureDaily, NothingBeforeAnswer, OneDate
  <2>3. CountedHasPage' BY <1>4 DEF EnsureDaily, CountedHasPage, OneDate
  <2>4. CursorsCovered'
    BY <1>4, <2>a, <1>k, <1>p, <1>w DEF EnsureDaily, CursorsCovered, HandledBefore, RaceOf,
      Handled, OneDate
  <2>5. ClosersKnow' BY <1>4, <2>a, <1>k, <1>p, <1>w DEF EnsureDaily, ClosersKnow, CoveredOrCounted
  <2> QED BY <2>1, <2>2, <2>3, <2>4, <2>5 DEF DailyFacts
<1>5. ASSUME NEW e \in Ensurers, RestartDaily(e) PROVE DailyFacts'
  <2>a. List' = List BY <1>5 DEF RestartDaily, List
  <2>1. OneDate' BY <1>5 DEF RestartDaily, OneDate
  <2>2. NothingBeforeAnswer' BY <1>5, <2>a DEF RestartDaily, NothingBeforeAnswer, OneDate
  <2>3. CountedHasPage' BY <1>5 DEF RestartDaily, CountedHasPage, OneDate
  <2>4. CursorsCovered'
    BY <1>5, <2>a, <1>k, <1>p, <1>w DEF RestartDaily, CursorsCovered, HandledBefore, RaceOf,
      Handled, OneDate
  <2>5. ClosersKnow' BY <1>5, <2>a, <1>k, <1>p, <1>w DEF RestartDaily, ClosersKnow, CoveredOrCounted
  <2> QED BY <2>1, <2>2, <2>3, <2>4, <2>5 DEF DailyFacts
<1>6. ASSUME NEW w \in Workers, LoadJob(w) PROVE DailyFacts'
  <2>a. List' = List BY <1>6 DEF LoadJob, List
  <2>1. OneDate' BY <1>6 DEF LoadJob, OneDate
  <2>2. NothingBeforeAnswer' BY <1>6, <2>a DEF LoadJob, NothingBeforeAnswer, OneDate
  <2>3. CountedHasPage' BY <1>6 DEF LoadJob, CountedHasPage, OneDate
  <2>4. CursorsCovered'
    BY <1>6, <2>a, <1>k, <1>p, <1>w DEF LoadJob, CursorsCovered, HandledBefore, RaceOf, Handled,
      OneDate
  <2>5. ClosersKnow' BY <1>6, <2>a, <1>k, <1>p, <1>w DEF LoadJob, ClosersKnow, CoveredOrCounted
  <2> QED BY <2>1, <2>2, <2>3, <2>4, <2>5 DEF DailyFacts
<1>7. ASSUME NEW w \in Workers, AcquireLease(w) PROVE DailyFacts'
  <2>a. List' = List BY <1>7 DEF AcquireLease, List
  <2>1. OneDate' BY <1>7 DEF AcquireLease, OneDate
  <2>2. NothingBeforeAnswer' BY <1>7, <2>a DEF AcquireLease, NothingBeforeAnswer, OneDate
  <2>3. CountedHasPage' BY <1>7 DEF AcquireLease, CountedHasPage, OneDate
  <2>4. CursorsCovered'
    BY <1>7, <2>a, <1>k, <1>p, <1>w DEF AcquireLease, CursorsCovered, HandledBefore, RaceOf,
      Handled, OneDate
  <2>5. ClosersKnow' BY <1>7, <2>a, <1>k, <1>p, <1>w DEF AcquireLease, ClosersKnow, CoveredOrCounted
  <2> QED BY <2>1, <2>2, <2>3, <2>4, <2>5 DEF DailyFacts
<1>8. ASSUME NEW w \in Workers, CheckPrerequisite(w) PROVE DailyFacts'
  <2>a. List' = List BY <1>8 DEF CheckPrerequisite, List
  <2>1. OneDate' BY <1>8 DEF CheckPrerequisite, OneDate
  <2>2. NothingBeforeAnswer' BY <1>8, <2>a DEF CheckPrerequisite, NothingBeforeAnswer, OneDate
  <2>3. CountedHasPage' BY <1>8 DEF CheckPrerequisite, CountedHasPage, OneDate
  <2>4. CursorsCovered'
    BY <1>8, <2>a, <1>k, <1>p, <1>w DEF CheckPrerequisite, CursorsCovered, HandledBefore, RaceOf,
      Handled, OneDate
  <2>b. /\ readiness[EndDate] = "no_game" => CoveredOrCounted
        /\ readiness[EndDate] = "waiting" => processed_races = 0
    BY DEF NothingBeforeAnswer, CoveredOrCounted
  <2>c. CoveredOrCounted' <=> CoveredOrCounted
    BY <1>8, <2>a DEF CheckPrerequisite, CoveredOrCounted, Handled
  <2>5. ClosersKnow' BY <1>8, <2>b, <2>c DEF CheckPrerequisite, ClosersKnow, OneDate
  <2> QED BY <2>1, <2>2, <2>3, <2>4, <2>5 DEF DailyFacts
<1>9. ASSUME NEW w \in Workers, DeferJob(w) PROVE DailyFacts'
  <2>a. List' = List BY <1>9 DEF DeferJob, List
  <2>1. OneDate' BY <1>9 DEF DeferJob, OneDate
  <2>2. NothingBeforeAnswer' BY <1>9, <2>a DEF DeferJob, NothingBeforeAnswer, OneDate
  <2>3. CountedHasPage' BY <1>9 DEF DeferJob, CountedHasPage, OneDate
  <2>4. CursorsCovered'
    BY <1>9, <2>a, <1>k, <1>p, <1>w DEF DeferJob, CursorsCovered, HandledBefore, RaceOf, Handled,
      OneDate
  <2>5. ClosersKnow' BY <1>9, <2>a, <1>k, <1>p, <1>w DEF DeferJob, ClosersKnow, CoveredOrCounted
  <2> QED BY <2>1, <2>2, <2>3, <2>4, <2>5 DEF DailyFacts
<1>10. ASSUME NEW w \in Workers, CompleteExpired(w) PROVE DailyFacts'
  <2>a. List' = List BY <1>10 DEF CompleteExpired, MoveToDate, List
  <2>1. OneDate' BY <1>10 DEF CompleteExpired, MoveToDate, OneDate
  <2>2. NothingBeforeAnswer'
    BY <1>10, <2>a DEF CompleteExpired, MoveToDate, NothingBeforeAnswer, OneDate
  <2>3. CountedHasPage' BY <1>10 DEF CompleteExpired, MoveToDate, CountedHasPage, OneDate
  <2>4. CursorsCovered'
    BY <1>10, <2>a, <1>k, <1>p, <1>w DEF CompleteExpired, MoveToDate, CursorsCovered,
      HandledBefore, RaceOf, Handled, OneDate
  <2>5. ClosersKnow'
    BY <1>10, <2>a, <1>k, <1>p, <1>w DEF CompleteExpired, MoveToDate, ClosersKnow, CoveredOrCounted
  <2> QED BY <2>1, <2>2, <2>3, <2>4, <2>5 DEF DailyFacts
<1>11. ASSUME NEW w \in Workers, AdvanceDate(w) PROVE DailyFacts'
  <2>a. List' = List BY <1>11 DEF AdvanceDate, MoveToDate, List
  <2>1. OneDate' BY <1>11 DEF AdvanceDate, MoveToDate, OneDate
  <2>2. NothingBeforeAnswer'
    BY <1>11, <2>a DEF AdvanceDate, MoveToDate, NothingBeforeAnswer, OneDate
  <2>3. CountedHasPage' BY <1>11 DEF AdvanceDate, MoveToDate, CountedHasPage, OneDate
  <2>4. CursorsCovered'
    BY <1>11, <2>a, <1>k, <1>p, <1>w DEF AdvanceDate, MoveToDate, CursorsCovered, HandledBefore,
      RaceOf, Handled, OneDate
  <2>5. ClosersKnow'
    BY <1>11, <2>a, <1>k, <1>p, <1>w DEF AdvanceDate, MoveToDate, ClosersKnow, CoveredOrCounted
  <2> QED BY <2>1, <2>2, <2>3, <2>4, <2>5 DEF DailyFacts
<1>12. ASSUME NEW w \in Workers, ReadRaces(w) PROVE DailyFacts'
  <2>a. List' = List BY <1>12 DEF ReadRaces, List
  <2>1. OneDate' BY <1>12 DEF ReadRaces, OneDate
  <2>2. NothingBeforeAnswer' BY <1>12, <2>a DEF ReadRaces, NothingBeforeAnswer, OneDate
  <2>3. CountedHasPage' BY <1>12 DEF ReadRaces, CountedHasPage, OneDate
  <2>b. /\ seen' = seen /\ UNCHANGED job /\ UNCHANGED archive
        /\ \A x \in Workers \ {w} : pc'[x] = pc[x] /\ race'[x] = race[x]
    BY <1>12 DEF ReadRaces
  <2>c. eligible[seen[w].date] = List /\ seen[w].index \in Nat BY <1>n DEF OneDate, List
  <2>d. pc'[w] \in {"error", "advance"} \/ (pc'[w] = "context" /\ race'[w] \in List
                                             /\ Position(race'[w], List) = seen[w].index)
    BY <1>12, <2>c DEF ReadRaces
  <2>e. \A i : HandledBefore(i)' <=> HandledBefore(i)
    BY <2>a, <2>b DEF HandledBefore, Handled
  <2>4. CursorsCovered'
    <3>1. HandledBefore(next_race_index)' BY <2>b, <2>e DEF CursorsCovered
    <3>2. ASSUME NEW x \in Workers
          PROVE  /\ HandledBefore(seen[x].index)'
                 /\ pc'[x] \in AtRace => race'[x] \in List' /\ Position(race'[x], List') = seen'[x].index
                 /\ pc'[x] \in {"complete", "unavailable"} => Handled(RaceOf(x))'
      <4>1. HandledBefore(seen[x].index)' BY <2>b, <2>e DEF CursorsCovered
      <4>2. CASE x = w BY <4>1, <4>2, <2>a, <2>b, <2>d
      <4>3. CASE x # w BY <4>1, <4>3, <2>a, <2>b DEF CursorsCovered, RaceOf, Handled
      <4> QED BY <4>2, <4>3
    <3> QED BY <3>1, <3>2 DEF CursorsCovered
  <2>f. pc'[w] = "advance" => CoveredOrCounted
    <3>1. pc'[w] = "advance" => seen[w].index >= Cardinality(List)
      BY <1>12, <2>c DEF ReadRaces
    <3>2. HandledBefore(seen[w].index) BY DEF CursorsCovered
    <3>3. SUFFICES ASSUME pc'[w] = "advance", NEW r \in List PROVE Handled(<<EndDate, r>>)
      BY DEF CoveredOrCounted
    <3>4. Position(r, List) < seen[w].index BY <3>1, <3>3, <2>c, <1>p
    <3> QED BY <3>2, <3>4 DEF HandledBefore
  <2>g. CoveredOrCounted' <=> CoveredOrCounted BY <2>a, <2>b DEF CoveredOrCounted, Handled
  <2>5. ClosersKnow'
    <3>1. pc'[w] # "expire" BY <2>d
    <3> QED BY <2>b, <2>f, <2>g, <3>1 DEF ClosersKnow
  <2> QED BY <2>1, <2>2, <2>3, <2>4, <2>5 DEF DailyFacts
<1>13. ASSUME NEW w \in Workers, DateContext(w) PROVE DailyFacts'
  <2>a. List' = List BY <1>13 DEF DateContext, List
  <2>1. OneDate' BY <1>13 DEF DateContext, OneDate
  <2>2. NothingBeforeAnswer' BY <1>13, <2>a DEF DateContext, NothingBeforeAnswer, OneDate
  <2>3. CountedHasPage' BY <1>13 DEF DateContext, CountedHasPage, OneDate
  <2>4. CursorsCovered'
    BY <1>13, <2>a, <1>k, <1>p, <1>w DEF DateContext, CursorsCovered, HandledBefore, RaceOf,
      Handled, OneDate
  <2>b. pc'[w] = "advance" => EndDate \notin page
    BY <1>13 DEF DateContext, OneDate
  <2>c. race[w] \in List BY <1>13 DEF DateContext, CursorsCovered
  <2>d. pc'[w] = "advance" => CoveredOrCounted
    <3>0. /\ Position(race[w], List) \in Nat /\ Cardinality(List) \in Nat
          /\ Position(race[w], List) < Cardinality(List)
      BY ONLY <2>c, <1>p
    <3>1. Cardinality(List) > 0 BY ONLY <3>0
    <3> QED BY <2>b, <3>1 DEF CoveredOrCounted, CountedHasPage
  <2>e. CoveredOrCounted' <=> CoveredOrCounted
    BY <1>13, <2>a DEF DateContext, CoveredOrCounted, Handled
  <2>5. ClosersKnow' BY <1>13, <2>d, <2>e DEF DateContext, ClosersKnow
  <2> QED BY <2>1, <2>2, <2>3, <2>4, <2>5 DEF DailyFacts
<1>14. ASSUME NEW w \in Workers, CaptureRace(w) PROVE DailyFacts'
  <2>a. List' = List BY <1>14 DEF CaptureRace, List
  <2>1. OneDate' BY <1>14 DEF CaptureRace, OneDate
  <2>2. NothingBeforeAnswer' BY <1>14, <2>a DEF CaptureRace, NothingBeforeAnswer, OneDate
  <2>3. CountedHasPage' BY <1>14 DEF CaptureRace, CountedHasPage, OneDate
  <2>b. /\ seen' = seen /\ race' = race /\ UNCHANGED job
        /\ \A x \in Workers \ {w} : pc'[x] = pc[x]
        /\ pc[w] = "source" /\ pc'[w] \in {"normalize", "derive", "unavailable"}
    BY <1>14, <1>w DEF CaptureRace, Qualities
  <2>c. pc'[w] = "unavailable" => Handled(RaceOf(w))'
    BY <1>14, <1>w DEF CaptureRace, Handled, RaceOf, Qualities
  <2>d. \A x \in Workers : Handled(RaceOf(x)) => Handled(RaceOf(x))'
    BY <2>b, <1>w, HandledStays DEF RaceOf
  <2>e. \A i : HandledBefore(i) => HandledBefore(i)'
    BY <2>a, <1>k DEF HandledBefore
  <2>4. CursorsCovered'
    <3>1. HandledBefore(next_race_index)' BY <2>b, <2>e DEF CursorsCovered
    <3>2. ASSUME NEW x \in Workers
          PROVE  /\ HandledBefore(seen[x].index)'
                 /\ pc'[x] \in AtRace => race'[x] \in List' /\ Position(race'[x], List') = seen'[x].index
                 /\ pc'[x] \in {"complete", "unavailable"} => Handled(RaceOf(x))'
      <4>1. HandledBefore(seen[x].index)' BY <2>b, <2>e DEF CursorsCovered
      <4>2. CASE x = w BY <4>1, <4>2, <2>a, <2>b, <2>c DEF CursorsCovered
      <4>3. CASE x # w BY <4>1, <4>3, <2>a, <2>b, <2>d DEF CursorsCovered
      <4> QED BY <4>2, <4>3
    <3> QED BY <3>1, <3>2 DEF CursorsCovered
  <2>f. CoveredOrCounted => CoveredOrCounted'
    BY <2>a, <2>b, <1>k DEF CoveredOrCounted
  <2>5. ClosersKnow' BY <2>b, <2>f DEF ClosersKnow
  <2> QED BY <2>1, <2>2, <2>3, <2>4, <2>5 DEF DailyFacts
<1>15. ASSUME NEW w \in Workers, NormalizeRace(w) PROVE DailyFacts'
  <2>a. List' = List BY <1>15 DEF NormalizeRace, List
  <2>1. OneDate' BY <1>15 DEF NormalizeRace, OneDate
  <2>2. NothingBeforeAnswer' BY <1>15, <2>a DEF NormalizeRace, NothingBeforeAnswer, OneDate
  <2>3. CountedHasPage' BY <1>15 DEF NormalizeRace, CountedHasPage, OneDate
  <2>4. CursorsCovered'
    BY <1>15, <2>a, <1>k, <1>p, <1>w DEF NormalizeRace, CursorsCovered, HandledBefore, RaceOf,
      Handled, OneDate
  <2>5. ClosersKnow'
    BY <1>15, <2>a, <1>k, <1>p, <1>w DEF NormalizeRace, ClosersKnow, CoveredOrCounted
  <2> QED BY <2>1, <2>2, <2>3, <2>4, <2>5 DEF DailyFacts
<1>16. ASSUME NEW w \in Workers, DeriveRace(w) PROVE DailyFacts'
  <2>a. List' = List BY <1>16 DEF DeriveRace, List
  <2>1. OneDate' BY <1>16 DEF DeriveRace, OneDate
  <2>2. NothingBeforeAnswer' BY <1>16, <2>a DEF DeriveRace, NothingBeforeAnswer, OneDate
  <2>3. CountedHasPage' BY <1>16 DEF DeriveRace, CountedHasPage, OneDate
  <2>4. CursorsCovered'
    BY <1>16, <2>a, <1>k, <1>p, <1>w DEF DeriveRace, CursorsCovered, HandledBefore, RaceOf,
      Handled, OneDate
  <2>5. ClosersKnow' BY <1>16, <2>a, <1>k, <1>p, <1>w DEF DeriveRace, ClosersKnow, CoveredOrCounted
  <2> QED BY <2>1, <2>2, <2>3, <2>4, <2>5 DEF DailyFacts
<1>17. ASSUME NEW w \in Workers, RecordRace(w) PROVE DailyFacts'
  <2>a. List' = List BY <1>17 DEF RecordRace, List
  <2>1. OneDate' BY <1>17 DEF RecordRace, OneDate
  <2>2. NothingBeforeAnswer' BY <1>17, <2>a DEF RecordRace, NothingBeforeAnswer, OneDate
  <2>3. CountedHasPage' BY <1>17 DEF RecordRace, CountedHasPage, OneDate
  <2>b. /\ seen' = seen /\ race' = race /\ UNCHANGED archive
        /\ \A x \in Workers \ {w} : pc'[x] = pc[x]
        /\ pc[w] \in {"complete", "unavailable"} /\ pc'[w] \in {"idle", "error"}
        /\ next_race_index' \in {next_race_index, seen[w].index + 1}
    BY <1>17 DEF RecordRace
  <2>c. \A i : HandledBefore(i)' <=> HandledBefore(i)
    BY <2>a, <2>b DEF HandledBefore, Handled
  <2>d. HandledBefore(seen[w].index + 1)
    <3>1. /\ race[w] \in List /\ Position(race[w], List) = seen[w].index
          /\ Handled(<<EndDate, race[w]>>) /\ HandledBefore(seen[w].index)
          /\ seen[w].index \in Nat
      <4>1. pc[w] \in AtRace /\ RaceOf(w) = <<EndDate, race[w]>> BY <2>b, <1>w
      <4>2. CursorsCovered BY DEF DailyFacts
      <4>3. /\ race[w] \in List /\ Position(race[w], List) = seen[w].index
            /\ Handled(RaceOf(w)) /\ HandledBefore(seen[w].index)
        BY <4>1, <4>2, <2>b DEF CursorsCovered
      <4>4. seen[w].index \in Nat BY <1>n
      <4> QED BY <4>1, <4>3, <4>4
    <3> SUFFICES ASSUME NEW r \in List, Position(r, List) < seen[w].index + 1
                 PROVE  Handled(<<EndDate, r>>)
      BY DEF HandledBefore
    <3>2. CASE r = race[w] BY <3>1, <3>2
    <3>3. CASE r # race[w]
      <4>1. r \in Int /\ race[w] \in Int BY <3>1, <1>n DEF RaceNumbers
      <4>2. /\ Position(r, List) \in Nat /\ Position(race[w], List) \in Nat
            /\ r < race[w] => Position(r, List) < Position(race[w], List)
            /\ race[w] < r => Position(race[w], List) < Position(r, List)
        BY ONLY <3>1, <1>p
      <4>3. Position(r, List) < seen[w].index + 1 /\ Position(race[w], List) = seen[w].index
            /\ seen[w].index \in Nat
        BY <3>1
      <4>4. Position(r, List) < seen[w].index BY ONLY <3>3, <4>1, <4>2, <4>3
      <4> QED BY <3>1, <4>4 DEF HandledBefore
    <3> QED BY <3>2, <3>3
  <2>4. CursorsCovered'
    <3>1. HandledBefore(next_race_index)' BY <2>b, <2>c, <2>d DEF CursorsCovered
    <3>2. \A x \in Workers : HandledBefore(seen[x].index)' BY <2>b, <2>c DEF CursorsCovered
    <3> QED BY <3>1, <3>2, <2>a, <2>b DEF CursorsCovered, RaceOf, Handled
  <2>5. ClosersKnow' BY <1>17, <2>a, <1>k, <1>p, <1>w DEF RecordRace, ClosersKnow, CoveredOrCounted
  <2> QED BY <2>1, <2>2, <2>3, <2>4, <2>5 DEF DailyFacts
<1>18. ASSUME NEW w \in Workers, Throw(w) PROVE DailyFacts'
  <2>a. List' = List BY <1>18 DEF Throw, List
  <2>1. OneDate' BY <1>18 DEF Throw, OneDate
  <2>2. NothingBeforeAnswer' BY <1>18, <2>a DEF Throw, NothingBeforeAnswer, OneDate
  <2>3. CountedHasPage' BY <1>18 DEF Throw, CountedHasPage, OneDate
  <2>4. CursorsCovered'
    BY <1>18, <2>a, <1>k, <1>p, <1>w DEF Throw, CursorsCovered, HandledBefore, RaceOf, Handled,
      OneDate
  <2>5. ClosersKnow' BY <1>18, <2>a, <1>k, <1>p, <1>w DEF Throw, ClosersKnow, CoveredOrCounted
  <2> QED BY <2>1, <2>2, <2>3, <2>4, <2>5 DEF DailyFacts
<1>19. ASSUME NEW w \in Workers, RecordError(w) PROVE DailyFacts'
  <2>a. List' = List BY <1>19 DEF RecordError, List
  <2>1. OneDate' BY <1>19 DEF RecordError, OneDate
  <2>2. NothingBeforeAnswer' BY <1>19, <2>a DEF RecordError, NothingBeforeAnswer, OneDate
  <2>3. CountedHasPage' BY <1>19 DEF RecordError, CountedHasPage, OneDate
  <2>4. CursorsCovered'
    BY <1>19, <2>a, <1>k, <1>p, <1>w DEF RecordError, CursorsCovered, HandledBefore, RaceOf,
      Handled, OneDate
  <2>5. ClosersKnow' BY <1>19, <2>a, <1>k, <1>p, <1>w DEF RecordError, ClosersKnow, CoveredOrCounted
  <2> QED BY <2>1, <2>2, <2>3, <2>4, <2>5 DEF DailyFacts
<1>20. ASSUME NEW w \in Workers, Crash(w) PROVE DailyFacts'
  <2>a. List' = List BY <1>20 DEF Crash, List
  <2>1. OneDate' BY <1>20 DEF Crash, OneDate
  <2>2. NothingBeforeAnswer' BY <1>20, <2>a DEF Crash, NothingBeforeAnswer, OneDate
  <2>3. CountedHasPage' BY <1>20 DEF Crash, CountedHasPage, OneDate
  <2>4. CursorsCovered'
    BY <1>20, <2>a, <1>k, <1>p, <1>w DEF Crash, CursorsCovered, HandledBefore, RaceOf, Handled,
      OneDate
  <2>5. ClosersKnow' BY <1>20, <2>a, <1>k, <1>p, <1>w DEF Crash, ClosersKnow, CoveredOrCounted
  <2> QED BY <2>1, <2>2, <2>3, <2>4, <2>5 DEF DailyFacts
<1>21. CASE StartHistorical \/ ResumeHistorical
  BY <1>21 DEF StartHistorical, ResumeHistorical
<1>22. CASE UNCHANGED vars
  BY <1>22 DEF vars, DailyFacts, OneDate, NothingBeforeAnswer, CountedHasPage, CursorsCovered, HandledBefore, Handled,
      RaceOf, ClosersKnow, CoveredOrCounted, List
<1> QED
  BY <1>1, <1>2, <1>3, <1>4, <1>5, <1>6, <1>7, <1>8, <1>9, <1>10, <1>11, <1>12, <1>13, <1>14,
    <1>15, <1>16, <1>17, <1>18, <1>19, <1>20, <1>21, <1>22 DEF Next, Step

(* A daily job that is completed has an answer from X-Labs for every eligible    *)
(* race, or the next caller of ensureXlabsDailyDateJob reopens it, as long as     *)
(* the official data of its date have not changed since they were first ready.    *)
THEOREM UncoveredDailyReopens == Spec => []UncoveredReopens
<1>1. DailyInv => UncoveredReopens
  BY DEF DailyInv, DailyUnchanged, DailyFacts, ClosersKnow, CoveredOrCounted, List, UncoveredReopens, ShouldRestart
<1> QED BY InitIInv, NextIInv, InitDailyInv, NextDailyInv, <1>1, PTL DEF Spec

(* The token fences the row: only the invocation that holds it moves the        *)
(* checkpoint, and a completed job is never written to, unless a caller has      *)
(* decided to reopen a daily one.                                               *)
THEOREM JobIsFenced == Spec => CheckpointFenced
<1>1. IInv /\ [Next]_vars => [CheckpointStep]_vars
  <2> SUFFICES ASSUME IInv, [Next]_vars PROVE CheckpointStep \/ UNCHANGED vars
    OBVIOUS
  <2>a. RunsInRange BY DEF IInv
  <2>b. WorkerAssumption BY WorkerAssumption
  <2>c. lease_token \in Workers \union {NoWorker} /\ pc \in [Workers -> Leased \union {"idle", "loaded"}]
    BY DEF IInv, RowOK, LocalOK
  <2> USE <2>a, <2>b, <2>c DEF RunsInRange, WorkerAssumption, CheckpointStep, HoldsLease, Goto,
          ReleaseLease, checkpoint, lease, job, official, archive, local
  <2>1. ASSUME NEW d \in Dates, OfficialReady(d) PROVE CheckpointStep
    BY <2>1 DEF OfficialReady
  <2>2. CASE OfficialChanges
    BY <2>2 DEF OfficialChanges
  <2>3. CASE DateExpires
    BY <2>3 DEF DateExpires
  <2>4. CASE TimePasses
    BY <2>4 DEF TimePasses
  <2>5. CASE StartHistorical
    BY <2>5 DEF StartHistorical
  <2>6. CASE ResumeHistorical
    BY <2>6 DEF ResumeHistorical
  <2>7. ASSUME NEW e \in Ensurers, EnsureDaily(e) PROVE CheckpointStep
    BY <2>7 DEF EnsureDaily
  <2>8. ASSUME NEW e \in Ensurers, RestartDaily(e) PROVE CheckpointStep
    BY <2>8 DEF RestartDaily
  <2>9. ASSUME NEW w \in Workers, LoadJob(w) PROVE CheckpointStep
    BY <2>9 DEF LoadJob
  <2>10. ASSUME NEW w \in Workers, AcquireLease(w) PROVE CheckpointStep
    BY <2>10 DEF AcquireLease
  <2>11. ASSUME NEW w \in Workers, CheckPrerequisite(w) PROVE CheckpointStep
    BY <2>11 DEF CheckPrerequisite
  <2>12. ASSUME NEW w \in Workers, DeferJob(w) PROVE CheckpointStep
    BY <2>12 DEF DeferJob
  <2>13. ASSUME NEW w \in Workers, CompleteExpired(w) PROVE CheckpointStep
    BY <2>13 DEF CompleteExpired, MoveToDate
  <2>14. ASSUME NEW w \in Workers, AdvanceDate(w) PROVE CheckpointStep
    BY <2>14 DEF AdvanceDate, MoveToDate
  <2>15. ASSUME NEW w \in Workers, ReadRaces(w) PROVE CheckpointStep
    BY <2>15 DEF ReadRaces
  <2>16. ASSUME NEW w \in Workers, DateContext(w) PROVE CheckpointStep
    BY <2>16 DEF DateContext
  <2>17. ASSUME NEW w \in Workers, CaptureRace(w) PROVE CheckpointStep
    BY <2>17 DEF CaptureRace
  <2>18. ASSUME NEW w \in Workers, NormalizeRace(w) PROVE CheckpointStep
    BY <2>18 DEF NormalizeRace
  <2>19. ASSUME NEW w \in Workers, DeriveRace(w) PROVE CheckpointStep
    BY <2>19 DEF DeriveRace
  <2>20. ASSUME NEW w \in Workers, RecordRace(w) PROVE CheckpointStep
    BY <2>20 DEF RecordRace
  <2>21. ASSUME NEW w \in Workers, Throw(w) PROVE CheckpointStep
    BY <2>21 DEF Throw
  <2>22. ASSUME NEW w \in Workers, RecordError(w) PROVE CheckpointStep
    BY <2>22 DEF RecordError
  <2>23. ASSUME NEW w \in Workers, Crash(w) PROVE CheckpointStep
    BY <2>23 DEF Crash
  <2>24. CASE UNCHANGED vars
    BY <2>24
  <2> QED BY <2>1, <2>2, <2>3, <2>4, <2>5, <2>6, <2>7, <2>8, <2>9, <2>10, <2>11, <2>12, <2>13,
         <2>14, <2>15, <2>16, <2>17, <2>18, <2>19, <2>20, <2>21, <2>22, <2>23, <2>24
       DEF Next, Step
<1> QED BY InitIInv, NextIInv, <1>1, PTL DEF Spec, CheckpointFenced
=============================================================================
