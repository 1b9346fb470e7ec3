------------------------- MODULE OperatorJobs_proofs -------------------------
EXTENDS PositionJobs, ProvenanceRecovery, StatisticsBackfill,
        FiniteSetTheorems, WellFoundedInduction, TLAPS
(***************************************************************************)
(* Proofs about the three jobs an operator drives request by request, one     *)
(* after the other: the telemetry position jobs (PositionJobs), the recovery  *)
(* of historical provenance (ProvenanceRecovery) and the statistics backfill  *)
(* (StatisticsBackfill).  They share neither state nor steps; each part has   *)
(* its own inductive invariant: PositionIInv, RecoveryIInv, StatisticsIInv.   *)
(***************************************************************************)

(***************************************************************************)
(* Proofs about PositionJobs, for any races, captures, jobs and overlapping   *)
(* requests.  No request looks at another, and a job's cursor may go back:    *)
(* what holds is that whatever lies at or before a cursor anyone has read, or  *)
(* before a capture anyone has chosen, is covered.                            *)
(***************************************************************************)

(***************************************************************************)
(* The inductive invariant.                                                  *)
(***************************************************************************)
CoveredTo(j, cursor) == \A c \in captures : InRange(j, c) /\ ~Precedes(cursor, c) => Covered(j, c)
CoveredBefore(j, d) == \A c \in captures : InRange(j, c) /\ Precedes(c, d) => Covered(j, c)
CoveredWhole(j) == \A c \in captures : InRange(j, c) => Covered(j, c)

\* A request at work is at work on a job that has been created.
JobsKnown == \A r \in Callers : request[r].at # "idle" => jobs[request[r].job].status # "none"

\* A job's row, and the copy a request has read of it.
JobCovered(j) == jobs[j].status # "none" =>
    /\ CoveredTo(j, jobs[j].cursor)
    /\ jobs[j].status = "completed" => CoveredWhole(j)

\* What a request has chosen is the first that is not covered, and it is stored
\* before the cursor moves on.
Knows(r) ==
    /\ request[r].at = "choose" => CoveredTo(request[r].job, request[r].cursor)
    /\ request[r].at = "finish" => CoveredWhole(request[r].job)
    /\ request[r].at \in AtCapture =>
         /\ request[r].capture \in captures
         /\ CoveredBefore(request[r].job, request[r].capture)
         /\ request[r].at = "advance" => stored[request[r].capture.id] = Batches

PositionIInv ==
    /\ PositionTypeOK /\ JobsKnown
    /\ \A j \in Jobs : JobCovered(j)
    /\ \A r \in Callers : Knows(r)

(***************************************************************************)
(* The order of captures.                                                    *)
(***************************************************************************)
LEMMA PrecedesIsAnOrder ==
  ASSUME NEW c \in Captures, NEW d \in Captures
  PROVE  /\ Precedes(c, d) => ~Precedes(d, c)
         /\ Precedes(c, d) \/ Precedes(d, c) \/ c.id = d.id
         /\ Precedes(NoCapture, c)
<1>1. /\ c.race \in Nat /\ c.fetched \in Nat /\ c.id \in Nat
      /\ d.race \in Nat /\ d.fetched \in Nat /\ d.id \in Nat
  <2>1. /\ c.race \in Races /\ c.fetched \in 0 .. LastCapture /\ c.id \in Ids
        /\ d.race \in Races /\ d.fetched \in 0 .. LastCapture /\ d.id \in Ids
    BY DEF Captures, Instants
  <2>2. Races \subseteq Nat /\ Ids \subseteq Nat BY PositionAssumption
  <2>3. c.race \in Nat /\ c.id \in Nat /\ d.race \in Nat /\ d.id \in Nat BY <2>1, <2>2
  <2>4. LastCapture \in Nat BY PositionAssumption
  <2>5. c.fetched \in Nat /\ d.fetched \in Nat BY <2>1, <2>4
  <2> QED BY <2>3, <2>5
<1>2. (Precedes(c, d) => ~Precedes(d, c)) /\ (Precedes(c, d) \/ Precedes(d, c) \/ c.id = d.id)
  BY <1>1 DEF Precedes
<1>3. NoCapture.race = -1 BY DEF NoCapture
<1>4. Precedes(NoCapture, c) BY <1>1, <1>3 DEF Precedes
<1> QED BY <1>2, <1>4

(***************************************************************************)
(* Rows.                                                                     *)
(***************************************************************************)
\* A job that has been created has a full row, a request at work knows its job
\* and, past its choice, its capture.
LEMMA RowsKnown ==
  ASSUME PositionTypeOK
  PROVE  /\ \A j \in Jobs : jobs[j].status # "none" => jobs[j] \in JobRows
         /\ \A r \in Callers :
              /\ request[r].at = "idle" => request[r] = AtRest
              /\ request[r].at \in {"choose", "finish"} =>
                   request[r] \in [at : {"choose", "finish"}, job : Jobs,
                                   cursor : Captures \cup {NoCapture}, errors : Nat]
              /\ request[r].at \in AtCapture =>
                   request[r] \in [at : AtCapture, job : Jobs, cursor : Captures \cup {NoCapture},
                                   errors : Nat, capture : Captures]
              /\ request[r].at # "idle" => request[r].job \in Jobs
              /\ request[r].at \in {"idle", "choose", "finish"} \cup AtCapture
<1>1. \A j \in Jobs : jobs[j].status # "none" => jobs[j] \in JobRows
  BY DEF PositionTypeOK, JobRows, NoJob
<1>2. ASSUME NEW r \in Callers
      PROVE  /\ request[r].at = "idle" => request[r] = AtRest
             /\ request[r].at \in {"choose", "finish"} =>
                   request[r] \in [at : {"choose", "finish"}, job : Jobs,
                                   cursor : Captures \cup {NoCapture}, errors : Nat]
             /\ request[r].at \in AtCapture =>
                   request[r] \in [at : AtCapture, job : Jobs, cursor : Captures \cup {NoCapture},
                                   errors : Nat, capture : Captures]
             /\ request[r].at # "idle" => request[r].job \in Jobs
             /\ request[r].at \in {"idle", "choose", "finish"} \cup AtCapture
  <2>1. request[r] \in RequestRows BY DEF PositionTypeOK
  <2> QED BY <2>1 DEF RequestRows, AtRest, AtCapture
<1> QED BY <1>1, <1>2

LEMMA PositionStarts == PositionInit => PositionIInv
<1> SUFFICES ASSUME PositionInit PROVE PositionIInv
  OBVIOUS
<1> USE PositionAssumption DEF PositionInit
<1>1. PositionTypeOK BY DEF PositionTypeOK, RequestRows
<1>2. JobsKnown /\ \A j \in Jobs : JobCovered(j) BY DEF JobsKnown, JobCovered, NoJob, AtRest
<1>3. \A r \in Callers : Knows(r) BY DEF Knows, AtRest, AtCapture
<1> QED BY <1>1, <1>2, <1>3 DEF PositionIInv

LEMMA PositionKeepsTypes == PositionTypeOK /\ JobsKnown /\ [PositionNext]_positionVars => PositionTypeOK'
<1> SUFFICES ASSUME PositionTypeOK, JobsKnown, [PositionNext]_positionVars PROVE PositionTypeOK'
  OBVIOUS
<1> USE PositionAssumption
<1>1. ASSUME NEW c \in Captures, Capture(c) PROVE PositionTypeOK'
  <2>1. (\A d, e \in captures : d.id = e.id => d = e)'
    BY <1>1 DEF Capture, PositionTypeOK
  <2> QED BY <1>1, <2>1 DEF Capture, PositionTypeOK
<1>2. ASSUME NEW c \in captures, BackfillStores(c) PROVE PositionTypeOK'
  <2>1. c.id \in Ids /\ stored[c.id] \in 0 .. Batches BY DEF PositionTypeOK, Captures
  <2>2. stored' \in [Ids -> 0 .. Batches] BY <1>2, <2>1 DEF BackfillStores, PositionTypeOK
  <2> QED BY <1>2, <2>2 DEF BackfillStores, PositionTypeOK
<1>3. ASSUME NEW j \in Jobs, NEW from \in Races, NEW to \in Races, CreateJob(j, from, to)
      PROVE  PositionTypeOK'
  <2>1. [status |-> "running", from |-> from, to |-> to, cursor |-> NoCapture, errors |-> 0] \in JobRows
    BY DEF JobRows
  <2> QED BY <1>3, <2>1 DEF CreateJob, PositionTypeOK
<1>4. ASSUME NEW r \in Callers, NEW j \in Jobs, LoadJob(r, j) PROVE PositionTypeOK'
  <2>1. jobs[j] \in JobRows BY <1>4, RowsKnown DEF LoadJob
  <2>2. request' \in [Callers -> RequestRows]
    BY <1>4, <2>1 DEF LoadJob, PositionTypeOK, JobRows, RequestRows
  <2> QED BY <1>4, <2>2 DEF LoadJob, PositionTypeOK
<1>5. ASSUME NEW r \in Callers, Choose(r) PROVE PositionTypeOK'
  <2>1. request[r] \in [at : {"choose", "finish"}, job : Jobs, cursor : Captures \cup {NoCapture}, errors : Nat]
    BY <1>5, RowsKnown DEF Choose
  <2>2. \A c \in Captures : [at |-> "derive", job |-> request[r].job, cursor |-> request[r].cursor,
                           errors |-> request[r].errors, capture |-> c] \in RequestRows
    BY <2>1 DEF RequestRows, AtCapture
  <2>3. [request[r] EXCEPT !.at = "finish"] \in RequestRows BY <2>1 DEF RequestRows
  <2>4. NextCaptures(request[r].job, request[r].cursor) \subseteq Captures
    BY DEF NextCaptures, Open, PositionTypeOK
  <2>5. request' \in [Callers -> RequestRows]
    BY <1>5, <2>2, <2>3, <2>4 DEF Choose, Goto, PositionTypeOK
  <2> QED BY <1>5, <2>5 DEF Choose, PositionTypeOK
<1>6. ASSUME NEW r \in Callers, FinishJob(r) PROVE PositionTypeOK'
  <2>1. request[r] \in [at : {"choose", "finish"}, job : Jobs, cursor : Captures \cup {NoCapture}, errors : Nat]
    BY <1>6, RowsKnown DEF FinishJob
  <2>2. jobs[request[r].job] \in JobRows BY <1>6, <2>1, RowsKnown DEF FinishJob, JobsKnown
  <2>3. jobs' \in [Jobs -> JobRows \cup {NoJob}] BY <1>6, <2>1, <2>2 DEF FinishJob, PositionTypeOK, JobRows
  <2>4. request' \in [Callers -> RequestRows] BY <1>6 DEF FinishJob, PositionTypeOK, RequestRows
  <2> QED BY <1>6, <2>3, <2>4 DEF FinishJob, PositionTypeOK
<1>7. ASSUME NEW r \in Callers, Derive(r) PROVE PositionTypeOK'
  <2>1. request[r] \in [at : AtCapture, job : Jobs, cursor : Captures \cup {NoCapture}, errors : Nat, capture : Captures]
    BY <1>7, RowsKnown DEF Derive, AtCapture
  <2>2. \A place \in AtCapture :
          [at |-> place, job |-> request[r].job, cursor |-> request[r].cursor,
           errors |-> request[r].errors, capture |-> request[r].capture] \in RequestRows
    BY <2>1 DEF RequestRows
  <2>3. \E place \in AtCapture : Goto(r, place, request[r].capture)
    BY <1>7, <2>1 DEF Derive, AtCapture
  <2>4. request' \in [Callers -> RequestRows] BY <2>2, <2>3 DEF Goto, PositionTypeOK
  <2> QED BY <1>7, <2>4 DEF Derive, PositionTypeOK
<1>8. ASSUME NEW r \in Callers, Store(r) PROVE PositionTypeOK'
  <2>1. request[r] \in [at : AtCapture, job : Jobs, cursor : Captures \cup {NoCapture}, errors : Nat, capture : Captures]
    BY <1>8, RowsKnown DEF Store, AtCapture
  <2>2. \A place \in AtCapture :
          [at |-> place, job |-> request[r].job, cursor |-> request[r].cursor,
           errors |-> request[r].errors, capture |-> request[r].capture] \in RequestRows
    BY <2>1 DEF RequestRows
  <2>3. stored' \in [Ids -> 0 .. Batches] BY <1>8, <2>1 DEF Store, PositionTypeOK, Captures
  <2>4. request' \in [Callers -> RequestRows] BY <1>8, <2>2 DEF Store, Goto, PositionTypeOK, AtCapture
  <2> QED BY <1>8, <2>3, <2>4 DEF Store, PositionTypeOK
<1>9. ASSUME NEW r \in Callers, Breaks(r) PROVE PositionTypeOK'
  <2>1. request[r] \in [at : AtCapture, job : Jobs, cursor : Captures \cup {NoCapture}, errors : Nat, capture : Captures]
    BY <1>9, RowsKnown DEF Breaks, AtCapture
  <2>2. \A place \in AtCapture :
          [at |-> place, job |-> request[r].job, cursor |-> request[r].cursor,
           errors |-> request[r].errors, capture |-> request[r].capture] \in RequestRows
    BY <2>1 DEF RequestRows
  <2>4. request' \in [Callers -> RequestRows] BY <1>9, <2>2 DEF Breaks, Goto, PositionTypeOK, AtCapture
  <2> QED BY <1>9, <2>4 DEF Breaks, PositionTypeOK
<1>10. ASSUME NEW r \in Callers, Advance(r) PROVE PositionTypeOK'
  <2>1. request[r] \in [at : AtCapture, job : Jobs, cursor : Captures \cup {NoCapture}, errors : Nat, capture : Captures]
    BY <1>10, RowsKnown DEF Advance, AtCapture
  <2>2. jobs[request[r].job] \in JobRows BY <1>10, <2>1, RowsKnown DEF Advance, JobsKnown
  <2>3. jobs' \in [Jobs -> JobRows \cup {NoJob}]
    BY <1>10, <2>1, <2>2 DEF Advance, Advanced, PositionTypeOK, JobRows
  <2>4. request' \in [Callers -> RequestRows] BY <1>10 DEF Advance, PositionTypeOK, RequestRows
  <2> QED BY <1>10, <2>1, <2>3, <2>4 DEF Advance, PositionTypeOK
<1>11. ASSUME NEW r \in Callers, Quarantine(r) PROVE PositionTypeOK'
  <2>1. request[r] \in [at : AtCapture, job : Jobs, cursor : Captures \cup {NoCapture}, errors : Nat, capture : Captures]
    BY <1>11, RowsKnown DEF Quarantine, AtCapture
  <2>2. jobs[request[r].job] \in JobRows BY <1>11, <2>1, RowsKnown DEF Quarantine, JobsKnown
  <2>3. jobs' \in [Jobs -> JobRows \cup {NoJob}]
    BY <1>11, <2>1, <2>2 DEF Quarantine, Advanced, PositionTypeOK, JobRows
  <2>4. request' \in [Callers -> RequestRows] BY <1>11 DEF Quarantine, PositionTypeOK, RequestRows
  <2> QED BY <1>11, <2>1, <2>3, <2>4 DEF Quarantine, PositionTypeOK
<1>12. ASSUME NEW r \in Callers, Fail(r) PROVE PositionTypeOK'
  <2>1. request[r] \in [at : AtCapture, job : Jobs, cursor : Captures \cup {NoCapture}, errors : Nat, capture : Captures]
    BY <1>12, RowsKnown DEF Fail, AtCapture
  <2>2. jobs[request[r].job] \in JobRows BY <1>12, <2>1, RowsKnown DEF Fail, JobsKnown
  <2>3. jobs' \in [Jobs -> JobRows \cup {NoJob}]
    BY <1>12, <2>1, <2>2 DEF Fail, Advanced, PositionTypeOK, JobRows
  <2>4. request' \in [Callers -> RequestRows] BY <1>12 DEF Fail, PositionTypeOK, RequestRows
  <2> QED BY <1>12, <2>1, <2>3, <2>4 DEF Fail, PositionTypeOK
<1>13. ASSUME NEW r \in Callers, Killed(r) PROVE PositionTypeOK'
  <2>1. request' \in [Callers -> RequestRows] BY <1>13 DEF Killed, PositionTypeOK, RequestRows
  <2> QED BY <1>13, <2>1 DEF Killed, PositionTypeOK
<1>14. CASE UNCHANGED positionVars BY <1>14 DEF positionVars, PositionTypeOK
<1> QED BY <1>1, <1>2, <1>3, <1>4, <1>5, <1>6, <1>7, <1>8, <1>9, <1>10, <1>11, <1>12, <1>13,
       <1>14 DEF PositionNext, PositionStep

LEMMA StoredStays ==
  ASSUME PositionTypeOK, [PositionNext]_positionVars, NEW c \in captures, stored[c.id] = Batches
  PROVE  stored'[c.id] = Batches
<1>1. c.id \in Ids /\ stored \in [Ids -> 0 .. Batches] BY DEF PositionTypeOK, Captures
<1>2. ASSUME NEW d \in captures, BackfillStores(d) PROVE stored'[c.id] = Batches
  BY <1>1, <1>2 DEF BackfillStores
<1>3. ASSUME NEW r \in Callers, Store(r) PROVE stored'[c.id] = Batches
  BY <1>1, <1>3 DEF Store
<1>4. CASE UNCHANGED stored BY <1>4
<1> QED BY <1>2, <1>3, <1>4
  DEF PositionNext, PositionStep, positionVars, Capture, CreateJob, LoadJob, Choose, FinishJob,
      Derive, Breaks, Advance, Quarantine, Fail, Killed

\* A created job keeps its range, and what is covered stays covered.
LEMMA StaysCovered ==
  ASSUME PositionTypeOK, JobsKnown, [PositionNext]_positionVars, NEW j \in Jobs
  PROVE  /\ jobs[j].status # "none" => /\ jobs'[j].status # "none"
                                       /\ jobs'[j].from = jobs[j].from /\ jobs'[j].to = jobs[j].to
         /\ \A c \in captures : Covered(j, c) => stored'[c.id] = Batches \/ <<j, c>> \in quarantine'
                                                 \/ <<j, c>> \in missed'
<1>1. ASSUME jobs[j].status # "none"
      PROVE  /\ jobs'[j].status # "none"
             /\ jobs'[j].from = jobs[j].from /\ jobs'[j].to = jobs[j].to
  <2>1. jobs[j] \in JobRows BY <1>1, RowsKnown
  <2> USE <1>1, <2>1 DEF PositionTypeOK, JobRows
  <2>2. CASE UNCHANGED jobs BY <2>2
  <2>3. ASSUME NEW k \in Jobs, NEW from \in Races, NEW to \in Races, CreateJob(k, from, to)
        PROVE  jobs'[j] = jobs[j]
    BY <2>3 DEF CreateJob
  <2>4. ASSUME NEW r \in Callers, FinishJob(r) PROVE <1>1!2
    BY <2>4 DEF FinishJob
  <2>5. ASSUME NEW r \in Callers, Advance(r) PROVE <1>1!2
    BY <2>5 DEF Advance, Advanced
  <2>6. ASSUME NEW r \in Callers, Quarantine(r) PROVE <1>1!2
    BY <2>6 DEF Quarantine, Advanced
  <2>7. ASSUME NEW r \in Callers, Fail(r) PROVE <1>1!2
    BY <2>7 DEF Fail
  <2> QED BY <2>2, <2>3, <2>4, <2>5, <2>6, <2>7
    DEF PositionNext, PositionStep, positionVars, Capture, BackfillStores, LoadJob, Choose,
       Derive, Store, Breaks, Killed
<1>2. ASSUME NEW c \in captures, Covered(j, c)
      PROVE  stored'[c.id] = Batches \/ <<j, c>> \in quarantine' \/ <<j, c>> \in missed'
  <2>1. stored[c.id] = Batches => stored'[c.id] = Batches BY StoredStays
  <2>2. quarantine \subseteq quarantine' /\ missed \subseteq missed'
    BY DEF PositionNext, PositionStep, positionVars, Capture, BackfillStores, CreateJob, LoadJob, Choose, FinishJob,
           Derive, Store, Breaks, Advance, Quarantine, Fail, Killed
  <2> QED BY <1>2, <2>1, <2>2 DEF Covered
<1> QED BY <1>1, <1>2

\* A step that brings no capture leaves alone who is not its own.
LEMMA BystandersKnow ==
  ASSUME PositionIInv, [PositionNext]_positionVars, captures' = captures
  PROVE  /\ \A q \in Callers : request'[q] = request[q] => Knows(q)'
         /\ \A j \in Jobs : jobs'[j].cursor = jobs[j].cursor
                            /\ (jobs'[j].status = "completed" => jobs[j].status = "completed")
                            /\ jobs[j].status # "none"
                            => JobCovered(j)'
<1> USE StaysCovered DEF PositionIInv, CoveredTo, CoveredBefore, CoveredWhole, InRange, Covered
<1>1. ASSUME NEW q \in Callers, request'[q] = request[q] PROVE Knows(q)'
  <2>1. CASE request[q].at = "idle" BY <1>1, <2>1 DEF Knows, AtCapture
  <2>2. CASE request[q].at # "idle"
    <3>1. request[q].job \in Jobs /\ jobs[request[q].job].status # "none"
      BY <2>2, RowsKnown DEF JobsKnown
    <3>2. CASE request[q].at = "choose"
      BY <1>1, <3>1, <3>2 DEF Knows, AtCapture
    <3>3. CASE request[q].at = "finish"
      BY <1>1, <3>1, <3>3 DEF Knows, AtCapture
    <3>4. CASE request[q].at \in AtCapture
      <4>1. request[q].at = "advance" => stored'[request[q].capture.id] = Batches
        BY <1>1, <3>4, StoredStays DEF Knows
      <4>2. CoveredBefore(request[q].job, request[q].capture)'
        BY <1>1, <3>1, <3>4 DEF Knows
      <4> QED BY <1>1, <3>4, <4>1, <4>2 DEF Knows, AtCapture
    <3> QED BY <2>2, <3>2, <3>3, <3>4, RowsKnown
  <2> QED BY <2>1, <2>2
<1>2. ASSUME NEW j \in Jobs, jobs'[j].cursor = jobs[j].cursor,
             jobs'[j].status = "completed" => jobs[j].status = "completed",
             jobs[j].status # "none"
      PROVE  JobCovered(j)'
  BY <1>2 DEF JobCovered
<1> QED BY <1>1, <1>2

LEMMA CaptureKeepsIInv ==
  ASSUME PositionIInv, NEW n \in Captures, Capture(n), PositionTypeOK'
  PROVE  PositionIInv'
<1> USE DEF CoveredTo, CoveredBefore, CoveredWhole, InRange, Covered
<1>1. /\ captures' = captures \cup {n}
      /\ UNCHANGED <<stored, jobs, quarantine, request>>
      /\ missed \subseteq missed'
      /\ \A j \in Jobs : jobs[j].status # "none" /\ PassedBy(j, n) => <<j, n>> \in missed'
  BY DEF Capture
<1>2. PositionTypeOK /\ JobsKnown BY DEF PositionIInv
<1>3. JobsKnown' BY <1>1, <1>2 DEF JobsKnown
<1>4. ASSUME NEW j \in Jobs PROVE JobCovered(j)'
  <2>1. jobs[j].status # "none" /\ ~Precedes(jobs[j].cursor, n) => <<j, n>> \in missed'
    BY <1>1, <1>4 DEF PassedBy
  <2>2. jobs[j].status = "completed" => <<j, n>> \in missed'
    BY <1>1, <1>4 DEF PassedBy
  <2>3. JobCovered(j) BY DEF PositionIInv
  <2> QED BY <1>1, <2>1, <2>2, <2>3 DEF JobCovered
<1>5. ASSUME NEW r \in Callers PROVE Knows(r)'
  <2>1. Knows(r) BY DEF PositionIInv
  <2>2. CASE request[r].at = "idle" BY <1>1, <2>2 DEF Knows, AtCapture
  <2>3. CASE request[r].at # "idle"
    <3> DEFINE j == request[r].job
    <3>1. j \in Jobs /\ jobs[j].status # "none" BY <1>2, <2>3, RowsKnown DEF JobsKnown
    <3>2. CASE request[r].at = "choose"
      <4>1. ~Precedes(request[r].cursor, n) => <<j, n>> \in missed'
        BY <1>1, <3>1, <3>2 DEF PassedBy
      <4> QED BY <1>1, <2>1, <3>1, <3>2, <4>1 DEF Knows, AtCapture
    <3>3. CASE request[r].at = "finish"
      <4>1. <<j, n>> \in missed' BY <1>1, <3>1, <3>3 DEF PassedBy
      <4> QED BY <1>1, <2>1, <3>1, <3>3, <4>1 DEF Knows, AtCapture
    <3>4. CASE request[r].at \in AtCapture
      <4>1. Precedes(n, request[r].capture) => <<j, n>> \in missed'
        BY <1>1, <2>3, <3>1, <3>4 DEF PassedBy
      <4>2. CoveredBefore(request[r].job, request[r].capture)'
        BY <1>1, <2>1, <3>1, <3>4, <4>1 DEF Knows
      <4> QED BY <1>1, <2>1, <3>4, <4>2 DEF Knows, AtCapture
    <3> QED BY <1>2, <2>3, <3>2, <3>3, <3>4, RowsKnown
  <2> QED BY <2>2, <2>3
<1> QED BY <1>3, <1>4, <1>5 DEF PositionIInv

LEMMA PositionKeeps == PositionIInv /\ [PositionNext]_positionVars => PositionIInv'
<1> SUFFICES ASSUME PositionIInv, [PositionNext]_positionVars PROVE PositionIInv'
  OBVIOUS
<1>t. PositionTypeOK' BY PositionKeepsTypes DEF PositionIInv
<1>i. /\ PositionTypeOK /\ JobsKnown
      /\ \A j \in Jobs : JobCovered(j)
      /\ \A r \in Callers : Knows(r)
  BY DEF PositionIInv
<1>s. \A j \in Jobs : jobs[j].status # "none" => jobs'[j].status # "none"
  BY <1>i, StaysCovered
<1>k. \A q \in Callers : request[q].at # "idle" => request[q].job \in Jobs
  BY <1>i, RowsKnown
<1>1. ASSUME NEW c \in Captures, Capture(c) PROVE PositionIInv'
  BY <1>t, <1>1, CaptureKeepsIInv
<1>2. ASSUME NEW c \in captures, BackfillStores(c) PROVE PositionIInv'
  <2>1. captures' = captures /\ request' = request /\ jobs' = jobs BY <1>2 DEF BackfillStores
  <2>2. JobsKnown' BY <1>i, <2>1 DEF JobsKnown
  <2>3. \A r \in Callers : Knows(r)' BY <2>1, BystandersKnow
  <2>4. \A j \in Jobs : JobCovered(j)' BY <2>1, BystandersKnow DEF JobCovered
  <2> QED BY <1>t, <2>2, <2>3, <2>4 DEF PositionIInv
<1>3. ASSUME NEW k \in Jobs, NEW from \in Races, NEW to \in Races, CreateJob(k, from, to)
      PROVE  PositionIInv'
  <2>1. captures' = captures /\ request' = request BY <1>3 DEF CreateJob
  <2>2. JobsKnown' BY <1>i, <1>s, <1>k, <2>1 DEF JobsKnown
  <2>3. \A r \in Callers : Knows(r)' BY <2>1, BystandersKnow
  <2>4. ASSUME NEW j \in Jobs PROVE JobCovered(j)'
    <3>1. CASE j # k
      <4>1. jobs'[j] = jobs[j] BY <1>3, <1>i, <3>1 DEF CreateJob, PositionTypeOK
      <4> QED BY <2>1, <4>1, BystandersKnow DEF JobCovered
    <3>2. CASE j = k
      <4>1. jobs'[j].cursor = NoCapture /\ jobs'[j].status = "running"
        BY <1>3, <1>i, <3>2 DEF CreateJob, PositionTypeOK
      <4>2. \A c \in captures' : Precedes(NoCapture, c)
        BY <1>i, <2>1, PrecedesIsAnOrder DEF PositionTypeOK
      <4> QED BY <4>1, <4>2 DEF JobCovered, CoveredTo
    <3> QED BY <3>1, <3>2
  <2> QED BY <1>t, <2>2, <2>3, <2>4 DEF PositionIInv
<1>4. ASSUME NEW r \in Callers, NEW j \in Jobs, LoadJob(r, j) PROVE PositionIInv'
  <2>1. captures' = captures /\ \A q \in Callers : q # r => request'[q] = request[q]
    BY <1>4, <1>i DEF LoadJob, Goto, PositionTypeOK
  <2>2. request'[r] = [at |-> "choose", job |-> j, cursor |-> jobs[j].cursor, errors |-> jobs[j].errors]
    BY <1>4, <1>i DEF LoadJob, PositionTypeOK
  <2>3. jobs' = jobs /\ jobs[j].status = "running" /\ stored' = stored /\ quarantine' = quarantine
        /\ missed' = missed
    BY <1>4 DEF LoadJob
  <2>4. Knows(r)'
    BY <1>i, <2>1, <2>2, <2>3 DEF Knows, JobCovered, CoveredTo, InRange, Covered, AtCapture
  <2>20. \A i \in Jobs : JobCovered(i)'
    BY <1>4, <2>1, <1>i, BystandersKnow DEF LoadJob, JobCovered
  <2>21. JobsKnown'
    BY <1>i, <1>s, <1>k, <2>1, <2>2, <2>3 DEF JobsKnown, AtRest
  <2>22. \A q \in Callers : Knows(q)' BY <2>1, <2>4, BystandersKnow
  <2> QED BY <1>t, <2>20, <2>21, <2>22 DEF PositionIInv
<1>5. ASSUME NEW r \in Callers, Choose(r) PROVE PositionIInv'
  <2>1. captures' = captures /\ \A q \in Callers : q # r => request'[q] = request[q]
    BY <1>5, <1>i DEF Choose, Goto, PositionTypeOK
  <2>2. request[r] \in [at : {"choose", "finish"}, job : Jobs,
                   cursor : Captures \cup {NoCapture}, errors : Nat]
    BY <1>5, <1>i, RowsKnown DEF Choose
  <2>3. UNCHANGED <<captures, stored, jobs, quarantine, missed>> BY <1>5 DEF Choose
  <2> DEFINE k == request[r].job
  <2>5. CoveredTo(k, request[r].cursor) BY <1>5, <1>i DEF Choose, Knows
  <2>6. ASSUME Open(k, request[r].cursor) = {} PROVE Knows(r)' /\ request'[r].job = k
    <3>1. request'[r].at = "finish" /\ request'[r].job = k
      BY <1>5, <1>i, <2>2, <2>6 DEF Choose, PositionTypeOK
    <3>2. CoveredWhole(k) BY <2>5, <2>6 DEF CoveredWhole, CoveredTo, Open
    <3>3. Knows(r)' BY <2>3, <3>1, <3>2 DEF Knows, CoveredWhole, InRange, Covered, AtCapture
    <3> QED BY <3>1, <3>3
  <2>7. ASSUME NEW c \in NextCaptures(k, request[r].cursor), Goto(r, "derive", c)
        PROVE  Knows(r)' /\ request'[r].job = k
    <3>1. request'[r].at = "derive" /\ request'[r].job = k /\ request'[r].capture = c
      BY <1>i, <2>7 DEF Goto, PositionTypeOK
    <3>2. c \in captures /\ captures \subseteq Captures BY <1>i DEF NextCaptures, Open, PositionTypeOK
    <3>3. ASSUME NEW e \in captures, InRange(k, e), Precedes(e, c) PROVE Covered(k, e)
      <4>1. ~Precedes(c, e) /\ e # c BY <3>2, <3>3, PrecedesIsAnOrder
      <4>2. e \notin Open(k, request[r].cursor) BY <4>1 DEF NextCaptures
      <4> QED BY <2>5, <3>3, <4>2 DEF CoveredTo, Open
    <3>4. CoveredBefore(k, c) BY <3>3 DEF CoveredBefore
    <3>5. Knows(r)'
      BY <2>3, <3>1, <3>2, <3>4 DEF Knows, CoveredBefore, InRange, Covered, AtCapture
    <3> QED BY <3>1, <3>5
  <2>4. Knows(r)' /\ request'[r].job = k BY <1>5, <2>6, <2>7 DEF Choose
  <2>20. \A i \in Jobs : JobCovered(i)'
    BY <1>5, <2>1, <1>i, BystandersKnow DEF Choose, JobCovered
  <2>21. JobsKnown'
    BY <1>5, <1>i, <1>s, <1>k, <2>1, <2>4 DEF JobsKnown, AtRest, Choose
  <2>22. \A q \in Callers : Knows(q)' BY <2>1, <2>4, BystandersKnow
  <2> QED BY <1>t, <2>20, <2>21, <2>22 DEF PositionIInv
<1>6. ASSUME NEW r \in Callers, FinishJob(r) PROVE PositionIInv'
  <2>1. captures' = captures /\ \A q \in Callers : q # r => request'[q] = request[q]
    BY <1>6, <1>i DEF FinishJob, Goto, PositionTypeOK
  <2>2. request[r] \in [at : {"choose", "finish"}, job : Jobs,
                   cursor : Captures \cup {NoCapture}, errors : Nat]
    BY <1>6, <1>i, RowsKnown DEF FinishJob, AtCapture
  <2>k. PICK k \in Jobs : k = request[r].job BY <2>2
  <2>3. request'[r] = AtRest BY <1>6, <1>i DEF FinishJob, PositionTypeOK
  <2>4. Knows(r)' BY <2>3 DEF Knows, AtRest, AtCapture
  <2>5. jobs[k].status # "none" /\ jobs[k] \in JobRows
    BY <1>6, <1>i, <2>2, <2>k, RowsKnown DEF FinishJob, JobsKnown
  <2>6. \A j \in Jobs : j # k => jobs'[j] = jobs[j] BY <1>6, <1>i, <2>k DEF FinishJob, PositionTypeOK
  <2>7. jobs'[k].cursor = jobs[k].cursor /\ UNCHANGED <<captures, stored, quarantine, missed>>
        /\ jobs'[k].from = jobs[k].from /\ jobs'[k].to = jobs[k].to
    BY <1>6, <1>i, <2>5, <2>k DEF FinishJob, PositionTypeOK, JobRows
  <2>8. CoveredTo(k, jobs[k].cursor) /\ CoveredWhole(k)
    BY <1>6, <1>i, <2>5, <2>k DEF FinishJob, Knows, JobCovered
  <2>9. JobCovered(k)'
    BY <2>5, <2>7, <2>8 DEF JobCovered, CoveredTo, CoveredWhole, InRange, Covered
  <2>20. \A i \in Jobs : JobCovered(i)'
    BY <2>1, <2>6, <2>9, BystandersKnow DEF JobCovered
  <2>21. JobsKnown'
    BY <1>i, <1>s, <1>k, <2>1, <2>3 DEF JobsKnown, AtRest
  <2>22. \A q \in Callers : Knows(q)' BY <2>1, <2>4, BystandersKnow
  <2> QED BY <1>t, <2>20, <2>21, <2>22 DEF PositionIInv
<1>7. ASSUME NEW r \in Callers, Derive(r) PROVE PositionIInv'
  <2>1. captures' = captures /\ \A q \in Callers : q # r => request'[q] = request[q]
    BY <1>7, <1>i DEF Derive, Goto, PositionTypeOK
  <2>2. request[r] \in [at : AtCapture, job : Jobs, cursor : Captures \cup {NoCapture},
                   errors : Nat, capture : Captures]
    BY <1>7, <1>i, RowsKnown DEF Derive, AtCapture
  <2>3. jobs' = jobs /\ \E place \in {"store", "quarantine", "fail"} : Goto(r, place, request[r].capture)
    BY <1>7, <2>2 DEF Derive
  <2>5. /\ request'[r].at \in {"store", "quarantine", "fail"}
        /\ request'[r].job = request[r].job /\ request'[r].capture = request[r].capture
    BY <1>i, <2>3 DEF Goto, PositionTypeOK
  <2>6. request[r].at \in AtCapture /\ Knows(r) BY <1>i, <2>2
  <2>7. request[r].job \in Jobs /\ jobs[request[r].job].status # "none" /\ request[r].at # "idle"
    BY <1>i, <2>2, <2>6 DEF JobsKnown, AtCapture
  <2>8. CoveredBefore(request[r].job, request[r].capture)' 
    <3>1. CoveredBefore(request[r].job, request[r].capture) BY <2>6 DEF Knows
    <3> QED BY <1>i, <2>1, <2>5, <2>7, <3>1, StaysCovered DEF CoveredBefore, InRange, Covered
  <2>4. Knows(r)' BY <2>1, <2>5, <2>6, <2>8 DEF Knows, AtCapture
  <2>20. \A i \in Jobs : JobCovered(i)'
    BY <1>7, <2>1, <1>i, BystandersKnow DEF Derive, JobCovered
  <2>21. JobsKnown'
    BY <1>i, <1>s, <1>k, <2>1, <2>5, <2>7 DEF JobsKnown, AtRest
  <2>22. \A q \in Callers : Knows(q)' BY <2>1, <2>4, BystandersKnow
  <2> QED BY <1>t, <2>20, <2>21, <2>22 DEF PositionIInv
<1>8. ASSUME NEW r \in Callers, Store(r) PROVE PositionIInv'
  <2>1. captures' = captures /\ \A q \in Callers : q # r => request'[q] = request[q]
    BY <1>8, <1>i DEF Store, Goto, PositionTypeOK
  <2>2. request[r] \in [at : AtCapture, job : Jobs, cursor : Captures \cup {NoCapture},
                   errors : Nat, capture : Captures]
    BY <1>8, <1>i, RowsKnown DEF Store, AtCapture
  <2>3. jobs' = jobs BY <1>8 DEF Store
  <2>5. /\ request'[r].at \in {"store", "advance"}
        /\ request'[r].job = request[r].job /\ request'[r].capture = request[r].capture
        /\ request'[r].at = "advance" => stored'[request[r].capture.id] = Batches
    <3>1. CASE stored[request[r].capture.id] < Batches
      BY <1>8, <1>i, <2>2, <3>1 DEF Store, PositionTypeOK
    <3>2. CASE ~(stored[request[r].capture.id] < Batches)
      <4>1. stored[request[r].capture.id] \in 0 .. Batches BY <1>i, <2>2 DEF PositionTypeOK, Captures
      <4>2. stored[request[r].capture.id] = Batches BY <3>2, <4>1, PositionAssumption
      <4> QED BY <1>8, <1>i, <2>2, <3>2, <4>2 DEF Store, Goto, PositionTypeOK
    <3> QED BY <3>1, <3>2
  <2>6. request[r].at \in AtCapture /\ Knows(r) BY <1>i, <2>2
  <2>7. request[r].job \in Jobs /\ jobs[request[r].job].status # "none" /\ request[r].at # "idle"
    BY <1>i, <2>2, <2>6 DEF JobsKnown, AtCapture
  <2>8. CoveredBefore(request[r].job, request[r].capture)' 
    <3>1. CoveredBefore(request[r].job, request[r].capture) BY <2>6 DEF Knows
    <3> QED BY <1>i, <2>1, <2>5, <2>7, <3>1, StaysCovered DEF CoveredBefore, InRange, Covered
  <2>4. Knows(r)' BY <2>1, <2>5, <2>6, <2>8 DEF Knows, AtCapture
  <2>20. \A i \in Jobs : JobCovered(i)'
    BY <1>8, <2>1, <1>i, BystandersKnow DEF Store, JobCovered
  <2>21. JobsKnown'
    BY <1>i, <1>s, <1>k, <2>1, <2>5, <2>7 DEF JobsKnown, AtRest
  <2>22. \A q \in Callers : Knows(q)' BY <2>1, <2>4, BystandersKnow
  <2> QED BY <1>t, <2>20, <2>21, <2>22 DEF PositionIInv
<1>9. ASSUME NEW r \in Callers, Breaks(r) PROVE PositionIInv'
  <2>1. captures' = captures /\ \A q \in Callers : q # r => request'[q] = request[q]
    BY <1>9, <1>i DEF Breaks, Goto, PositionTypeOK
  <2>2. request[r] \in [at : AtCapture, job : Jobs, cursor : Captures \cup {NoCapture},
                   errors : Nat, capture : Captures]
    BY <1>9, <1>i, RowsKnown DEF Breaks, AtCapture
  <2>3. jobs' = jobs BY <1>9 DEF Breaks
  <2>5. /\ request'[r].at = "fail"
        /\ request'[r].job = request[r].job /\ request'[r].capture = request[r].capture
    BY <1>9, <1>i, <2>2 DEF Breaks, Goto, PositionTypeOK
  <2>6. request[r].at \in AtCapture /\ Knows(r) BY <1>i, <2>2
  <2>7. request[r].job \in Jobs /\ jobs[request[r].job].status # "none" /\ request[r].at # "idle"
    BY <1>i, <2>2, <2>6 DEF JobsKnown, AtCapture
  <2>8. CoveredBefore(request[r].job, request[r].capture)' 
    <3>1. CoveredBefore(request[r].job, request[r].capture) BY <2>6 DEF Knows
    <3> QED BY <1>i, <2>1, <2>5, <2>7, <3>1, StaysCovered DEF CoveredBefore, InRange, Covered
  <2>4. Knows(r)' BY <2>1, <2>5, <2>6, <2>8 DEF Knows, AtCapture
  <2>20. \A i \in Jobs : JobCovered(i)'
    BY <1>9, <2>1, <1>i, BystandersKnow DEF Breaks, JobCovered
  <2>21. JobsKnown'
    BY <1>i, <1>s, <1>k, <2>1, <2>5, <2>7 DEF JobsKnown, AtRest
  <2>22. \A q \in Callers : Knows(q)' BY <2>1, <2>4, BystandersKnow
  <2> QED BY <1>t, <2>20, <2>21, <2>22 DEF PositionIInv
<1>10. ASSUME NEW r \in Callers, Advance(r) PROVE PositionIInv'
  <2>1. captures' = captures /\ \A q \in Callers : q # r => request'[q] = request[q]
    BY <1>10, <1>i DEF Advance, Goto, PositionTypeOK
  <2>2. request[r] \in [at : AtCapture, job : Jobs, cursor : Captures \cup {NoCapture},
                   errors : Nat, capture : Captures]
    BY <1>10, <1>i, RowsKnown DEF Advance, AtCapture
  <2>k. PICK k \in Jobs : k = request[r].job BY <2>2
  <2>3. request'[r] = AtRest BY <1>10, <1>i DEF Advance, PositionTypeOK
  <2>4. Knows(r)' BY <2>3 DEF Knows, AtRest, AtCapture
  <2>5. jobs[k].status # "none" /\ jobs[k] \in JobRows
    BY <1>10, <1>i, <2>2, <2>k, RowsKnown DEF Advance, JobsKnown
  <2>6. \A j \in Jobs : j # k => jobs'[j] = jobs[j] BY <1>10, <1>i, <2>k DEF Advance, PositionTypeOK
  <2>d. PICK d \in Captures : d = request[r].capture BY <2>2
  <2>7. /\ jobs'[k].cursor = d /\ jobs'[k].status = jobs[k].status
        /\ jobs'[k].from = jobs[k].from /\ jobs'[k].to = jobs[k].to
    BY <1>10, <1>i, <2>5, <2>k, <2>d DEF Advance, Advanced, PositionTypeOK, JobRows
  <2>8. d \in captures /\ CoveredBefore(k, d)
    BY <1>10, <1>i, <2>k, <2>d DEF Advance, Knows, AtCapture
  <2>10. Covered(k, d)' BY <1>10, <1>i, <2>d DEF Advance, Knows, AtCapture, Covered
  <2>11. ASSUME NEW c \in captures, jobs[k].from <= c.race, c.race <= jobs[k].to
         PROVE  (~Precedes(d, c) => Covered(k, c)') /\ (Covered(k, c) => Covered(k, c)')
    <3>1. Covered(k, c) => Covered(k, c)'
      BY <1>10, <1>i, <2>5, StaysCovered DEF Covered, Advance
    <3>2. CASE Precedes(c, d)
      BY <2>5, <2>8, <2>11, <3>1, <3>2 DEF CoveredBefore, InRange
    <3>3. CASE ~Precedes(d, c) /\ ~Precedes(c, d)
      <4>1. c = d BY <1>i, <2>8, <3>3, PrecedesIsAnOrder DEF PositionTypeOK
      <4> QED BY <2>10, <3>1, <4>1
    <3> QED BY <3>1, <3>2, <3>3
  <2>12. CoveredTo(k, d)' BY <2>1, <2>5, <2>7, <2>11 DEF CoveredTo, InRange
  <2>9. JobCovered(k)'
    <3>1. jobs'[k].status = "completed" => CoveredWhole(k)'
      <4>1. jobs[k].status = "completed" => CoveredWhole(k) BY <1>i, <2>5 DEF JobCovered
      <4> QED BY <2>1, <2>5, <2>7, <2>11, <4>1 DEF CoveredWhole, InRange
    <3> QED BY <2>7, <2>12, <3>1 DEF JobCovered
  <2>20. \A i \in Jobs : JobCovered(i)'
    BY <2>1, <2>6, <2>9, BystandersKnow DEF JobCovered
  <2>21. JobsKnown'
    BY <1>i, <1>s, <1>k, <2>1, <2>3 DEF JobsKnown, AtRest
  <2>22. \A q \in Callers : Knows(q)' BY <2>1, <2>4, BystandersKnow
  <2> QED BY <1>t, <2>20, <2>21, <2>22 DEF PositionIInv
<1>11. ASSUME NEW r \in Callers, Quarantine(r) PROVE PositionIInv'
  <2>1. captures' = captures /\ \A q \in Callers : q # r => request'[q] = request[q]
    BY <1>11, <1>i DEF Quarantine, Goto, PositionTypeOK
  <2>2. request[r] \in [at : AtCapture, job : Jobs, cursor : Captures \cup {NoCapture},
                   errors : Nat, capture : Captures]
    BY <1>11, <1>i, RowsKnown DEF Quarantine, AtCapture
  <2>k. PICK k \in Jobs : k = request[r].job BY <2>2
  <2>3. request'[r] = AtRest BY <1>11, <1>i DEF Quarantine, PositionTypeOK
  <2>4. Knows(r)' BY <2>3 DEF Knows, AtRest, AtCapture
  <2>5. jobs[k].status # "none" /\ jobs[k] \in JobRows
    BY <1>11, <1>i, <2>2, <2>k, RowsKnown DEF Quarantine, JobsKnown
  <2>6. \A j \in Jobs : j # k => jobs'[j] = jobs[j] BY <1>11, <1>i, <2>k DEF Quarantine, PositionTypeOK
  <2>d. PICK d \in Captures : d = request[r].capture BY <2>2
  <2>7. /\ jobs'[k].cursor = d /\ jobs'[k].status = jobs[k].status
        /\ jobs'[k].from = jobs[k].from /\ jobs'[k].to = jobs[k].to
    BY <1>11, <1>i, <2>5, <2>k, <2>d DEF Quarantine, Advanced, PositionTypeOK, JobRows
  <2>8. d \in captures /\ CoveredBefore(k, d)
    BY <1>11, <1>i, <2>k, <2>d DEF Quarantine, Knows, AtCapture
  <2>10. Covered(k, d)' BY <1>11, <2>k, <2>d DEF Quarantine, Covered
  <2>11. ASSUME NEW c \in captures, jobs[k].from <= c.race, c.race <= jobs[k].to
         PROVE  (~Precedes(d, c) => Covered(k, c)') /\ (Covered(k, c) => Covered(k, c)')
    <3>1. Covered(k, c) => Covered(k, c)'
      BY <1>11, <1>i, <2>5, StaysCovered DEF Covered, Quarantine
    <3>2. CASE Precedes(c, d)
      BY <2>5, <2>8, <2>11, <3>1, <3>2 DEF CoveredBefore, InRange
    <3>3. CASE ~Precedes(d, c) /\ ~Precedes(c, d)
      <4>1. c = d BY <1>i, <2>8, <3>3, PrecedesIsAnOrder DEF PositionTypeOK
      <4> QED BY <2>10, <3>1, <4>1
    <3> QED BY <3>1, <3>2, <3>3
  <2>12. CoveredTo(k, d)' BY <2>1, <2>5, <2>7, <2>11 DEF CoveredTo, InRange
  <2>9. JobCovered(k)'
    <3>1. jobs'[k].status = "completed" => CoveredWhole(k)'
      <4>1. jobs[k].status = "completed" => CoveredWhole(k) BY <1>i, <2>5 DEF JobCovered
      <4> QED BY <2>1, <2>5, <2>7, <2>11, <4>1 DEF CoveredWhole, InRange
    <3> QED BY <2>7, <2>12, <3>1 DEF JobCovered
  <2>20. \A i \in Jobs : JobCovered(i)'
    BY <2>1, <2>6, <2>9, BystandersKnow DEF JobCovered
  <2>21. JobsKnown'
    BY <1>i, <1>s, <1>k, <2>1, <2>3 DEF JobsKnown, AtRest
  <2>22. \A q \in Callers : Knows(q)' BY <2>1, <2>4, BystandersKnow
  <2> QED BY <1>t, <2>20, <2>21, <2>22 DEF PositionIInv
<1>12. ASSUME NEW r \in Callers, Fail(r) PROVE PositionIInv'
  <2>1. captures' = captures /\ \A q \in Callers : q # r => request'[q] = request[q]
    BY <1>12, <1>i DEF Fail, Goto, PositionTypeOK
  <2>2. request[r] \in [at : AtCapture, job : Jobs, cursor : Captures \cup {NoCapture},
                   errors : Nat, capture : Captures]
    BY <1>12, <1>i, RowsKnown DEF Fail, AtCapture
  <2>k. PICK k \in Jobs : k = request[r].job BY <2>2
  <2>3. request'[r] = AtRest BY <1>12, <1>i DEF Fail, PositionTypeOK
  <2>4. Knows(r)' BY <2>3 DEF Knows, AtRest, AtCapture
  <2>5. jobs[k].status # "none" /\ jobs[k] \in JobRows
    BY <1>12, <1>i, <2>2, <2>k, RowsKnown DEF Fail, JobsKnown
  <2>6. \A j \in Jobs : j # k => jobs'[j] = jobs[j] BY <1>12, <1>i, <2>k DEF Fail, PositionTypeOK
  <2>7. jobs'[k].cursor = jobs[k].cursor /\ jobs'[k].status # "completed"
    BY <1>12, <1>i, <2>5, <2>k DEF Fail, PositionTypeOK, JobRows
  <2>9. JobCovered(k)' BY <2>1, <2>5, <2>7, BystandersKnow
  <2>20. \A i \in Jobs : JobCovered(i)'
    BY <2>1, <2>6, <2>9, BystandersKnow DEF JobCovered
  <2>21. JobsKnown'
    BY <1>i, <1>s, <1>k, <2>1, <2>3 DEF JobsKnown, AtRest
  <2>22. \A q \in Callers : Knows(q)' BY <2>1, <2>4, BystandersKnow
  <2> QED BY <1>t, <2>20, <2>21, <2>22 DEF PositionIInv
<1>13. ASSUME NEW r \in Callers, Killed(r) PROVE PositionIInv'
  <2>1. captures' = captures /\ \A q \in Callers : q # r => request'[q] = request[q]
    BY <1>13, <1>i DEF Killed, Goto, PositionTypeOK
  <2>2. request'[r] = AtRest /\ jobs' = jobs BY <1>13, <1>i DEF Killed, PositionTypeOK
  <2>4. Knows(r)' BY <2>2 DEF Knows, AtRest, AtCapture
  <2>20. \A i \in Jobs : JobCovered(i)'
    BY <1>13, <2>1, <1>i, BystandersKnow DEF Killed, JobCovered
  <2>21. JobsKnown'
    BY <1>i, <1>s, <1>k, <2>1, <2>2 DEF JobsKnown, AtRest
  <2>22. \A q \in Callers : Knows(q)' BY <2>1, <2>4, BystandersKnow
  <2> QED BY <1>t, <2>20, <2>21, <2>22 DEF PositionIInv
<1>14. CASE UNCHANGED positionVars
  <2>1. captures' = captures /\ request' = request /\ jobs' = jobs BY <1>14 DEF positionVars
  <2>2. JobsKnown' BY <1>i, <2>1 DEF JobsKnown
  <2>3. \A r \in Callers : Knows(r)' BY <2>1, BystandersKnow
  <2>4. \A j \in Jobs : JobCovered(j)' BY <2>1, BystandersKnow DEF JobCovered
  <2> QED BY <1>t, <2>2, <2>3, <2>4 DEF PositionIInv
<1> QED BY <1>1, <1>2, <1>3, <1>4, <1>5, <1>6, <1>7, <1>8, <1>9, <1>10, <1>11, <1>12, <1>13,
       <1>14 DEF PositionNext, PositionStep

(* Every variable of the position jobs stays in its range, and the ids of       *)
(* captures stay unique.                                                       *)
THEOREM PositionTypeCorrect == PositionSpec => []PositionTypeOK
<1>1. PositionIInv => PositionTypeOK BY DEF PositionIInv
<1> QED BY PositionStarts, PositionKeeps, <1>1, PTL DEF PositionSpec

(* A completed job has derived or set aside every capture of its range that     *)
(* did not come too late, although requests overlap, set the cursor back, fail   *)
(* between batches and write the job's row from a stale copy.                   *)
THEOREM CompletedJobsCover == PositionSpec => []CompletedMeansCovered
<1>1. PositionIInv => CompletedMeansCovered
  BY DEF PositionIInv, JobCovered, CoveredWhole, CompletedMeansCovered
<1> QED BY PositionStarts, PositionKeeps, <1>1, PTL DEF PositionSpec


(***************************************************************************)
(* Sums.                                                                     *)
(***************************************************************************)
Units(f) == UNION {{i} \X (1 .. f[i]) : i \in DOMAIN f}

LEMMA UnitsAre ==
  ASSUME NEW S, NEW f \in [S -> Nat]
  PROVE  /\ Units(f) = {u \in S \X Nat : 1 <= u[2] /\ u[2] <= f[u[1]]}
         /\ SumOf(f) = Cardinality(Units(f))
         /\ IsFiniteSet(S) => IsFiniteSet(Units(f)) /\ SumOf(f) \in Nat
<1>1. Units(f) = {u \in S \X Nat : 1 <= u[2] /\ u[2] <= f[u[1]]}
  <2>1. ASSUME NEW u \in Units(f) PROVE u \in S \X Nat /\ 1 <= u[2] /\ u[2] <= f[u[1]]
    <3>1. PICK i \in S : u \in {i} \X (1 .. f[i]) BY <2>1 DEF Units
    <3>2. u[1] = i /\ u[2] \in 1 .. f[i] /\ u = <<u[1], u[2]>> BY <3>1
    <3>3. f[i] \in Nat OBVIOUS
    <3>4. u[2] \in Nat /\ 1 <= u[2] /\ u[2] <= f[i] BY <3>2, <3>3
    <3> QED BY <3>2, <3>4
  <2>2. ASSUME NEW u \in S \X Nat, 1 <= u[2], u[2] <= f[u[1]] PROVE u \in Units(f)
    <3>1. u[1] \in S /\ u[2] \in 1 .. f[u[1]] /\ u = <<u[1], u[2]>> BY <2>2
    <3>2. u \in {u[1]} \X (1 .. f[u[1]]) BY <3>1
    <3> QED BY <3>1, <3>2 DEF Units
  <2> QED BY <2>1, <2>2
<1>2. SumOf(f) = Cardinality(Units(f)) BY DEF SumOf, Units
<1>3. ASSUME IsFiniteSet(S) PROVE IsFiniteSet(Units(f))
  <2> DEFINE Column(i) == {i} \X (1 .. f[i])
             Columns == {Column(i) : i \in S}
  <2>1. \A i \in S : IsFiniteSet(Column(i))
    <3> TAKE i \in S
    <3>1. IsFiniteSet({i}) BY FS_Singleton
    <3>2. f[i] \in Int OBVIOUS
    <3>3. IsFiniteSet(1 .. f[i]) BY <3>2, FS_Interval
    <3> QED BY <3>1, <3>3, FS_Product
  <2>2. IsFiniteSet(Columns) 
    <3> DEFINE column == [i \in S |-> Column(i)]
    <3>1. column \in Surjection(S, Columns) BY DEF Surjection
    <3> QED BY <1>3, <3>1, FS_Surjection
  <2>3. IsFiniteSet(UNION Columns) BY <2>1, <2>2, FS_UNION
  <2> QED BY <2>3 DEF Units
<1>4. IsFiniteSet(S) => SumOf(f) \in Nat BY <1>2, <1>3, FS_CardinalityType
<1> QED BY <1>1, <1>2, <1>3, <1>4

LEMMA SumOfNothing ==
  ASSUME NEW S, NEW f \in [S -> Nat], \A i \in S : f[i] = 0
  PROVE  SumOf(f) = 0
<1>1. Units(f) = {} BY UnitsAre
<1> QED BY <1>1, UnitsAre, FS_EmptySet

\* What lies on part of the domain is counted beside the rest.
LEMMA SumOfParts ==
  ASSUME NEW S, IsFiniteSet(S), NEW T \in SUBSET S, NEW f \in [S -> Nat],
         NEW g \in [T -> Nat], NEW h \in [S -> Nat],
         \A i \in T : f[i] = 0 /\ h[i] = g[i],
         \A i \in S \ T : h[i] = f[i]
  PROVE  SumOf(h) = SumOf(f) + SumOf(g)
<1>1. IsFiniteSet(T) BY FS_Subset
<1>2. Units(f) = {u \in S \X Nat : 1 <= u[2] /\ u[2] <= f[u[1]]} BY UnitsAre
<1>3. Units(g) = {u \in T \X Nat : 1 <= u[2] /\ u[2] <= g[u[1]]} BY UnitsAre
<1>4. Units(h) = {u \in S \X Nat : 1 <= u[2] /\ u[2] <= h[u[1]]} BY UnitsAre
<1>5. Units(h) = Units(f) \cup Units(g)
  <2>1. ASSUME NEW u \in S \X Nat
        PROVE  u \in Units(h) <=> u \in Units(f) \/ u \in Units(g)
    <3>1. CASE u[1] \in T
      <4>1. u \in T \X Nat BY <3>1
      <4>2. f[u[1]] = 0 /\ h[u[1]] = g[u[1]] BY <3>1
      <4>3. u[2] \in Nat OBVIOUS
      <4> QED BY <1>2, <1>3, <1>4, <4>1, <4>2, <4>3
    <3>2. CASE u[1] \notin T
      <4>1. u[1] \in S OBVIOUS
      <4>2. h[u[1]] = f[u[1]] /\ u \notin T \X Nat BY <3>2, <4>1
      <4> QED BY <1>2, <1>3, <1>4, <4>2
    <3> QED BY <3>1, <3>2
  <2>2. Units(h) \subseteq S \X Nat /\ Units(f) \subseteq S \X Nat BY <1>2, <1>4
  <2>3. Units(g) \subseteq S \X Nat BY <1>3
  <2> QED BY <2>1, <2>2, <2>3
<1>6. Units(f) \cap Units(g) = {}
  <2>1. ASSUME NEW u \in Units(f), u \in Units(g) PROVE FALSE
    <3>1. u[1] \in T /\ 1 <= u[2] /\ u[2] <= f[u[1]] /\ u[2] \in Nat BY <2>1, <1>2, <1>3
    <3>2. f[u[1]] = 0 BY <3>1
    <3> QED BY <3>1, <3>2
  <2> QED BY <2>1
<1>7. IsFiniteSet(Units(f)) /\ IsFiniteSet(Units(g)) BY <1>1, UnitsAre
<1>8. Cardinality(Units(f)) \in Nat /\ Cardinality(Units(g)) \in Nat BY <1>7, FS_CardinalityType
<1>9. Cardinality(Units(h)) = Cardinality(Units(f)) + Cardinality(Units(g)) - 0
  BY <1>5, <1>6, <1>7, FS_Union, FS_EmptySet
<1> QED BY <1>8, <1>9, UnitsAre

LEMMA SumOfOne ==
  ASSUME NEW i, NEW f \in [{i} -> Nat]
  PROVE  SumOf(f) = f[i]
<1>1. Units(f) = {i} \X (1 .. f[i]) BY DEF Units
<1>2. IsFiniteSet({i}) /\ Cardinality({i}) = 1 BY FS_Singleton
<1>3. f[i] \in Nat OBVIOUS
<1>4. IsFiniteSet(1 .. f[i]) /\ Cardinality(1 .. f[i]) = f[i] BY <1>3, FS_Interval
<1>5. Cardinality({i} \X (1 .. f[i])) = Cardinality({i}) * Cardinality(1 .. f[i])
  BY <1>2, <1>4, FS_Product
<1>6. Cardinality(Units(f)) = 1 * f[i] BY <1>1, <1>2, <1>4, <1>5
<1> QED BY <1>3, <1>6, UnitsAre

\* A sum follows the one value that changes, and no value exceeds the sum.
LEMMA SumOfChanged ==
  ASSUME NEW S, IsFiniteSet(S), NEW f \in [S -> Nat], NEW g \in [S -> Nat], NEW i \in S,
         \A j \in S \ {i} : g[j] = f[j]
  PROVE  /\ SumOf(f) \in Nat /\ SumOf(g) \in Nat
         /\ SumOf(g) + f[i] = SumOf(f) + g[i]
         /\ f[i] <= SumOf(f)
<1> DEFINE rest == [j \in S |-> IF j = i THEN 0 ELSE f[j]]
           one(n) == [j \in {i} |-> n]
<1>1. rest \in [S -> Nat] /\ f[i] \in Nat /\ g[i] \in Nat OBVIOUS
<1>2. SumOf(f) \in Nat /\ SumOf(g) \in Nat /\ SumOf(rest) \in Nat BY <1>1, UnitsAre
<1>3. SumOf(f) = SumOf(rest) + SumOf(one(f[i]))
  <2>1. one(f[i]) \in [{i} -> Nat] BY <1>1
  <2> HIDE DEF rest, one
  <2>2. \A j \in {i} : rest[j] = 0 /\ f[j] = one(f[i])[j] BY DEF rest, one
  <2>3. \A j \in S \ {i} : f[j] = rest[j] BY DEF rest
  <2> QED BY <1>1, <2>1, <2>2, <2>3, SumOfParts
<1>4. SumOf(g) = SumOf(rest) + SumOf(one(g[i]))
  <2>1. one(g[i]) \in [{i} -> Nat] BY <1>1
  <2> HIDE DEF rest, one
  <2>2. \A j \in {i} : rest[j] = 0 /\ g[j] = one(g[i])[j] BY DEF rest, one
  <2>3. \A j \in S \ {i} : g[j] = rest[j] BY DEF rest
  <2> QED BY <1>1, <2>1, <2>2, <2>3, SumOfParts
<1>5. \A n \in Nat : SumOf(one(n)) = n
  <2> TAKE n \in Nat
  <2>1. one(n) \in [{i} -> Nat] /\ one(n)[i] = n OBVIOUS
  <2> HIDE DEF one
  <2> QED BY <2>1, SumOfOne
<1> HIDE DEF rest, one
<1> QED BY <1>1, <1>2, <1>3, <1>4, <1>5

(***************************************************************************)
(* The inductive invariant.                                                  *)
(***************************************************************************)
Cursors == 1 .. LastFamily + 1

Receipts == [status: {"none", "ready", "quarantined", "applied"},
             missing: Nat, candidates: Nat, restored: Nat]

RunRows == [phase: Phases, current: BOOLEAN, expected: Nat,
            family: Cursors, after: Sources \cup {NoSource},
            missing: Nat, ready: Nat, quarantined: Nat, restored: Nat,
            backup: {"none", "started", "verified"}, postMissing: Nat, postExcess: Nat]

SeenRows == [phase: Phases, expected: Nat, family: Cursors, after: Sources \cup {NoSource},
             postMissing: Nat, postExcess: Nat]

RecoveryRequests == [at: {"idle", "inventory", "execute", "audit", "prepare", "apply"},
                run: Runs \cup {NoRun}, seen: SeenRows, item: Items \cup {<<>>}, held: Receipts,
                todo: SUBSET Cells, inserted: Nat, whole: BOOLEAN]

Types ==
    /\ direct \subseteq Cells /\ observed \subseteq Cells /\ sound \subseteq Sources
    /\ epoch \in Nat
    /\ run \in [Runs -> RunRows]
    /\ receipt \in [Runs -> [Items -> Receipts]]
    /\ added \in [Runs -> SUBSET Cells]
    /\ requests \in [Requests -> RecoveryRequests]
    /\ \A k \in Requests :
        /\ requests[k].at # "idle" => requests[k].run \in Runs
        /\ requests[k].at \in {"prepare", "apply"} => requests[k].item \in Items
    /\ disturbances \in 0 .. MaxDisturbances /\ cuts \in 0 .. MaxCuts

\* Phases no run comes back from.
Audited == {"verify_pending", "complete", "complete_with_quarantine", "paused"}
Applied == Audited \cup {"applying"}

\* Where the walk over families and sources has been.
Passed(family, after, i) == i[1] < family \/ (i[1] = family /\ i[2] <= after)
Behind(c, d) == c.family < d.family \/ (c.family = d.family /\ c.after < d.after)
Abreast(c, d) == c.family = d.family /\ c.after = d.after

Shortfalls == [i \in Items |-> Shortfall(i[1], i[2])]
Excesses == [i \in Items |-> Excess(i[1], i[2])]

Part(of, family, after) == [i \in Items |-> IF Passed(family, after, i) THEN of[i] ELSE 0]

\* A run that was never started has left nothing.
Unstarted(r) == run[r].phase = "none" =>
    run[r] = NewRun /\ receipt[r] = [i \in Items |-> NoReceipt] /\ added[r] = {}

\* The inventory has written receipts only where it has been.
Inventoried(r) == run[r].phase = "inventory" =>
    /\ run[r].family <= LastFamily
    /\ \A i \in Items : ~ Passed(run[r].family, run[r].after, i) => receipt[r][i] = NoReceipt

\* While the data are as the run expects, its rows are there.
RowsThere(r) == Active(r) /\ run[r].expected = epoch => added[r] \subseteq direct

\* The audit has counted what it has passed, and no receipt is left open to it.
Counted(r) ==
    /\ run[r].phase \notin Audited => run[r].postMissing = 0 /\ run[r].postExcess = 0
    /\ run[r].phase \in Audited \ {"paused"} => Pending(r) = {}
    /\ run[r].phase = "verify_pending" =>
         /\ run[r].family <= LastFamily
         /\ run[r].expected = epoch =>
              /\ run[r].postMissing = SumOf(Part(Shortfalls, run[r].family, run[r].after))
              /\ run[r].postExcess = SumOf(Part(Excesses, run[r].family, run[r].after))

\* The part of Accounted that is about one run.
AccountOf(r) ==
    /\ run[r].missing = Total(r, "missing")
    /\ run[r].ready + run[r].quarantined = run[r].missing
    /\ run[r].phase # "paused" =>
         run[r].ready = SumOf([i \in Items |-> Kept(receipt[r][i])])
    /\ run[r].restored = Total(r, "restored")
    /\ run[r].restored = Cardinality(added[r])

RunSound(r) ==
    /\ run[r].expected <= epoch
    /\ Unstarted(r) /\ Inventoried(r) /\ RowsThere(r) /\ Counted(r) /\ AccountOf(r)

\* The run a request has read has only moved on since, past its own insertions.
MovedOn(k) ==
    LET q == requests[k]
        c == run[q.run]
    IN  /\ Reached(k) <= c.expected
        /\ c.phase # "none"
        /\ q.at # "apply" => q.inserted = 0
        /\ q.at \in {"prepare", "apply"} => c.phase \in Applied
        /\ q.at = "audit" =>
             /\ c.phase \in Audited
             /\ c.phase = "verify_pending" =>
                  \/ Behind(q.seen, c)
                  \/ /\ Abreast(q.seen, c)
                     /\ q.seen.postMissing = c.postMissing /\ q.seen.postExcess = c.postExcess

\* At the epoch it has read, the receipt a request holds is the one stored, or is closed.
HeldIsStored(k) ==
    LET q == requests[k]
    IN  q.at = "prepare" /\ epoch = q.seen.expected =>
            receipt[q.run][q.item] = q.held \/ receipt[q.run][q.item].status # "ready"

\* At the epoch a request has reached, what it still has to restore is proved.
TodoIsProved(k) ==
    LET q == requests[k]
    IN  q.at = "apply" =>
          /\ q.todo \subseteq CellsOf(q.item[1], q.item[2])
          /\ run[q.run].phase = "applying" /\ epoch = Reached(k) =>
               \A c \in q.todo \ direct : \E p \in Predecessor(c) : Fact[p] = Fact[c]

RequestSound(k) == requests[k].at # "idle" => MovedOn(k) /\ HeldIsStored(k) /\ TodoIsProved(k)

RecoveryIInv ==
    /\ Types
    /\ OneActive
    /\ \A r \in Runs : RunSound(r)
    /\ \A k \in Requests : RequestSound(k)

(***************************************************************************)
(* Constants, counts and orders.                                             *)
(***************************************************************************)
LEMMA ConstantsKnown ==
  /\ LastFamily \in Nat /\ LastFamily > 0
  /\ Sources \subseteq Nat /\ 0 \notin Sources /\ IsFiniteSet(Sources)
  /\ IsFiniteSet(Items) /\ IsFiniteSet(Cells)
  /\ \A c \in Cells : c[1] \in Families /\ c[2] \in Sources
  /\ NoRun \notin Runs
  /\ AuditPageSize \in Nat /\ AuditPageSize > 0 /\ ApplyPage \in Nat
  /\ MaxDisturbances \in Nat /\ MaxCuts \in Nat
<1>1. /\ LastFamily \in Nat /\ LastFamily > 0
      /\ Sources \subseteq Nat /\ 0 \notin Sources /\ IsFiniteSet(Sources)
      /\ IsFiniteSet(Cells) /\ NoRun \notin Runs
      /\ \A c \in Cells : c[1] \in Families /\ c[2] \in Sources
      /\ AuditPageSize \in Nat /\ AuditPageSize > 0 /\ ApplyPage \in Nat
      /\ MaxDisturbances \in Nat /\ MaxCuts \in Nat
  BY RecoveryAssumption
<1>2. IsFiniteSet(Families)
  <2>1. 1 \in Int /\ LastFamily \in Int BY <1>1
  <2> QED BY <2>1, FS_Interval DEF Families
<1>3. IsFiniteSet(Items) BY <1>1, <1>2, FS_Product DEF Items
<1> QED BY <1>1, <1>3

LEMMA ItemsKnown ==
  ASSUME NEW i \in Items
  PROVE  /\ i = <<i[1], i[2]>> /\ i[1] \in Nat /\ 1 <= i[1] /\ i[1] <= LastFamily
         /\ i[2] \in Sources /\ i[2] \in Nat /\ 0 < i[2]
<1>1. i = <<i[1], i[2]>> /\ i[1] \in 1 .. LastFamily /\ i[2] \in Sources BY DEF Items, Families
<1>2. i[2] \in Nat /\ i[2] # 0 BY <1>1, ConstantsKnown
<1>3. 0 < i[2] BY <1>2
<1> QED BY <1>1, <1>2, <1>3, ConstantsKnown

LEMMA CursorsKnown ==
  ASSUME NEW c \in RunRows \cup SeenRows
  PROVE  c.family \in Nat /\ 1 <= c.family /\ c.after \in Nat
<1>1. c.family \in Cursors /\ c.after \in Sources \cup {0}
  BY DEF RunRows, SeenRows, NoSource
<1>2. LastFamily \in Nat BY ConstantsKnown
<1>3. c.family \in Nat /\ 1 <= c.family
  <2>1. \A n \in 1 .. LastFamily + 1 : n \in Nat /\ 1 <= n BY <1>2
  <2> QED BY <1>1, <2>1 DEF Cursors
<1>4. Sources \cup {0} \subseteq Nat BY ConstantsKnown
<1> QED BY <1>1, <1>3, <1>4

LEMMA CountsKnown ==
  ASSUME NEW f, NEW s
  PROVE  /\ Shortfall(f, s) \in Nat /\ Excess(f, s) \in Nat
         /\ Cardinality(Candidates(f, s)) \in Nat
<1>1. \A X \in SUBSET Cells : IsFiniteSet(X) /\ Cardinality(X) \in Nat
  BY ConstantsKnown, FS_Subset, FS_CardinalityType
<1>2. CellsOf(f, s) \in SUBSET Cells BY DEF CellsOf
<1>3. Expected(f, s) \in Nat BY <1>1, <1>2 DEF Expected
<1>4. Actual(f, s) \in Nat
  <2>1. Cardinality(CellsOf(f, s) \cap direct) \in Nat BY <1>1, <1>2
  <2>2. Cardinality(CellsOf(f, s) \cap observed) \in Nat BY <1>1, <1>2
  <2> QED BY <2>1, <2>2 DEF Actual
<1>5. Candidates(f, s) \in SUBSET Cells BY <1>2 DEF Candidates
<1> QED BY <1>1, <1>3, <1>4, <1>5 DEF Shortfall, Excess

LEMMA CountsAreFunctions ==
  /\ Shortfalls \in [Items -> Nat] /\ Excesses \in [Items -> Nat]
  /\ \A of \in [Items -> Nat] : \A family, after : Part(of, family, after) \in [Items -> Nat]
<1>1. \A i \in Items : Shortfall(i[1], i[2]) \in Nat /\ Excess(i[1], i[2]) \in Nat BY CountsKnown
<1> QED BY <1>1 DEF Shortfalls, Excesses, Part

\* A finite set of numbers that is not empty has a first and a last one.
LEMMA EndsExist ==
  ASSUME NEW S \in SUBSET Nat, IsFiniteSet(S), S # {}
  PROVE  /\ \E m \in S : \A o \in S : m <= o
         /\ \E m \in S : \A o \in S : o <= m
<1> DEFINE HasEnds(X) == /\ \E m \in X : \A o \in X : m <= o
                         /\ \E m \in X : \A o \in X : o <= m
           Bad == {X \in FiniteSubsetsOf(S) : X # {} /\ ~ HasEnds(X)}
<1>1. SUFFICES ASSUME Bad # {} PROVE FALSE
  <2>1. S \in FiniteSubsetsOf(S) BY DEF FiniteSubsetsOf
  <2> QED BY <1>1, <2>1
<1>2. IsWellFoundedOn(StrictSubsetOrdering(S), FiniteSubsetsOf(S))
  BY FS_StrictSubsetOrderingWellFounded
<1>3. Bad \subseteq FiniteSubsetsOf(S) OBVIOUS
<1> HIDE DEF Bad
<1>4. PICK X \in Bad : \A Y \in Bad : ~ (<<Y, X>> \in StrictSubsetOrdering(S))
  BY <1>1, <1>2, <1>3, WFMin
<1> USE DEF Bad
<1>5. X \subseteq S /\ IsFiniteSet(X) /\ X # {} /\ ~ HasEnds(X) BY <1>4 DEF FiniteSubsetsOf
<1>6. PICK x \in X : TRUE BY <1>5
<1> DEFINE Y == X \ {x}
<1>7. Y \in FiniteSubsetsOf(S) /\ Y # X
  <2>1. IsFiniteSet(Y) BY <1>5, FS_Subset
  <2> QED BY <1>5, <1>6, <2>1 DEF FiniteSubsetsOf
<1>8. <<Y, X>> \in StrictSubsetOrdering(S)
  BY <1>5, <1>7 DEF StrictSubsetOrdering, FiniteSubsetsOf
<1>9. Y = {} \/ HasEnds(Y) BY <1>4, <1>7, <1>8
<1>10. X \subseteq Nat BY <1>5
<1>11. CASE Y = {}
  <2>1. X = {x} BY <1>11, <1>6
  <2> QED BY <1>5, <1>10, <2>1
<1>12. CASE HasEnds(Y)
  <2>1. PICK m \in Y : \A o \in Y : m <= o BY <1>12
  <2>2. PICK n \in Y : \A o \in Y : o <= n BY <1>12
  <2>3. \A o \in X : o = x \/ o \in Y OBVIOUS
  <2>4. m \in Nat /\ n \in Nat /\ x \in Nat /\ \A o \in X : o \in Nat BY <1>10, <1>6
  <2>5. \E a \in X : \A o \in X : a <= o
    <3>1. CASE m <= x BY <2>1, <2>3, <2>4, <3>1
    <3>2. CASE x <= m BY <1>6, <2>1, <2>3, <2>4, <3>2
    <3> QED BY <3>1, <3>2, <2>4
  <2>6. \E a \in X : \A o \in X : o <= a
    <3>1. CASE x <= n BY <2>2, <2>3, <2>4, <3>1
    <3>2. CASE n <= x BY <1>6, <2>2, <2>3, <2>4, <3>2
    <3> QED BY <3>1, <3>2, <2>4
  <2> QED BY <1>5, <2>5, <2>6
<1> QED BY <1>9, <1>11, <1>12

LEMMA FirstSourceIsIn ==
  ASSUME NEW S \in SUBSET Sources, S # {}
  PROVE  FirstSource(S) \in S /\ \A o \in S : FirstSource(S) <= o
<1>1. S \in SUBSET Nat /\ IsFiniteSet(S) BY ConstantsKnown, FS_Subset
<1>2. \E m \in S : \A o \in S : m <= o BY <1>1, EndsExist
<1> QED BY <1>2 DEF FirstSource

LEMMA FirstItemIsIn ==
  ASSUME NEW S \in SUBSET Items, S # {}
  PROVE  FirstItem(S) \in S
<1> DEFINE families == {i[1] : i \in S}
<1>1. families \in SUBSET Nat /\ families # {} BY ItemsKnown
<1>2. IsFiniteSet(families)
  <2>1. families \subseteq Families BY DEF Items
  <2>2. 1 \in Int /\ LastFamily \in Int BY ConstantsKnown
  <2> QED BY <2>1, <2>2, FS_Interval, FS_Subset DEF Families
<1> HIDE DEF families
<1>3. PICK f \in families : \A g \in families : f <= g BY <1>1, <1>2, EndsExist
<1> USE DEF families
<1> DEFINE sources == {s \in Sources : <<f, s>> \in S}
<1>4. PICK i \in S : i[1] = f BY <1>3
<1>5. i[2] \in sources BY <1>4, ItemsKnown
<1>6. sources \in SUBSET Nat /\ IsFiniteSet(sources) BY ConstantsKnown, FS_Subset
<1> HIDE DEF sources
<1>7. PICK s \in sources : \A o \in sources : s <= o BY <1>5, <1>6, EndsExist
<1> USE DEF sources
<1>8. <<f, s>> \in S /\ f \in Nat BY <1>1, <1>7
<1>9. ASSUME NEW o \in S PROVE f < o[1] \/ (f = o[1] /\ s <= o[2])
  <2>1. f <= o[1] /\ o[1] \in Nat BY <1>3, ItemsKnown
  <2>2. f = o[1] => o[2] \in sources BY ItemsKnown
  <2> QED BY <1>7, <1>8, <2>1, <2>2
<1>10. \E x \in S : \A o \in S : x[1] < o[1] \/ (x[1] = o[1] /\ x[2] <= o[2])
  <2>1. <<f, s>>[1] = f /\ <<f, s>>[2] = s OBVIOUS
  <2> QED BY <1>8, <1>9, <2>1
<1> QED BY <1>10 DEF FirstItem

(***************************************************************************)
(* What a step leaves alone.                                                 *)
(***************************************************************************)
\* The data are the same, or the epoch tells a run that is active.
DataFenced(r) ==
    /\ epoch' \in Nat /\ epoch <= epoch'
    /\ Active(r) /\ epoch' = epoch => direct' = direct /\ observed' = observed

\* A run that goes on or is paused.
Undisturbed(r) ==
    /\ run'[r].phase = run[r].phase \/ (Active(r) /\ run'[r].phase = "paused")
    /\ run[r].phase = "none" => run'[r] = run[r]
    /\ run'[r].expected = run[r].expected
    /\ run'[r].family = run[r].family /\ run'[r].after = run[r].after
    /\ run'[r].missing = run[r].missing /\ run'[r].ready = run[r].ready
    /\ run'[r].quarantined = run[r].quarantined /\ run'[r].restored = run[r].restored
    /\ run'[r].postMissing = run[r].postMissing /\ run'[r].postExcess = run[r].postExcess
    /\ receipt'[r] = receipt[r] /\ added'[r] = added[r]

\* What a request that is at work on a run has to expect of it.
Moves(r) == run[r].phase # "none" =>
    /\ run[r].expected <= run'[r].expected
    /\ run'[r].phase # "none"
    /\ run[r].phase \in Applied => run'[r].phase \in Applied
    /\ run[r].phase \in Audited => run'[r].phase \in Audited
    /\ run[r].phase \in Audited /\ run'[r].phase = "verify_pending" =>
         /\ run[r].phase = "verify_pending"
         /\ \/ Behind(run[r], run'[r])
            \/ /\ Abreast(run[r], run'[r])
               /\ run'[r].postMissing = run[r].postMissing
               /\ run'[r].postExcess = run[r].postExcess
    /\ run[r].phase \in Applied /\ epoch' = epoch =>
         \A i \in Items : receipt'[r][i] = receipt[r][i] \/ receipt'[r][i].status # "ready"

LEMMA RunStays ==
  ASSUME Types, NEW r \in Runs, RunSound(r), Undisturbed(r), DataFenced(r)
  PROVE  RunSound(r)'
<1> USE DEF RunSound, Undisturbed
<1>0. /\ run[r] \in RunRows /\ epoch \in Nat /\ epoch' \in Nat /\ run[r].expected \in Nat
      /\ run[r].phase \in Phases
  BY DEF Types, DataFenced, RunRows
<1>1. run'[r].expected <= epoch' BY <1>0 DEF DataFenced
<1>2. Unstarted(r)' BY DEF Unstarted, Active, ActivePhases
<1>3. Inventoried(r)' BY DEF Inventoried
<1>4. RowsThere(r)'
  <2>1. ASSUME Active(r)', run'[r].expected = epoch' PROVE added'[r] \subseteq direct'
    <3>1. Active(r) BY <2>1 DEF Active, ActivePhases
    <3>2. epoch' = epoch /\ run[r].expected = epoch BY <2>1, <1>0 DEF DataFenced
    <3>3. direct' = direct BY <3>1, <3>2 DEF DataFenced
    <3> QED BY <3>1, <3>2, <3>3 DEF RowsThere
  <2> QED BY <2>1 DEF RowsThere
<1>5. Counted(r)'
  <2>1. run'[r].phase \notin Audited => run'[r].postMissing = 0 /\ run'[r].postExcess = 0
    BY DEF Counted, Audited
  <2>2. run'[r].phase \in Audited \ {"paused"} => Pending(r)' = {}
    BY DEF Counted, Audited, Pending
  <2>3. ASSUME run'[r].phase = "verify_pending"
        PROVE  /\ run'[r].family <= LastFamily
               /\ run'[r].expected = epoch' =>
                    /\ run'[r].postMissing = SumOf(Part(Shortfalls, run[r].family, run[r].after))'
                    /\ run'[r].postExcess = SumOf(Part(Excesses, run[r].family, run[r].after))'
    <3>1. run[r].phase = "verify_pending" /\ Active(r) BY <2>3 DEF Active, ActivePhases
    <3>2. run'[r].family <= LastFamily BY <3>1 DEF Counted
    <3>3. ASSUME run'[r].expected = epoch' PROVE epoch' = epoch /\ run[r].expected = epoch
      BY <3>3, <1>0 DEF DataFenced
    <3>4. epoch' = epoch => direct' = direct /\ observed' = observed
      BY <3>1 DEF DataFenced
    <3>5. ASSUME direct' = direct, observed' = observed
          PROVE  Shortfalls' = Shortfalls /\ Excesses' = Excesses
      BY <3>5 DEF Shortfalls, Excesses, Shortfall, Excess, Actual
    <3>6. ASSUME Shortfalls' = Shortfalls, Excesses' = Excesses
          PROVE  /\ Part(Shortfalls, run[r].family, run[r].after)'
                        = Part(Shortfalls, run[r].family, run[r].after)
                 /\ Part(Excesses, run[r].family, run[r].after)'
                        = Part(Excesses, run[r].family, run[r].after)
      BY <3>6 DEF Part
    <3>7. ASSUME run'[r].expected = epoch'
          PROVE  /\ SumOf(Part(Shortfalls, run[r].family, run[r].after))'
                        = SumOf(Part(Shortfalls, run[r].family, run[r].after))
                 /\ SumOf(Part(Excesses, run[r].family, run[r].after))'
                        = SumOf(Part(Excesses, run[r].family, run[r].after))
      BY <3>3, <3>4, <3>5, <3>6, <3>7 DEF SumOf
    <3> QED BY <3>1, <3>2, <3>3, <3>7 DEF Counted
  <2> QED BY <2>1, <2>2, <2>3 DEF Counted
<1>6. AccountOf(r)' BY DEF AccountOf, Total
<1> QED BY <1>1, <1>2, <1>3, <1>4, <1>5, <1>6

LEMMA StaysMoves ==
  ASSUME Types, NEW r \in Runs, Undisturbed(r)
  PROVE  Moves(r)
<1>1. run[r] \in RunRows /\ run[r].expected \in Nat BY DEF Types, RunRows
<1> QED BY <1>1 DEF Undisturbed, Moves, Applied, Audited, Active, ActivePhases, Abreast

LEMMA RequestStays ==
  ASSUME Types, NEW k \in Requests, RequestSound(k), requests[k].at # "idle",
         \A r \in Runs : RunSound(r) /\ DataFenced(r) /\ Moves(r),
         run' \in [Runs -> RunRows], requests'[k] = requests[k]
  PROVE  RequestSound(k)'
<1> DEFINE q == requests[k]
           c == run[q.run]
           d == run'[q.run]
<1>1. q.run \in Runs /\ q \in RecoveryRequests BY DEF Types
<1>2. c \in RunRows /\ d \in RunRows /\ epoch \in Nat BY <1>1 DEF Types
<1>3. MovedOn(k) /\ HeldIsStored(k) /\ TodoIsProved(k) BY DEF RequestSound
<1>4. /\ Moves(q.run) /\ DataFenced(q.run) /\ RunSound(q.run) BY <1>1
<1>5. /\ q.seen.expected \in Nat /\ q.inserted \in Nat /\ q.seen \in SeenRows
      /\ c.expected \in Nat /\ d.expected \in Nat
      /\ q.at \in {"prepare", "apply"} => q.item \in Items
  BY <1>1, <1>2 DEF RecoveryRequests, SeenRows, RunRows, Types
<1>6. Reached(k) \in Nat /\ Reached(k) <= c.expected /\ c.phase # "none" /\ Reached(k)' = Reached(k)
  BY <1>3, <1>5 DEF Reached, MovedOn
<1>7. MovedOn(k)'
  <2>1. Reached(k)' <= d.expected /\ d.phase # "none" BY <1>4, <1>5, <1>6 DEF Moves
  <2>2. q.at \in {"prepare", "apply"} => d.phase \in Applied BY <1>3, <1>4 DEF Moves, MovedOn
  <2>3. ASSUME q.at = "audit"
        PROVE  /\ d.phase \in Audited
               /\ d.phase = "verify_pending" =>
                    \/ Behind(q.seen, d)
                    \/ /\ Abreast(q.seen, d)
                       /\ q.seen.postMissing = d.postMissing /\ q.seen.postExcess = d.postExcess
    <3>1. c.phase \in Audited /\ d.phase \in Audited BY <1>3, <1>4, <2>3 DEF Moves, MovedOn
    <3>2. ASSUME d.phase = "verify_pending"
          PROVE  /\ c.phase = "verify_pending"
                 /\ \/ Behind(c, d)
                    \/ Abreast(c, d) /\ d.postMissing = c.postMissing /\ d.postExcess = c.postExcess
      BY <1>4, <3>1, <3>2 DEF Moves, Audited
    <3>3. /\ q.seen.family \in Nat /\ c.family \in Nat /\ d.family \in Nat
          /\ q.seen.after \in Nat /\ c.after \in Nat /\ d.after \in Nat
      BY <1>2, <1>5, CursorsKnown
    <3>4. ASSUME d.phase = "verify_pending"
          PROVE  \/ Behind(q.seen, d)
                 \/ /\ Abreast(q.seen, d)
                    /\ q.seen.postMissing = d.postMissing /\ q.seen.postExcess = d.postExcess
      <4>1. \/ Behind(q.seen, c)
            \/ /\ Abreast(q.seen, c)
               /\ q.seen.postMissing = c.postMissing /\ q.seen.postExcess = c.postExcess
        BY <1>3, <2>3, <3>2, <3>4 DEF MovedOn
      <4> QED BY <3>2, <3>3, <3>4, <4>1 DEF Behind, Abreast
    <3> QED BY <3>1, <3>4
  <2> QED BY <1>3, <2>1, <2>2, <2>3 DEF MovedOn
<1>8. epoch' # epoch => Reached(k) # epoch'
  <2>1. epoch' \in Nat /\ epoch <= epoch' /\ c.expected <= epoch BY <1>4 DEF DataFenced, RunSound
  <2> QED BY <1>2, <1>5, <1>6, <2>1
<1>9. HeldIsStored(k)'
  <2>1. ASSUME q.at = "prepare", epoch' = q.seen.expected
        PROVE  receipt'[q.run][q.item] = q.held \/ receipt'[q.run][q.item].status # "ready"
    <3>1. Reached(k) = q.seen.expected BY <1>3, <1>5, <2>1 DEF MovedOn, Reached
    <3>2. epoch' = epoch BY <1>8, <2>1, <3>1
    <3>3. c.phase \in Applied /\ q.item \in Items BY <1>3, <1>5, <2>1 DEF MovedOn
    <3>4. c.phase # "none" BY <1>6
    <3>5. \/ receipt'[q.run][q.item] = receipt[q.run][q.item]
          \/ receipt'[q.run][q.item].status # "ready"
      BY <1>4, <3>2, <3>3, <3>4 DEF Moves
    <3> QED BY <1>3, <2>1, <3>2, <3>5 DEF HeldIsStored
  <2> QED BY <2>1 DEF HeldIsStored
<1>10. TodoIsProved(k)'
  <2>1. ASSUME q.at = "apply", d.phase = "applying", epoch' = Reached(k), NEW x \in q.todo,
               x \notin direct'
        PROVE  \E p \in Predecessor(x)' : Fact[p] = Fact[x]
    <3>1. epoch' = epoch BY <1>8, <2>1
    <3>2. c.phase \in Applied /\ c.phase \notin Audited
      BY <1>3, <1>4, <2>1 DEF MovedOn, Moves, Audited
    <3>3. c.phase = "applying" /\ Active(q.run) BY <3>2 DEF Applied, Active, ActivePhases
    <3>4. direct' = direct BY <1>4, <3>1, <3>3 DEF DataFenced
    <3>5. \E p \in Predecessor(x) : Fact[p] = Fact[x]
      BY <1>3, <2>1, <3>1, <3>3, <3>4 DEF TodoIsProved
    <3>6. Predecessor(x)' = Predecessor(x) BY <3>4 DEF Predecessor, Earlier
    <3> QED BY <3>5, <3>6
  <2>2. q.at = "apply" => q.todo \subseteq CellsOf(q.item[1], q.item[2]) BY <1>3 DEF TodoIsProved
  <2> QED BY <1>6, <2>1, <2>2 DEF TodoIsProved
<1> QED BY <1>7, <1>9, <1>10 DEF RequestSound

LEMMA Together ==
  ASSUME RecoveryIInv, Types',
         \A r \in Runs :
            /\ DataFenced(r)
            /\ Undisturbed(r) \/ (Moves(r) /\ RunSound(r)' /\ (Active(r)' => Active(r))),
         \A k \in Requests :
            requests'[k] = requests[k] \/ requests'[k].at = "idle" \/ RequestSound(k)'
  PROVE  RecoveryIInv'
<1>1. Types /\ OneActive /\ \A r \in Runs : RunSound(r) BY DEF RecoveryIInv
<1>2. \A r \in Runs : Moves(r) /\ RunSound(r)' BY <1>1, RunStays, StaysMoves
<1>3. \A r \in Runs : Active(r)' => Active(r) BY DEF Undisturbed, Active, ActivePhases
<1>4. OneActive' BY <1>1, <1>3 DEF OneActive
<1>5. ASSUME NEW k \in Requests PROVE RequestSound(k)'
  <2>1. CASE requests'[k] = requests[k]
    <3>1. CASE requests[k].at = "idle" BY <2>1, <3>1 DEF RequestSound
    <3>2. CASE requests[k].at # "idle"
      <4>1. run' \in [Runs -> RunRows] BY DEF Types
      <4>2. RequestSound(k) BY DEF RecoveryIInv
      <4> QED BY <1>1, <1>2, <2>1, <3>2, <4>1, <4>2, RequestStays
    <3> QED BY <3>1, <3>2
  <2>2. CASE requests'[k].at = "idle" BY <2>2 DEF RequestSound
  <2> QED BY <1>5, <2>1, <2>2
<1> QED BY <1>2, <1>4, <1>5 DEF RecoveryIInv

LEMMA Blank ==
  /\ NewRun \in RunRows /\ NoReceipt \in Receipts /\ NoRequest \in RecoveryRequests
  /\ NoRequest.at = "idle"
  /\ \A c \in RunRows : Seen(c) \in SeenRows
<1>1. 1 \in Cursors
  <2>1. LastFamily \in Nat BY ConstantsKnown
  <2> QED BY <2>1 DEF Cursors
<1>2. NewRun \in RunRows BY <1>1 DEF NewRun, RunRows, Phases, NoSource
<1>3. NoReceipt \in Receipts BY DEF NoReceipt, Receipts
<1>4. \A c \in RunRows : Seen(c) \in SeenRows BY DEF Seen, SeenRows, RunRows
<1>5. NoRequest \in RecoveryRequests BY <1>2, <1>3, <1>4 DEF NoRequest, RecoveryRequests
<1> QED BY <1>2, <1>3, <1>4, <1>5 DEF NoRequest

LEMMA RequestEnds ==
  ASSUME Types, NEW k \in Requests, Done(k)
  PROVE  /\ requests' \in [Requests -> RecoveryRequests] /\ requests'[k].at = "idle"
         /\ \A j \in Requests : requests'[j] = requests[j] \/ requests'[j].at = "idle"
         /\ \A j \in Requests :
              /\ requests'[j].at # "idle" => requests'[j].run \in Runs
              /\ requests'[j].at \in {"prepare", "apply"} => requests'[j].item \in Items
<1>1. requests \in [Requests -> RecoveryRequests] BY DEF Types
<1>2. requests' = [requests EXCEPT ![k] = NoRequest] BY DEF Done
<1>3. \A j \in Requests : requests'[j] = IF j = k THEN NoRequest ELSE requests[j] BY <1>1, <1>2
<1>4. requests' \in [Requests -> RecoveryRequests] BY <1>1, <1>2, Blank
<1> QED BY <1>3, <1>4, Blank DEF Types

LEMMA RunPauses ==
  ASSUME Types, NEW r \in Runs, MarkPaused(r), receipt' = receipt, added' = added
  PROVE  /\ run' \in [Runs -> RunRows]
         /\ \A o \in Runs : Undisturbed(o)
<1>1. run \in [Runs -> RunRows] BY DEF Types
<1>2. CASE Active(r)
  <2>1. run' = [run EXCEPT ![r].phase = "paused"] BY <1>2 DEF MarkPaused
  <2>2. run' \in [Runs -> RunRows] BY <1>1, <2>1 DEF RunRows, Phases
  <2>3. run[r].phase # "none" BY <1>2 DEF Active, ActivePhases
  <2>4. \A o \in Runs : Undisturbed(o)
    <3> TAKE o \in Runs
    <3>1. CASE o # r
      <4>1. run'[o] = run[o] BY <1>1, <2>1, <3>1
      <4> QED BY <4>1 DEF Undisturbed
    <3>2. CASE o = r
      <4>1. run'[r] = [run[r] EXCEPT !.phase = "paused"] BY <1>1, <2>1
      <4> QED BY <1>1, <1>2, <2>3, <3>2, <4>1 DEF Undisturbed, RunRows
    <3> QED BY <3>1, <3>2
  <2> QED BY <2>2, <2>4
<1>3. CASE ~ Active(r)
  <2>1. run' = run BY <1>3 DEF MarkPaused
  <2> QED BY <1>1, <2>1 DEF Undisturbed
<1> QED BY <1>2, <1>3

LEMMA DataStay ==
  ASSUME Types, direct' = direct, observed' = observed, epoch' = epoch
  PROVE  \A r \in Runs : DataFenced(r)
BY DEF Types, DataFenced

-----------------------------------------------------------------------------
LEMMA RecoveryBegins == RecoveryInit => RecoveryIInv
<1> SUFFICES ASSUME RecoveryInit PROVE RecoveryIInv
  OBVIOUS
<1>1. Types
  <2>1. direct \subseteq Cells /\ observed \subseteq Cells
    BY RecoveryAssumption DEF RecoveryInit
  <2>2. sound \subseteq Sources BY DEF RecoveryInit
  <2>3. run \in [Runs -> RunRows] /\ receipt \in [Runs -> [Items -> Receipts]]
    BY Blank DEF RecoveryInit
  <2>4. requests \in [Requests -> RecoveryRequests] /\ \A k \in Requests : requests[k].at = "idle"
    BY Blank DEF RecoveryInit
  <2>5. disturbances \in 0 .. MaxDisturbances /\ cuts \in 0 .. MaxCuts
    BY ConstantsKnown DEF RecoveryInit
  <2>6. epoch \in Nat /\ added \in [Runs -> SUBSET Cells] BY DEF RecoveryInit
  <2> QED BY <2>1, <2>2, <2>3, <2>4, <2>5, <2>6 DEF Types
<1>2. OneActive BY DEF RecoveryInit, OneActive, Active, ActivePhases, NewRun
<1>3. ASSUME NEW r \in Runs PROVE RunSound(r)
  <2>1. /\ run[r] = NewRun /\ receipt[r] = [i \in Items |-> NoReceipt] /\ added[r] = {}
        /\ epoch = 0
    BY DEF RecoveryInit
  <2>2. run[r].phase = "none" /\ run[r].expected = 0 BY <2>1 DEF NewRun
  <2>3. Unstarted(r) /\ Inventoried(r) /\ RowsThere(r) /\ Counted(r)
    BY <2>1, <2>2
       DEF Unstarted, Inventoried, RowsThere, Counted, Active, ActivePhases, Audited, NewRun
  <2>4. AccountOf(r)
    <3>1. Total(r, "missing") = 0
      <4> DEFINE f == [i \in Items |-> receipt[r][i]["missing"]]
      <4>1. f \in [Items -> Nat] /\ \A i \in Items : f[i] = 0 BY <2>1 DEF NoReceipt
      <4> HIDE DEF f
      <4>2. SumOf(f) = 0 BY <4>1, SumOfNothing
      <4> QED BY <4>2 DEF f, Total
    <3>2. Total(r, "restored") = 0
      <4> DEFINE f == [i \in Items |-> receipt[r][i]["restored"]]
      <4>1. f \in [Items -> Nat] /\ \A i \in Items : f[i] = 0 BY <2>1 DEF NoReceipt
      <4> HIDE DEF f
      <4>2. SumOf(f) = 0 BY <4>1, SumOfNothing
      <4> QED BY <4>2 DEF f, Total
    <3>3. SumOf([i \in Items |-> Kept(receipt[r][i])]) = 0
      <4> DEFINE f == [i \in Items |-> Kept(receipt[r][i])]
      <4>1. f \in [Items -> Nat] /\ \A i \in Items : f[i] = 0 BY <2>1 DEF NoReceipt, Kept
      <4> HIDE DEF f
      <4>2. SumOf(f) = 0 BY <4>1, SumOfNothing
      <4> QED BY <4>2 DEF f
    <3> QED BY <2>1, <3>1, <3>2, <3>3, FS_EmptySet DEF AccountOf, NewRun
  <2> QED BY <2>1, <2>2, <2>3, <2>4 DEF RunSound
<1>4. \A k \in Requests : RequestSound(k) BY Blank DEF RecoveryInit, RequestSound
<1> QED BY <1>1, <1>2, <1>3, <1>4 DEF RecoveryIInv

LEMMA OtherWriteStep == RecoveryIInv /\ OtherWrite => RecoveryIInv'
<1> SUFFICES ASSUME RecoveryIInv, OtherWrite PROVE RecoveryIInv'
  OBVIOUS
<1>1. Types BY DEF RecoveryIInv
<1>2. Types'
  <2>1. direct' \subseteq Cells /\ observed' \subseteq Cells BY <1>1 DEF OtherWrite, Types
  <2>2. epoch' \in Nat BY <1>1 DEF OtherWrite, Types
  <2>3. disturbances' \in 0 .. MaxDisturbances BY <1>1, ConstantsKnown DEF OtherWrite, Types
  <2> QED BY <1>1, <2>1, <2>2, <2>3 DEF OtherWrite, Types
<1>3. ASSUME NEW r \in Runs PROVE DataFenced(r) /\ Undisturbed(r)
  <2>1. Undisturbed(r) BY DEF OtherWrite, Undisturbed
  <2>2. epoch \in Nat /\ (Active(r) => epoch' = epoch + 1) /\ (epoch' = epoch \/ epoch' = epoch + 1)
    BY <1>1 DEF Types, OtherWrite, SomeActive
  <2> QED BY <2>1, <2>2 DEF DataFenced
<1>4. requests' = requests BY DEF OtherWrite
<1> QED BY <1>2, <1>3, <1>4, Together

LEMMA OriginalStep ==
  ASSUME RecoveryIInv, NEW s \in Sources, OriginalChanges(s)
  PROVE  RecoveryIInv'
<1>1. Types BY DEF RecoveryIInv
<1>2. Types'
  <2>1. sound' \subseteq Sources BY <1>1 DEF OriginalChanges, Types
  <2>2. disturbances' \in 0 .. MaxDisturbances BY <1>1, ConstantsKnown DEF OriginalChanges, Types
  <2> QED BY <1>1, <2>1, <2>2 DEF OriginalChanges, Types
<1>3. \A r \in Runs : DataFenced(r) BY <1>1, DataStay DEF OriginalChanges
<1>4. \A r \in Runs : Undisturbed(r) BY DEF OriginalChanges, Undisturbed
<1>5. requests' = requests BY DEF OriginalChanges
<1> QED BY <1>2, <1>3, <1>4, <1>5, Together

LEMMA DeployStep == RecoveryIInv /\ Deploy => RecoveryIInv'
<1> SUFFICES ASSUME RecoveryIInv, Deploy PROVE RecoveryIInv'
  OBVIOUS
<1>1. Types /\ \A r \in Runs : RunSound(r) BY DEF RecoveryIInv
<1>2. \A r \in Runs : run[r] \in RunRows /\ run'[r] = [run[r] EXCEPT !.current = FALSE]
  BY <1>1 DEF Deploy, Types
<1>3. Types'
  <2>1. run' \in [Runs -> RunRows]
    <3>1. \A c \in RunRows : [c EXCEPT !.current = FALSE] \in RunRows BY DEF RunRows
    <3>2. \A r \in Runs : [run[r] EXCEPT !.current = FALSE] \in RunRows BY <1>2, <3>1
    <3> QED BY <3>2 DEF Deploy
  <2>2. disturbances' \in 0 .. MaxDisturbances BY <1>1, ConstantsKnown DEF Deploy, Types
  <2> QED BY <1>1, <2>1, <2>2 DEF Deploy, Types, tables
<1>4. \A r \in Runs : DataFenced(r) BY <1>1, DataStay DEF Deploy, tables
<1>5. ASSUME NEW r \in Runs PROVE Undisturbed(r)
  <2>1. run[r].phase = "none" => run'[r] = run[r]
    BY <1>1, <1>2 DEF RunSound, Unstarted, NewRun
  <2> QED BY <1>2, <2>1 DEF Undisturbed, Deploy, RunRows
<1>6. requests' = requests BY DEF Deploy
<1> QED BY <1>3, <1>4, <1>5, <1>6, Together

LEMMA BackupStep ==
  ASSUME RecoveryIInv, NEW r \in Runs, Backup(r)
  PROVE  RecoveryIInv'
<1>1. Types BY DEF RecoveryIInv
<1>2. run \in [Runs -> RunRows] BY <1>1 DEF Types
<1>b. PICK b \in {"started", "verified"} : run' = [run EXCEPT ![r].backup = b]
  BY <1>2 DEF Backup
<1>3. Types'
  <2>1. run' \in [Runs -> RunRows] BY <1>2, <1>b DEF RunRows
  <2> QED BY <1>1, <2>1 DEF Backup, Types, tables
<1>4. \A o \in Runs : DataFenced(o) BY <1>1, DataStay DEF Backup, tables
<1>5. ASSUME NEW o \in Runs PROVE Undisturbed(o)
  <2>1. CASE o # r
    <3>1. run'[o] = run[o] BY <1>2, <1>b, <2>1
    <3> QED BY <3>1 DEF Undisturbed, Backup
  <2>2. CASE o = r
    <3>1. run'[r] = [run[r] EXCEPT !.backup = b] /\ run[r] \in RunRows BY <1>2, <1>b
    <3> QED BY <2>2, <3>1 DEF Undisturbed, Backup, RunRows
  <2> QED BY <2>1, <2>2
<1>6. requests' = requests BY DEF Backup
<1> QED BY <1>3, <1>4, <1>5, <1>6, Together

LEMMA CutOffStep ==
  ASSUME RecoveryIInv, NEW k \in Requests, CutOff(k)
  PROVE  RecoveryIInv'
<1>1. Types BY DEF RecoveryIInv
<1>2. Done(k) BY DEF CutOff, Done
<1>3. Types'
  <2>1. cuts' \in 0 .. MaxCuts BY <1>1, ConstantsKnown DEF CutOff, Types
  <2> QED BY <1>1, <1>2, <2>1, RequestEnds DEF CutOff, Types, tables
<1>4. \A r \in Runs : DataFenced(r) BY <1>1, DataStay DEF CutOff, tables
<1>5. \A r \in Runs : Undisturbed(r) BY DEF CutOff, Undisturbed
<1> QED BY <1>1, <1>2, <1>3, <1>4, <1>5, RequestEnds, Together

LEMMA LoadStep ==
  ASSUME RecoveryIInv, NEW k \in Requests, NEW r \in Runs,
         NEW kind \in {"inventory", "execute", "audit"}, Load(k, r, kind)
  PROVE  RecoveryIInv'
<1>1. Types /\ RunSound(r) BY DEF RecoveryIInv
<1>2. requests \in [Requests -> RecoveryRequests] /\ run[r] \in RunRows BY <1>1 DEF Types
<1> DEFINE loaded == [NoRequest EXCEPT !.at = kind, !.run = r, !.seen = Seen(run[r])]
<1>3. loaded \in RecoveryRequests /\ loaded.at = kind /\ loaded.run = r /\ loaded.seen = Seen(run[r])
      /\ loaded.inserted = 0
  BY <1>2, Blank DEF RecoveryRequests, NoRequest
<1> HIDE DEF loaded
<1>4. requests' = [requests EXCEPT ![k] = loaded] BY DEF Load, loaded
<1>5. /\ requests' \in [Requests -> RecoveryRequests] /\ requests'[k] = loaded
      /\ \A j \in Requests : j # k => requests'[j] = requests[j]
  BY <1>2, <1>3, <1>4
<1>6. Types'
  <2>1. \A j \in Requests :
          /\ requests'[j].at # "idle" => requests'[j].run \in Runs
          /\ requests'[j].at \in {"prepare", "apply"} => requests'[j].item \in Items
    BY <1>1, <1>3, <1>5 DEF Types
  <2> QED BY <1>1, <1>5, <2>1 DEF Load, Types, tables
<1>7. \A o \in Runs : DataFenced(o) BY <1>1, DataStay DEF Load, tables
<1>8. \A o \in Runs : Undisturbed(o) BY DEF Load, Undisturbed
<1>9. RequestSound(k)'
  <2>1. /\ Reached(k)' = run[r].expected /\ run' = run
    <3>1. run' = run BY DEF Load
    <3>2. loaded.seen.expected = run[r].expected /\ run[r].expected \in Nat
      BY <1>2, <1>3 DEF Seen, RunRows
    <3>3. Reached(k)' = loaded.seen.expected + loaded.inserted BY <1>5 DEF Reached
    <3> QED BY <1>3, <3>1, <3>2, <3>3
  <2>2. run[r].phase # "none" /\ (kind = "audit" => run[r].phase \in Audited)
    BY DEF Load, Serves, Audited
  <2>3. MovedOn(k)'
    BY <1>2, <1>3, <1>5, <2>1, <2>2 DEF MovedOn, Seen, Abreast, RunRows
  <2>4. HeldIsStored(k)' /\ TodoIsProved(k)' BY <1>3, <1>5 DEF HeldIsStored, TodoIsProved
  <2> QED BY <2>3, <2>4 DEF RequestSound
<1> QED BY <1>5, <1>6, <1>7, <1>8, <1>9, Together

\* A step whose run is only read or paused, and whose request then ends.
LEMMA EndsQuietly ==
  ASSUME RecoveryIInv, NEW k \in Requests, NEW r \in Runs,
         direct' = direct, observed' = observed, sound' = sound, epoch' = epoch,
         receipt' = receipt, added' = added, disturbances' = disturbances, cuts' = cuts,
         run' = run \/ MarkPaused(r), Done(k)
  PROVE  RecoveryIInv'
<1>1. Types BY DEF RecoveryIInv
<1>2. run' \in [Runs -> RunRows] /\ \A o \in Runs : Undisturbed(o)
  <2>1. CASE run' = run BY <1>1, <2>1 DEF Types, Undisturbed
  <2>2. CASE MarkPaused(r) BY <1>1, <2>2, RunPauses
  <2> QED BY <2>1, <2>2
<1>3. Types' BY <1>1, <1>2, RequestEnds DEF Types
<1>4. \A o \in Runs : DataFenced(o) BY <1>1, DataStay
<1> QED BY <1>1, <1>2, <1>3, <1>4, RequestEnds, Together

LEMMA StartStep ==
  ASSUME RecoveryIInv, NEW r \in Runs, NEW old \in Runs \cup {NoRun}, Start(r, old)
  PROVE  RecoveryIInv'
<1> DEFINE retired == {o \in Runs : Stale(o) /\ (old # NoRun => o = old)}
           paused == [o \in Runs |-> IF o \in retired THEN [run[o] EXCEPT !.phase = "paused"] ELSE run[o]]
           fresh == [NewRun EXCEPT !.phase = "inventory", !.current = TRUE, !.expected = epoch]
<1>1. Types /\ OneActive /\ \A o \in Runs : RunSound(o) BY DEF RecoveryIInv
<1>2. run \in [Runs -> RunRows] /\ epoch \in Nat BY <1>1 DEF Types
<1>3. paused \in [Runs -> RunRows] BY <1>2 DEF RunRows, Phases
<1>4. fresh \in RunRows BY <1>2, Blank DEF RunRows, NewRun, Phases, ActivePhases
<1>5. run[r].phase = "none" /\ r \notin retired BY DEF Start, Stale, Active, ActivePhases
<1>6. /\ UNCHANGED <<tables, epoch, receipt, added, requests, disturbances, cuts>>
      /\ \/ /\ \A o \in Runs : Active(o) => o \in retired
            /\ run' = [paused EXCEPT ![r] = fresh]
         \/ run' = paused
  BY DEF Start
<1>7. /\ run' \in [Runs -> RunRows]
      /\ \A o \in Runs \ {r} : run'[o] = paused[o]
      /\ run'[r] = run[r] \/ (run'[r] = fresh /\ \A o \in Runs : Active(o) => o \in retired)
  <2> HIDE DEF fresh, retired
  <2> QED BY <1>3, <1>4, <1>5, <1>6
<1>8. Types' BY <1>1, <1>6, <1>7 DEF Types, tables
<1>9. \A o \in Runs : DataFenced(o) BY <1>1, <1>6, DataStay DEF tables
<1>10. ASSUME NEW o \in Runs, o # r \/ run'[o] = run[o] PROVE Undisturbed(o)
  <2>1. CASE o \in retired /\ o # r
    <3>1. run'[o] = [run[o] EXCEPT !.phase = "paused"] BY <1>7, <2>1
    <3>2. Active(o) BY <2>1 DEF Stale
    <3> QED BY <1>2, <1>6, <3>1, <3>2 DEF Undisturbed, RunRows, Active, ActivePhases
  <2>2. CASE o \notin retired \/ run'[o] = run[o]
    <3>1. run'[o] = run[o] BY <1>7, <1>10, <2>2
    <3> QED BY <1>6, <3>1 DEF Undisturbed
  <2> QED BY <1>10, <2>1, <2>2
<1>11. CASE run'[r] = run[r]
  <2>1. \A o \in Runs : Undisturbed(o) BY <1>10, <1>11
  <2> QED BY <1>6, <1>8, <1>9, <2>1, Together
<1>12. CASE run'[r] = fresh /\ \A o \in Runs : Active(o) => o \in retired
  <2>1. \A o \in Runs \ {r} : Undisturbed(o) BY <1>10
  <2>2. \A o \in Runs \ {r} : ~ Active(o)'
    BY <1>2, <1>7, <1>12 DEF Active, ActivePhases, RunRows
  <2>3. OneActive' BY <2>2 DEF OneActive
  <2>4. RunSound(r)'
    <3>1. receipt'[r] = [i \in Items |-> NoReceipt] /\ added'[r] = {}
      BY <1>1, <1>5, <1>6 DEF RunSound, Unstarted
    <3>2. /\ run'[r].phase = "inventory" /\ run'[r].expected = epoch' /\ run'[r].family = 1
          /\ run'[r].postMissing = 0 /\ run'[r].postExcess = 0
      BY <1>6, <1>12 DEF NewRun
    <3>3. run'[r].expected <= epoch' /\ 1 <= LastFamily BY <1>2, <1>6, <3>2, ConstantsKnown
    <3>4. Unstarted(r)' /\ Inventoried(r)' /\ RowsThere(r)' /\ Counted(r)'
      BY <3>1, <3>2, <3>3 DEF Unstarted, Inventoried, RowsThere, Counted, Audited
    <3>5. AccountOf(r)
      BY <1>1 DEF RunSound
    <3>6. receipt'[r] = receipt[r] /\ added'[r] = added[r] BY <1>6
    <3>7. /\ run'[r].missing = run[r].missing /\ run'[r].ready = run[r].ready
          /\ run'[r].quarantined = run[r].quarantined /\ run'[r].restored = run[r].restored
      BY <1>1, <1>5, <1>12 DEF RunSound, Unstarted, NewRun
    <3>8. AccountOf(r)' BY <1>5, <3>2, <3>5, <3>6, <3>7 DEF AccountOf, Total
    <3> QED BY <3>3, <3>4, <3>8 DEF RunSound
  <2>5. Moves(r) BY <1>5 DEF Moves
  <2>6. \A o \in Runs : Moves(o) /\ RunSound(o)'
    BY <1>1, <1>9, <2>1, <2>4, <2>5, RunStays, StaysMoves
  <2>7. ASSUME NEW k \in Requests PROVE RequestSound(k)'
    <3>1. requests'[k] = requests[k] /\ RequestSound(k) BY <1>6 DEF RecoveryIInv
    <3>2. CASE requests[k].at = "idle" BY <3>1, <3>2 DEF RequestSound
    <3>3. CASE requests[k].at # "idle" BY <1>1, <1>7, <1>9, <2>6, <3>1, <3>3, RequestStays
    <3> QED BY <3>2, <3>3
  <2> QED BY <1>8, <2>3, <2>6, <2>7 DEF RecoveryIInv
<1> QED BY <1>7, <1>11, <1>12

(***************************************************************************)
(* The sums of a run follow the one receipt that changes.                    *)
(***************************************************************************)
KeptSum(r) == SumOf([i \in Items |-> Kept(receipt[r][i])])

\* Only the receipt i of run r changes.
Rewrites(r, i) ==
    /\ receipt' \in [Runs -> [Items -> Receipts]]
    /\ \A j \in Items : j # i => receipt'[r][j] = receipt[r][j]
    /\ \A o \in Runs : o # r => receipt'[o] = receipt[o]

LEMMA SumsFollow ==
  ASSUME Types, NEW r \in Runs, NEW i \in Items, Rewrites(r, i)
  PROVE  /\ receipt[r][i] \in Receipts /\ receipt'[r][i] \in Receipts
         /\ Total(r, "missing") \in Nat /\ Total(r, "missing")' \in Nat
         /\ Total(r, "restored") \in Nat /\ Total(r, "restored")' \in Nat
         /\ KeptSum(r) \in Nat /\ KeptSum(r)' \in Nat
         /\ Total(r, "missing")' + receipt[r][i].missing
              = Total(r, "missing") + receipt'[r][i].missing
         /\ Total(r, "restored")' + receipt[r][i].restored
              = Total(r, "restored") + receipt'[r][i].restored
         /\ KeptSum(r)' + Kept(receipt[r][i]) = KeptSum(r) + Kept(receipt'[r][i])
         /\ Kept(receipt[r][i]) \in Nat /\ Kept(receipt'[r][i]) \in Nat
         /\ Kept(receipt[r][i]) <= KeptSum(r)
<1>1. /\ receipt[r] \in [Items -> Receipts] /\ receipt'[r] \in [Items -> Receipts]
      /\ \A j \in Items \ {i} : receipt'[r][j] = receipt[r][j]
  BY DEF Types, Rewrites
<1>2. IsFiniteSet(Items) BY ConstantsKnown
<1>3. \A p \in Receipts : p.missing \in Nat /\ p.restored \in Nat /\ Kept(p) \in Nat
  BY DEF Receipts, Kept
<1>4. /\ Total(r, "missing") \in Nat /\ Total(r, "missing")' \in Nat
      /\ Total(r, "missing")' + receipt[r][i].missing = Total(r, "missing") + receipt'[r][i].missing
      /\ receipt[r][i].missing <= Total(r, "missing")
  <2> DEFINE f == [j \in Items |-> receipt[r][j].missing]
             g == [j \in Items |-> receipt'[r][j].missing]
  <2>1. f \in [Items -> Nat] /\ g \in [Items -> Nat] BY <1>1, <1>3
  <2>2. \A j \in Items \ {i} : g[j] = f[j] BY <1>1
  <2>3. f[i] = receipt[r][i].missing /\ g[i] = receipt'[r][i].missing OBVIOUS
  <2>4. Total(r, "missing") = SumOf(f) /\ Total(r, "missing")' = SumOf(g) BY DEF Total
  <2> HIDE DEF f, g
  <2>5. /\ SumOf(f) \in Nat /\ SumOf(g) \in Nat
        /\ SumOf(g) + f[i] = SumOf(f) + g[i] /\ f[i] <= SumOf(f)
    BY <1>2, <2>1, <2>2, SumOfChanged
  <2> QED BY <2>3, <2>4, <2>5
<1>5. /\ Total(r, "restored") \in Nat /\ Total(r, "restored")' \in Nat
      /\ Total(r, "restored")' + receipt[r][i].restored = Total(r, "restored") + receipt'[r][i].restored
      /\ receipt[r][i].restored <= Total(r, "restored")
  <2> DEFINE f == [j \in Items |-> receipt[r][j].restored]
             g == [j \in Items |-> receipt'[r][j].restored]
  <2>1. f \in [Items -> Nat] /\ g \in [Items -> Nat] BY <1>1, <1>3
  <2>2. \A j \in Items \ {i} : g[j] = f[j] BY <1>1
  <2>3. f[i] = receipt[r][i].restored /\ g[i] = receipt'[r][i].restored OBVIOUS
  <2>4. Total(r, "restored") = SumOf(f) /\ Total(r, "restored")' = SumOf(g) BY DEF Total
  <2> HIDE DEF f, g
  <2>5. /\ SumOf(f) \in Nat /\ SumOf(g) \in Nat
        /\ SumOf(g) + f[i] = SumOf(f) + g[i] /\ f[i] <= SumOf(f)
    BY <1>2, <2>1, <2>2, SumOfChanged
  <2> QED BY <2>3, <2>4, <2>5
<1>6. /\ KeptSum(r) \in Nat /\ KeptSum(r)' \in Nat
      /\ KeptSum(r)' + Kept(receipt[r][i]) = KeptSum(r) + Kept(receipt'[r][i])
      /\ Kept(receipt[r][i]) <= KeptSum(r)
  <2> DEFINE f == [j \in Items |-> Kept(receipt[r][j])]
             g == [j \in Items |-> Kept(receipt'[r][j])]
  <2>1. f \in [Items -> Nat] /\ g \in [Items -> Nat] BY <1>1, <1>3
  <2>2. \A j \in Items \ {i} : g[j] = f[j] BY <1>1
  <2>3. f[i] = Kept(receipt[r][i]) /\ g[i] = Kept(receipt'[r][i]) OBVIOUS
  <2>4. KeptSum(r) = SumOf(f) /\ KeptSum(r)' = SumOf(g) BY DEF KeptSum
  <2> HIDE DEF f, g
  <2>5. /\ SumOf(f) \in Nat /\ SumOf(g) \in Nat
        /\ SumOf(g) + f[i] = SumOf(f) + g[i] /\ f[i] <= SumOf(f)
    BY <1>2, <2>1, <2>2, SumOfChanged
  <2> QED BY <2>3, <2>4, <2>5
<1> QED BY <1>1, <1>3, <1>4, <1>5, <1>6

\* Only run r changes.
LEMMA OnlyRun ==
  ASSUME Types, NEW r \in Runs, NEW c \in RunRows, run' = [run EXCEPT ![r] = c]
  PROVE  /\ run' \in [Runs -> RunRows] /\ run'[r] = c
         /\ \A o \in Runs : o # r => run'[o] = run[o]
BY DEF Types

LEMMA OnlyRequest ==
  ASSUME Types, NEW k \in Requests, NEW d \in RecoveryRequests, requests' = [requests EXCEPT ![k] = d]
  PROVE  /\ requests' \in [Requests -> RecoveryRequests] /\ requests'[k] = d
         /\ \A j \in Requests : j # k => requests'[j] = requests[j]
BY DEF Types

LEMMA OthersUndisturbed ==
  ASSUME NEW r \in Runs, \A o \in Runs : o # r => run'[o] = run[o],
         \A o \in Runs : o # r => receipt'[o] = receipt[o],
         \A o \in Runs : o # r => added'[o] = added[o]
  PROVE  \A o \in Runs : o # r => Undisturbed(o)
BY DEF Undisturbed

LEMMA InventoryTurns ==
  ASSUME RecoveryIInv, NEW k \in Requests, NEW r \in Runs, Done(k),
         run[r].phase = "inventory",
         run' = [run EXCEPT ![r].family = @ + 1, ![r].after = NoSource,
                            ![r].phase = IF LastTurn(run[r].family) THEN "ready" ELSE @],
         UNCHANGED <<tables, epoch, receipt, added, disturbances, cuts>>
  PROVE  RecoveryIInv'
<1>1. Types /\ RunSound(r) BY DEF RecoveryIInv
<1>2. run[r] \in RunRows BY <1>1 DEF Types
<1> DEFINE f == run[r].family
           c == [run[r] EXCEPT !.family = f + 1, !.after = NoSource,
                               !.phase = IF LastTurn(f) THEN "ready" ELSE "inventory"]
<1>3. f \in Nat /\ f <= LastFamily BY <1>1, <1>2, CursorsKnown DEF RunSound, Inventoried
<1>4. c \in RunRows
  <2>1. f + 1 \in Cursors BY <1>3, ConstantsKnown DEF Cursors
  <2> QED BY <1>2, <2>1 DEF RunRows, Phases, ActivePhases, NoSource
<1>5. c.family = f + 1 /\ c.after = 0 /\ c.phase \in {"inventory", "ready"}
      /\ (c.phase = "inventory" => f # LastFamily)
      /\ c.expected = run[r].expected
      /\ c.missing = run[r].missing /\ c.ready = run[r].ready
      /\ c.quarantined = run[r].quarantined /\ c.restored = run[r].restored
      /\ c.postMissing = run[r].postMissing /\ c.postExcess = run[r].postExcess
  BY <1>2 DEF RunRows, LastTurn, NoSource
<1>6. run' = [run EXCEPT ![r] = c] BY <1>1 DEF Types
<1> HIDE DEF c
<1>7. /\ run' \in [Runs -> RunRows] /\ run'[r] = c
      /\ \A o \in Runs : o # r => run'[o] = run[o]
  BY <1>1, <1>4, <1>6, OnlyRun
<1>8. Types' BY <1>1, <1>7, RequestEnds DEF Types, tables
<1>9. \A o \in Runs : DataFenced(o) BY <1>1, DataStay DEF tables
<1>10. \A o \in Runs : o # r => Undisturbed(o) BY <1>7, OthersUndisturbed
<1>11. RunSound(r)'
  <2>1. run'[r].expected <= epoch' BY <1>1, <1>5, <1>7 DEF RunSound
  <2>2. Inventoried(r)'
    <3>1. ASSUME c.phase = "inventory" PROVE c.family <= LastFamily
      BY <1>3, <1>5, <3>1, ConstantsKnown
    <3>2. ASSUME NEW i \in Items, ~ Passed(c.family, c.after, i) PROVE receipt'[r][i] = NoReceipt
      <4>1. ~ Passed(f, run[r].after, i) BY <1>3, <1>5, <3>2, ItemsKnown DEF Passed
      <4> QED BY <1>1, <4>1 DEF RunSound, Inventoried
    <3> QED BY <1>7, <3>1, <3>2 DEF Inventoried
  <2>3. Unstarted(r)' /\ Counted(r)'
    BY <1>1, <1>5, <1>7 DEF RunSound, Unstarted, Counted, Audited
  <2>4. RowsThere(r)'
    BY <1>1, <1>5, <1>7 DEF RunSound, RowsThere, Active, ActivePhases, tables
  <2>5. AccountOf(r)' BY <1>1, <1>5, <1>7 DEF RunSound, AccountOf, Total
  <2> QED BY <2>1, <2>2, <2>3, <2>4, <2>5 DEF RunSound
<1>12. Moves(r) /\ Active(r)
  BY <1>2, <1>5, <1>7 DEF Moves, Applied, Audited, Active, ActivePhases, RunRows
<1>13. \A j \in Requests : requests'[j] = requests[j] \/ requests'[j].at = "idle"
  BY <1>1, RequestEnds
<1> QED BY <1>8, <1>9, <1>10, <1>11, <1>12, <1>13, Together

LEMMA InventoryWrites ==
  ASSUME RecoveryIInv, NEW k \in Requests, NEW r \in Runs, Done(k),
         run[r].phase = "inventory",
         NEW s \in Sources, run[r].after < s, NEW short \in Nat, NEW ready \in Nat, ready <= short,
         receipt' = [receipt EXCEPT ![r][<<run[r].family, s>>] =
                        [status |-> IF ready > 0 THEN "ready" ELSE "quarantined",
                         missing |-> short, candidates |-> ready, restored |-> 0]],
         run' = [run EXCEPT ![r].after = s, ![r].missing = @ + short,
                            ![r].ready = @ + ready, ![r].quarantined = @ + (short - ready)],
         UNCHANGED <<tables, epoch, added, disturbances, cuts>>
  PROVE  RecoveryIInv'
<1>1. Types /\ RunSound(r) BY DEF RecoveryIInv
<1>2. run[r] \in RunRows BY <1>1 DEF Types
<1> DEFINE f == run[r].family
           i == <<f, s>>
           c == [run[r] EXCEPT !.after = s, !.missing = @ + short,
                               !.ready = @ + ready, !.quarantined = @ + (short - ready)]
           p == [status |-> IF ready > 0 THEN "ready" ELSE "quarantined",
                 missing |-> short, candidates |-> ready, restored |-> 0]
<1>3. f \in Nat /\ 1 <= f /\ f <= LastFamily
  BY <1>1, <1>2, CursorsKnown DEF RunSound, Inventoried
<1>4. i \in Items BY <1>3, ConstantsKnown DEF Items, Families
<1>5. short - ready \in Nat OBVIOUS
<1>6. /\ c \in RunRows /\ c.phase = "inventory" /\ c.family = f /\ c.after = s
      /\ c.expected = run[r].expected
      /\ c.missing = run[r].missing + short /\ c.ready = run[r].ready + ready
      /\ c.quarantined = run[r].quarantined + (short - ready) /\ c.restored = run[r].restored
      /\ c.postMissing = run[r].postMissing /\ c.postExcess = run[r].postExcess
  <2>1. /\ run[r].missing + short \in Nat /\ run[r].ready + ready \in Nat
        /\ run[r].quarantined + (short - ready) \in Nat
    BY <1>2, <1>5 DEF RunRows
  <2>2. \A l, m, n \in Nat :
          [run[r] EXCEPT !.after = s, !.missing = l, !.ready = m, !.quarantined = n] \in RunRows
    BY <1>2 DEF RunRows
  <2>3. c \in RunRows BY <2>1, <2>2
  <2> QED BY <1>2, <2>3 DEF RunRows
<1>7. p \in Receipts /\ p.missing = short /\ p.restored = 0 /\ Kept(p) = ready
  BY DEF Receipts, Kept
<1>8. run' = [run EXCEPT ![r] = c] BY <1>1 DEF Types
<1>9. /\ Rewrites(r, i) /\ receipt'[r][i] = p
  <2>1. receipt' = [receipt EXCEPT ![r] = [receipt[r] EXCEPT ![i] = p]] BY <1>1 DEF Types
  <2> HIDE DEF p
  <2> QED BY <1>1, <1>4, <1>7, <2>1 DEF Rewrites, Types
<1>10. receipt[r][i] = NoReceipt
  <2>1. i[1] = f /\ i[2] = s /\ s \in Nat /\ run[r].after \in Nat
    BY <1>2, CursorsKnown, ConstantsKnown
  <2>2. ~ Passed(f, run[r].after, i) BY <1>3, <2>1 DEF Passed
  <2> QED BY <1>1, <1>4, <2>2 DEF RunSound, Inventoried
<1> HIDE DEF c, p, i
<1>11. /\ run' \in [Runs -> RunRows] /\ run'[r] = c
       /\ \A o \in Runs : o # r => run'[o] = run[o]
  BY <1>1, <1>6, <1>8, OnlyRun
<1>12. Types' BY <1>1, <1>9, <1>11, RequestEnds DEF Types, tables, Rewrites
<1>13. \A o \in Runs : DataFenced(o) BY <1>1, DataStay DEF tables
<1>14. \A o \in Runs : o # r => Undisturbed(o) BY <1>9, <1>11, OthersUndisturbed DEF Rewrites
<1>15. RunSound(r)'
  <2>1. run'[r].expected <= epoch' BY <1>1, <1>6, <1>11 DEF RunSound
  <2>2. Inventoried(r)'
    <3>1. ASSUME NEW j \in Items, ~ Passed(f, s, j) PROVE receipt'[r][j] = NoReceipt
      <4>1. i[1] = f /\ i[2] = s /\ s \in Nat /\ run[r].after \in Nat
        BY <1>2, CursorsKnown, ConstantsKnown DEF i
      <4>2. ~ Passed(f, run[r].after, j) BY <1>3, <3>1, <4>1, ItemsKnown DEF Passed
      <4>3. j # i BY <3>1, <4>1 DEF Passed
      <4> QED BY <1>1, <1>9, <4>2, <4>3 DEF RunSound, Inventoried, Rewrites
    <3> QED BY <1>3, <1>6, <1>11, <3>1 DEF Inventoried
  <2>3. Unstarted(r)' /\ Counted(r)'
    BY <1>1, <1>6, <1>11 DEF RunSound, Unstarted, Counted, Audited
  <2>4. RowsThere(r)'
    BY <1>1, <1>6, <1>11 DEF RunSound, RowsThere, Active, ActivePhases, tables
  <2>5. AccountOf(r)'
    <3>1. /\ Total(r, "missing")' = Total(r, "missing") + short
          /\ Total(r, "restored")' = Total(r, "restored")
          /\ KeptSum(r)' = KeptSum(r) + ready
      <4>1. /\ receipt[r][i].missing = 0 /\ receipt[r][i].restored = 0
            /\ Kept(receipt[r][i]) = 0
        BY <1>10 DEF NoReceipt, Kept
      <4> QED BY <1>1, <1>4, <1>7, <1>9, <4>1, SumsFollow
    <3>2. /\ run[r].missing = Total(r, "missing") /\ run[r].restored = Total(r, "restored")
          /\ run[r].ready + run[r].quarantined = run[r].missing
          /\ run[r].ready = KeptSum(r)
          /\ run[r].restored = Cardinality(added[r])
      BY <1>1 DEF RunSound, AccountOf, KeptSum
    <3>3. run[r].missing \in Nat /\ run[r].ready \in Nat /\ run[r].quarantined \in Nat
      BY <1>2 DEF RunRows
    <3>4. c.ready + c.quarantined = c.missing BY <1>6, <3>2, <3>3
    <3>5. added' = added OBVIOUS
    <3> QED BY <1>6, <1>11, <3>1, <3>2, <3>4, <3>5 DEF AccountOf, KeptSum
  <2> QED BY <2>1, <2>2, <2>3, <2>4, <2>5 DEF RunSound
<1>16. Moves(r) /\ Active(r)
  BY <1>2, <1>6, <1>11 DEF Moves, Applied, Audited, Active, ActivePhases, RunRows
<1>17. \A j \in Requests : requests'[j] = requests[j] \/ requests'[j].at = "idle"
  BY Zenon, <1>1, RequestEnds
<1> QED BY <1>12, <1>13, <1>14, <1>15, <1>16, <1>17, Together

LEMMA InventoryStepKeeps ==
  ASSUME RecoveryIInv, NEW k \in Requests, InventoryStep(k)
  PROVE  RecoveryIInv'
<1> DEFINE q == requests[k]
           r == q.run
           f == q.seen.family
           deficient == Deficient(f, q.seen.after)
           s == FirstSource(deficient)
           short == Shortfall(f, s)
           ready == IF Cardinality(Candidates(f, s)) <= short THEN Cardinality(Candidates(f, s)) ELSE 0
<1>1. q.at = "inventory" /\ Done(k) BY Zenon DEF InventoryStep
<1>2. UNCHANGED <<tables, epoch, added, disturbances, cuts>> BY Zenon DEF InventoryStep
<1>3. Types BY DEF RecoveryIInv
<1>4. r \in Runs BY <1>1, <1>3 DEF Types
<1>5. CASE MarkPaused(r) /\ UNCHANGED receipt
  BY <1>1, <1>2, <1>4, <1>5, EndsQuietly DEF tables
<1>6. CASE UNCHANGED <<run, receipt>>
  BY <1>1, <1>2, <1>4, <1>6, EndsQuietly DEF tables
<1>7. CASE /\ Guarded(k, "inventory") /\ SameCursor(k)
           /\ run' = [run EXCEPT ![r].family = @ + 1, ![r].after = NoSource,
                            ![r].phase = IF LastTurn(f) THEN "ready" ELSE @]
           /\ UNCHANGED receipt
  <2>1. run[r].phase = "inventory" /\ run[r].family = f BY Zenon, <1>7 DEF Guarded, SameCursor
  <2> QED BY <1>1, <1>2, <1>4, <1>7, <2>1, InventoryTurns
<1>8. CASE /\ Guarded(k, "inventory") /\ SameCursor(k) /\ deficient # {}
           /\ receipt' = [receipt EXCEPT ![r][<<f, s>>] =
                    [status |-> IF ready > 0 THEN "ready" ELSE "quarantined",
                     missing |-> short, candidates |-> ready, restored |-> 0]]
           /\ run' = [run EXCEPT ![r].after = s, ![r].missing = @ + short,
                            ![r].ready = @ + ready, ![r].quarantined = @ + (short - ready)]
  <2>1. run[r].phase = "inventory" /\ run[r].family = f /\ run[r].after = q.seen.after
    BY Zenon, <1>8 DEF Guarded, SameCursor
  <2>2. deficient \in SUBSET Sources BY Zenon DEF Deficient
  <2>3. s \in deficient BY Zenon, <1>8, <2>2, FirstSourceIsIn
  <2>4. s \in Sources /\ run[r].after < s BY <2>1, <2>3 DEF Deficient
  <2>5. short \in Nat /\ ready \in Nat /\ ready <= short BY CountsKnown
  <2> HIDE DEF s, short, ready, deficient
  <2> QED BY <1>1, <1>2, <1>4, <1>8, <2>1, <2>4, <2>5, InventoryWrites
<1> QED BY Zenon, <1>5, <1>6, <1>7, <1>8 DEF InventoryStep

(***************************************************************************)
(* Execution.                                                                *)
(***************************************************************************)
LEMMA EnterTakes ==
  ASSUME RecoveryIInv, NEW k \in Requests, NEW r \in Runs, r = requests[k].run,
         requests[k].at = "execute", run[r].phase \in {"ready", "applying"}, Pending(r) # {},
         run' = [run EXCEPT ![r].phase = "applying"],
         requests' = [requests EXCEPT ![k].at = "prepare", ![k].item = FirstItem(Pending(r)),
                                      ![k].held = receipt[r][FirstItem(Pending(r))]],
         UNCHANGED <<tables, epoch, receipt, added, disturbances, cuts>>
  PROVE  RecoveryIInv'
<1> DEFINE i == FirstItem(Pending(r))
           c == [run[r] EXCEPT !.phase = "applying"]
           d == [requests[k] EXCEPT !.at = "prepare", !.item = i, !.held = receipt[r][i]]
<1>1. Types /\ RunSound(r) /\ RequestSound(k) BY DEF RecoveryIInv
<1>2. run[r] \in RunRows /\ requests[k] \in RecoveryRequests BY <1>1 DEF Types
<1>3. i \in Pending(r) /\ i \in Items
  <2>1. Pending(r) \in SUBSET Items BY DEF Pending
  <2> QED BY <2>1, FirstItemIsIn
<1>4. receipt[r][i] \in Receipts BY <1>1, <1>3 DEF Types
<1> HIDE DEF i
<1>5. /\ c \in RunRows /\ c.phase = "applying"
      /\ c.expected = run[r].expected /\ c.family = run[r].family /\ c.after = run[r].after
      /\ c.missing = run[r].missing /\ c.ready = run[r].ready
      /\ c.quarantined = run[r].quarantined /\ c.restored = run[r].restored
      /\ c.postMissing = run[r].postMissing /\ c.postExcess = run[r].postExcess
  BY <1>2 DEF RunRows, Phases, ActivePhases
<1>6. /\ d \in RecoveryRequests /\ d.at = "prepare" /\ d.item = i /\ d.held = receipt[r][i]
      /\ d.run = r /\ d.seen = requests[k].seen /\ d.inserted = requests[k].inserted
  BY <1>2, <1>3, <1>4 DEF RecoveryRequests
<1>7. run' = [run EXCEPT ![r] = c] BY <1>1 DEF Types
<1>8. requests' = [requests EXCEPT ![k] = d] BY <1>1 DEF Types, i
<1> HIDE DEF c, d
<1>9. /\ run' \in [Runs -> RunRows] /\ run'[r] = c
      /\ \A o \in Runs : o # r => run'[o] = run[o]
  BY <1>1, <1>5, <1>7, OnlyRun
<1>10. /\ requests' \in [Requests -> RecoveryRequests] /\ requests'[k] = d
       /\ \A j \in Requests : j # k => requests'[j] = requests[j]
  BY <1>1, <1>6, <1>8, OnlyRequest
<1>11. Types'
  <2>1. \A j \in Requests :
          /\ requests'[j].at # "idle" => requests'[j].run \in Runs
          /\ requests'[j].at \in {"prepare", "apply"} => requests'[j].item \in Items
    BY <1>1, <1>3, <1>6, <1>10 DEF Types
  <2> QED BY <1>1, <1>9, <1>10, <2>1 DEF Types, tables
<1>12. \A o \in Runs : DataFenced(o) BY <1>1, DataStay DEF tables
<1>13. \A o \in Runs : o # r => Undisturbed(o) BY <1>9, OthersUndisturbed
<1>14. RunSound(r)'
  <2>1. Unstarted(r)' /\ Inventoried(r)' BY <1>5, <1>9 DEF Unstarted, Inventoried
  <2>2. RowsThere(r)' /\ run'[r].expected <= epoch'
    BY <1>1, <1>5, <1>9 DEF RunSound, RowsThere, Active, ActivePhases, tables
  <2>3. Counted(r)' BY Zenon, <1>1, <1>5, <1>9 DEF RunSound, Counted, Audited
  <2>4. AccountOf(r)'
    <3>1. AccountOf(r) /\ run[r].phase # "paused" BY <1>1 DEF RunSound
    <3>2. /\ run'[r].missing = run[r].missing /\ run'[r].ready = run[r].ready
          /\ run'[r].quarantined = run[r].quarantined /\ run'[r].restored = run[r].restored
      BY <1>5, <1>9
    <3> QED BY <3>1, <3>2 DEF AccountOf, Total
  <2> QED BY <2>1, <2>2, <2>3, <2>4 DEF RunSound
<1>15. Moves(r) /\ Active(r)
  BY <1>2, <1>5, <1>9 DEF Moves, Applied, Audited, Active, ActivePhases, RunRows
<1>16. RequestSound(k)'
  <2>1. Reached(k)' = Reached(k) BY <1>6, <1>10 DEF Reached
  <2>2. MovedOn(k)'
    BY <1>1, <1>5, <1>6, <1>9, <1>10, <2>1 DEF RequestSound, MovedOn, Applied
  <2>3. HeldIsStored(k)' /\ TodoIsProved(k)' BY <1>6, <1>10 DEF HeldIsStored, TodoIsProved
  <2> QED BY <2>2, <2>3 DEF RequestSound
<1> QED BY <1>10, <1>11, <1>12, <1>13, <1>14, <1>15, <1>16, Together

LEMMA EnterAudits ==
  ASSUME RecoveryIInv, NEW k \in Requests, NEW r \in Runs, Done(k),
         run[r].phase \in {"ready", "applying"}, Pending(r) = {},
         run' = [run EXCEPT ![r].phase = "verify_pending", ![r].family = 1, ![r].after = NoSource],
         UNCHANGED <<tables, epoch, receipt, added, disturbances, cuts>>
  PROVE  RecoveryIInv'
<1> DEFINE c == [run[r] EXCEPT !.phase = "verify_pending", !.family = 1, !.after = NoSource]
<1>1. Types /\ RunSound(r) BY DEF RecoveryIInv
<1>2. run[r] \in RunRows BY <1>1 DEF Types
<1>3. 1 \in Cursors /\ 1 <= LastFamily
  <2>1. LastFamily \in Nat /\ LastFamily > 0 BY ConstantsKnown
  <2> QED BY <2>1 DEF Cursors
<1>4. /\ c \in RunRows /\ c.phase = "verify_pending" /\ c.family = 1 /\ c.after = 0
      /\ c.expected = run[r].expected
      /\ c.missing = run[r].missing /\ c.ready = run[r].ready
      /\ c.quarantined = run[r].quarantined /\ c.restored = run[r].restored
      /\ c.postMissing = run[r].postMissing /\ c.postExcess = run[r].postExcess
  BY <1>2, <1>3 DEF RunRows, Phases, ActivePhases, NoSource
<1>5. run' = [run EXCEPT ![r] = c] BY <1>1 DEF Types
<1> HIDE DEF c
<1>6. /\ run' \in [Runs -> RunRows] /\ run'[r] = c
      /\ \A o \in Runs : o # r => run'[o] = run[o]
  BY <1>1, <1>4, <1>5, OnlyRun
<1>7. Types' BY <1>1, <1>6, RequestEnds DEF Types, tables
<1>8. \A o \in Runs : DataFenced(o) BY <1>1, DataStay DEF tables
<1>9. \A o \in Runs : o # r => Undisturbed(o) BY <1>6, OthersUndisturbed
<1>10. RunSound(r)'
  <2>1. Unstarted(r)' /\ Inventoried(r)' BY <1>4, <1>6 DEF Unstarted, Inventoried
  <2>2. RowsThere(r)' /\ run'[r].expected <= epoch'
    BY <1>1, <1>4, <1>6 DEF RunSound, RowsThere, Active, ActivePhases, tables
  <2>3. ASSUME NEW of \in [Items -> Nat] PROVE SumOf(Part(of, 1, 0)) = 0
    <3>1. Part(of, 1, 0) \in [Items -> Nat] BY DEF Part
    <3>2. \A i \in Items : Part(of, 1, 0)[i] = 0 BY ItemsKnown DEF Part, Passed
    <3> QED BY <3>1, <3>2, SumOfNothing
  <2>4. run[r].postMissing = 0 /\ run[r].postExcess = 0 BY <1>1 DEF RunSound, Counted, Audited
  <2>5. Pending(r)' = {} BY DEF Pending
  <2>6. Shortfalls' \in [Items -> Nat] /\ Excesses' \in [Items -> Nat]
    <3>1. Shortfalls' = Shortfalls /\ Excesses' = Excesses
      BY DEF Shortfalls, Excesses, Shortfall, Excess, Actual, tables
    <3> QED BY <3>1, CountsAreFunctions
  <2>7. SumOf(Part(Shortfalls', 1, 0)) = 0 /\ SumOf(Part(Excesses', 1, 0)) = 0 BY <2>3, <2>6
  <2>8. /\ SumOf(Part(Shortfalls, run[r].family, run[r].after))' = 0
        /\ SumOf(Part(Excesses, run[r].family, run[r].after))' = 0
    <3>1. run'[r].family = 1 /\ run'[r].after = 0 BY <1>4, <1>6
    <3>2. /\ Part(Shortfalls, run[r].family, run[r].after)' = Part(Shortfalls', 1, 0)
          /\ Part(Excesses, run[r].family, run[r].after)' = Part(Excesses', 1, 0)
      BY <3>1 DEF Part, Passed
    <3>3. /\ SumOf(Part(Shortfalls, run[r].family, run[r].after))'
                = SumOf(Part(Shortfalls, run[r].family, run[r].after)')
          /\ SumOf(Part(Excesses, run[r].family, run[r].after))'
                = SumOf(Part(Excesses, run[r].family, run[r].after)')
      BY DEF SumOf
    <3> QED BY <2>7, <3>2, <3>3
  <2>9. Counted(r)' BY <1>3, <1>4, <1>6, <2>4, <2>5, <2>8 DEF Counted, Audited
  <2>10. AccountOf(r)' BY <1>1, <1>4, <1>6 DEF RunSound, AccountOf, Total
  <2> QED BY <2>1, <2>2, <2>9, <2>10 DEF RunSound
<1>11. Moves(r) /\ Active(r)
  BY <1>2, <1>4, <1>6 DEF Moves, Applied, Audited, Active, ActivePhases, RunRows
<1>12. \A j \in Requests : requests'[j] = requests[j] \/ requests'[j].at = "idle"
  BY Zenon, <1>1, RequestEnds
<1> QED BY <1>7, <1>8, <1>9, <1>10, <1>11, <1>12, Together

LEMMA EnterKeeps ==
  ASSUME RecoveryIInv, NEW k \in Requests, Enter(k)
  PROVE  RecoveryIInv'
<1> DEFINE q == requests[k]
           r == q.run
<1>1. q.at = "execute" BY DEF Enter
<1>2. UNCHANGED <<tables, epoch, receipt, added, disturbances, cuts>> BY DEF Enter
<1>3. Types BY DEF RecoveryIInv
<1>4. r \in Runs BY <1>1, <1>3 DEF Types
<1>5. CASE Done(k) /\ (MarkPaused(r) \/ UNCHANGED run)
  BY <1>2, <1>4, <1>5, EndsQuietly DEF tables
<1>6. CASE /\ Guarded(k, "ready") \/ (q.seen.phase = "applying" /\ Guarded(k, "applying"))
           /\ Pending(r) # {}
           /\ run' = [run EXCEPT ![r].phase = "applying"]
           /\ requests' = [requests EXCEPT ![k].at = "prepare", ![k].item = FirstItem(Pending(r)),
                                           ![k].held = receipt[r][FirstItem(Pending(r))]]
  <2>1. run[r].phase \in {"ready", "applying"} BY <1>6 DEF Guarded
  <2> QED BY <1>1, <1>2, <1>4, <1>6, <2>1, EnterTakes
<1>7. CASE /\ Guarded(k, "ready") \/ (q.seen.phase = "applying" /\ Guarded(k, "applying"))
           /\ Pending(r) = {}
           /\ run' = [run EXCEPT ![r].phase = "verify_pending", ![r].family = 1, ![r].after = NoSource]
           /\ Done(k)
  <2>1. run[r].phase \in {"ready", "applying"} BY <1>7 DEF Guarded
  <2> QED BY <1>2, <1>4, <1>7, <2>1, EnterAudits
<1> QED BY <1>5, <1>6, <1>7 DEF Enter

\* A receipt is closed as applied: its plan stays counted as ready.
LEMMA ClosesApplied ==
  ASSUME RecoveryIInv, NEW k \in Requests, NEW r \in Runs, NEW i \in Items, Done(k),
         run[r].phase \in Applied, receipt[r][i].status = "ready", Close(r, i, "applied"),
         UNCHANGED <<tables, epoch, run, added, disturbances, cuts>>
  PROVE  RecoveryIInv'
<1> DEFINE p == [receipt[r][i] EXCEPT !.status = "applied"]
<1>1. Types /\ RunSound(r) BY DEF RecoveryIInv
<1>2. run[r] \in RunRows /\ receipt[r][i] \in Receipts BY <1>1 DEF Types
<1>3. /\ p \in Receipts /\ p.missing = receipt[r][i].missing /\ p.restored = receipt[r][i].restored
      /\ p.status = "applied" /\ Kept(p) = Kept(receipt[r][i])
  BY <1>2 DEF Receipts, Kept
<1>4. /\ Rewrites(r, i) /\ receipt'[r][i] = p
  <2>1. receipt' = [receipt EXCEPT ![r] = [receipt[r] EXCEPT ![i] = p]]
    BY <1>1 DEF Types, Close
  <2> HIDE DEF p
  <2> QED BY <1>1, <1>3, <2>1 DEF Rewrites, Types
<1> HIDE DEF p
<1>5. Types' BY <1>1, <1>4, RequestEnds DEF Types, tables, Rewrites
<1>6. \A o \in Runs : DataFenced(o) BY <1>1, DataStay DEF tables
<1>7. \A o \in Runs : o # r => Undisturbed(o) BY <1>4, OthersUndisturbed DEF Rewrites
<1>8. RunSound(r)'
  <2>1. Unstarted(r)' /\ Inventoried(r)'
    BY DEF Unstarted, Inventoried, Applied, Audited
  <2>2. RowsThere(r)' /\ run'[r].expected <= epoch'
    BY <1>1 DEF RunSound, RowsThere, Active, tables
  <2>3. Pending(r)' \subseteq Pending(r) BY <1>3, <1>4 DEF Pending, Rewrites
  <2>4. Shortfalls' = Shortfalls /\ Excesses' = Excesses
    BY DEF Shortfalls, Excesses, Shortfall, Excess, Actual, tables
  <2>5. /\ SumOf(Part(Shortfalls, run[r].family, run[r].after))'
             = SumOf(Part(Shortfalls, run[r].family, run[r].after))
        /\ SumOf(Part(Excesses, run[r].family, run[r].after))'
             = SumOf(Part(Excesses, run[r].family, run[r].after))
    <3>1. /\ Part(Shortfalls, run[r].family, run[r].after)'
               = Part(Shortfalls, run[r].family, run[r].after)
          /\ Part(Excesses, run[r].family, run[r].after)'
               = Part(Excesses, run[r].family, run[r].after)
      BY <2>4 DEF Part
    <3> QED BY <3>1 DEF SumOf
  <2>6. Counted(r)' BY <1>1, <2>3, <2>5 DEF RunSound, Counted
  <2>7. /\ Total(r, "missing")' = Total(r, "missing")
        /\ Total(r, "restored")' = Total(r, "restored")
        /\ KeptSum(r)' = KeptSum(r)
    BY <1>1, <1>3, <1>4, SumsFollow DEF Receipts
  <2>8. AccountOf(r)' BY <1>1, <2>7 DEF RunSound, AccountOf, KeptSum
  <2> QED BY <2>1, <2>2, <2>6, <2>8 DEF RunSound
<1>9. Moves(r)
  BY <1>2, <1>3, <1>4 DEF Moves, Applied, Audited, RunRows, Abreast, Rewrites
<1>10. Active(r)' => Active(r) BY DEF Active
<1>11. \A j \in Requests : requests'[j] = requests[j] \/ requests'[j].at = "idle"
  BY <1>1, RequestEnds
<1> QED BY <1>5, <1>6, <1>7, <1>8, <1>9, <1>10, <1>11, Together

\* A receipt is closed as quarantined: while its run is applying, what it had left
\* moves from one counter to the other.
LEMMA ClosesQuarantined ==
  ASSUME RecoveryIInv, NEW k \in Requests, NEW r \in Runs, NEW i \in Items, Done(k),
         run[r].phase \in Applied, receipt[r][i].status = "ready",
         Close(r, i, "quarantined"), NEW left \in Nat, left = Left(receipt[r][i]),
         \/ /\ run[r].phase = "applying"
            /\ run' = [run EXCEPT ![r].ready = @ - left, ![r].quarantined = @ + left]
         \/ run[r].phase = "paused" /\ run' = run,
         UNCHANGED <<tables, epoch, added, disturbances, cuts>>
  PROVE  RecoveryIInv'
<1> DEFINE p == [receipt[r][i] EXCEPT !.status = "quarantined"]
<1>1. Types /\ RunSound(r) BY DEF RecoveryIInv
<1>2. run[r] \in RunRows /\ receipt[r][i] \in Receipts BY <1>1 DEF Types
<1>3. /\ p \in Receipts /\ p.missing = receipt[r][i].missing /\ p.restored = receipt[r][i].restored
      /\ p.status = "quarantined" /\ Kept(p) + left = Kept(receipt[r][i])
  BY <1>2 DEF Receipts, Kept, Left
<1>4. /\ Rewrites(r, i) /\ receipt'[r][i] = p
  <2>1. receipt' = [receipt EXCEPT ![r] = [receipt[r] EXCEPT ![i] = p]]
    BY <1>1 DEF Types, Close
  <2> HIDE DEF p
  <2> QED BY <1>1, <1>3, <2>1 DEF Rewrites, Types
<1> HIDE DEF p
<1>5. /\ Total(r, "missing")' = Total(r, "missing")
      /\ Total(r, "restored")' = Total(r, "restored")
      /\ KeptSum(r)' + left = KeptSum(r) /\ left <= KeptSum(r)
      /\ KeptSum(r) \in Nat /\ KeptSum(r)' \in Nat
  <2>1. Kept(p) \in Nat /\ receipt'[r][i] = p BY <1>1, <1>4, SumsFollow
  <2>2. receipt[r][i].missing \in Nat /\ receipt[r][i].restored \in Nat BY <1>2 DEF Receipts
  <2> QED BY <1>1, <1>3, <1>4, <2>1, <2>2, SumsFollow
<1>6. /\ run' \in [Runs -> RunRows] /\ \A o \in Runs : o # r => run'[o] = run[o]
      /\ run'[r].phase = run[r].phase /\ run'[r].expected = run[r].expected
      /\ run'[r].family = run[r].family /\ run'[r].after = run[r].after
      /\ run'[r].missing = run[r].missing /\ run'[r].restored = run[r].restored
      /\ run'[r].postMissing = run[r].postMissing /\ run'[r].postExcess = run[r].postExcess
      /\ run'[r].ready + run'[r].quarantined = run'[r].missing
      /\ run[r].phase # "paused" => run'[r].ready = KeptSum(r)'
  <2>1. run[r].ready + run[r].quarantined = run[r].missing
    BY <1>1 DEF RunSound, AccountOf
  <2>2. CASE run[r].phase = "applying"
            /\ run' = [run EXCEPT ![r].ready = @ - left, ![r].quarantined = @ + left]
    <3>1. run[r].ready = KeptSum(r) BY <1>1, <2>2 DEF RunSound, AccountOf, KeptSum
    <3>2. run[r].ready - left \in Nat /\ run[r].quarantined + left \in Nat
      BY <1>2, <1>5, <3>1 DEF RunRows
    <3>3. \A m, n \in Nat : [run[r] EXCEPT !.ready = m, !.quarantined = n] \in RunRows
      BY <1>2 DEF RunRows
    <3> DEFINE c == [run[r] EXCEPT !.ready = run[r].ready - left, !.quarantined = run[r].quarantined + left]
    <3>4. c \in RunRows BY <3>2, <3>3
    <3>5. /\ c.phase = run[r].phase /\ c.expected = run[r].expected
          /\ c.family = run[r].family /\ c.after = run[r].after
          /\ c.missing = run[r].missing /\ c.restored = run[r].restored
          /\ c.postMissing = run[r].postMissing /\ c.postExcess = run[r].postExcess
          /\ c.ready = run[r].ready - left /\ c.quarantined = run[r].quarantined + left
      BY <1>2 DEF RunRows
    <3>6. run' = [run EXCEPT ![r] = c] BY <1>1, <2>2 DEF Types
    <3> HIDE DEF c
    <3>7. /\ run' \in [Runs -> RunRows] /\ run'[r] = c
          /\ \A o \in Runs : o # r => run'[o] = run[o]
      BY <1>1, <3>4, <3>6, OnlyRun
    <3>8. run[r].ready \in Nat /\ run[r].quarantined \in Nat BY <1>2 DEF RunRows
    <3>9. c.ready = KeptSum(r)' BY <1>5, <3>1, <3>5
    <3>10. c.ready + c.quarantined = run[r].missing BY <2>1, <3>5, <3>8
    <3> QED BY <3>5, <3>7, <3>9, <3>10
  <2>3. CASE run[r].phase = "paused" /\ run' = run BY <1>1, <2>1, <2>3 DEF Types
  <2> QED BY <2>2, <2>3
<1>7. Types' BY <1>1, <1>4, <1>6, RequestEnds DEF Types, tables, Rewrites
<1>8. \A o \in Runs : DataFenced(o) BY <1>1, DataStay DEF tables
<1>9. \A o \in Runs : o # r => Undisturbed(o) BY <1>4, <1>6, OthersUndisturbed DEF Rewrites
<1>10. run[r].phase \in {"applying", "paused"} OBVIOUS
<1>11. RunSound(r)'
  <2>1. Unstarted(r)' /\ Inventoried(r)' BY <1>6, <1>10 DEF Unstarted, Inventoried
  <2>2. RowsThere(r)' /\ run'[r].expected <= epoch'
    BY <1>1, <1>6 DEF RunSound, RowsThere, Active, tables
  <2>3. Counted(r)' BY <1>1, <1>6, <1>10 DEF RunSound, Counted, Audited
  <2>4. AccountOf(r)' BY <1>1, <1>5, <1>6 DEF RunSound, AccountOf, KeptSum
  <2> QED BY <2>1, <2>2, <2>3, <2>4 DEF RunSound
<1>12. Moves(r)
  BY <1>2, <1>3, <1>4, <1>6, <1>10 DEF Moves, Applied, Audited, RunRows, Rewrites
<1>13. Active(r)' => Active(r) BY <1>6 DEF Active
<1>14. \A j \in Requests : requests'[j] = requests[j] \/ requests'[j].at = "idle"
  BY <1>1, RequestEnds
<1> QED BY <1>7, <1>8, <1>9, <1>11, <1>12, <1>13, <1>14, Together

LEMMA PrepareBegins ==
  ASSUME RecoveryIInv, NEW k \in Requests, requests[k].at = "prepare",
         NEW page, page \subseteq Candidates(requests[k].item[1], requests[k].item[2]),
         NEW whole \in BOOLEAN,
         requests' = [requests EXCEPT ![k].at = "apply", ![k].todo = page, ![k].whole = whole],
         UNCHANGED <<tables, epoch, run, receipt, added, disturbances, cuts>>
  PROVE  RecoveryIInv'
<1> DEFINE i == requests[k].item
           d == [requests[k] EXCEPT !.at = "apply", !.todo = page, !.whole = whole]
<1>1. Types /\ RequestSound(k) BY DEF RecoveryIInv
<1>2. requests[k] \in RecoveryRequests /\ i \in Items /\ requests[k].run \in Runs BY <1>1 DEF Types
<1>3. page \subseteq CellsOf(i[1], i[2]) /\ page \subseteq Cells BY DEF Candidates, CellsOf
<1>4. /\ d \in RecoveryRequests /\ d.at = "apply" /\ d.item = i /\ d.todo = page
      /\ d.run = requests[k].run /\ d.seen = requests[k].seen
      /\ d.inserted = requests[k].inserted
  BY <1>2, <1>3 DEF RecoveryRequests
<1>5. requests' = [requests EXCEPT ![k] = d] BY <1>1 DEF Types
<1> HIDE DEF d
<1>6. /\ requests' \in [Requests -> RecoveryRequests] /\ requests'[k] = d
      /\ \A j \in Requests : j # k => requests'[j] = requests[j]
  BY <1>1, <1>4, <1>5, OnlyRequest
<1>7. Types'
  <2>1. \A j \in Requests :
          /\ requests'[j].at # "idle" => requests'[j].run \in Runs
          /\ requests'[j].at \in {"prepare", "apply"} => requests'[j].item \in Items
    BY <1>1, <1>2, <1>4, <1>6 DEF Types
  <2> QED BY <1>1, <1>6, <2>1 DEF Types, tables
<1>8. \A o \in Runs : DataFenced(o) BY <1>1, DataStay DEF tables
<1>9. \A o \in Runs : Undisturbed(o) BY DEF Undisturbed
<1>10. RequestSound(k)'
  <2>1. Reached(k)' = Reached(k) BY <1>4, <1>6 DEF Reached
  <2>2. MovedOn(k)' BY <1>1, <1>4, <1>6, <2>1 DEF RequestSound, MovedOn
  <2>3. HeldIsStored(k)' BY <1>4, <1>6 DEF HeldIsStored
  <2>4. \A c \in page : \E p \in Predecessor(c) : Fact[p] = Fact[c]
    BY DEF Candidates, Restorable
  <2>5. \A c : Predecessor(c)' = Predecessor(c) BY DEF Predecessor, Earlier, tables
  <2>6. \A c \in page : \E p \in Predecessor(c)' : Fact[p] = Fact[c] BY <2>4, <2>5
  <2>7. TodoIsProved(k)' BY <1>3, <1>4, <1>6, <2>6 DEF TodoIsProved
  <2> QED BY <2>2, <2>3, <2>7 DEF RequestSound
<1> QED BY <1>6, <1>7, <1>8, <1>9, <1>10, Together

LEMMA PrepareKeeps ==
  ASSUME RecoveryIInv, NEW k \in Requests, Prepare(k)
  PROVE  RecoveryIInv'
<1> DEFINE q == requests[k]
           r == q.run
           i == q.item
           found == Candidates(i[1], i[2])
           left == Left(q.held)
           drifted == \/ epoch # q.seen.expected
                      \/ Shortfall(i[1], i[2]) > q.held.missing
                      \/ Cardinality(found) > q.held.candidates
<1>1. q.at = "prepare" /\ UNCHANGED <<tables, epoch, added, disturbances, cuts>> BY Zenon DEF Prepare
<1>2. Types /\ RequestSound(k) BY DEF RecoveryIInv
<1>3. r \in Runs /\ i \in Items /\ q \in RecoveryRequests BY <1>1, <1>2 DEF Types
<1>4. RunSound(r) BY <1>3 DEF RecoveryIInv
<1>5. run[r].phase \in Applied BY <1>1, <1>2 DEF RequestSound, MovedOn
<1>6. CASE Done(k) /\ UNCHANGED receipt /\ (MarkPaused(r) \/ UNCHANGED run)
  BY <1>1, <1>3, <1>6, EndsQuietly DEF tables
<1>7. CASE receipt[r][i].status = "ready" /\ Close(r, i, "applied") /\ Done(k) /\ UNCHANGED run
  BY <1>1, <1>3, <1>5, <1>7, ClosesApplied
<1>8. CASE /\ ~ drifted /\ receipt[r][i].status = "ready"
           /\ Close(r, i, "quarantined")
           /\ run' = IF Guarded(k, "applying") /\ run[r].ready >= left
                     THEN [run EXCEPT ![r].ready = @ - left, ![r].quarantined = @ + left] ELSE run
           /\ Done(k)
  <2>1. epoch = q.seen.expected BY <1>8
  <2>2. receipt[r][i] = q.held
    BY <1>1, <1>2, <1>8, <2>1 DEF RequestSound, HeldIsStored
  <2>3. run[r].expected = q.seen.expected
    <3>1. q.seen.expected \in Nat /\ run[r].expected \in Nat
      BY <1>2, <1>3 DEF Types, RecoveryRequests, SeenRows, RunRows
    <3>2. q.seen.expected <= run[r].expected
      BY <1>1, <1>2, <3>1 DEF RequestSound, MovedOn, Reached
    <3>3. run[r].expected <= epoch BY <1>4 DEF RunSound
    <3> QED BY <2>1, <3>1, <3>2, <3>3
  <2>4. i \in Pending(r) BY <1>3, <1>8 DEF Pending
  <2>5. run[r].phase \in {"applying", "paused"}
    BY <1>4, <1>5, <2>4 DEF RunSound, Counted, Applied, Audited
  <2>6. left \in Nat BY <1>3 DEF RecoveryRequests, Receipts, Left
  <2>7. CASE run[r].phase = "paused"
    <3>1. run' = run BY <1>8, <2>7 DEF Guarded
    <3> HIDE DEF left
    <3>2. left = Left(receipt[r][i]) BY Zenon, <2>2 DEF left
    <3> QED BY Zenon, <1>1, <1>3, <1>5, <1>8, <2>6, <2>7, <3>1, <3>2, ClosesQuarantined
  <2>8. CASE run[r].phase = "applying"
    <3>1. Guarded(k, "applying") BY <2>1, <2>3, <2>8 DEF Guarded
    <3>2. run[r].ready >= left
      <4>1. run[r].ready = KeptSum(r) BY <1>4, <2>8 DEF RunSound, AccountOf, KeptSum
      <4>2. KeptSum(r) \in Nat /\ Kept(receipt[r][i]) \in Nat /\ Kept(receipt[r][i]) <= KeptSum(r)
        <5>1. receipt[r][i] \in Receipts BY <1>2, <1>3 DEF Types
        <5>2. Rewrites(r, i)
          <6>1. receipt' = [receipt EXCEPT ![r] =
                              [receipt[r] EXCEPT ![i] = [receipt[r][i] EXCEPT !.status = "quarantined"]]]
            BY <1>2, <1>3, <1>8 DEF Types, Close
          <6>2. [receipt[r][i] EXCEPT !.status = "quarantined"] \in Receipts
            BY <5>1 DEF Receipts
          <6> QED BY <1>2, <1>3, <6>1, <6>2 DEF Rewrites, Types
        <5> QED BY <1>2, <1>3, <5>2, SumsFollow
      <4>3. left <= Kept(receipt[r][i])
        <5>1. receipt[r][i] \in Receipts BY <1>2, <1>3 DEF Types
        <5>2. \A p \in Receipts : p.status = "ready" => Left(p) <= Kept(p)
          BY DEF Left, Kept, Receipts
        <5> QED BY <1>8, <2>2, <5>1, <5>2
      <4> QED BY <2>6, <4>1, <4>2, <4>3
    <3>3. run' = [run EXCEPT ![r].ready = @ - left, ![r].quarantined = @ + left]
      BY <1>8, <3>1, <3>2
    <3> HIDE DEF left
    <3>4. left = Left(receipt[r][i]) BY <2>2 DEF left
    <3>5. receipt[r][i].status = "ready" /\ Close(r, i, "quarantined") /\ Done(k) BY <1>8
    <3> QED BY Zenon, <1>1, <1>3, <1>5, <2>6, <2>8, <3>3, <3>4, <3>5, ClosesQuarantined
  <2> QED BY <2>5, <2>7, <2>8
<1>9. CASE \E page \in SUBSET found :
              /\ requests' = [requests EXCEPT ![k].at = "apply", ![k].todo = page,
                                     ![k].whole = (Cardinality(found) <= ApplyPage)]
              /\ UNCHANGED <<run, receipt>>
  <2>1. (Cardinality(found) <= ApplyPage) \in BOOLEAN OBVIOUS
  <2> DEFINE whole == Cardinality(found) <= ApplyPage
  <2>2. PICK page \in SUBSET found :
              requests' = [requests EXCEPT ![k].at = "apply", ![k].todo = page, ![k].whole = whole]
    BY <1>9
  <2>3. UNCHANGED <<run, receipt>> BY <1>9
  <2> HIDE DEF whole
  <2>4. whole \in BOOLEAN BY Zenon, <2>1 DEF whole
  <2> QED BY <1>1, <2>2, <2>3, <2>4, PrepareBegins
<1>10. \/ Done(k) /\ UNCHANGED receipt /\ (MarkPaused(r) \/ UNCHANGED run)
       \/ receipt[r][i].status = "ready" /\ Close(r, i, "applied") /\ Done(k) /\ UNCHANGED run
       \/ /\ ~ drifted /\ receipt[r][i].status = "ready"
          /\ Close(r, i, "quarantined")
          /\ run' = IF Guarded(k, "applying") /\ run[r].ready >= left
                    THEN [run EXCEPT ![r].ready = @ - left, ![r].quarantined = @ + left] ELSE run
          /\ Done(k)
       \/ \E page \in SUBSET found :
              /\ requests' = [requests EXCEPT ![k].at = "apply", ![k].todo = page,
                                     ![k].whole = (Cardinality(found) <= ApplyPage)]
              /\ UNCHANGED <<run, receipt>>
  BY Zenon DEF Prepare
<1> QED BY <1>6, <1>7, <1>8, <1>9, <1>10

\* A row that is there already leaves the request with less to restore.
LEMMA RestoreReuses ==
  ASSUME RecoveryIInv, NEW k \in Requests, NEW c \in Cells, requests[k].at = "apply",
         requests' = [requests EXCEPT ![k].todo = @ \ {c}],
         UNCHANGED <<tables, epoch, run, receipt, added, disturbances, cuts>>
  PROVE  RecoveryIInv'
<1> DEFINE d == [requests[k] EXCEPT !.todo = requests[k].todo \ {c}]
<1>1. Types /\ RequestSound(k) BY DEF RecoveryIInv
<1>2. requests[k] \in RecoveryRequests BY <1>1 DEF Types
<1>3. /\ d \in RecoveryRequests /\ d.at = "apply" /\ d.item = requests[k].item
      /\ d.todo \subseteq requests[k].todo /\ d.run = requests[k].run
      /\ d.seen = requests[k].seen /\ d.inserted = requests[k].inserted
  BY <1>2 DEF RecoveryRequests
<1>4. requests' = [requests EXCEPT ![k] = d] BY <1>1 DEF Types
<1> HIDE DEF d
<1>5. /\ requests' \in [Requests -> RecoveryRequests] /\ requests'[k] = d
      /\ \A j \in Requests : j # k => requests'[j] = requests[j]
  BY <1>1, <1>3, <1>4 DEF Types
<1>6. Types'
  <2>1. \A j \in Requests :
          /\ requests'[j].at # "idle" => requests'[j].run \in Runs
          /\ requests'[j].at \in {"prepare", "apply"} => requests'[j].item \in Items
    BY <1>1, <1>3, <1>5 DEF Types
  <2> QED BY <1>1, <1>5, <2>1 DEF Types, tables
<1>7. \A o \in Runs : DataFenced(o) BY <1>1, DataStay DEF tables
<1>8. \A o \in Runs : Undisturbed(o) BY DEF Undisturbed
<1>9. RequestSound(k)'
  <2>1. Reached(k)' = Reached(k) BY <1>3, <1>5 DEF Reached
  <2>2. MovedOn(k)' BY <1>1, <1>3, <1>5, <2>1 DEF RequestSound, MovedOn
  <2>3. HeldIsStored(k)' BY <1>3, <1>5 DEF HeldIsStored
  <2>4. \A x : Predecessor(x)' = Predecessor(x) BY DEF Predecessor, Earlier, tables
  <2>5. direct' = direct BY DEF tables
  <2>6. TodoIsProved(k)
    BY <1>1 DEF RequestSound
  <2>7. TodoIsProved(k)' BY <1>3, <1>5, <2>1, <2>4, <2>5, <2>6 DEF TodoIsProved
  <2> QED BY <2>2, <2>3, <2>7 DEF RequestSound
<1> QED BY <1>5, <1>6, <1>7, <1>8, <1>9, Together

\* A row is inserted: run, receipt, epoch and history move together.
Inserts(k, r, i, c) ==
    /\ c \notin direct /\ Admits(k, c)
    /\ direct' = direct \cup {c} /\ epoch' = epoch + 1
    /\ run' = [run EXCEPT ![r].expected = @ + 1, ![r].restored = @ + 1]
    /\ receipt' = [receipt EXCEPT ![r][i].restored = @ + 1]
    /\ added' = [added EXCEPT ![r] = @ \cup {c}]
    /\ requests' = [requests EXCEPT ![k].todo = @ \ {c}, ![k].inserted = @ + 1]
    /\ UNCHANGED <<observed, sound, disturbances, cuts>>

LEMMA RestoreInserts ==
  ASSUME RecoveryIInv, NEW k \in Requests, NEW r \in Runs, r = requests[k].run,
         NEW i \in Items, i = requests[k].item, NEW c \in Cells,
         requests[k].at = "apply", c \in requests[k].todo, Inserts(k, r, i, c)
  PROVE  RecoveryIInv'
<1>d. /\ direct' = direct \cup {c} /\ epoch' = epoch + 1 /\ c \notin direct
      /\ UNCHANGED <<observed, sound, disturbances, cuts>>
  BY DEF Inserts
<1> DEFINE n == run[r].expected
           a == [run[r] EXCEPT !.expected = n + 1, !.restored = run[r].restored + 1]
           p == [receipt[r][i] EXCEPT !.restored = receipt[r][i].restored + 1]
           d == [requests[k] EXCEPT !.todo = requests[k].todo \ {c},
                                    !.inserted = requests[k].inserted + 1]
<1>1. Types /\ RunSound(r) /\ RequestSound(k) BY DEF RecoveryIInv
<1>2. run[r] \in RunRows /\ receipt[r][i] \in Receipts /\ requests[k] \in RecoveryRequests
      /\ epoch \in Nat
  BY <1>1 DEF Types
<1>3. /\ run[r].phase = "applying" /\ n = epoch /\ n = Reached(k) /\ n \in Nat
      /\ receipt[r][i].status = "ready"
  BY <1>2 DEF Inserts, Admits, RunRows
<1>4. /\ a \in RunRows /\ a.phase = "applying" /\ a.expected = n + 1
      /\ a.restored = run[r].restored + 1
      /\ a.missing = run[r].missing /\ a.ready = run[r].ready
      /\ a.quarantined = run[r].quarantined
      /\ a.postMissing = run[r].postMissing /\ a.postExcess = run[r].postExcess
  <2>1. run[r].restored + 1 \in Nat /\ n + 1 \in Nat BY <1>2 DEF RunRows
  <2>2. \A l, m \in Nat : [run[r] EXCEPT !.expected = l, !.restored = m] \in RunRows
    BY <1>2 DEF RunRows
  <2>3. a \in RunRows BY <2>1, <2>2
  <2> QED BY <1>2, <1>3, <2>3 DEF RunRows
<1>5. /\ p \in Receipts /\ p.missing = receipt[r][i].missing
      /\ p.restored = receipt[r][i].restored + 1 /\ Kept(p) = Kept(receipt[r][i])
  <2>1. receipt[r][i].restored + 1 \in Nat BY <1>2 DEF Receipts
  <2>2. \A m \in Nat : [receipt[r][i] EXCEPT !.restored = m] \in Receipts
    BY <1>2 DEF Receipts
  <2>3. p \in Receipts BY <2>1, <2>2
  <2>4. /\ p.missing = receipt[r][i].missing /\ p.candidates = receipt[r][i].candidates
        /\ p.restored = receipt[r][i].restored + 1 /\ p.status = "ready"
    BY <1>2, <1>3 DEF Receipts
  <2> HIDE DEF p
  <2>5. Kept(p) = Kept(receipt[r][i]) BY <1>3, <2>4 DEF Kept
  <2> QED BY <2>3, <2>4, <2>5
<1>6. /\ d \in RecoveryRequests /\ d.at = "apply" /\ d.item = i /\ d.run = r
      /\ d.todo = requests[k].todo \ {c} /\ d.seen = requests[k].seen
      /\ d.inserted = requests[k].inserted + 1
  <2>1. requests[k].inserted + 1 \in Nat /\ requests[k].todo \ {c} \in SUBSET Cells
    BY <1>2 DEF RecoveryRequests
  <2>2. \A m \in Nat, todo \in SUBSET Cells :
          [requests[k] EXCEPT !.todo = todo, !.inserted = m] \in RecoveryRequests
    BY <1>2 DEF RecoveryRequests
  <2>3. d \in RecoveryRequests BY <2>1, <2>2
  <2>4. /\ d.at = requests[k].at /\ d.item = requests[k].item /\ d.run = requests[k].run
        /\ d.todo = requests[k].todo \ {c} /\ d.seen = requests[k].seen
        /\ d.inserted = requests[k].inserted + 1
    BY <1>2 DEF RecoveryRequests
  <2> HIDE DEF d
  <2> QED BY <2>3, <2>4
<1>7. run' = [run EXCEPT ![r] = a] BY <1>1 DEF Types, Inserts
<1>8. requests' = [requests EXCEPT ![k] = d] BY <1>1 DEF Types, Inserts
<1>9. Rewrites(r, i) /\ receipt'[r][i] = p
  <2>1. receipt' = [receipt EXCEPT ![r] = [receipt[r] EXCEPT ![i] = p]]
    BY <1>1 DEF Types, Inserts
  <2> HIDE DEF p
  <2>2. Types /\ p \in Receipts BY <1>1, <1>5
  <2>3. receipt \in [Runs -> [Items -> Receipts]] BY <2>2 DEF Types
  <2>4. receipt' \in [Runs -> [Items -> Receipts]] BY <2>1, <2>2, <2>3
  <2>5. receipt'[r] = [receipt[r] EXCEPT ![i] = p] BY <2>1, <2>3
  <2>6. \A o \in Runs : o # r => receipt'[o] = receipt[o] BY <2>1, <2>3
  <2>7. receipt[r] \in [Items -> Receipts] BY <2>3
  <2>8. receipt'[r][i] = p /\ \A j \in Items : j # i => receipt'[r][j] = receipt[r][j]
    BY <2>5, <2>7
  <2> QED BY <2>4, <2>6, <2>8 DEF Rewrites
<1> HIDE DEF a, p, d
<1>10. /\ run' \in [Runs -> RunRows] /\ run'[r] = a
       /\ \A o \in Runs : o # r => run'[o] = run[o]
  BY <1>1, <1>4, <1>7, OnlyRun
<1>11. /\ requests' \in [Requests -> RecoveryRequests] /\ requests'[k] = d
       /\ \A j \in Requests : j # k => requests'[j] = requests[j]
  BY <1>1, <1>6, <1>8, OnlyRequest
<1>12. /\ added' \in [Runs -> SUBSET Cells] /\ added'[r] = added[r] \cup {c}
       /\ \A o \in Runs : o # r => added'[o] = added[o]
  BY <1>1 DEF Types, Inserts
<1>13. Types'
  <2>1. \A j \in Requests :
          /\ requests'[j].at # "idle" => requests'[j].run \in Runs
          /\ requests'[j].at \in {"prepare", "apply"} => requests'[j].item \in Items
    BY <1>1, <1>6, <1>11 DEF Types
  <2>2. direct' \subseteq Cells /\ epoch' \in Nat BY <1>1, <1>2, <1>d DEF Types
  <2>3. receipt' \in [Runs -> [Items -> Receipts]] BY <1>9 DEF Rewrites
  <2> QED BY <1>1, <1>d, <1>10, <1>11, <1>12, <2>1, <2>2, <2>3 DEF Types
<1>14. \A o \in Runs : DataFenced(o) BY <1>2, <1>d DEF DataFenced
<1>15. \A o \in Runs : o # r => Undisturbed(o)
  BY <1>9, <1>10, <1>12, OthersUndisturbed DEF Rewrites
<1>16. RunSound(r)'
  <2>1. run'[r].expected <= epoch'
    <3>1. run'[r].expected = epoch + 1 /\ epoch + 1 \in Nat BY <1>2, <1>3, <1>4, <1>10
    <3>2. epoch' = epoch + 1 BY <1>d
    <3> QED BY <3>1, <3>2
  <2>2. Unstarted(r)' /\ Inventoried(r)' BY <1>4, <1>10 DEF Unstarted, Inventoried
  <2>3. RowsThere(r)'
    <3>1. added[r] \subseteq direct
      BY <1>1, <1>3 DEF RunSound, RowsThere, Active, ActivePhases
    <3> QED BY <1>12, <1>d, <3>1 DEF RowsThere
  <2>4. Counted(r)' BY <1>1, <1>3, <1>4, <1>10 DEF RunSound, Counted, Audited
  <2>5. AccountOf(r)'
    <3>1. /\ Total(r, "missing")' = Total(r, "missing")
          /\ Total(r, "restored")' = Total(r, "restored") + 1
          /\ KeptSum(r)' = KeptSum(r)
      <4>1. receipt[r][i].missing \in Nat /\ receipt[r][i].restored \in Nat
        BY <1>2 DEF Receipts
      <4>2. /\ receipt'[r][i].missing = receipt[r][i].missing
            /\ receipt'[r][i].restored = receipt[r][i].restored + 1
            /\ Kept(receipt'[r][i]) = Kept(receipt[r][i])
        BY <1>5, <1>9
      <4>3. /\ Total(r, "missing") \in Nat /\ Total(r, "missing")' \in Nat
            /\ Total(r, "restored") \in Nat /\ Total(r, "restored")' \in Nat
            /\ KeptSum(r) \in Nat /\ KeptSum(r)' \in Nat /\ Kept(receipt[r][i]) \in Nat
            /\ Total(r, "missing")' + receipt[r][i].missing
                 = Total(r, "missing") + receipt'[r][i].missing
            /\ Total(r, "restored")' + receipt[r][i].restored
                 = Total(r, "restored") + receipt'[r][i].restored
            /\ KeptSum(r)' + Kept(receipt[r][i]) = KeptSum(r) + Kept(receipt'[r][i])
        BY <1>1, <1>9, SumsFollow
      <4>4. Total(r, "missing")' = Total(r, "missing") BY <4>1, <4>2, <4>3
      <4>5. Total(r, "restored")' = Total(r, "restored") + 1 BY <4>1, <4>2, <4>3
      <4>6. KeptSum(r)' = KeptSum(r) BY <4>2, <4>3
      <4> QED BY <4>4, <4>5, <4>6
    <3>2. /\ run[r].missing = Total(r, "missing") /\ run[r].restored = Total(r, "restored")
          /\ run[r].ready + run[r].quarantined = run[r].missing
          /\ run[r].ready = KeptSum(r)
          /\ run[r].restored = Cardinality(added[r])
      BY <1>1, <1>3 DEF RunSound, AccountOf, KeptSum
    <3>3. Cardinality(added[r] \cup {c}) = Cardinality(added[r]) + 1
      <4>1. IsFiniteSet(added[r])
        <5>1. added[r] \subseteq Cells BY <1>1 DEF Types
        <5> QED BY <5>1, ConstantsKnown, FS_Subset
      <4>2. c \notin added[r]
        BY <1>1, <1>3, <1>d DEF RunSound, RowsThere, Active, ActivePhases
      <4> QED BY <4>1, <4>2, FS_AddElement
    <3>4. /\ run'[r].missing = run[r].missing /\ run'[r].ready = run[r].ready
          /\ run'[r].quarantined = run[r].quarantined
          /\ run'[r].restored = run[r].restored + 1
      BY <1>4, <1>10
    <3>5. run'[r].restored = Cardinality(added'[r]) BY <1>12, <3>2, <3>3, <3>4
    <3>6. run'[r].restored = Total(r, "restored")' /\ run'[r].ready = KeptSum(r)'
      BY <3>1, <3>2, <3>4
    <3>7. run'[r].missing = Total(r, "missing")' /\ run'[r].ready + run'[r].quarantined = run'[r].missing
      BY <3>1, <3>2, <3>4
    <3> QED BY <3>5, <3>6, <3>7 DEF AccountOf, KeptSum
  <2> QED BY <2>1, <2>2, <2>3, <2>4, <2>5 DEF RunSound
<1>17. Moves(r) /\ Active(r)
  <2>1. epoch' # epoch /\ n <= n + 1
    <3>1. epoch' = epoch + 1 /\ epoch \in Nat /\ n = epoch BY <1>2, <1>3, <1>d
    <3> QED BY <3>1
  <2> QED BY <1>3, <1>4, <1>10, <2>1 DEF Moves, Applied, Audited, Active, ActivePhases
<1>18. RequestSound(k)'
  <2>1. Reached(k)' = n + 1
    <3>1. requests[k].seen.expected \in Nat /\ requests[k].inserted \in Nat
      BY <1>2 DEF RecoveryRequests, SeenRows
    <3> QED BY <1>3, <1>6, <1>11, <3>1 DEF Reached
  <2>2. MovedOn(k)' BY <1>3, <1>4, <1>6, <1>10, <1>11, <2>1 DEF MovedOn, Applied
  <2>3. HeldIsStored(k)' BY <1>6, <1>11 DEF HeldIsStored
  <2>4. TodoIsProved(k) BY <1>1 DEF RequestSound
  <2>5. ASSUME NEW x \in d.todo, x \notin direct'
        PROVE  \E o \in Predecessor(x)' : Fact[o] = Fact[x]
    <3>1. \E o \in Predecessor(x) : Fact[o] = Fact[x]
      BY <1>3, <1>6, <1>d, <2>4, <2>5 DEF TodoIsProved
    <3>2. x[2] = c[2] BY <1>6, <2>4, <2>5 DEF TodoIsProved, CellsOf
    <3>3. c[2] \in Nat
      <4>1. c[2] \in Sources /\ Sources \subseteq Nat BY ConstantsKnown
      <4> QED BY <4>1
    <3>4. ~ (c[2] < x[2]) BY <3>2, <3>3
    <3>5. Earlier(x)' = Earlier(x) BY <1>d, <3>4 DEF Earlier
    <3>6. Predecessor(x)' = Predecessor(x) BY <3>5 DEF Predecessor
    <3> QED BY <3>1, <3>6
  <2>6. d.todo \subseteq CellsOf(i[1], i[2]) BY <1>6, <2>4 DEF TodoIsProved
  <2>7. TodoIsProved(k)' BY Zenon, <1>6, <1>11, <2>5, <2>6 DEF TodoIsProved
  <2> QED BY <2>2, <2>3, <2>7 DEF RequestSound
<1> QED BY <1>11, <1>13, <1>14, <1>15, <1>16, <1>17, <1>18, Together

LEMMA RestoreKeeps ==
  ASSUME RecoveryIInv, NEW k \in Requests, NEW c \in Cells, Restore(k, c)
  PROVE  RecoveryIInv'
<1> DEFINE r == requests[k].run
           i == requests[k].item
<1>1. /\ requests[k].at = "apply" /\ c \in requests[k].todo
      /\ UNCHANGED <<observed, sound, disturbances, cuts>>
  BY DEF Restore
<1>2. Types BY DEF RecoveryIInv
<1>3. r \in Runs /\ i \in Items BY <1>1, <1>2 DEF Types
<1>4. CASE /\ requests' = [requests EXCEPT ![k].todo = @ \ {c}]
           /\ UNCHANGED <<direct, epoch, run, receipt, added>>
  BY <1>1, <1>4, RestoreReuses DEF tables
<1>5. CASE /\ c \notin direct /\ Admits(k, c)
           /\ direct' = direct \cup {c}
           /\ epoch' = epoch + 1
           /\ run' = [run EXCEPT ![r].expected = @ + 1, ![r].restored = @ + 1]
           /\ receipt' = [receipt EXCEPT ![r][i].restored = @ + 1]
           /\ added' = [added EXCEPT ![r] = @ \cup {c}]
           /\ requests' = [requests EXCEPT ![k].todo = @ \ {c}, ![k].inserted = @ + 1]
  <2>1. Inserts(k, r, i, c) BY <1>1, <1>5 DEF Inserts
  <2> QED BY <1>1, <1>3, <2>1, RestoreInserts
<1>6. CASE Done(k) /\ UNCHANGED <<direct, epoch, run, receipt, added>>
  BY <1>1, <1>3, <1>6, EndsQuietly
<1> QED BY <1>4, <1>5, <1>6 DEF Restore

LEMMA FinishKeeps ==
  ASSUME RecoveryIInv, NEW k \in Requests, Finish(k)
  PROVE  RecoveryIInv'
<1> DEFINE r == requests[k].run
           i == requests[k].item
<1>1. /\ requests[k].at = "apply" /\ Done(k)
      /\ UNCHANGED <<tables, epoch, added, disturbances, cuts>>
  BY DEF Finish
<1>2. Types /\ RequestSound(k) BY DEF RecoveryIInv
<1>3. r \in Runs /\ i \in Items /\ run[r].phase \in Applied
  BY <1>1, <1>2 DEF Types, RequestSound, MovedOn
<1>4. CASE UNCHANGED receipt /\ (MarkPaused(r) \/ UNCHANGED run)
  BY <1>1, <1>3, <1>4, EndsQuietly DEF tables
<1>5. CASE receipt[r][i].status = "ready" /\ Close(r, i, "applied") /\ UNCHANGED run
  BY <1>1, <1>3, <1>5, ClosesApplied
<1> QED BY <1>4, <1>5 DEF Finish

(***************************************************************************)
(* The count audit.                                                          *)
(***************************************************************************)
Latest(page) == CHOOSE s \in page : \A o \in page : o <= s

LEMMA LatestIsIn ==
  ASSUME NEW page \in SUBSET Sources, page # {}
  PROVE  Latest(page) \in page /\ \A o \in page : o <= Latest(page)
<1>1. page \in SUBSET Nat /\ IsFiniteSet(page) BY ConstantsKnown, FS_Subset
<1>2. \E m \in page : \A o \in page : o <= m BY <1>1, EndsExist
<1> QED BY <1>2 DEF Latest

\* A page holds the sources between the cursor and its last one, and one is
\* empty only at the end.
LEMMA PageIsAnInterval ==
  ASSUME NEW after \in Nat
  PROVE  /\ NextSources(after) \in SUBSET Sources
         /\ \A s \in NextSources(after) : after < s
         /\ \A t \in NextSources(after), s \in Sources :
              after < s /\ s <= t => s \in NextSources(after)
         /\ NextSources(after) = {} => \A s \in Sources : s <= after
<1> DEFINE Between(s) == {o \in Sources : after < o /\ o < s}
<1>1. \A s \in Sources : s \in Nat BY ConstantsKnown
<1>2. AuditPageSize \in Nat /\ AuditPageSize > 0 BY ConstantsKnown
<1>3. \A s : IsFiniteSet(Between(s)) /\ Cardinality(Between(s)) \in Nat
  BY ConstantsKnown, FS_Subset, FS_CardinalityType
<1>4. ASSUME NEW t \in NextSources(after), NEW s \in Sources, after < s, s <= t
      PROVE  s \in NextSources(after)
  <2>1. t \in Sources /\ Cardinality(Between(t)) < AuditPageSize BY DEF NextSources
  <2>2. Between(s) \subseteq Between(t) BY <1>1, <1>4, <2>1
  <2>3. Cardinality(Between(s)) <= Cardinality(Between(t))
    <3> HIDE DEF Between
    <3> QED BY <1>3, <2>2, FS_Subset
  <2>4. Cardinality(Between(s)) < AuditPageSize
    <3> HIDE DEF Between
    <3> QED BY <1>2, <1>3, <2>1, <2>3
  <2> QED BY <1>4, <2>4 DEF NextSources
<1>5. ASSUME NextSources(after) = {}, NEW x \in Sources, ~ (x <= after) PROVE FALSE
  <2> DEFINE S == {o \in Sources : after < o}
  <2>1. S \in SUBSET Sources /\ S # {} BY <1>1, <1>5
  <2>2. FirstSource(S) \in S /\ \A o \in S : FirstSource(S) <= o BY <2>1, FirstSourceIsIn
  <2>3. FirstSource(S) \in Sources /\ after < FirstSource(S) BY <2>2
  <2>4. \A o \in Sources : ~ (after < o /\ o < FirstSource(S)) BY <1>1, <2>2, <2>3
  <2>5. Between(FirstSource(S)) = {} BY <2>4
  <2>6. Cardinality(Between(FirstSource(S))) < AuditPageSize BY <1>2, <2>5, FS_EmptySet
  <2> QED BY <1>5, <2>3, <2>6 DEF NextSources
<1> QED BY <1>4, <1>5 DEF NextSources

\* Where the audit goes on after a page.
FamilyAfter(page, family) == IF page = {} THEN family + 1 ELSE family
SourceAfter(page) == IF page = {} THEN NoSource ELSE Latest(page)

LEMMA CursorAdvances ==
  ASSUME NEW f \in Nat, NEW a \in Sources \cup {NoSource}, 1 <= f, f <= LastFamily
  PROVE  LET page == NextSources(a)
             g == FamilyAfter(page, f)
             b == SourceAfter(page)
         IN  /\ g \in Cursors /\ b \in Sources \cup {NoSource}
             /\ f < g \/ (f = g /\ a < b)
             /\ g <= LastFamily \/ (page = {} /\ f = LastFamily)
<1> DEFINE page == NextSources(a)
<1>1. a \in Nat
  <2>1. Sources \subseteq Nat BY ConstantsKnown
  <2> QED BY <2>1 DEF NoSource
<1>2. LastFamily \in Nat BY ConstantsKnown
<1>3. CASE page = {}
  <2>1. f + 1 \in Cursors BY <1>2 DEF Cursors
  <2> QED BY <1>2, <1>3, <2>1 DEF FamilyAfter, SourceAfter
<1>4. CASE page # {}
  <2>1. page \in SUBSET Sources /\ \A s \in page : a < s BY <1>1, PageIsAnInterval
  <2>2. Latest(page) \in page BY <1>4, <2>1, LatestIsIn
  <2>3. f \in Cursors BY <1>2 DEF Cursors
  <2> QED BY <1>4, <2>1, <2>2, <2>3 DEF FamilyAfter, SourceAfter
<1> QED BY <1>3, <1>4

\* What a page counts is added to what the cursor has passed.
LEMMA PageCounts ==
  ASSUME NEW of \in [Items -> Nat], NEW f \in Nat, NEW a \in Sources \cup {NoSource},
         1 <= f, f <= LastFamily
  PROVE  LET page == NextSources(a)
         IN  /\ {f} \X page \subseteq Items
             /\ SumOf(Part(of, FamilyAfter(page, f), SourceAfter(page)))
                  = SumOf(Part(of, f, a)) + SumOf([i \in {f} \X page |-> of[i]])
             /\ SumOf(Part(of, f, a)) \in Nat /\ SumOf([i \in {f} \X page |-> of[i]]) \in Nat
<1> DEFINE page == NextSources(a)
           T == {f} \X page
           before == Part(of, f, a)
           here == [i \in T |-> of[i]]
           then == Part(of, FamilyAfter(page, f), SourceAfter(page))
<1>1. a \in Nat
  <2>1. Sources \subseteq Nat BY ConstantsKnown
  <2> QED BY <2>1 DEF NoSource
<1>2. /\ page \in SUBSET Sources /\ \A s \in page : a < s
      /\ \A t \in page, s \in Sources : a < s /\ s <= t => s \in page
      /\ page = {} => \A s \in Sources : s <= a
  BY <1>1, PageIsAnInterval
<1> HIDE DEF page
<1>3. f \in Families /\ IsFiniteSet(Items) BY ConstantsKnown DEF Families
<1>4. T \subseteq Items BY <1>2, <1>3 DEF Items
<1>5. before \in [Items -> Nat] /\ here \in [T -> Nat] /\ then \in [Items -> Nat]
  BY <1>4, CountsAreFunctions
<1>6. \A i \in T : i[1] = f /\ i[2] \in page OBVIOUS
<1>7. ASSUME NEW i \in T PROVE before[i] = 0 /\ then[i] = here[i]
  <2>1. i \in Items /\ i[1] = f /\ i[2] \in page /\ a < i[2] /\ i[2] \in Nat
    BY <1>2, <1>4, <1>6, ItemsKnown
  <2>2. ~ Passed(f, a, i) BY <1>1, <2>1 DEF Passed
  <2>3. before[i] = 0 BY <2>1, <2>2 DEF Part
  <2>4. page # {} /\ i[2] <= Latest(page) BY <1>2, <2>1, LatestIsIn
  <2>5. Passed(FamilyAfter(page, f), SourceAfter(page), i)
    BY <2>1, <2>4 DEF Passed, FamilyAfter, SourceAfter
  <2>6. then[i] = of[i] BY <2>1, <2>5 DEF Part
  <2> QED BY <2>3, <2>6
<1>8. ASSUME NEW i \in Items \ T PROVE then[i] = before[i]
  <2>1. /\ i = <<i[1], i[2]>> /\ i[1] \in Nat /\ i[2] \in Sources /\ i[2] \in Nat /\ 0 < i[2]
    BY ItemsKnown
  <2>2. i[1] = f => i[2] \notin page BY <1>8, <2>1
  <2>3. Passed(FamilyAfter(page, f), SourceAfter(page), i) <=> Passed(f, a, i)
    <3>1. CASE page = {}
      <4>1. i[2] <= a BY <1>2, <2>1, <3>1
      <4> QED BY <2>1, <3>1, <4>1 DEF Passed, FamilyAfter, SourceAfter, NoSource
    <3>2. CASE page # {}
      <4>1. Latest(page) \in page /\ Latest(page) \in Nat /\ a < Latest(page)
        <5>1. Sources \subseteq Nat BY ConstantsKnown
        <5> QED BY <1>2, <3>2, <5>1, LatestIsIn
      <4>2. i[1] = f => ~ (a < i[2] /\ i[2] <= Latest(page)) BY <1>2, <2>1, <2>2, <4>1
      <4>3. i[1] = f => (i[2] <= a <=> i[2] <= Latest(page)) BY <1>1, <2>1, <4>1, <4>2
      <4> QED BY <3>2, <4>3 DEF Passed, FamilyAfter, SourceAfter
    <3> QED BY <3>1, <3>2
  <2> QED BY <2>3 DEF Part
<1> HIDE DEF T, before, here, then
<1>9. SumOf(then) = SumOf(before) + SumOf(here)
  BY <1>3, <1>4, <1>5, <1>7, <1>8, SumOfParts
<1>10. SumOf(before) \in Nat /\ SumOf(here) \in Nat
  <2>1. IsFiniteSet(T) BY <1>3, <1>4, FS_Subset
  <2> QED BY <1>3, <1>5, <2>1, UnitsAre
<1> QED BY <1>4, <1>9, <1>10 DEF T, before, here, then, page

\* What the audit has counted when it goes on.
LEMMA AuditCounts ==
  ASSUME RecoveryIInv, NEW k \in Requests, requests[k].at = "audit",
         Guarded(k, "verify_pending"), SameCursor(k)
  PROVE  LET q == requests[k]
             c == run[q.run]
             page == NextSources(q.seen.after)
             g == FamilyAfter(page, q.seen.family)
             b == SourceAfter(page)
         IN  /\ c.phase = "verify_pending" /\ c.expected = epoch
             /\ c.family = q.seen.family /\ c.after = q.seen.after
             /\ c.family \in Nat /\ 1 <= c.family /\ c.family <= LastFamily
             /\ q.seen.postMissing + SumOf([i \in {q.seen.family} \X page |-> Shortfall(i[1], i[2])])
                  = SumOf(Part(Shortfalls, g, b))
             /\ q.seen.postExcess + SumOf([i \in {q.seen.family} \X page |-> Excess(i[1], i[2])])
                  = SumOf(Part(Excesses, g, b))
             /\ SumOf(Part(Shortfalls, g, b)) \in Nat /\ SumOf(Part(Excesses, g, b)) \in Nat
<1> DEFINE q == requests[k]
           c == run[q.run]
           f == q.seen.family
           a == q.seen.after
           page == NextSources(a)
           g == FamilyAfter(page, f)
           b == SourceAfter(page)
<1>1. Types /\ RequestSound(k) BY DEF RecoveryIInv
<1>2. q.run \in Runs /\ c \in RunRows BY <1>1 DEF Types
<1>3. RunSound(q.run) BY <1>2 DEF RecoveryIInv
<1>4. c.phase = "verify_pending" /\ c.expected = epoch /\ c.family = f /\ c.after = a
  BY DEF Guarded, SameCursor
<1>5. f \in Nat /\ 1 <= f /\ f <= LastFamily /\ a \in Sources \cup {NoSource} /\ a \in Nat
  BY <1>2, <1>3, <1>4, CursorsKnown DEF RunSound, Counted, RunRows
<1>6. q.seen.postMissing = c.postMissing /\ q.seen.postExcess = c.postExcess
  <2>1. ~ Behind(q.seen, c) BY <1>4, <1>5 DEF Behind
  <2> QED BY <1>1, <1>4, <2>1 DEF RequestSound, MovedOn
<1>7. /\ q.seen.postMissing = SumOf(Part(Shortfalls, f, a))
      /\ q.seen.postExcess = SumOf(Part(Excesses, f, a))
  BY <1>3, <1>4, <1>6 DEF RunSound, Counted
<1>8. /\ {f} \X page \subseteq Items
      /\ SumOf(Part(Shortfalls, g, b))
           = SumOf(Part(Shortfalls, f, a)) + SumOf([i \in {f} \X page |-> Shortfalls[i]])
      /\ SumOf(Part(Shortfalls, f, a)) \in Nat
      /\ SumOf([i \in {f} \X page |-> Shortfalls[i]]) \in Nat
  BY <1>5, CountsAreFunctions, PageCounts
<1>9. /\ SumOf(Part(Excesses, g, b))
           = SumOf(Part(Excesses, f, a)) + SumOf([i \in {f} \X page |-> Excesses[i]])
      /\ SumOf(Part(Excesses, f, a)) \in Nat
      /\ SumOf([i \in {f} \X page |-> Excesses[i]]) \in Nat
  BY <1>5, CountsAreFunctions, PageCounts
<1> HIDE DEF page
<1>10. [i \in {f} \X page |-> Shortfalls[i]] = [i \in {f} \X page |-> Shortfall(i[1], i[2])]
  BY <1>8 DEF Shortfalls
<1>11. [i \in {f} \X page |-> Excesses[i]] = [i \in {f} \X page |-> Excess(i[1], i[2])]
  BY <1>8 DEF Excesses
<1>12. /\ q.seen.postMissing + SumOf([i \in {f} \X page |-> Shortfall(i[1], i[2])])
            = SumOf(Part(Shortfalls, g, b))
       /\ SumOf(Part(Shortfalls, g, b)) \in Nat
  BY <1>7, <1>8, <1>10
<1>13. /\ q.seen.postExcess + SumOf([i \in {f} \X page |-> Excess(i[1], i[2])])
            = SumOf(Part(Excesses, g, b))
       /\ SumOf(Part(Excesses, g, b)) \in Nat
  BY <1>7, <1>9, <1>11
<1> QED BY <1>4, <1>5, <1>12, <1>13 DEF page

\* The row of a run whose audit goes on or ends.
AuditedRow(c, phase, g, b, m, x) ==
    [c EXCEPT !.phase = phase, !.family = g, !.after = b, !.postMissing = m, !.postExcess = x]

LEMMA AuditAdvances ==
  ASSUME RecoveryIInv, NEW k \in Requests, NEW r \in Runs, Done(k),
         run[r].phase = "verify_pending", run[r].expected = epoch,
         NEW g \in Cursors, NEW b \in Sources \cup {NoSource},
         run[r].family < g \/ (run[r].family = g /\ run[r].after < b),
         NEW m \in Nat, NEW x \in Nat,
         m = SumOf(Part(Shortfalls, g, b)), x = SumOf(Part(Excesses, g, b)),
         NEW phase \in {"verify_pending", "complete", "complete_with_quarantine"},
         phase = "verify_pending" => g <= LastFamily,
         run' = [run EXCEPT ![r] = AuditedRow(run[r], phase, g, b, m, x)],
         UNCHANGED <<tables, epoch, receipt, added, disturbances, cuts>>
  PROVE  RecoveryIInv'
<1> DEFINE c == AuditedRow(run[r], phase, g, b, m, x)
<1>1. Types /\ RunSound(r) BY DEF RecoveryIInv
<1>2. run[r] \in RunRows BY <1>1 DEF Types
<1>3. /\ c \in RunRows /\ c.phase = phase /\ c.family = g /\ c.after = b
      /\ c.expected = run[r].expected
      /\ c.missing = run[r].missing /\ c.ready = run[r].ready
      /\ c.quarantined = run[r].quarantined /\ c.restored = run[r].restored
      /\ c.postMissing = m /\ c.postExcess = x
  BY <1>2 DEF RunRows, Phases, ActivePhases, AuditedRow
<1>4. run' = [run EXCEPT ![r] = c] OBVIOUS
<1> HIDE DEF c
<1>5. /\ run' \in [Runs -> RunRows] /\ run'[r] = c
      /\ \A o \in Runs : o # r => run'[o] = run[o]
  BY <1>1, <1>3, <1>4, OnlyRun
<1>6. Types' BY <1>1, <1>5, RequestEnds DEF Types, tables
<1>7. \A o \in Runs : DataFenced(o) BY <1>1, DataStay DEF tables
<1>8. \A o \in Runs : o # r => Undisturbed(o) BY <1>5, OthersUndisturbed
<1>9. RunSound(r)'
  <2>1. Unstarted(r)' /\ Inventoried(r)' BY <1>3, <1>5 DEF Unstarted, Inventoried
  <2>2. RowsThere(r)' /\ run'[r].expected <= epoch'
    BY <1>1, <1>3, <1>5 DEF RunSound, RowsThere, Active, ActivePhases, tables
  <2>3. Pending(r)' = {}
    <3>1. Pending(r) = {} BY <1>1 DEF RunSound, Counted, Audited
    <3> QED BY <3>1 DEF Pending
  <2>4. /\ SumOf(Part(Shortfalls, run[r].family, run[r].after))' = m
        /\ SumOf(Part(Excesses, run[r].family, run[r].after))' = x
    <3>1. Shortfalls' = Shortfalls /\ Excesses' = Excesses
      BY DEF Shortfalls, Excesses, Shortfall, Excess, Actual, tables
    <3>2. run'[r].family = g /\ run'[r].after = b BY <1>3, <1>5
    <3>3. /\ Part(Shortfalls, run[r].family, run[r].after)' = Part(Shortfalls, g, b)
          /\ Part(Excesses, run[r].family, run[r].after)' = Part(Excesses, g, b)
      BY <3>1, <3>2 DEF Part, Passed
    <3>4. /\ SumOf(Part(Shortfalls, run[r].family, run[r].after))'
                = SumOf(Part(Shortfalls, run[r].family, run[r].after)')
          /\ SumOf(Part(Excesses, run[r].family, run[r].after))'
                = SumOf(Part(Excesses, run[r].family, run[r].after)')
      BY DEF SumOf
    <3> QED BY <3>3, <3>4
  <2>5. Counted(r)' BY <1>3, <1>5, <2>3, <2>4 DEF Counted, Audited
  <2>6. AccountOf(r)' BY <1>1, <1>3, <1>5 DEF RunSound, AccountOf, Total
  <2> QED BY <2>1, <2>2, <2>5, <2>6 DEF RunSound
<1>10. Moves(r) /\ Active(r)
  <2>1. Behind(run[r], run'[r]) BY <1>3, <1>5 DEF Behind
  <2>2. run[r].expected <= run'[r].expected BY <1>2, <1>3, <1>5 DEF RunRows
  <2> QED BY <1>3, <1>5, <2>1, <2>2 DEF Moves, Applied, Audited, Active, ActivePhases
<1>11. \A j \in Requests : requests'[j] = requests[j] \/ requests'[j].at = "idle"
  BY Zenon, <1>1, RequestEnds
<1> QED BY <1>6, <1>7, <1>8, <1>9, <1>10, <1>11, Together

LEMMA AuditStepKeeps ==
  ASSUME RecoveryIInv, NEW k \in Requests, AuditStep(k)
  PROVE  RecoveryIInv'
<1> DEFINE q == requests[k]
           r == q.run
           f == q.seen.family
           page == NextSources(q.seen.after)
           m == q.seen.postMissing + SumOf([i \in {f} \X page |-> Shortfall(i[1], i[2])])
           x == q.seen.postExcess + SumOf([i \in {f} \X page |-> Excess(i[1], i[2])])
           last == page = {} /\ f = LastFamily
           g == FamilyAfter(page, f)
           b == SourceAfter(page)
           phase == IF ~ last THEN run[r].phase
                    ELSE IF m = 0 /\ x = 0 THEN "complete" ELSE "complete_with_quarantine"
<1>1. q.at = "audit" /\ Done(k) /\ UNCHANGED <<tables, epoch, receipt, added, disturbances, cuts>>
  BY Zenon DEF AuditStep
<1>2. Types BY DEF RecoveryIInv
<1>3. r \in Runs BY <1>1, <1>2 DEF Types
<1>4. CASE MarkPaused(r) \/ UNCHANGED run BY <1>1, <1>3, <1>4, EndsQuietly DEF tables
<1>5. CASE /\ Guarded(k, "verify_pending") /\ SameCursor(k)
           /\ run' = [run EXCEPT
                ![r].phase = phase,
                ![r].family = IF page = {} THEN @ + 1 ELSE @,
                ![r].after = IF page = {} THEN NoSource ELSE Latest(page),
                ![r].postMissing = m,
                ![r].postExcess = x]
  <2>1. /\ run[r].phase = "verify_pending" /\ run[r].expected = epoch
        /\ run[r].family = f /\ run[r].after = q.seen.after
        /\ f \in Nat /\ 1 <= f /\ f <= LastFamily
        /\ m = SumOf(Part(Shortfalls, g, b)) /\ x = SumOf(Part(Excesses, g, b))
        /\ m \in Nat /\ x \in Nat
    BY Zenon, <1>1, <1>5, AuditCounts
  <2>2. run[r] \in RunRows BY <1>2, <1>3 DEF Types
  <2>3. q.seen.after \in Sources \cup {NoSource} BY <2>1, <2>2 DEF RunRows
  <2>4. /\ g \in Cursors /\ b \in Sources \cup {NoSource}
        /\ f < g \/ (f = g /\ q.seen.after < b)
        /\ g <= LastFamily \/ last
    BY <2>1, <2>3, CursorAdvances
  <2>5. /\ phase \in {"verify_pending", "complete", "complete_with_quarantine"}
        /\ phase = "verify_pending" => ~ last
    BY Zenon, <2>1
  <2>6. run' = [run EXCEPT ![r] = AuditedRow(run[r], phase, g, b, m, x)]
    <3> HIDE DEF phase, m, x, page
    <3>1. g = IF page = {} THEN run[r].family + 1 ELSE run[r].family BY <2>1 DEF FamilyAfter
    <3>2. b = IF page = {} THEN NoSource ELSE Latest(page) BY DEF SourceAfter
    <3>3. run \in [Runs -> RunRows] BY <1>2 DEF Types
    <3> QED BY Zenon, <1>3, <1>5, <3>1, <3>2, <3>3 DEF AuditedRow
  <2> HIDE DEF m, x, g, b, phase, page, last, r
  <2>7. run[r].family < g \/ (run[r].family = g /\ run[r].after < b) BY <2>1, <2>4
  <2>8. phase = "verify_pending" => g <= LastFamily BY Zenon, <2>4, <2>5
  <2>9. /\ run[r].phase = "verify_pending" /\ run[r].expected = epoch
        /\ m \in Nat /\ x \in Nat
        /\ m = SumOf(Part(Shortfalls, g, b)) /\ x = SumOf(Part(Excesses, g, b))
    BY <2>1
  <2>10. g \in Cursors /\ b \in Sources \cup {NoSource} BY <2>4
  <2>11. phase \in {"verify_pending", "complete", "complete_with_quarantine"} BY <2>5
  <2>12. /\ Done(k) /\ UNCHANGED <<tables, epoch, receipt, added, disturbances, cuts>> BY <1>1
  <2> QED BY <1>3, <2>6, <2>7, <2>8, <2>9, <2>10, <2>11, <2>12, AuditAdvances
<1>6. \/ MarkPaused(r) \/ UNCHANGED run
      \/ /\ Guarded(k, "verify_pending") /\ SameCursor(k)
         /\ run' = [run EXCEPT
                ![r].phase = phase,
                ![r].family = IF page = {} THEN @ + 1 ELSE @,
                ![r].after = IF page = {} THEN NoSource ELSE Latest(page),
                ![r].postMissing = m,
                ![r].postExcess = x]
  BY Zenon DEF AuditStep, Latest
<1> QED BY Zenon, <1>4, <1>5, <1>6

-----------------------------------------------------------------------------
LEMMA RecoveryNextKeeps == RecoveryIInv /\ [RecoveryNext]_recoveryVars => RecoveryIInv'
<1> SUFFICES ASSUME RecoveryIInv, [RecoveryNext]_recoveryVars PROVE RecoveryIInv'
  OBVIOUS
<1>1. CASE OtherWrite BY <1>1, OtherWriteStep
<1>2. CASE \E s \in Sources : OriginalChanges(s) BY <1>2, OriginalStep
<1>3. CASE Deploy BY <1>3, DeployStep
<1>4. CASE \E r \in Runs, old \in Runs \cup {NoRun} : Start(r, old) BY <1>4, StartStep
<1>5. CASE \E r \in Runs : Backup(r) BY <1>5, BackupStep
<1>6. ASSUME NEW k \in Requests, NEW r \in Runs, NEW kind \in {"inventory", "execute", "audit"},
             Load(k, r, kind)
      PROVE  RecoveryIInv'
  BY <1>6, LoadStep
<1>7. ASSUME NEW k \in Requests, CutOff(k) PROVE RecoveryIInv' BY <1>7, CutOffStep
<1>8. ASSUME NEW k \in Requests, RecoveryStep(k) PROVE RecoveryIInv'
  <2>1. CASE InventoryStep(k) BY <2>1, InventoryStepKeeps
  <2>2. CASE Enter(k) BY <2>2, EnterKeeps
  <2>3. CASE Prepare(k) BY <2>3, PrepareKeeps
  <2>4. CASE \E c \in Cells : Restore(k, c) BY <2>4, RestoreKeeps
  <2>5. CASE Finish(k) BY <2>5, FinishKeeps
  <2>6. CASE AuditStep(k) BY <2>6, AuditStepKeeps
  <2> QED BY <1>8, <2>1, <2>2, <2>3, <2>4, <2>5, <2>6 DEF RecoveryStep
<1>9. CASE UNCHANGED recoveryVars
  <2>1. Types BY DEF RecoveryIInv
  <2>2. Types' BY <1>9, <2>1 DEF Types, recoveryVars, tables
  <2>3. \A r \in Runs : DataFenced(r) BY <1>9, <2>1, DataStay DEF recoveryVars, tables
  <2>4. \A r \in Runs : Undisturbed(r) BY <1>9 DEF Undisturbed, recoveryVars
  <2>5. requests' = requests BY <1>9 DEF recoveryVars
  <2> QED BY <2>2, <2>3, <2>4, <2>5, Together
<1> QED BY <1>1, <1>2, <1>3, <1>4, <1>5, <1>6, <1>7, <1>8, <1>9 DEF RecoveryNext

LEMMA RecoveryHolds == RecoverySpec => []RecoveryIInv
BY RecoveryBegins, RecoveryNextKeeps, PTL DEF RecoverySpec

(* However requests overlap, are cut off and are repeated, the rows of the   *)
(* recovery keep their types.                                                *)
THEOREM RecoveryTypeCorrect == RecoverySpec => []RecoveryTypeOK
<1>1. RecoveryIInv => RecoveryTypeOK
  <2> SUFFICES ASSUME RecoveryIInv PROVE RecoveryTypeOK
    OBVIOUS
  <2>1. Types BY DEF RecoveryIInv
  <2>2. run \in [Runs -> [phase: Phases, current: BOOLEAN, expected: Nat,
                         family: 1 .. LastFamily + 1, after: Sources \cup {NoSource},
                         missing: Nat, ready: Nat, quarantined: Nat, restored: Nat,
                         backup: {"none", "started", "verified"}, postMissing: Nat, postExcess: Nat]]
    BY <2>1 DEF Types, RunRows, Cursors
  <2>3. receipt \in [Runs -> [Items -> [status: {"none", "ready", "quarantined", "applied"},
                                       missing: Nat, candidates: Nat, restored: Nat]]]
    BY <2>1 DEF Types, Receipts
  <2>4. \A k \in Requests :
          /\ requests[k].at \in {"idle", "inventory", "execute", "audit", "prepare", "apply"}
          /\ requests[k].todo \subseteq Cells
    BY <2>1 DEF Types, RecoveryRequests
  <2> QED BY <2>1, <2>2, <2>3, <2>4 DEF Types, RecoveryTypeOK
<1> QED BY <1>1, RecoveryHolds, PTL

(* At most one run is active, so that a write of one run is never taken for  *)
(* its own by another: the one admitted retires every other in its batch.    *)
THEOREM RecoveryOneActive == RecoverySpec => []OneActive
<1>1. RecoveryIInv => OneActive BY DEF RecoveryIInv
<1> QED BY <1>1, RecoveryHolds, PTL

(* The counters of every run agree with its receipts and with the rows it    *)
(* inserted, whatever overlapped, was cut off or was written by others.      *)
THEOREM RecoveryAccounted == RecoverySpec => []Accounted
<1>1. RecoveryIInv => Accounted BY DEF RecoveryIInv, RunSound, AccountOf, Accounted
<1> QED BY <1>1, RecoveryHolds, PTL

-----------------------------------------------------------------------------
Completes(o) == run[o].phase = "verify_pending"
                /\ run'[o].phase \in {"complete", "complete_with_quarantine"}

LEMMA PausedIsNotComplete ==
  ASSUME RecoveryIInv, NEW o \in Runs, Completes(o)
  PROVE  \A r \in Runs : ~ MarkPaused(r)
<1>1. run \in [Runs -> RunRows] BY DEF RecoveryIInv, Types
<1>2. run'[o] # run[o] /\ run'[o].phase # "paused" BY DEF Completes
<1>3. ASSUME NEW r \in Runs, run' = [run EXCEPT ![r].phase = "paused"] PROVE FALSE
  <2>1. r # o => run'[o] = run[o] BY <1>1, <1>3
  <2>2. run'[r] = [run[r] EXCEPT !.phase = "paused"] BY <1>1, <1>3
  <2>3. run'[r].phase = "paused" BY <1>1, <2>2 DEF RunRows
  <2> QED BY <1>2, <2>1, <2>3
<1> QED BY <1>2, <1>3 DEF MarkPaused

\* Only the count audit completes a run.
LEMMA OnlyAuditCompletes ==
  ASSUME RecoveryIInv, [RecoveryNext]_recoveryVars, NEW o \in Runs, Completes(o)
  PROVE  \E k \in Requests : AuditStep(k) /\ requests[k].run = o
<1>1. Types BY DEF RecoveryIInv
<1>2. run \in [Runs -> RunRows] BY <1>1 DEF Types
<1>3. run'[o] # run[o] BY DEF Completes
<1>4. \A r \in Runs : ~ MarkPaused(r)
  BY PausedIsNotComplete
<1>5. CASE OtherWrite \/ \E s \in Sources : OriginalChanges(s)
  BY <1>3, <1>5 DEF OtherWrite, OriginalChanges
<1>6. CASE Deploy
  <2>1. run'[o] = [run[o] EXCEPT !.current = FALSE] BY <1>6 DEF Deploy
  <2>2. run'[o].phase = run[o].phase BY <1>2, <2>1 DEF RunRows
  <2> QED BY <2>2 DEF Completes
<1>7. ASSUME NEW r \in Runs, NEW old \in Runs \cup {NoRun}, Start(r, old) PROVE FALSE
  <2> DEFINE retired == {p \in Runs : Stale(p) /\ (old # NoRun => p = old)}
             paused == [p \in Runs |-> IF p \in retired THEN [run[p] EXCEPT !.phase = "paused"] ELSE run[p]]
             fresh == [NewRun EXCEPT !.phase = "inventory", !.current = TRUE, !.expected = epoch]
  <2>1. run' = [paused EXCEPT ![r] = fresh] \/ run' = paused BY <1>7 DEF Start
  <2>2. fresh.phase = "inventory" BY DEF NewRun
  <2>3. paused[o].phase = run[o].phase \/ paused[o].phase = "paused" BY <1>2 DEF RunRows
  <2>4. paused = [p \in Runs |-> paused[p]] OBVIOUS
  <2> HIDE DEF paused, fresh
  <2>5. run'[o] = fresh \/ run'[o] = paused[o] BY <2>1, <2>4
  <2> QED BY <2>2, <2>3, <2>5 DEF Completes
<1>8. ASSUME NEW r \in Runs, Backup(r) PROVE FALSE
  BY <1>2, <1>8 DEF Backup, Completes, RunRows
<1>9. ASSUME NEW k \in Requests, NEW r \in Runs, NEW kind, Load(k, r, kind) \/ CutOff(k)
      PROVE  FALSE
  BY Zenon, <1>3, <1>9 DEF Load, CutOff
<1>10. ASSUME NEW k \in Requests, InventoryStep(k) PROVE FALSE
  <2> DEFINE q == requests[k]
             r == q.run
             f == q.seen.family
             s == FirstSource(Deficient(f, q.seen.after))
             short == Shortfall(f, s)
             ready == IF Cardinality(Candidates(f, s)) <= short THEN Cardinality(Candidates(f, s)) ELSE 0
             turned == IF LastTurn(f) THEN "ready" ELSE run[r].phase
  <2>1. r \in Runs BY Zenon, <1>1, <1>10 DEF Types, InventoryStep
  <2>2. \/ MarkPaused(r) \/ run' = run
        \/ run' = [run EXCEPT ![r].family = @ + 1, ![r].after = NoSource, ![r].phase = turned]
        \/ run' = [run EXCEPT ![r].after = s, ![r].missing = @ + short,
                            ![r].ready = @ + ready, ![r].quarantined = @ + (short - ready)]
    BY Zenon, <1>10 DEF InventoryStep
  <2>3. turned \in {"ready", run[r].phase} OBVIOUS
  <2> HIDE DEF turned, ready, short, s
  <2>4. CASE run' = [run EXCEPT ![r].family = @ + 1, ![r].after = NoSource, ![r].phase = turned]
    <3>1. run'[o].phase \in {run[o].phase, turned} /\ (o # r => run'[o] = run[o])
      BY <1>2, <2>1, <2>4 DEF RunRows
    <3> QED BY <1>3, <2>3, <3>1 DEF Completes
  <2>5. CASE run' = [run EXCEPT ![r].after = s, ![r].missing = @ + short,
                            ![r].ready = @ + ready, ![r].quarantined = @ + (short - ready)]
    <3>1. run'[o].phase = run[o].phase BY <1>2, <2>1, <2>5 DEF RunRows
    <3> QED BY <3>1 DEF Completes
  <2> QED BY Zenon, <1>3, <1>4, <2>1, <2>2, <2>4, <2>5
<1>11. ASSUME NEW k \in Requests, Enter(k) PROVE FALSE
  <2>1. requests[k].run \in Runs BY <1>1, <1>11 DEF Types, Enter
  <2>2. ~ MarkPaused(requests[k].run) BY Zenon, <1>4, <2>1
  <2> QED BY <1>2, <1>11, <2>1, <2>2 DEF Enter, RunRows, Completes
<1>12. ASSUME NEW k \in Requests, Prepare(k) PROVE FALSE
  <2>1. requests[k].run \in Runs BY Zenon, <1>1, <1>12 DEF Types, Prepare
  <2>2. ~ MarkPaused(requests[k].run) BY <1>4, <2>1
  <2> DEFINE r == requests[k].run
             left == Left(requests[k].held)
  <2>3. \/ run' = run
        \/ run' = [run EXCEPT ![r].ready = @ - left, ![r].quarantined = @ + left]
    BY Zenon, <1>12, <2>2 DEF Prepare
  <2> HIDE DEF left
  <2>4. run'[o].phase = run[o].phase BY <1>2, <2>1, <2>3 DEF RunRows
  <2> QED BY <2>4 DEF Completes
<1>13. ASSUME NEW k \in Requests, NEW c \in Cells, Restore(k, c) PROVE FALSE
  <2>1. requests[k].run \in Runs BY <1>1, <1>13 DEF Types, Restore
  <2> DEFINE r == requests[k].run
  <2>2. \/ run' = run
        \/ run' = [run EXCEPT ![r].expected = @ + 1, ![r].restored = @ + 1]
    BY <1>13 DEF Restore
  <2>3. run'[o].phase = run[o].phase BY <1>2, <2>1, <2>2 DEF RunRows
  <2> QED BY <2>3 DEF Completes
<1>14. ASSUME NEW k \in Requests, Finish(k) PROVE FALSE
  <2>1. requests[k].run \in Runs BY <1>1, <1>14 DEF Types, Finish
  <2> QED BY <1>3, <1>4, <1>14, <2>1 DEF Finish
<1>15. ASSUME NEW k \in Requests, AuditStep(k) PROVE requests[k].run = o
  <2>1. requests[k].run \in Runs BY Zenon, <1>1, <1>15 DEF Types, AuditStep
  <2>2. ~ MarkPaused(requests[k].run) BY <1>4, <2>1
  <2>3. requests[k].run # o => run'[o] = run[o] BY Zenon, <1>2, <1>15, <2>1, <2>2 DEF AuditStep
  <2> QED BY Zenon, <1>3, <2>3
<1>16. CASE UNCHANGED recoveryVars BY <1>3, <1>16 DEF recoveryVars
<1> QED BY <1>5, <1>6, <1>7, <1>8, <1>9, <1>10, <1>11, <1>12, <1>13, <1>14, <1>15, <1>16
        DEF RecoveryNext, RecoveryStep

LEMMA CompletesTruly ==
  ASSUME RecoveryIInv, [RecoveryNext]_recoveryVars, NEW o \in Runs, Completes(o)
  PROVE  /\ run'[o].postMissing = SumOf(Shortfalls)
         /\ run'[o].postExcess = SumOf(Excesses)
<1>1. PICK k \in Requests : AuditStep(k) /\ requests[k].run = o BY OnlyAuditCompletes
<1> DEFINE q == requests[k]
           f == q.seen.family
           page == NextSources(q.seen.after)
           m == q.seen.postMissing + SumOf([i \in {f} \X page |-> Shortfall(i[1], i[2])])
           x == q.seen.postExcess + SumOf([i \in {f} \X page |-> Excess(i[1], i[2])])
           last == page = {} /\ f = LastFamily
           phase == IF ~ last THEN run[o].phase
                    ELSE IF m = 0 /\ x = 0 THEN "complete" ELSE "complete_with_quarantine"
<1>2. Types BY DEF RecoveryIInv
<1>3. run \in [Runs -> RunRows] BY <1>2 DEF Types
<1>4. run'[o] # run[o] /\ run[o].phase = "verify_pending" BY DEF Completes
<1>5. ~ MarkPaused(o) BY Zenon, PausedIsNotComplete
<1>6. /\ q.at = "audit" /\ Guarded(k, "verify_pending") /\ SameCursor(k)
      /\ run' = [run EXCEPT
                ![o].phase = phase,
                ![o].family = IF page = {} THEN @ + 1 ELSE @,
                ![o].after = IF page = {} THEN NoSource ELSE Latest(page),
                ![o].postMissing = m,
                ![o].postExcess = x]
  BY Zenon, <1>1, <1>4, <1>5 DEF AuditStep, Latest
<1>7. run'[o].phase = phase /\ run'[o].postMissing = m /\ run'[o].postExcess = x
  <2> DEFINE g == IF page = {} THEN run[o].family + 1 ELSE run[o].family
             b == IF page = {} THEN NoSource ELSE Latest(page)
  <2>1. run' = [run EXCEPT ![o] = [run[o] EXCEPT !.phase = phase, !.family = g, !.after = b,
                                                 !.postMissing = m, !.postExcess = x]]
    <3> HIDE DEF phase, m, x, page
    <3> QED BY <1>3, <1>6
  <2> HIDE DEF phase, m, x, page, g, b
  <2>2. run'[o] = [run[o] EXCEPT !.phase = phase, !.family = g, !.after = b,
                                 !.postMissing = m, !.postExcess = x]
    BY <1>3, <2>1
  <2>3. run[o] \in RunRows BY <1>3
  <2> QED BY <2>2, <2>3 DEF RunRows
<1>8. last BY Zenon, <1>4, <1>7 DEF Completes
<1>9. /\ m = SumOf(Part(Shortfalls, FamilyAfter(page, f), SourceAfter(page)))
      /\ x = SumOf(Part(Excesses, FamilyAfter(page, f), SourceAfter(page)))
  BY Zenon, <1>6, AuditCounts
<1>10. FamilyAfter(page, f) = LastFamily + 1 /\ SourceAfter(page) = NoSource
  BY <1>8 DEF FamilyAfter, SourceAfter
<1>11. ASSUME NEW of \in [Items -> Nat] PROVE Part(of, LastFamily + 1, NoSource) = of
  <2>1. ASSUME NEW i \in Items PROVE Passed(LastFamily + 1, NoSource, i)
    <3>1. i[1] \in Nat /\ i[1] <= LastFamily /\ LastFamily \in Nat BY ItemsKnown, ConstantsKnown
    <3> QED BY <3>1 DEF Passed
  <2> QED BY <2>1 DEF Part
<1>12. /\ Part(Shortfalls, LastFamily + 1, NoSource) = Shortfalls
       /\ Part(Excesses, LastFamily + 1, NoSource) = Excesses
  BY <1>11, CountsAreFunctions
<1> HIDE DEF m, x, page, f, last, phase
<1> QED BY <1>7, <1>9, <1>10, <1>12

(* A run that ends its count audit has counted what the tables hold at that  *)
(* moment, over however many pages and beside whatever writes of others.     *)
THEOREM RecoveryAuditTellsTruth == RecoverySpec => AuditTellsTruth
<1> DEFINE Truth == \A r \in Runs : run[r].phase = "verify_pending"
                       /\ run'[r].phase \in {"complete", "complete_with_quarantine"} =>
              /\ run'[r].postMissing = SumOf([i \in Items |-> Shortfall(i[1], i[2])])
              /\ run'[r].postExcess = SumOf([i \in Items |-> Excess(i[1], i[2])])
<1>1. RecoveryIInv /\ [RecoveryNext]_recoveryVars => Truth
  BY CompletesTruly DEF Completes, Shortfalls, Excesses
<1>2. RecoveryIInv /\ [RecoveryNext]_recoveryVars => [Truth]_recoveryVars BY <1>1
<1>3. RecoverySpec => [][Truth]_recoveryVars
  <2> HIDE DEF Truth
  <2> QED BY <1>2, RecoveryHolds, PTL DEF RecoverySpec
<1> QED BY <1>3 DEF AuditTellsTruth

(* A restoration never represents a fact twice, and its row tells what the   *)
(* nearest earlier row told: the guarded INSERT, for every overlap of runs,  *)
(* requests and writes of others.                                            *)
THEOREM RecoveryRestoresOnce == RecoverySpec => RestoresOnce
<1> DEFINE Once == added' # added => \A c \in direct' \ direct :
                      c \notin observed /\ \E p \in Predecessor(c) : Fact[p] = Fact[c]
<1>1. ASSUME RecoveryIInv, [RecoveryNext]_recoveryVars PROVE Once
  <2>1. ASSUME NEW k \in Requests, NEW c \in Cells, Restore(k, c) PROVE Once
    <3> DEFINE r == requests[k].run
    <3>1. requests[k].at = "apply" /\ c \in requests[k].todo BY <2>1 DEF Restore
    <3>2. Types /\ RequestSound(k) BY <1>1 DEF RecoveryIInv
    <3>3. r \in Runs BY <3>1, <3>2 DEF Types
    <3>4. CASE c \notin direct /\ Admits(k, c) /\ direct' = direct \cup {c}
      <4>1. c \notin observed /\ run[r].phase = "applying" /\ epoch = Reached(k)
        BY <3>4 DEF Admits
      <4>2. \E p \in Predecessor(c) : Fact[p] = Fact[c]
        BY <3>1, <3>2, <3>4, <4>1 DEF RequestSound, TodoIsProved
      <4> QED BY <3>4, <4>1, <4>2
    <3> QED BY <2>1, <3>4 DEF Restore
  <2>2. CASE ~ \E k \in Requests, c \in Cells : Restore(k, c)
    <3>1. ASSUME OtherWrite \/ Deploy \/ \E s \in Sources : OriginalChanges(s) PROVE added' = added
      BY <3>1 DEF OtherWrite, OriginalChanges, Deploy
    <3>2. ASSUME NEW r \in Runs, NEW old \in Runs \cup {NoRun}, Start(r, old) PROVE added' = added
      BY <3>2 DEF Start
    <3>3. ASSUME NEW r \in Runs, Backup(r) PROVE added' = added BY <3>3 DEF Backup
    <3>4. ASSUME NEW k \in Requests, CutOff(k) PROVE added' = added BY <3>4 DEF CutOff
    <3>5. ASSUME NEW k \in Requests, NEW r \in Runs, NEW kind, Load(k, r, kind) PROVE added' = added
      BY <3>5 DEF Load
    <3>6. ASSUME NEW k \in Requests, RecoveryStep(k) PROVE added' = added
      <4>1. CASE InventoryStep(k) BY Zenon, <4>1 DEF InventoryStep
      <4>2. CASE Enter(k) BY Zenon, <4>2 DEF Enter
      <4>3. CASE Prepare(k) BY Zenon, <4>3 DEF Prepare
      <4>4. CASE Finish(k) BY Zenon, <4>4 DEF Finish
      <4>5. CASE AuditStep(k) BY Zenon, <4>5 DEF AuditStep
      <4> QED BY Zenon, <2>2, <3>6, <4>1, <4>2, <4>3, <4>4, <4>5 DEF RecoveryStep
    <3>7. ASSUME UNCHANGED recoveryVars PROVE added' = added BY <3>7 DEF recoveryVars
    <3>8. RecoveryNext \/ UNCHANGED recoveryVars BY <1>1
    <3>9. ASSUME RecoveryNext PROVE added' = added
      BY <3>1, <3>2, <3>3, <3>4, <3>5, <3>6, <3>9 DEF RecoveryNext
    <3>10. added' = added BY <3>7, <3>8, <3>9
    <3> QED BY <3>10
  <2> QED BY <2>1, <2>2
<1>2. RecoveryIInv /\ [RecoveryNext]_recoveryVars => [Once]_recoveryVars BY <1>1
<1>3. RecoverySpec => [][Once]_recoveryVars
  <2> HIDE DEF Once
  <2> QED BY <1>2, RecoveryHolds, PTL DEF RecoverySpec
<1> QED BY <1>3 DEF RestoresOnce

(***************************************************************************)
(* Proofs about StatisticsBackfill, for any rounds, entries, lineages and     *)
(* overlapping steps.  A request that holds a lease read its row under that   *)
(* lease, so what it has in hand agrees with the row it will write to; and a  *)
(* closing market is given up on an input that counts the changes of the      *)
(* entries, so that what made it hopeless holds while the input stands.       *)
(*                                                                           *)
(* Shapes first: what a control, a row and a request are, apart from their    *)
(* times, which decide nothing here.                                         *)
(***************************************************************************)
FormInputs == Lineages \X Nat \X Nat
MarketInputs == BOOLEAN \X Nat \X Nat \X Nat

\* A decision is about the input recorded with it.
IsControl(c, inputs) ==
    c \in [status : Statuses, input : inputs \cup {None}, terminal : {None, c.input},
           retries : 0 .. MaxCount, retryAt : {c.retryAt}]

Works == {"waiting", "retryable", "manual_review", "complete", "complete_with_gaps"}

IsRow(q) ==
    /\ q \in [work : Works, next : {q.next}, token : Workers \cup {None}, live : BOOLEAN,
              audits : {q.audits}, form : {q.form}, market : {q.market}, shown : {q.shown}]
    /\ IsControl(q.form, FormInputs) /\ IsControl(q.market, MarketInputs)

AuditRows ==
    [results : {"pending", "complete", "ambiguous"}, final : BOOLEAN, active : SUBSET Entries,
     version : Nat, lineage : Lineages, closing : SUBSET Entries, formed : SUBSET Entries]

Opening == {"audit"}
Repairing == {"repair", "repaired"}
Ending == {"replay", "replayed", "persist"}

IsOpening(m) ==
    /\ m.pc \in Opening
    /\ m \in [pc : Opening, round : Rounds, age : {m.age}, old : {m.old}, oldMarket : {m.oldMarket}]
    /\ IsControl(m.old, FormInputs) /\ IsControl(m.oldMarket, MarketInputs)

IsRepairing(m) ==
    /\ m.pc \in Repairing
    /\ m \in [pc : Repairing, round : Rounds, age : {m.age}, old : {m.old},
              oldMarket : {m.oldMarket}, audit : AuditRows, mk : {m.mk}]
    /\ IsControl(m.old, FormInputs) /\ IsControl(m.oldMarket, MarketInputs)
    /\ IsControl(m.mk, MarketInputs)
    /\ m.mk.input \in MarketInputs

IsEnding(m) ==
    /\ m.pc \in Ending
    /\ m \in [pc : Ending, round : Rounds, age : {m.age}, old : {m.old}, audit : AuditRows,
              mk : {m.mk}, form : {m.form}, class : {m.class}]
    /\ IsControl(m.old, FormInputs) /\ IsControl(m.mk, MarketInputs)
    /\ IsControl(m.form, FormInputs)
    /\ m.form.input \in FormInputs
    /\ m.pc # "persist" => m.class = None

IsRequest(m) == m = Idle \/ IsOpening(m) \/ IsRepairing(m) \/ IsEnding(m)

FactsOK ==
    /\ results \in [Rounds -> {"pending", "complete", "ambiguous"}]
    /\ final \in [Rounds -> BOOLEAN] /\ version \in [Rounds -> Nat]
    /\ known \in [Rounds -> SUBSET Entries] /\ active \in [Rounds -> SUBSET Entries]
    /\ lineage \in [Rounds -> Lineages]
    /\ market \in [Rounds -> SUBSET Priced]

ShapesOK ==
    /\ FactsOK
    /\ DOMAIN row = Rounds /\ \A r \in Rounds : row[r] = NoRow \/ IsRow(row[r])
    /\ DOMAIN w = Workers
    /\ \A k \in Workers : IsRequest(w[k]) /\ (w[k].pc # "idle" => IsRow(row[w[k].round]))

(***************************************************************************)
(* The inductive invariant.                                                  *)
(***************************************************************************)
\* What the archived final game cannot close, as far as entries are stored.
Unclosable(r) == active[r] = {} \/ ~(active[r] \subseteq Priced /\ Priced \subseteq known[r])

\* A closing market is given up on an input of the past, or on one that stands
\* and that the archived game cannot close.
Justified(terminal, r) ==
    terminal # None =>
        /\ final[r] /\ terminal[4] <= version[r]
        /\ terminal[4] = version[r] => Unclosable(r)

RoundSound(r) == row[r] # NoRow => Justified(row[r].market.terminal, r)

SameDecision(c, d) == c.input = d.input /\ c.terminal = d.terminal /\ c.retries = d.retries

\* What the holder of a lease has in hand agrees with the row it read, which is
\* the row it will write to.
HolderSound(m, q) ==
    /\ SameDecision(q.form, m.old)
    /\ m.pc \in Opening \cup Repairing => SameDecision(q.market, m.oldMarket)
    /\ m.pc = "repair" => Stands(q.market, m.mk)
    /\ m.pc \in Ending => Stands(q.market, m.mk)
    /\ m.pc = "replay" =>
         /\ Stands(q.form, m.form) /\ m.form.input # q.form.terminal
         /\ m.form.input = q.form.input => m.form.retries = q.form.retries
    /\ m.pc = "persist" =>
         /\ Stands(q.form, m.form)
         /\ m.class = "other" => Counts(q.form, m.form)

StepSound(k) ==
    w[k].pc # "idle" =>
        /\ w[k].pc \in Opening \cup Repairing => Justified(w[k].oldMarket.terminal, w[k].round)
        /\ w[k].pc \in Repairing => final[w[k].round]
        /\ w[k].pc = "repair" =>
             /\ w[k].mk.status = "pending" /\ w[k].mk.input[4] <= version[w[k].round]
             /\ Justified(w[k].mk.terminal, w[k].round)
        /\ w[k].pc = "repaired" =>
             Priced \subseteq known[w[k].round] /\ Priced \subseteq market[w[k].round]
        /\ w[k].pc \in Ending => Justified(w[k].mk.terminal, w[k].round)
        /\ w[k].pc = "replay" => w[k].form.status = "pending"
        /\ Holds(k) => HolderSound(w[k], row[w[k].round])

StatisticsIInv ==
    /\ ShapesOK
    /\ \A r \in Rounds : RoundSound(r)
    /\ \A k \in Workers : StepSound(k)

(***************************************************************************)
(* Controls.                                                                 *)
(***************************************************************************)
LEMMA Bounds ==
  /\ MaxCount \in Nat /\ MaxFormRetries \in Nat \ {0} /\ MaxFormRetries <= MaxCount
  /\ Priced \subseteq Entries /\ IsFiniteSet(Entries)
  /\ First \in Lineages
BY StatisticsAssumption

LEMMA FreshIs ==
  ASSUME NEW inputs
  PROVE  IsControl(Fresh, inputs) /\ Fresh.terminal = None
BY Bounds DEF IsControl, Fresh, Statuses

\* What a control becomes under an audit is about the input audited, keeps a
\* decision on that input, and counts on when the input has not changed.
LEMMA ControlIs ==
  ASSUME NEW inputs, None \notin inputs, NEW old, IsControl(old, inputs), NEW input \in inputs,
         NEW found \in Statuses, NEW c, SameDecision(c, old)
  PROVE  /\ IsControl(Control(old, input, found), inputs)
         /\ Control(old, input, found).input = input
         /\ Control(old, input, found).terminal \in {None, old.terminal}
         /\ found # "manual_review" => Stands(c, Control(old, input, found))
         /\ Control(old, input, found).status = "pending" =>
              /\ input # c.terminal
              /\ input = c.input => Control(old, input, found).retries = c.retries
         /\ found # "pending" => Control(old, input, found).status = found
<1> DEFINE kept == IF old.input = input THEN old ELSE Fresh
           d == Control(old, input, found)
<1>1. IsControl(kept, inputs) BY FreshIs
<1>2. input # None OBVIOUS
<1>3. old.terminal \in {None, old.input} BY DEF IsControl
<1>4. Fresh = [status |-> "pending", input |-> None, terminal |-> None, retries |-> 0, retryAt |-> None]
  BY DEF Fresh
<1>5. CASE found = "pending" /\ kept.terminal = input
  <2>1. d = [kept EXCEPT !.status = "manual_review", !.retryAt = None] BY <1>5 DEF Control
  <2>2. kept = old BY <1>2, <1>4, <1>5
  <2>3. /\ d.status = "manual_review" /\ d.input = old.input /\ d.terminal = old.terminal
        /\ d.retries = old.retries
        /\ IsControl(d, inputs)
    BY <1>1, <2>1, <2>2 DEF IsControl, Statuses
  <2>4. old.input = input BY <1>2, <1>4, <1>5
  <2> QED BY <2>3, <2>4, <1>5 DEF Stands, SameDecision
<1>6. CASE found = "pending" /\ kept.terminal # input
  <2>1. d = [kept EXCEPT !.status = "pending", !.input = input] BY <1>6 DEF Control
  <2>2. d.status = "pending" /\ d.input = input /\ d.terminal = kept.terminal /\ d.retries = kept.retries
    BY <1>1, <2>1 DEF IsControl
  <2>3. kept.terminal = None
    <3>1. CASE old.input = input BY <1>3, <1>6, <3>1
    <3>2. CASE old.input # input BY <1>4, <3>2
    <3> QED BY <3>1, <3>2
  <2>4. IsControl(d, inputs) BY <1>1, <2>1, <2>3 DEF IsControl, Statuses
  <2>5. input # old.terminal BY <1>2, <1>3, <1>6
  <2>6. input = old.input => kept.retries = old.retries OBVIOUS
  <2> QED BY <2>2, <2>3, <2>4, <2>5, <2>6, <1>6 DEF Stands, SameDecision
<1>7. CASE found # "pending"
  <2>1. d = [Fresh EXCEPT !.status = found, !.input = input] BY <1>7 DEF Control
  <2>2. d.status = found /\ d.input = input /\ d.terminal = None /\ d.retries = 0
    BY <1>4, <2>1
  <2>3. d = [status |-> found, input |-> input, terminal |-> None, retries |-> 0, retryAt |-> None]
    BY <1>4, <2>1
  <2>4. IsControl(d, inputs) BY <2>3, Bounds DEF IsControl
  <2>5. found \notin {"pending", "manual_review"} => found \in {"complete", "unavailable"}
    BY DEF Statuses
  <2> QED BY <2>2, <2>4, <2>5, <1>7 DEF Stands, SameDecision
<1> QED BY <1>5, <1>6, <1>7

\* A Form decided by its lineage alone is decided for that lineage.
LEMMA FormControlIs ==
  ASSUME NEW a \in AuditRows, NEW old, IsControl(old, FormInputs), NEW c, SameDecision(c, old)
  PROVE  /\ IsControl(FormControl(old, a), FormInputs)
         /\ FormInput(a) \in FormInputs
         /\ FormControl(old, a).input = FormInput(a)
         /\ Stands(c, FormControl(old, a))
         /\ FormControl(old, a).status = "pending" =>
              /\ FormInput(a) # c.terminal
              /\ FormInput(a) = c.input => FormControl(old, a).retries = c.retries
<1> DEFINE d == Control(old, FormInput(a), FormFound(a))
<1>1. FormInput(a) \in FormInputs
  <2>1. a.lineage \in Lineages /\ a.active \in SUBSET Entries /\ a.formed \in SUBSET Entries
    BY DEF AuditRows
  <2>2. IsFiniteSet(a.active) /\ IsFiniteSet(a.formed) BY <2>1, Bounds, FS_Subset
  <2>3. Cardinality(a.active) \in Nat /\ Cardinality(a.formed) \in Nat BY <2>2, FS_CardinalityType
  <2> QED BY <2>1, <2>3 DEF FormInput, FormInputs
<1>2. None \notin FormInputs BY NoneAssumption DEF FormInputs
<1>3. FormFound(a) \in Statuses BY DEF FormFound, Statuses
<1>4. /\ IsControl(d, FormInputs) /\ d.input = FormInput(a)
      /\ d.terminal \in {None, old.terminal}
      /\ FormFound(a) # "manual_review" => Stands(c, d)
      /\ d.status = "pending" =>
              /\ FormInput(a) # c.terminal
              /\ FormInput(a) = c.input => d.retries = c.retries
      /\ FormFound(a) # "pending" => d.status = FormFound(a)
  BY <1>1, <1>2, <1>3, ControlIs
<1>5. CASE d.status \in {"unavailable", "manual_review"}
  <2>1. FormControl(old, a) = [d EXCEPT !.terminal = FormInput(a)] BY <1>5 DEF FormControl
  <2>2. /\ FormControl(old, a).terminal = FormInput(a)
        /\ FormControl(old, a).input = FormInput(a)
        /\ FormControl(old, a).status = d.status
        /\ IsControl(FormControl(old, a), FormInputs)
    BY <1>1, <1>4, <2>1 DEF IsControl
  <2> QED BY <1>1, <2>2, <1>5 DEF Stands
<1>6. CASE d.status \notin {"unavailable", "manual_review"}
  <2>1. FormControl(old, a) = d BY <1>6 DEF FormControl
  <2>2. FormFound(a) # "manual_review" BY <1>4, <1>6
  <2> QED BY <1>1, <1>4, <2>1, <2>2
<1> QED BY <1>5, <1>6

LEMMA MarketControlIs ==
  ASSUME NEW a \in AuditRows, NEW old, IsControl(old, MarketInputs), NEW c, SameDecision(c, old)
  PROVE  /\ IsControl(MarketControl(old, a), MarketInputs)
         /\ MarketInput(a) \in MarketInputs
         /\ MarketControl(old, a).input = MarketInput(a)
         /\ MarketControl(old, a).terminal \in {None, old.terminal}
         /\ Stands(c, MarketControl(old, a))
<1>1. MarketInput(a) \in MarketInputs
  <2>1. /\ a.active \in SUBSET Entries /\ a.closing \in SUBSET Entries
        /\ a.final \in BOOLEAN /\ a.version \in Nat
    BY DEF AuditRows
  <2>2. IsFiniteSet(a.active) /\ IsFiniteSet(a.closing) BY <2>1, Bounds, FS_Subset
  <2>3. Cardinality(a.active) \in Nat /\ Cardinality(a.closing) \in Nat BY <2>2, FS_CardinalityType
  <2> QED BY <2>1, <2>3 DEF MarketInput, MarketInputs
<1>2. None \notin MarketInputs BY NoneAssumption DEF MarketInputs
<1>3. MarketFound(a) \in Statuses /\ MarketFound(a) # "manual_review"
  BY DEF MarketFound, Statuses
<1> QED BY <1>1, <1>2, <1>3, ControlIs DEF MarketControl

\* Giving up decides on the input at hand; a retry counts and decides nothing.
LEMMA FailureIs ==
  ASSUME NEW inputs, NEW f, IsControl(f, inputs), f.input \in inputs
  PROVE  /\ IsControl(Terminal(f), inputs) /\ Terminal(f).input = f.input
         /\ Terminal(f).terminal = f.input /\ Terminal(f).status = "manual_review"
         /\ IsControl(Retry(f), inputs) /\ Retry(f).input = f.input
         /\ Retry(f).terminal = f.terminal /\ Retry(f).status = "pending"
         /\ Retry(f).retries = OneMore(f.retries)
<1>1. OneMore(f.retries) \in 0 .. MaxCount
  BY Bounds DEF IsControl, OneMore, Smaller
<1>2. /\ IsControl(Terminal(f), inputs) /\ Terminal(f).input = f.input
      /\ Terminal(f).terminal = f.input /\ Terminal(f).status = "manual_review"
  <2>1. 0 \in 0 .. MaxCount BY Bounds
  <2>2. Terminal(f) \in [status : {"manual_review"}, input : {f.input}, terminal : {f.input},
                         retries : {0}, retryAt : {None}]
    BY DEF IsControl, Terminal
  <2>3. /\ Terminal(f).status = "manual_review" /\ Terminal(f).input = f.input
        /\ Terminal(f).terminal = f.input /\ Terminal(f).retryAt = None
    BY <2>2
  <2> QED BY <2>1, <2>2, <2>3 DEF IsControl, Statuses
<1>3. /\ Retry(f).status = "pending" /\ Retry(f).input = f.input
      /\ Retry(f).terminal = f.terminal /\ Retry(f).retries = OneMore(f.retries)
      /\ IsControl(Retry(f), inputs)
  BY <1>1 DEF IsControl, Retry, Statuses
<1> QED BY <1>2, <1>3

LEMMA FailFormIs ==
  ASSUME NEW f, IsControl(f, FormInputs), f.input \in FormInputs,
         NEW class \in {"transient", "other"}
  PROVE  /\ FailForm(f, class) \in {Terminal(f), Retry(f)}
         /\ class = "other" => \/ FailForm(f, class) = Terminal(f)
                               \/ FailForm(f, class).retries > f.retries
<1>1. FailForm(f, class) \in {Terminal(f), Retry(f)} BY DEF FailForm
<1>2. ASSUME class = "other", FailForm(f, class) # Terminal(f)
      PROVE  FailForm(f, class).retries > f.retries
  <2>1. ~(f.retries + 1 >= MaxFormRetries) /\ FailForm(f, class) = Retry(f)
    BY <1>2 DEF FailForm
  <2>2. f.retries \in Nat BY Bounds DEF IsControl
  <2>3. OneMore(f.retries) = f.retries + 1 BY <2>1, <2>2, Bounds DEF OneMore, Smaller
  <2> QED BY <2>1, <2>2, <2>3, FailureIs
<1> QED BY <1>1, <1>2

\* The times of a control decide nothing.
LEMMA TimesDecideNothing ==
  ASSUME NEW inputs, NEW c, IsControl(c, inputs), NEW age
  PROVE  /\ IsControl(ToRow(c, age), inputs) /\ SameDecision(ToRow(c, age), c)
         /\ ToRow(c, age).status = c.status
         /\ IsControl(NearerControl(c), inputs) /\ SameDecision(NearerControl(c), c)
         /\ NearerControl(c).status = c.status
BY DEF IsControl, ToRow, NearerControl, SameDecision

(***************************************************************************)
(* Shapes.                                                                   *)
(***************************************************************************)
LEMMA AuditIs ==
  ASSUME FactsOK, NEW r \in Rounds
  PROVE  /\ Audit(r) \in AuditRows
         /\ Audit(r).final = final[r] /\ Audit(r).version = version[r]
         /\ Audit(r).active = active[r]
         /\ Audit(r).closing = IF final[r] THEN market[r] \cap active[r] ELSE {}
<1>1. {e \in active[r] : <<lineage[r].ref, e>> \in snapshots[r]} \in SUBSET Entries
  BY DEF FactsOK
<1>2. /\ results[r] \in {"pending", "complete", "ambiguous"} /\ final[r] \in BOOLEAN
      /\ active[r] \in SUBSET Entries /\ version[r] \in Nat /\ lineage[r] \in Lineages
  BY DEF FactsOK
<1>3. (IF final[r] THEN market[r] \cap active[r] ELSE {}) \in SUBSET Entries
  BY <1>2
<1> QED BY <1>1, <1>2, <1>3 DEF Audit, AuditRows

LEMMA ProceedIs ==
  ASSUME NEW m, m.round \in Rounds, IsControl(m.old, FormInputs), NEW a \in AuditRows,
         NEW mk, IsControl(mk, MarketInputs)
  PROVE  /\ IsEnding(Proceed(m, a, mk))
         /\ Proceed(m, a, mk).pc \in {"replay", "persist"}
         /\ Proceed(m, a, mk).round = m.round /\ Proceed(m, a, mk).old = m.old
         /\ Proceed(m, a, mk).mk = mk /\ Proceed(m, a, mk).class = None
         /\ Proceed(m, a, mk).form = FormControl(m.old, a)
         /\ Proceed(m, a, mk).pc = "replay" => FormControl(m.old, a).status = "pending"
<1> DEFINE f == FormControl(m.old, a)
           p == Proceed(m, a, mk)
           next == IF FormFound(a) = "pending" /\ f.status = "pending" /\ ~ Blocked(f)
                   THEN "replay" ELSE "persist"
<1>1. IsControl(f, FormInputs) /\ f.input \in FormInputs
  BY FormControlIs DEF SameDecision
<1>2. p = [pc |-> next, round |-> m.round, age |-> m.age, old |-> m.old,
           audit |-> a, mk |-> mk, form |-> f, class |-> None]
  BY DEF Proceed
<1>3. next \in {"replay", "persist"} /\ (next = "replay" => f.status = "pending") OBVIOUS
<1> HIDE DEF f, next, p
<1>4. /\ p.pc = next /\ p.round = m.round /\ p.age = m.age /\ p.old = m.old
      /\ p.audit = a /\ p.mk = mk /\ p.form = f /\ p.class = None
  BY <1>2
<1>5. p \in [pc : Ending, round : Rounds, age : {p.age}, old : {p.old}, audit : AuditRows,
             mk : {p.mk}, form : {p.form}, class : {p.class}]
  BY <1>2, <1>3, <1>4 DEF Ending
<1>6. IsEnding(p) BY <1>1, <1>3, <1>4, <1>5 DEF IsEnding, Ending
<1> QED BY <1>3, <1>4, <1>6 DEF f, p

LEMMA RowIs == \A q : IsRow(q) => q # NoRow
<1> SUFFICES ASSUME NEW q, IsRow(q), q = NoRow PROVE FALSE
  OBVIOUS
<1>1. q.work \in Works BY DEF IsRow
<1>2. q.work = "none" BY DEF NoRow
<1> QED BY <1>1, <1>2 DEF Works

LEMMA QueuedIs ==
  ASSUME ShapesOK, NEW r \in Rounds
  PROVE  /\ IsRow(Queued[r]) /\ DOMAIN Queued = Rounds
         /\ row[r] = NoRow => Queued[r] = NewRow
         /\ row[r] # NoRow => Queued[r] = row[r]
         /\ NewRow.token = None /\ NewRow.market.terminal = None
<1>1. IsRow(NewRow)
  <2>1. NewRow = [work |-> "waiting", next |-> 0, token |-> None, live |-> FALSE, audits |-> 0,
                  form |-> Fresh, market |-> Fresh, shown |-> None]
    BY DEF NewRow
  <2>2. NewRow.form = Fresh /\ NewRow.market = Fresh BY <2>1
  <2> QED BY <2>1, <2>2, FreshIs DEF IsRow, Works
<1>2. Queued = [i \in Rounds |-> IF row[i] = NoRow THEN NewRow ELSE row[i]] BY DEF Queued
<1>3. Queued[r] = IF row[r] = NoRow THEN NewRow ELSE row[r] BY <1>2
<1>4. row[r] = NoRow \/ IsRow(row[r]) BY DEF ShapesOK
<1>5. NewRow.token = None /\ NewRow.market.terminal = None BY DEF NewRow, Fresh
<1> QED BY <1>1, <1>2, <1>3, <1>4, <1>5

LEMMA RequestIs ==
  ASSUME ShapesOK, NEW k \in Workers
  PROVE  /\ w[k].pc = "idle" \/ (w[k].round \in Rounds /\ IsRow(row[w[k].round])
                                 /\ IsControl(w[k].old, FormInputs))
         /\ w[k].pc \in {"idle"} \cup Opening \cup Repairing \cup Ending
         /\ w[k].pc = "idle" => w[k] = Idle
         /\ w[k].pc \in Opening => IsOpening(w[k])
         /\ w[k].pc \in Repairing => IsRepairing(w[k])
         /\ w[k].pc \in Ending => IsEnding(w[k])
         /\ Idle.pc = "idle"
<1>1. IsRequest(w[k]) /\ (w[k].pc # "idle" => IsRow(row[w[k].round])) BY DEF ShapesOK
<1>2. Idle.pc = "idle" BY DEF Idle
<1>3. CASE w[k] = Idle BY <1>1, <1>2, <1>3 DEF Opening, Repairing, Ending
<1>4. CASE IsOpening(w[k]) BY <1>1, <1>2, <1>4 DEF IsOpening, Opening, Repairing, Ending
<1>5. CASE IsRepairing(w[k]) BY <1>1, <1>2, <1>5 DEF IsRepairing, Opening, Repairing, Ending
<1>6. CASE IsEnding(w[k]) BY <1>1, <1>2, <1>6 DEF IsEnding, Opening, Repairing, Ending
<1> QED BY <1>1, <1>3, <1>4, <1>5, <1>6 DEF IsRequest

\* A step of one request.
LEMMA ShapesAfter ==
  ASSUME ShapesOK, FactsOK', NEW k \in Workers, NEW x, w' = [w EXCEPT ![k] = x],
         IsRequest(x), x.pc = "idle" \/ (x.round = w[k].round /\ w[k].pc # "idle"),
         DOMAIN row' = Rounds,
         \A r \in Rounds : row'[r] = row[r] \/ IsRow(row'[r])
  PROVE  ShapesOK'
<1>1. DOMAIN w' = Workers /\ w'[k] = x /\ \A q \in Workers : q # k => w'[q] = w[q]
  BY DEF ShapesOK
<1>2. \A r \in Rounds : IsRow(row[r]) => IsRow(row'[r]) OBVIOUS
<1>3. \A r \in Rounds : row'[r] = NoRow \/ IsRow(row'[r]) BY DEF ShapesOK
<1>4. ASSUME NEW q \in Workers
      PROVE  IsRequest(w'[q]) /\ (w'[q].pc # "idle" => IsRow(row'[w'[q].round]))
  <2>1. CASE q = k
    <3>1. x.pc # "idle" => w[k].round \in Rounds /\ IsRow(row[w[k].round]) BY RequestIs
    <3> QED BY <1>1, <1>2, <2>1, <3>1
  <2>2. CASE q # k
    <3>1. w'[q] = w[q] BY <1>1, <2>2
    <3>2. w[q].pc # "idle" => w[q].round \in Rounds /\ IsRow(row[w[q].round]) BY RequestIs
    <3>3. IsRequest(w[q]) BY DEF ShapesOK
    <3> QED BY <1>2, <3>1, <3>2, <3>3
  <2> QED BY <2>1, <2>2
<1> QED BY <1>1, <1>3, <1>4 DEF ShapesOK, IsRow, IsRequest, IsControl, IsOpening, IsRepairing, IsEnding

\* What a request records.
LEMMA RecordedIs ==
  ASSUME NEW k \in Workers, IsEnding(w[k])
  PROVE  /\ IsRow(Recorded(k)) /\ Recorded(k).token = None
         /\ Recorded(k).form = ToRow(w[k].form, w[k].age)
         /\ Recorded(k).market = ToRow(w[k].mk, w[k].age)
<1> DEFINE q == Recorded(k)
           work == WorkState(w[k].audit, w[k].form, w[k].mk)
           next == Since(NextCheck(w[k].audit, w[k].form, w[k].mk), w[k].age)
           form == ToRow(w[k].form, w[k].age)
           mk == ToRow(w[k].mk, w[k].age)
           shown == ShownBy(w[k].audit)
<1>1. IsControl(form, FormInputs) /\ IsControl(mk, MarketInputs)
  BY TimesDecideNothing DEF IsEnding
<1>2. q = [work |-> work, next |-> next, token |-> None, live |-> FALSE, audits |-> 0,
           form |-> form, market |-> mk, shown |-> shown]
  BY DEF Recorded
<1>0. work \in Works BY DEF WorkState, Works
<1> HIDE DEF q, work, next, form, mk, shown
<1>3. /\ q.work = work /\ q.next = next /\ q.token = None /\ q.live = FALSE /\ q.audits = 0
      /\ q.form = form /\ q.market = mk /\ q.shown = shown
  BY <1>2
<1>4. IsRow(q) BY <1>0, <1>1, <1>2, <1>3 DEF IsRow
<1> QED BY <1>3, <1>4 DEF q, form, mk

\* A row one tick later.
LEMMA PassedRowIs ==
  ASSUME NEW q, IsRow(q)
  PROVE  LET p == [q EXCEPT !.next = Since(@, 1), !.live = FALSE,
                            !.form = NearerControl(@), !.market = NearerControl(@)]
         IN  /\ IsRow(p) /\ p.token = q.token
             /\ SameDecision(p.form, q.form) /\ SameDecision(p.market, q.market)
             /\ p.form.status = q.form.status /\ p.market.status = q.market.status
<1> DEFINE next == Since(q.next, 1)
           form == NearerControl(q.form)
           mk == NearerControl(q.market)
           p == [q EXCEPT !.next = next, !.live = FALSE, !.form = form, !.market = mk]
<1>1. /\ IsControl(form, FormInputs) /\ IsControl(mk, MarketInputs)
      /\ SameDecision(form, q.form) /\ SameDecision(mk, q.market)
      /\ form.status = q.form.status /\ mk.status = q.market.status
  BY TimesDecideNothing DEF IsRow
<1> HIDE DEF next, form, mk
<1>2. q \in [work : Works, next : {q.next}, token : Workers \cup {None}, live : BOOLEAN,
             audits : {q.audits}, form : {q.form}, market : {q.market}, shown : {q.shown}]
  BY DEF IsRow
<1>3. p \in [work : {q.work}, next : {next}, token : {q.token}, live : {FALSE},
             audits : {q.audits}, form : {form}, market : {mk}, shown : {q.shown}]
  BY <1>2
<1>4. q.token \in Workers \cup {None} /\ q.work \in Works BY <1>2
<1> HIDE DEF p
<1>5. /\ p.work = q.work /\ p.next = next /\ p.token = q.token /\ p.live = FALSE
      /\ p.audits = q.audits /\ p.form = form /\ p.market = mk /\ p.shown = q.shown
  BY <1>3
<1>6. IsRow(p) BY <1>1, <1>3, <1>4, <1>5 DEF IsRow
<1> QED BY <1>1, <1>5, <1>6 DEF p, next, form, mk

\* A request one tick later.
KeptRequest(m, n) ==
    /\ n.pc = m.pc
    /\ m.pc # "idle" => n.round = m.round /\ n.old = m.old
    /\ m.pc \in Opening \cup Repairing => n.oldMarket = m.oldMarket
    /\ m.pc \in Repairing \cup Ending => n.mk = m.mk
    /\ m.pc \in Ending => n.form = m.form /\ n.class = m.class

LEMMA OlderIs ==
  ASSUME ShapesOK, PassTime, NEW k \in Workers
  PROVE  IsRequest(w'[k]) /\ KeptRequest(w[k], w'[k])
<1>1. w'[k] = IF w[k] = Idle THEN Idle ELSE [w[k] EXCEPT !.age = @ + 1] BY DEF PassTime
<1>2. CASE w[k] = Idle
  BY <1>1, <1>2 DEF IsRequest, KeptRequest, Idle, Opening, Repairing, Ending
<1>3. CASE w[k] # Idle
  <2>1. w'[k] = [w[k] EXCEPT !.age = w[k].age + 1] BY <1>1, <1>3
  <2>2. CASE IsOpening(w[k])
    BY <2>1, <2>2 DEF IsRequest, IsOpening, KeptRequest, Opening, Repairing, Ending
  <2>3. CASE IsRepairing(w[k])
    BY <2>1, <2>3 DEF IsRequest, IsRepairing, KeptRequest, Opening, Repairing, Ending
  <2>4. CASE IsEnding(w[k])
    BY <2>1, <2>4 DEF IsRequest, IsEnding, KeptRequest, Opening, Repairing, Ending
  <2>5. IsRequest(w[k]) BY DEF ShapesOK
  <2> QED BY <1>3, <2>2, <2>3, <2>4, <2>5 DEF IsRequest
<1> QED BY <1>2, <1>3

\* A request that ends.
LEMMA ShapesAtRest ==
  ASSUME ShapesOK, FactsOK', NEW k \in Workers, w' = [w EXCEPT ![k] = Idle],
         DOMAIN row' = Rounds,
         \A r \in Rounds : row'[r] = row[r] \/ IsRow(row'[r])
  PROVE  ShapesOK'
<1>1. PICK x : x = Idle OBVIOUS
<1>2. IsRequest(x) /\ x.pc = "idle" BY <1>1 DEF IsRequest, Idle
<1>3. w' = [w EXCEPT ![k] = x] BY <1>1
<1> QED BY <1>2, <1>3, ShapesAfter

\* A step whose audit or last write fails leaves the decisions of the row.
LEMMA FailedAuditIs ==
  ASSUME ShapesOK, NEW k \in Workers, FailAudit(k), IsRow(row[w[k].round]), w[k].round \in Rounds
  PROVE  \/ row' = row
         \/ /\ Holds(k) /\ DOMAIN row' = Rounds
            /\ \A r \in Rounds : r # w[k].round => row'[r] = row[r]
            /\ IsRow(row'[w[k].round]) /\ row'[w[k].round].token = None
            /\ row'[w[k].round].form = row[w[k].round].form
            /\ row'[w[k].round].market = row[w[k].round].market
<1> DEFINE r == w[k].round
           n == OneMore(row[r].audits)
           Ends(ineligible) == ineligible \/ n >= MaxAuditRetries
           work(ineligible) == IF Ends(ineligible) THEN "manual_review" ELSE "retryable"
           next(ineligible) == Since(IF Ends(ineligible) THEN Reaudit ELSE RetryDelay(n), w[k].age)
           New(a, b, c) == [row EXCEPT ![r].work = a, ![r].audits = b, ![r].next = c,
                                       ![r].token = None, ![r].live = FALSE]
           NewRowOf(a, b, c) == [row[r] EXCEPT !.work = a, !.audits = b, !.next = c,
                                               !.token = None, !.live = FALSE]
<1>1. PICK ineligible \in BOOLEAN :
         row' = IF ~ Holds(k) THEN row ELSE New(work(ineligible), n, next(ineligible))
  BY DEF FailAudit
<1>2. CASE ~ Holds(k) BY <1>1, <1>2
<1>3. CASE Holds(k)
  <2>1. row' = New(work(ineligible), n, next(ineligible)) BY <1>1, <1>3
  <2>0. work(ineligible) \in Works BY DEF Works
  <2> HIDE DEF n, work, next
  <2>2. PICK a, b, c : a \in Works /\ row' = New(a, b, c) BY <2>0, <2>1
  <2>3. DOMAIN row = Rounds BY DEF ShapesOK
  <2>4. /\ row'[r] = NewRowOf(a, b, c) /\ DOMAIN row' = Rounds
        /\ \A i \in Rounds : i # r => row'[i] = row[i]
    BY <2>2, <2>3
  <2>5. row[r] \in [work : Works, next : {row[r].next}, token : Workers \cup {None},
                    live : BOOLEAN, audits : {row[r].audits}, form : {row[r].form},
                    market : {row[r].market}, shown : {row[r].shown}]
        /\ IsControl(row[r].form, FormInputs) /\ IsControl(row[r].market, MarketInputs)
    BY DEF IsRow
  <2> DEFINE q == NewRowOf(a, b, c)
  <2>6. q \in [work : {a}, next : {c}, token : {None}, live : {FALSE}, audits : {b},
               form : {row[r].form}, market : {row[r].market}, shown : {row[r].shown}]
    BY <2>5
  <2> HIDE DEF NewRowOf, q
  <2>7. /\ q.work = a /\ q.next = c /\ q.token = None /\ q.live = FALSE /\ q.audits = b
        /\ q.form = row[r].form /\ q.market = row[r].market /\ q.shown = row[r].shown
    BY <2>6
  <2>8. IsRow(q) BY <2>2, <2>5, <2>6, <2>7 DEF IsRow
  <2> QED BY <1>3, <2>4, <2>7, <2>8 DEF q
<1> QED BY <1>2, <1>3

LEMMA ShapesKept == ShapesOK /\ [Next]_vars => ShapesOK'
<1> SUFFICES ASSUME ShapesOK, [Next]_vars PROVE ShapesOK'
  OBVIOUS
<1>f. FactsOK BY DEF ShapesOK
<1>0. DOMAIN row = Rounds /\ DOMAIN w = Workers BY DEF ShapesOK
<1>1. ASSUME NEW k \in Workers, NEW r \in Rounds, Begin(k, r) PROVE ShapesOK'
  <2>1. FactsOK' BY <1>1, <1>f DEF Begin, FactsOK, facts
  <2>2. row' = [Queued EXCEPT ![r].token = k, ![r].live = TRUE] BY <1>1 DEF Begin
  <2>3. DOMAIN row' = Rounds /\ \A i \in Rounds : i # r => row'[i] = Queued[i]
    BY <2>2, QueuedIs
  <2>4. row'[r] = [Queued[r] EXCEPT !.token = k, !.live = TRUE] BY <2>2, QueuedIs
  <2>5. IsRow(Queued[r]) BY QueuedIs
  <2>6. IsRow(row'[r]) BY <2>4, <2>5 DEF IsRow
  <2>7. \A i \in Rounds : IsRow(row'[i])
    BY <2>3, <2>6, QueuedIs
  <2> DEFINE x == [pc |-> "audit", round |-> r, age |-> 0,
                   old |-> Queued[r].form, oldMarket |-> Queued[r].market]
  <2>8. w' = [w EXCEPT ![k] = x] BY <1>1 DEF Begin
  <2>9. IsRequest(x) /\ x.round = r
    BY <2>5 DEF IsRow, IsRequest, IsOpening, Opening
  <2> HIDE DEF x
  <2>10. DOMAIN w' = Workers /\ w'[k] = x /\ \A q \in Workers : q # k => w'[q] = w[q]
    BY <1>0, <2>8
  <2>11. \A q \in Workers : IsRequest(w'[q]) /\ (w'[q].pc # "idle" => w'[q].round \in Rounds)
    BY <2>9, <2>10, RequestIs DEF ShapesOK
  <2> QED BY <2>1, <2>3, <2>7, <2>10, <2>11
    DEF ShapesOK, IsRow, IsRequest, IsControl, IsOpening, IsRepairing, IsEnding
<1>2. ASSUME NEW k \in Workers, FirstAudit(k) PROVE ShapesOK'
  <2> DEFINE a == Audit(w[k].round)
             mk == MarketControl(w[k].oldMarket, a)
             y == [pc |-> "repair", round |-> w[k].round, age |-> w[k].age, old |-> w[k].old,
                   oldMarket |-> w[k].oldMarket, audit |-> a, mk |-> mk]
             p == Proceed(w[k], a, mk)
  <2>1. FactsOK' /\ row' = row BY <1>2, <1>f DEF FirstAudit, FactsOK, facts
  <2>2. IsOpening(w[k]) /\ w[k].round \in Rounds /\ w[k].pc # "idle"
    BY <1>2, RequestIs DEF FirstAudit, Opening
  <2>3. a \in AuditRows BY <1>f, <2>2, AuditIs
  <2>4. IsControl(w[k].old, FormInputs) /\ IsControl(w[k].oldMarket, MarketInputs)
    BY <2>2 DEF IsOpening
  <2>5. IsControl(mk, MarketInputs) /\ mk.input \in MarketInputs
    BY <2>3, <2>4, MarketControlIs DEF SameDecision
  <2>6. w' = [w EXCEPT ![k] = y] \/ w' = [w EXCEPT ![k] = p] BY <1>2 DEF FirstAudit
  <2>7. IsRequest(y) /\ y.round = w[k].round
    BY <2>2, <2>3, <2>4, <2>5 DEF IsRequest, IsRepairing, Repairing
  <2>8. IsRequest(p) /\ p.round = w[k].round
    BY <2>2, <2>3, <2>4, <2>5, ProceedIs DEF IsRequest
  <2> HIDE DEF y, p
  <2>9. CASE w' = [w EXCEPT ![k] = y] BY <1>0, <2>1, <2>2, <2>7, <2>9, ShapesAfter
  <2>10. CASE w' = [w EXCEPT ![k] = p] BY <1>0, <2>1, <2>2, <2>8, <2>10, ShapesAfter
  <2> QED BY <2>6, <2>9, <2>10
<1>3. ASSUME NEW k \in Workers, RepairMarket(k) PROVE ShapesOK'
  <2> DEFINE r == w[k].round
             m == w[k]
             y == Proceed(m, m.audit, Retry(m.mk))
             z == Proceed(m, m.audit, Terminal(m.mk))
             v == [m EXCEPT !.pc = "repaired"]
  <2>1. IsRepairing(m) /\ r \in Rounds /\ m.pc # "idle"
    BY <1>3, RequestIs DEF RepairMarket, Repairing
  <2>2. row' = row /\ \E S \in SUBSET ((Priced \cap known[r]) \ market[r]) :
                          market' = [market EXCEPT ![r] = @ \cup S]
    BY <1>3 DEF RepairMarket
  <2>3. FactsOK' BY <1>3, <1>f, <2>1, <2>2 DEF RepairMarket, FactsOK, facts
  <2>4. m.audit \in AuditRows /\ IsControl(m.old, FormInputs) /\ IsControl(m.mk, MarketInputs)
        /\ m.mk.input \in MarketInputs
    BY <2>1 DEF IsRepairing
  <2>5. IsControl(Retry(m.mk), MarketInputs) /\ IsControl(Terminal(m.mk), MarketInputs)
    BY <2>4, FailureIs
  <2>6. IsRequest(y) /\ y.round = r BY <2>1, <2>4, <2>5, ProceedIs DEF IsRequest
  <2>7. IsRequest(z) /\ z.round = r BY <2>1, <2>4, <2>5, ProceedIs DEF IsRequest
  <2>8. IsRequest(v) /\ v.round = r BY <2>1 DEF IsRequest, IsRepairing, Repairing
  <2>9. w' \in {[w EXCEPT ![k] = y], [w EXCEPT ![k] = z], [w EXCEPT ![k] = v]}
    BY <1>3 DEF RepairMarket
  <2> HIDE DEF y, z, v
  <2>10. CASE w' = [w EXCEPT ![k] = y] BY <1>0, <2>1, <2>2, <2>3, <2>6, <2>10, ShapesAfter
  <2>11. CASE w' = [w EXCEPT ![k] = z] BY <1>0, <2>1, <2>2, <2>3, <2>7, <2>11, ShapesAfter
  <2>12. CASE w' = [w EXCEPT ![k] = v] BY <1>0, <2>1, <2>2, <2>3, <2>8, <2>12, ShapesAfter
  <2> QED BY <2>9, <2>10, <2>11, <2>12
<1>4. ASSUME NEW k \in Workers, AfterRepair(k) PROVE ShapesOK'
  <2> DEFINE m == w[k]
             a == Audit(m.round)
             mk == MarketControl(m.oldMarket, a)
             c == IF MarketFound(a) = "complete" THEN mk ELSE Terminal(mk)
             p == Proceed(m, a, c)
  <2>1. FactsOK' /\ row' = row BY <1>4, <1>f DEF AfterRepair, FactsOK, facts
  <2>2. IsRepairing(m) /\ m.round \in Rounds /\ m.pc # "idle"
    BY <1>4, RequestIs DEF AfterRepair, Repairing
  <2>3. a \in AuditRows BY <1>f, <2>2, AuditIs
  <2>4. IsControl(m.old, FormInputs) /\ IsControl(m.oldMarket, MarketInputs)
    BY <2>2 DEF IsRepairing
  <2>5. IsControl(mk, MarketInputs) /\ mk.input \in MarketInputs
    BY <2>3, <2>4, MarketControlIs DEF SameDecision
  <2>6. IsControl(c, MarketInputs) BY <2>5, FailureIs
  <2>7. IsRequest(p) /\ p.round = m.round BY <2>2, <2>3, <2>4, <2>6, ProceedIs DEF IsRequest
  <2>8. w' = [w EXCEPT ![k] = p] BY <1>4 DEF AfterRepair
  <2> HIDE DEF p
  <2> QED BY <1>0, <2>1, <2>2, <2>7, <2>8, ShapesAfter
<1>5. ASSUME NEW k \in Workers, ReplayForm(k) PROVE ShapesOK'
  <2> DEFINE m == w[k]
             F(class, f) == [m EXCEPT !.pc = "persist", !.class = class, !.form = f]
             v == [m EXCEPT !.pc = "replayed"]
  <2>1. FactsOK' /\ row' = row BY <1>5, <1>f DEF ReplayForm, FactsOK, facts
  <2>2. IsEnding(m) /\ m.round \in Rounds /\ m.pc # "idle"
    BY <1>5, RequestIs DEF ReplayForm, Ending
  <2>3. IsControl(m.form, FormInputs) /\ m.form.input \in FormInputs BY <2>2 DEF IsEnding
  <2>4. \/ \E class \in {"transient", "other"} :
              w' = [w EXCEPT ![k].pc = "persist", ![k].class = class, ![k].form = FailForm(m.form, class)]
        \/ w' = [w EXCEPT ![k].pc = "persist", ![k].class = "terminal", ![k].form = Terminal(m.form)]
        \/ w' = [w EXCEPT ![k].pc = "replayed"]
    BY <1>5 DEF ReplayForm
  <2>5. \A class, f : IsControl(f, FormInputs) /\ f.input \in FormInputs =>
          IsRequest(F(class, f)) /\ F(class, f).round = m.round
    BY <2>2 DEF IsRequest, IsEnding, Ending
  <2>6. IsRequest(v) /\ v.round = m.round
    <3>1. m.pc = "replay" BY <1>5 DEF ReplayForm
    <3>2. m.class = None BY <2>2, <3>1 DEF IsEnding
    <3>3. v \in [pc : Ending, round : Rounds, age : {m.age}, old : {m.old}, audit : AuditRows,
                 mk : {m.mk}, form : {m.form}, class : {m.class}]
      BY <2>2 DEF IsEnding, Ending
    <3>4. /\ v.pc = "replayed" /\ v.round = m.round /\ v.age = m.age /\ v.old = m.old
          /\ v.audit = m.audit /\ v.mk = m.mk /\ v.form = m.form /\ v.class = m.class
      BY <2>2 DEF IsEnding
    <3> HIDE DEF v
    <3> QED BY <2>2, <3>2, <3>3, <3>4 DEF IsRequest, IsEnding, Ending
  <2>7. IsControl(Terminal(m.form), FormInputs) /\ Terminal(m.form).input \in FormInputs
    BY <2>3, FailureIs
  <2>8. \A class \in {"transient", "other"} :
          IsControl(FailForm(m.form, class), FormInputs) /\ FailForm(m.form, class).input \in FormInputs
    BY <2>3, FailureIs, FailFormIs
  <2>9. \/ \E class \in {"transient", "other"} : w' = [w EXCEPT ![k] = F(class, FailForm(m.form, class))]
        \/ w' = [w EXCEPT ![k] = F("terminal", Terminal(m.form))]
        \/ w' = [w EXCEPT ![k] = v]
    BY <2>4
  <2> HIDE DEF F, v
  <2>10. PICK x : w' = [w EXCEPT ![k] = x] /\ IsRequest(x) /\ x.round = m.round
    BY <2>5, <2>6, <2>7, <2>8, <2>9
  <2> QED BY <1>0, <2>1, <2>2, <2>10, ShapesAfter
<1>6. ASSUME NEW k \in Workers, AfterReplay(k) PROVE ShapesOK'
  <2> DEFINE m == w[k]
             a == Audit(m.round)
             f == FormControl(m.old, a)
             x == [m EXCEPT !.pc = "persist", !.audit = a, !.form = f]
  <2>1. FactsOK' /\ row' = row BY <1>6, <1>f DEF AfterReplay, FactsOK, facts
  <2>2. IsEnding(m) /\ m.round \in Rounds /\ m.pc # "idle"
    BY <1>6, RequestIs DEF AfterReplay, Ending
  <2>3. a \in AuditRows BY <1>f, <2>2, AuditIs
  <2>4. IsControl(f, FormInputs) /\ f.input \in FormInputs
    BY <2>2, <2>3, FormControlIs DEF IsEnding, SameDecision
  <2>5. w' = [w EXCEPT ![k] = x] BY <1>6 DEF AfterReplay
  <2> HIDE DEF a, f
  <2>6. IsRequest(x) /\ x.round = m.round BY <2>2, <2>3, <2>4 DEF IsRequest, IsEnding, Ending
  <2> HIDE DEF x
  <2> QED BY <1>0, <2>1, <2>2, <2>5, <2>6, ShapesAfter
<1>7. ASSUME NEW k \in Workers, Persist(k) PROVE ShapesOK'
  <2> DEFINE m == w[k]
  <2>1. FactsOK' BY <1>7, <1>f DEF Persist, FactsOK, facts
  <2>2. IsEnding(m) /\ m.round \in Rounds /\ m.pc # "idle"
    BY <1>7, RequestIs DEF Persist, Ending
  <2>3. IsRow(Recorded(k)) BY <2>2, RecordedIs
  <2>4. w' = [w EXCEPT ![k] = Idle] /\ IsRequest(Idle) /\ Idle.pc = "idle"
    BY <1>7 DEF Persist, IsRequest, Idle
  <2>5. row' = row \/ row' = [row EXCEPT ![m.round] = Recorded(k)] BY <1>7 DEF Persist
  <2>6. DOMAIN row' = Rounds /\ \A r \in Rounds : row'[r] = row[r] \/ IsRow(row'[r])
    BY <1>0, <2>3, <2>5
  <2> QED BY <2>1, <2>4, <2>6, ShapesAtRest
<1>8. ASSUME NEW k \in Workers, FailAudit(k) PROVE ShapesOK'
  <2> DEFINE r == w[k].round
  <2>1. FactsOK' BY <1>8, <1>f DEF FailAudit, FactsOK, facts
  <2>2. r \in Rounds /\ w[k].pc # "idle" /\ IsRow(row[r])
    BY <1>8, RequestIs DEF FailAudit
  <2>4. w' = [w EXCEPT ![k] = Idle] /\ IsRequest(Idle) /\ Idle.pc = "idle"
    BY <1>8 DEF FailAudit, IsRequest, Idle
  <2>7. DOMAIN row' = Rounds /\ \A i \in Rounds : row'[i] = row[i] \/ IsRow(row'[i])
    BY <1>0, <1>8, <2>2, FailedAuditIs
  <2> QED BY <2>1, <2>4, <2>7, ShapesAtRest
<1>9. ASSUME NEW k \in Workers, Cut(k) PROVE ShapesOK'
  <2>1. FactsOK' /\ row' = row BY <1>9, <1>f DEF Cut, FactsOK, facts
  <2>4. w' = [w EXCEPT ![k] = Idle] /\ IsRequest(Idle) /\ Idle.pc = "idle"
    BY <1>9 DEF Cut, IsRequest, Idle
  <2> QED BY <1>0, <2>1, <2>4, ShapesAtRest
<1>10. ASSUME NEW r \in Rounds,
              StoreWinners(r) \/ StoreFinal(r) \/ ChangeEntry(r) \/ RegisterSystem(r)
       PROVE  ShapesOK'
  <2>1. row' = row /\ w' = w BY <1>10 DEF StoreWinners, StoreFinal, ChangeEntry, RegisterSystem
  <2>3. FactsOK'
    <3>1. CASE StoreWinners(r) BY <1>f, <3>1 DEF StoreWinners, FactsOK
    <3>2. CASE StoreFinal(r) BY <1>f, <3>2 DEF StoreFinal, FactsOK
    <3>3. CASE ChangeEntry(r) BY <1>f, <3>3 DEF ChangeEntry, FactsOK
    <3>4. CASE RegisterSystem(r) BY <1>f, <3>4 DEF RegisterSystem, FactsOK
    <3> QED BY <1>10, <3>1, <3>2, <3>3, <3>4
  <2> QED BY <2>1, <2>3
    DEF ShapesOK, IsRow, IsRequest, IsControl, IsOpening, IsRepairing, IsEnding
<1>11. ASSUME PassTime PROVE ShapesOK'
  <2>1. FactsOK' BY <1>11, <1>f DEF PassTime, FactsOK, facts
  <2>2. DOMAIN row' = Rounds /\ DOMAIN w' = Workers BY <1>11 DEF PassTime
  <2>3. \A r \in Rounds : row[r] # NoRow => IsRow(row[r]) BY DEF ShapesOK
  <2>4. \A r \in Rounds : /\ row[r] = NoRow => row'[r] = row[r]
                          /\ row[r] # NoRow => IsRow(row'[r])
    BY <1>11, <2>3, PassedRowIs DEF PassTime
  <2>5. \A q \in Workers : IsRequest(w'[q]) /\ w'[q].pc = w[q].pc
                           /\ (w[q].pc # "idle" => w'[q].round = w[q].round)
    BY <1>11, OlderIs DEF KeptRequest
  <2>6. \A q \in Workers : w'[q].pc # "idle" => IsRow(row'[w'[q].round])
    <3> TAKE q \in Workers
    <3>1. w[q].pc # "idle" => w[q].round \in Rounds /\ IsRow(row[w[q].round]) BY RequestIs
    <3> QED BY <2>4, <2>5, <3>1
  <2> QED BY <2>1, <2>2, <2>3, <2>4, <2>5, <2>6
    DEF ShapesOK, IsRow, IsRequest, IsControl, IsOpening, IsRepairing, IsEnding
<1>12. CASE UNCHANGED vars
  BY <1>12 DEF vars, facts, ShapesOK, FactsOK, IsRow, IsRequest, IsControl, IsOpening, IsRepairing, IsEnding
<1> QED BY <1>1, <1>2, <1>3, <1>4, <1>5, <1>6, <1>7, <1>8, <1>9, <1>10, <1>11, <1>12
  DEF Next, Step, BeginNext, BeginNamed, Due

(***************************************************************************)
(* What a step leaves sound.                                                 *)
(***************************************************************************)
\* The final game and its entries stay, and every change of an entry counts.
LEMMA FactsGrow ==
  ASSUME ShapesOK, [Next]_vars, NEW r \in Rounds
  PROVE  /\ final[r] => final'[r]
         /\ version[r] \in Nat /\ version'[r] \in Nat /\ version[r] <= version'[r]
         /\ version'[r] = version[r] => known'[r] = known[r] /\ active'[r] = active[r]
         /\ known[r] \subseteq known'[r] /\ market[r] \subseteq market'[r]
<1> DEFINE Grown == /\ final[r] => final'[r]
                    /\ version[r] \in Nat /\ version'[r] \in Nat /\ version[r] <= version'[r]
                    /\ version'[r] = version[r] => known'[r] = known[r] /\ active'[r] = active[r]
                    /\ known[r] \subseteq known'[r] /\ market[r] \subseteq market'[r]
<1>1. /\ final \in [Rounds -> BOOLEAN] /\ version \in [Rounds -> Nat]
      /\ known \in [Rounds -> SUBSET Entries] /\ active \in [Rounds -> SUBSET Entries]
      /\ market \in [Rounds -> SUBSET Priced]
  BY DEF ShapesOK, FactsOK
<1>2. CASE UNCHANGED <<final, version, known, active, market>> BY <1>1, <1>2
<1>3. ASSUME NEW i \in Rounds, StoreFinal(i) PROVE Grown
  <2>1. /\ final' = [final EXCEPT ![i] = TRUE] /\ market' = [market EXCEPT ![i] = Priced]
        /\ version' = version /\ known' = known /\ active' = active
    BY <1>3 DEF StoreFinal
  <2>2. market[r] \subseteq Priced /\ market'[r] \in {market[r], Priced} BY <1>1, <2>1
  <2>3. final[r] => final'[r] BY <1>1, <2>1
  <2> QED BY <1>1, <2>1, <2>2, <2>3
<1>4. ASSUME NEW i \in Rounds, ChangeEntry(i) PROVE Grown
  <2>1. PICK e \in Entries : known' = [known EXCEPT ![i] = @ \cup {e}]
    BY <1>4 DEF ChangeEntry
  <2>2. /\ version' = [version EXCEPT ![i] = @ + 1] /\ final' = final /\ market' = market
        /\ \E x : active' = [active EXCEPT ![i] = x]
    BY <1>4 DEF ChangeEntry
  <2> QED BY <1>1, <2>1, <2>2
<1>5. ASSUME NEW k \in Workers, RepairMarket(k) PROVE Grown
  <2>1. PICK S : market' = [market EXCEPT ![w[k].round] = @ \cup S]
    BY <1>5 DEF RepairMarket
  <2>2. UNCHANGED <<final, version, known, active>> BY <1>5 DEF RepairMarket, facts
  <2> QED BY <1>1, <2>1, <2>2
<1> QED BY <1>2, <1>3, <1>4, <1>5
  DEF Next, Step, BeginNext, BeginNamed, Begin, FirstAudit, AfterRepair, ReplayForm, AfterReplay,
      Persist, FailAudit, Cut, StoreWinners, RegisterSystem, PassTime, vars, facts

\* What an input decided on before the step is after it.
JustifiedNext(t, r) ==
    t # None =>
        /\ final'[r] /\ t[4] <= version'[r]
        /\ t[4] = version'[r] =>
             active'[r] = {} \/ ~(active'[r] \subseteq Priced /\ Priced \subseteq known'[r])

LEMMA JustifiedStays ==
  ASSUME ShapesOK, [Next]_vars, NEW r \in Rounds, NEW t \in MarketInputs \cup {None}, Justified(t, r)
  PROVE  JustifiedNext(t, r)
<1> SUFFICES ASSUME t # None
             PROVE  /\ final'[r] /\ t[4] <= version'[r]
                    /\ t[4] = version'[r] =>
                          active'[r] = {} \/ ~(active'[r] \subseteq Priced /\ Priced \subseteq known'[r])
  BY DEF JustifiedNext
<1>1. t[4] \in Nat BY DEF MarketInputs
<1>2. final[r] /\ t[4] <= version[r] /\ (t[4] = version[r] => Unclosable(r)) BY DEF Justified
<1>3. /\ final'[r] /\ version[r] \in Nat /\ version'[r] \in Nat /\ version[r] <= version'[r]
      /\ version'[r] = version[r] => known'[r] = known[r] /\ active'[r] = active[r]
  BY <1>2, FactsGrow
<1>4. t[4] <= version'[r] /\ (t[4] = version'[r] => version'[r] = version[r] /\ t[4] = version[r])
  BY <1>1, <1>2, <1>3
<1> QED BY <1>2, <1>3, <1>4 DEF Unclosable

\* A request stays sound through the steps of others.
LEMMA BystanderSound ==
  ASSUME ShapesOK, [Next]_vars, NEW q \in Workers, StepSound(q), KeptRequest(w[q], w'[q]),
         w[q].pc # "idle" /\ row'[w[q].round].token = q =>
            /\ row[w[q].round].token = q
            /\ SameDecision(row'[w[q].round].form, row[w[q].round].form)
            /\ SameDecision(row'[w[q].round].market, row[w[q].round].market)
  PROVE  StepSound(q)'
<1> DEFINE r == w[q].round
<1>0. CASE w[q].pc = "idle" BY <1>0 DEF StepSound, KeptRequest
<1>1. CASE w[q].pc # "idle"
  <2>1. r \in Rounds /\ w'[q].pc = w[q].pc /\ w'[q].round = r /\ w'[q].old = w[q].old
    BY <1>1, RequestIs DEF KeptRequest
  <2>2. w[q].pc \in Opening \cup Repairing \cup Ending
    BY <1>1, RequestIs
  <2>3. ASSUME w[q].pc \in Opening \cup Repairing
        PROVE  Justified(w[q].oldMarket.terminal, w[q].round)' /\ w'[q].oldMarket = w[q].oldMarket
    <3>1. w'[q].oldMarket = w[q].oldMarket BY <2>3 DEF KeptRequest
    <3>2. IsControl(w[q].oldMarket, MarketInputs)
      BY <2>3, RequestIs DEF IsOpening, IsRepairing
    <3>3. w[q].oldMarket.terminal \in MarketInputs \cup {None} BY <3>2 DEF IsControl
    <3>4. Justified(w[q].oldMarket.terminal, r) BY <1>1, <2>3 DEF StepSound
    <3> QED BY <2>1, <3>1, <3>3, <3>4, JustifiedStays DEF JustifiedNext, Justified, Unclosable
  <2>4. ASSUME w[q].pc \in {"repair"} \cup Ending
        PROVE  Justified(w[q].mk.terminal, w[q].round)' /\ w'[q].mk = w[q].mk
    <3>1. w'[q].mk = w[q].mk BY <2>4 DEF KeptRequest, Repairing
    <3>2. IsControl(w[q].mk, MarketInputs)
      BY <2>4, RequestIs DEF IsRepairing, IsEnding, Repairing
    <3>3. w[q].mk.terminal \in MarketInputs \cup {None} BY <3>2 DEF IsControl
    <3>4. Justified(w[q].mk.terminal, r) BY <1>1, <2>4 DEF StepSound
    <3> QED BY <2>1, <3>1, <3>3, <3>4, JustifiedStays DEF JustifiedNext, Justified, Unclosable
  <2>5. ASSUME w[q].pc \in Repairing PROVE final'[r]
    BY <1>1, <2>1, <2>5, FactsGrow DEF StepSound
  <2>6. ASSUME w[q].pc = "repair"
        PROVE  w'[q].mk.status = "pending" /\ w'[q].mk.input[4] <= version'[r]
    <3>1. w[q].mk.status = "pending" /\ w[q].mk.input[4] <= version[r]
      BY <1>1, <2>6 DEF StepSound
    <3>2. w[q].mk.input \in MarketInputs BY <2>6, RequestIs DEF IsRepairing, Repairing
    <3>3. w[q].mk.input[4] \in Nat BY <3>2 DEF MarketInputs
    <3>4. version[r] \in Nat /\ version'[r] \in Nat /\ version[r] <= version'[r]
      BY <2>1, FactsGrow
    <3> QED BY <2>4, <2>6, <3>1, <3>3, <3>4
  <2>7. ASSUME w[q].pc = "repaired"
        PROVE  Priced \subseteq known'[r] /\ Priced \subseteq market'[r]
    BY <1>1, <2>1, <2>7, FactsGrow DEF StepSound
  <2>8. ASSUME w[q].pc \in Ending PROVE w'[q].form = w[q].form /\ w'[q].class = w[q].class
    BY <2>8 DEF KeptRequest
  <2>9. w[q].pc = "replay" => w'[q].form.status = "pending"
    BY <1>1, <2>8 DEF StepSound, Ending
  <2>10. ASSUME Holds(q)' PROVE HolderSound(w[q], row[w[q].round])'
    <3>1. row'[r].token = q BY <2>1, <2>10 DEF Holds
    <3>2. /\ Holds(q) /\ SameDecision(row'[r].form, row[r].form)
          /\ SameDecision(row'[r].market, row[r].market)
      BY <1>1, <3>1 DEF Holds
    <3>3. HolderSound(w[q], row[r]) BY <1>1, <3>2 DEF StepSound
    <3>4. HolderSound(w[q], row'[r])
      BY <3>2, <3>3 DEF HolderSound, SameDecision, Stands, Counts
    <3>5. /\ w[q].pc \in Opening \cup Repairing => w'[q].oldMarket = w[q].oldMarket
          /\ w[q].pc \in {"repair"} \cup Ending => w'[q].mk = w[q].mk
          /\ w[q].pc \in Ending => w'[q].form = w[q].form /\ w'[q].class = w[q].class
      BY <2>3, <2>4, <2>8
    <3>6. HolderSound(w'[q], row'[r])
      BY <2>1, <3>4, <3>5 DEF HolderSound, Ending
    <3> QED BY <2>1, <3>6 DEF HolderSound, SameDecision, Stands, Counts
  <2> QED
    BY <1>1, <2>1, <2>3, <2>4, <2>5, <2>6, <2>7, <2>9, <2>10
    DEF StepSound, Repairing
<1> QED BY <1>0, <1>1

LEMMA RoundStaysSound ==
  ASSUME ShapesOK, [Next]_vars, NEW r \in Rounds, RoundSound(r),
         row'[r].market.terminal = None
           \/ (row[r] # NoRow /\ row'[r].market.terminal = row[r].market.terminal)
  PROVE  RoundSound(r)'
<1>1. CASE row'[r].market.terminal = None BY <1>1 DEF RoundSound, Justified
<1>2. CASE row[r] # NoRow /\ row'[r].market.terminal = row[r].market.terminal
  <2>1. IsRow(row[r]) BY <1>2 DEF ShapesOK
  <2>2. row[r].market.terminal \in MarketInputs \cup {None} BY <2>1 DEF IsRow, IsControl
  <2>3. Justified(row[r].market.terminal, r) BY <1>2 DEF RoundSound
  <2> QED BY <1>2, <2>2, <2>3, JustifiedStays DEF JustifiedNext, RoundSound, Justified, Unclosable
<1> QED BY <1>1, <1>2

\* A step of request k that writes to no row of which another has the lease.
LEMMA SoundAfter ==
  ASSUME StatisticsIInv, [Next]_vars, NEW k \in Workers,
         \A q \in Workers : q # k => w'[q] = w[q],
         \A r \in Rounds : row'[r] = row[r] \/ row'[r].token \in {None, k},
         \A r \in Rounds : row'[r] = row[r] \/ RoundSound(r)',
         StepSound(k)'
  PROVE  StatisticsIInv'
<1>1. ShapesOK /\ ShapesOK' BY ShapesKept DEF StatisticsIInv
<1>2. \A r \in Rounds : RoundSound(r)'
  <2> TAKE r \in Rounds
  <2>1. RoundSound(r) BY DEF StatisticsIInv
  <2>2. CASE row'[r] # row[r] BY <2>2
  <2>3. CASE row'[r] = row[r] /\ row[r] # NoRow BY <1>1, <2>1, <2>3, RoundStaysSound
  <2>4. CASE row'[r] = row[r] /\ row[r] = NoRow BY <2>4 DEF RoundSound
  <2> QED BY <2>2, <2>3, <2>4
<1>3. ASSUME NEW q \in Workers, q # k PROVE StepSound(q)'
  <2>1. StepSound(q) BY DEF StatisticsIInv
  <2>2. KeptRequest(w[q], w'[q]) BY <1>3 DEF KeptRequest
  <2>3. q # None BY NoneAssumption
  <2>4. w[q].pc # "idle" => w[q].round \in Rounds BY <1>1, RequestIs
  <2> QED BY <1>1, <1>3, <2>1, <2>2, <2>3, <2>4, BystanderSound DEF SameDecision
<1> QED BY <1>1, <1>2, <1>3 DEF StatisticsIInv

\* A step that leaves the rows and the requests alone.
LEMMA SoundBeside ==
  ASSUME StatisticsIInv, [Next]_vars, row' = row, w' = w
  PROVE  StatisticsIInv'
<1>1. ShapesOK /\ ShapesOK' BY ShapesKept DEF StatisticsIInv
<1>2. \A r \in Rounds : RoundSound(r)'
  <2> TAKE r \in Rounds
  <2>1. RoundSound(r) BY DEF StatisticsIInv
  <2>3. CASE row[r] # NoRow BY <1>1, <2>1, <2>3, RoundStaysSound
  <2>4. CASE row[r] = NoRow BY <2>4 DEF RoundSound
  <2> QED BY <2>3, <2>4
<1>3. ASSUME NEW q \in Workers PROVE StepSound(q)'
  <2>1. StepSound(q) BY DEF StatisticsIInv
  <2>2. KeptRequest(w[q], w'[q]) BY DEF KeptRequest
  <2> QED BY <1>1, <2>1, <2>2, BystanderSound DEF SameDecision
<1> QED BY <1>1, <1>2, <1>3 DEF StatisticsIInv

\* A request that goes on to the Form.
LEMMA ProceedSound ==
  ASSUME ShapesOK, NEW k \in Workers, w[k].pc # "idle", row' = row,
         UNCHANGED <<final, known, active, version>>, NEW a \in AuditRows,
         NEW mk, IsControl(mk, MarketInputs), w' = [w EXCEPT ![k] = Proceed(w[k], a, mk)],
         Justified(mk.terminal, w[k].round),
         Holds(k) => /\ SameDecision(row[w[k].round].form, w[k].old)
                     /\ Stands(row[w[k].round].market, mk)
  PROVE  StepSound(k)'
<1> DEFINE r == w[k].round
           x == Proceed(w[k], a, mk)
           f == FormControl(w[k].old, a)
<1>1. r \in Rounds /\ IsControl(w[k].old, FormInputs) BY RequestIs
<1>2. /\ x.pc \in {"replay", "persist"} /\ x.round = r /\ x.old = w[k].old
      /\ x.mk = mk /\ x.class = None /\ x.form = f
      /\ x.pc = "replay" => f.status = "pending"
  BY <1>1, ProceedIs
<1>3. w'[k] = x BY DEF ShapesOK
<1> HIDE DEF x, f
<1>4. JustifiedNext(x.mk.terminal, r) BY <1>2 DEF JustifiedNext, Justified, Unclosable
<1>5. ASSUME Holds(k)' PROVE HolderSound(x, row[r])
  <2>1. Holds(k) BY <1>2, <1>3, <1>5 DEF Holds
  <2>2. SameDecision(row[r].form, w[k].old) /\ Stands(row[r].market, mk) BY <2>1
  <2>3. /\ Stands(row[r].form, f) /\ f.input = FormInput(a)
        /\ f.status = "pending" =>
              /\ FormInput(a) # row[r].form.terminal
              /\ FormInput(a) = row[r].form.input => f.retries = row[r].form.retries
    BY <1>1, <2>2, FormControlIs DEF f
  <2>4. None # "other" BY NoneAssumption
  <2> QED BY <1>2, <2>2, <2>3, <2>4 DEF HolderSound, Opening, Repairing
<1> QED BY <1>2, <1>3, <1>4, <1>5 DEF StepSound, Opening, Repairing, JustifiedNext, Justified, Unclosable

LEMMA StatisticsStarts == Init => StatisticsIInv
<1> SUFFICES ASSUME Init PROVE StatisticsIInv
  OBVIOUS
<1>1. FactsOK BY Bounds DEF Init, FactsOK
<1>2. /\ DOMAIN row = Rounds /\ \A r \in Rounds : row[r] = NoRow
      /\ DOMAIN w = Workers /\ \A k \in Workers : w[k] = Idle
  BY DEF Init
<1>3. Idle.pc = "idle" /\ IsRequest(Idle) BY DEF Idle, IsRequest
<1> QED BY <1>1, <1>2, <1>3 DEF StatisticsIInv, ShapesOK, RoundSound, StepSound

LEMMA StatisticsKeeps == StatisticsIInv /\ [Next]_vars => StatisticsIInv'
<1> SUFFICES ASSUME StatisticsIInv, [Next]_vars PROVE StatisticsIInv'
  OBVIOUS
<1>s. ShapesOK /\ ShapesOK' BY ShapesKept DEF StatisticsIInv
<1>f. FactsOK /\ DOMAIN row = Rounds /\ DOMAIN w = Workers BY <1>s DEF ShapesOK
<1>r. \A r \in Rounds : RoundSound(r) BY DEF StatisticsIInv
<1>q. \A k \in Workers : StepSound(k) BY DEF StatisticsIInv
<1>1. ASSUME NEW k \in Workers, NEW r \in Rounds, Begin(k, r) PROVE StatisticsIInv'
  <2>1. row' = [Queued EXCEPT ![r].token = k, ![r].live = TRUE] /\ UNCHANGED facts
    BY <1>1 DEF Begin
  <2>2. DOMAIN row' = Rounds /\ \A i \in Rounds : i # r => row'[i] = Queued[i]
    BY <1>s, <2>1, QueuedIs
  <2>3. row'[r] = [Queued[r] EXCEPT !.token = k, !.live = TRUE] BY <1>s, <2>1, QueuedIs
  <2>4. IsRow(Queued[r]) BY <1>s, QueuedIs
  <2>5. row'[r].token = k /\ row'[r].form = Queued[r].form /\ row'[r].market = Queued[r].market
    BY <2>3, <2>4 DEF IsRow
  <2> DEFINE x == [pc |-> "audit", round |-> r, age |-> 0,
                   old |-> Queued[r].form, oldMarket |-> Queued[r].market]
  <2>6. w'[k] = x /\ \A q \in Workers : q # k => w'[q] = w[q] BY <1>1, <1>f DEF Begin
  <2>7. \A i \in Rounds : row'[i] = row[i] \/ row'[i].token \in {None, k}
    BY <1>s, <2>2, <2>5, QueuedIs
  <2>8. ASSUME NEW i \in Rounds, row'[i] # row[i] PROVE RoundSound(i)'
    <3>1. \/ row'[i].market.terminal = None
          \/ row[i] # NoRow /\ row'[i].market.terminal = row[i].market.terminal
      BY <1>s, <2>2, <2>5, <2>8, QueuedIs
    <3>2. RoundSound(i) BY <1>r
    <3> QED BY <1>s, <3>1, <3>2, RoundStaysSound
  <2>9. Justified(Queued[r].market.terminal, r)
    BY <1>s, <1>r, QueuedIs DEF RoundSound, Justified
  <2>10. /\ x.pc = "audit" /\ x.round = r /\ x.old = Queued[r].form
         /\ x.oldMarket = Queued[r].market
    OBVIOUS
  <2> HIDE DEF x
  <2>11. JustifiedNext(x.oldMarket.terminal, r)
    BY <2>1, <2>9, <2>10 DEF JustifiedNext, Justified, Unclosable, facts
  <2>12. HolderSound(x, row'[r])
    BY <2>5, <2>10 DEF HolderSound, SameDecision, Opening, Repairing, Ending
  <2>13. StepSound(k)'
    BY <2>6, <2>10, <2>11, <2>12
    DEF StepSound, Opening, Repairing, Ending, JustifiedNext, Justified, Unclosable
  <2> QED BY <2>6, <2>7, <2>8, <2>13, SoundAfter
<1>2. ASSUME NEW k \in Workers, FirstAudit(k) PROVE StatisticsIInv'
  <2> DEFINE m == w[k]
             r == m.round
             a == Audit(r)
             mk == MarketControl(m.oldMarket, a)
             y == [pc |-> "repair", round |-> r, age |-> m.age, old |-> m.old,
                   oldMarket |-> m.oldMarket, audit |-> a, mk |-> mk]
             p == Proceed(m, a, mk)
  <2>1. row' = row /\ UNCHANGED facts BY <1>2 DEF FirstAudit
  <2>2. m.pc = "audit" /\ IsOpening(m) /\ r \in Rounds /\ m.pc # "idle" /\ IsRow(row[r])
    BY <1>2, <1>s, RequestIs DEF FirstAudit, Opening
  <2>3. /\ a \in AuditRows /\ a.final = final[r] /\ a.version = version[r]
    BY <1>f, <2>2, AuditIs
  <2>4. IsControl(m.oldMarket, MarketInputs) BY <2>2 DEF IsOpening
  <2>5. /\ IsControl(mk, MarketInputs) /\ mk.input = MarketInput(a) /\ MarketInput(a) \in MarketInputs
        /\ mk.terminal \in {None, m.oldMarket.terminal}
    BY <2>3, <2>4, MarketControlIs DEF SameDecision
  <2>6. StepSound(k) BY <1>q
  <2>7. Justified(m.oldMarket.terminal, r) BY <2>2, <2>6 DEF StepSound, Opening
  <2>8. Justified(mk.terminal, r) BY <2>5, <2>7 DEF Justified
  <2>9. ASSUME Holds(k)
        PROVE  /\ SameDecision(row[r].form, m.old) /\ SameDecision(row[r].market, m.oldMarket)
               /\ Stands(row[r].market, mk)
    <3>1. HolderSound(m, row[r]) BY <2>2, <2>6, <2>9 DEF StepSound
    <3>2. SameDecision(row[r].form, m.old) /\ SameDecision(row[r].market, m.oldMarket)
      BY <2>2, <3>1 DEF HolderSound, Opening
    <3> QED BY <2>3, <2>4, <3>2, MarketControlIs
  <2>10. \/ /\ a.final /\ mk.status = "pending"
            /\ w' = [w EXCEPT ![k] = y]
         \/ w' = [w EXCEPT ![k] = p]
    BY <1>2 DEF FirstAudit
  <2>11. MarketInput(a)[4] = version[r] BY <2>3 DEF MarketInput
  <2>12. \A q \in Workers : q # k => w'[q] = w[q] BY <1>f, <2>10
  <2>13. version[r] \in Nat BY <1>f, <2>2 DEF FactsOK
  <2>14. CASE a.final /\ mk.status = "pending" /\ w' = [w EXCEPT ![k] = y]
    <3>1. /\ y.pc = "repair" /\ y.round = r /\ y.old = m.old /\ y.oldMarket = m.oldMarket
          /\ y.mk = mk
      OBVIOUS
    <3> HIDE DEF y, a, mk
    <3>2. w'[k] = y BY <1>f, <2>14
    <3>3. /\ JustifiedNext(y.oldMarket.terminal, r) /\ JustifiedNext(y.mk.terminal, r)
          /\ final'[r] /\ y.mk.input[4] <= version'[r] /\ y.mk.status = "pending"
      BY <2>1, <2>3, <2>5, <2>7, <2>8, <2>11, <2>13, <2>14, <3>1 DEF JustifiedNext, Justified, Unclosable, facts
    <3>4. ASSUME Holds(k)' PROVE HolderSound(y, row[r])
      <4>1. Holds(k) BY <2>1, <3>1, <3>2, <3>4 DEF Holds
      <4> QED BY <2>9, <3>1, <4>1 DEF HolderSound, Ending
    <3>5. StepSound(k)'
      BY <2>1, <3>1, <3>2, <3>3, <3>4
      DEF StepSound, Repairing, Ending, JustifiedNext, Justified, Unclosable
    <3> QED BY <2>1, <2>12, <3>5, SoundAfter
  <2>15. CASE w' = [w EXCEPT ![k] = p]
    <3> HIDE DEF a, mk
    <3>1. StepSound(k)'
      BY <1>s, <2>1, <2>2, <2>3, <2>5, <2>8, <2>9, <2>15, ProceedSound DEF facts
    <3> QED BY <2>1, <2>12, <3>1, SoundAfter
  <2> QED BY <2>10, <2>14, <2>15
<1>3. ASSUME NEW k \in Workers, RepairMarket(k) PROVE StatisticsIInv'
  <2> DEFINE m == w[k]
             r == m.round
             y == Proceed(m, m.audit, Retry(m.mk))
             z == Proceed(m, m.audit, Terminal(m.mk))
             v == [m EXCEPT !.pc = "repaired"]
  <2>1. row' = row /\ UNCHANGED facts BY <1>3 DEF RepairMarket
  <2>2. m.pc = "repair" /\ IsRepairing(m) /\ r \in Rounds /\ m.pc # "idle" /\ IsRow(row[r])
    BY <1>3, <1>s, RequestIs DEF RepairMarket, Repairing
  <2>3. /\ m.audit \in AuditRows /\ IsControl(m.mk, MarketInputs) /\ m.mk.input \in MarketInputs
        /\ m.mk.terminal \in MarketInputs \cup {None}
    BY <2>2 DEF IsRepairing, IsControl
  <2>4. /\ IsControl(Retry(m.mk), MarketInputs) /\ Retry(m.mk).terminal = m.mk.terminal
        /\ Retry(m.mk).input = m.mk.input
        /\ IsControl(Terminal(m.mk), MarketInputs) /\ Terminal(m.mk).terminal = m.mk.input
        /\ Terminal(m.mk).input = m.mk.input
    BY <2>3, FailureIs
  <2>5. StepSound(k) BY <1>q
  <2>6. /\ Justified(m.oldMarket.terminal, r) /\ Justified(m.mk.terminal, r)
        /\ final[r] /\ m.mk.input[4] <= version[r] /\ m.mk.status = "pending"
    BY <2>2, <2>5 DEF StepSound, Repairing
  <2>7. ASSUME Holds(k)
        PROVE  /\ SameDecision(row[r].form, m.old) /\ SameDecision(row[r].market, m.oldMarket)
               /\ Stands(row[r].market, m.mk)
    <3>1. HolderSound(m, row[r]) BY <2>2, <2>5, <2>7 DEF StepSound
    <3> QED BY <2>2, <3>1 DEF HolderSound, Repairing
  <2>8. \/ w' = [w EXCEPT ![k] = y]
        \/ ~ (Priced \subseteq known[r]) /\ w' = [w EXCEPT ![k] = z]
        \/ /\ Priced \subseteq known[r] /\ w' = [w EXCEPT ![k] = v]
           /\ market' = [market EXCEPT ![r] = @ \cup ((Priced \cap known[r]) \ market[r])]
    BY <1>3 DEF RepairMarket
  <2>9. \A q \in Workers : q # k => w'[q] = w[q] BY <1>f, <2>8
  <2>10. CASE w' = [w EXCEPT ![k] = y]
    <3>1. Holds(k) => Stands(row[r].market, Retry(m.mk))
      BY <2>4, <2>6, <2>7 DEF Stands
    <3>2. Justified(Retry(m.mk).terminal, r) BY <2>4, <2>6
    <3>3. StepSound(k)'
      BY <1>s, <2>1, <2>2, <2>3, <2>4, <2>7, <2>10, <3>1, <3>2, ProceedSound DEF facts
    <3> QED BY <2>1, <2>9, <3>3, SoundAfter
  <2>11. CASE ~ (Priced \subseteq known[r]) /\ w' = [w EXCEPT ![k] = z]
    <3>1. Stands(row[r].market, Terminal(m.mk)) BY <2>4 DEF Stands
    <3>2. Justified(Terminal(m.mk).terminal, r) BY <2>4, <2>6, <2>11 DEF Justified, Unclosable
    <3>3. StepSound(k)'
      BY <1>s, <2>1, <2>2, <2>3, <2>4, <2>7, <2>11, <3>1, <3>2, ProceedSound DEF facts
    <3> QED BY <2>1, <2>9, <3>3, SoundAfter
  <2>12. CASE /\ Priced \subseteq known[r] /\ w' = [w EXCEPT ![k] = v]
              /\ market' = [market EXCEPT ![r] = @ \cup ((Priced \cap known[r]) \ market[r])]
    <3>1. /\ v.pc = "repaired" /\ v.round = r /\ v.old = m.old /\ v.oldMarket = m.oldMarket
      BY <2>2 DEF IsRepairing
    <3> HIDE DEF v
    <3>2. w'[k] = v BY <1>f, <2>12
    <3>3. Priced \subseteq known'[r] /\ Priced \subseteq market'[r]
      BY <1>f, <2>1, <2>2, <2>12 DEF facts, FactsOK
    <3>4. JustifiedNext(v.oldMarket.terminal, r) /\ final'[r]
      BY <2>1, <2>6, <3>1 DEF JustifiedNext, Justified, Unclosable, facts
    <3>5. ASSUME Holds(k)' PROVE HolderSound(v, row[r])
      <4>1. Holds(k) BY <2>1, <3>1, <3>2, <3>5 DEF Holds
      <4> QED BY <2>7, <3>1, <4>1 DEF HolderSound, Ending
    <3>6. StepSound(k)'
      BY <2>1, <3>1, <3>2, <3>3, <3>4, <3>5
      DEF StepSound, Repairing, Ending, JustifiedNext, Justified, Unclosable
    <3> QED BY <2>1, <2>9, <3>6, SoundAfter
  <2> QED BY <2>8, <2>10, <2>11, <2>12
<1>4. ASSUME NEW k \in Workers, AfterRepair(k) PROVE StatisticsIInv'
  <2> DEFINE m == w[k]
             r == m.round
             a == Audit(r)
             mk == MarketControl(m.oldMarket, a)
             c == IF MarketFound(a) = "complete" THEN mk ELSE Terminal(mk)
  <2>1. row' = row /\ UNCHANGED facts BY <1>4 DEF AfterRepair
  <2>2. m.pc = "repaired" /\ IsRepairing(m) /\ r \in Rounds /\ m.pc # "idle" /\ IsRow(row[r])
    BY <1>4, <1>s, RequestIs DEF AfterRepair, Repairing
  <2>3. /\ a \in AuditRows /\ a.final = final[r] /\ a.version = version[r] /\ a.active = active[r]
        /\ a.closing = IF final[r] THEN market[r] \cap active[r] ELSE {}
    BY <1>f, <2>2, AuditIs
  <2>4. IsControl(m.oldMarket, MarketInputs) BY <2>2 DEF IsRepairing
  <2>5. /\ IsControl(mk, MarketInputs) /\ mk.input = MarketInput(a) /\ MarketInput(a) \in MarketInputs
        /\ mk.terminal \in {None, m.oldMarket.terminal}
    BY <2>3, <2>4, MarketControlIs DEF SameDecision
  <2>6. StepSound(k) BY <1>q
  <2>7. /\ Justified(m.oldMarket.terminal, r) /\ final[r]
        /\ Priced \subseteq known[r] /\ Priced \subseteq market[r]
    BY <2>2, <2>6 DEF StepSound, Repairing
  <2>8. ASSUME Holds(k)
        PROVE  SameDecision(row[r].form, m.old) /\ Stands(row[r].market, mk)
    <3>1. HolderSound(m, row[r]) BY <2>2, <2>6, <2>8 DEF StepSound
    <3>2. SameDecision(row[r].form, m.old) /\ SameDecision(row[r].market, m.oldMarket)
      BY <2>2, <3>1 DEF HolderSound, Repairing
    <3> QED BY <2>3, <2>4, <3>2, MarketControlIs
  <2>9. w' = [w EXCEPT ![k] = Proceed(m, a, c)] BY <1>4 DEF AfterRepair
  <2>10. \A q \in Workers : q # k => w'[q] = w[q] BY <1>f, <2>9
  <2>11. MarketFound(a) # "complete" => Unclosable(r)
    BY <2>3, <2>7 DEF MarketFound, Unclosable
  <2>12. MarketInput(a)[4] = version[r] /\ version[r] \in Nat
    BY <1>f, <2>2, <2>3 DEF MarketInput, FactsOK
  <2>13. /\ IsControl(c, MarketInputs) /\ Justified(c.terminal, r)
         /\ Holds(k) => Stands(row[r].market, c)
    <3>1. CASE MarketFound(a) = "complete" BY <2>5, <2>7, <2>8, <3>1 DEF Justified
    <3>2. CASE MarketFound(a) # "complete"
      <4> HIDE DEF mk, a
      <4>1. /\ c = Terminal(mk) /\ IsControl(Terminal(mk), MarketInputs)
            /\ Terminal(mk).terminal = mk.input /\ Terminal(mk).input = mk.input
        BY <2>5, <3>2, FailureIs
      <4>2. Justified(mk.input, r) BY <2>5, <2>7, <2>11, <2>12, <3>2 DEF Justified
      <4> QED BY <4>1, <4>2 DEF Stands
    <3> QED BY <3>1, <3>2
  <2> HIDE DEF c, a, mk
  <2>14. StepSound(k)'
    BY <1>s, <2>1, <2>2, <2>3, <2>8, <2>9, <2>13, ProceedSound DEF facts
  <2> QED BY <2>1, <2>10, <2>14, SoundAfter
<1>5. ASSUME NEW k \in Workers, ReplayForm(k) PROVE StatisticsIInv'
  <2> DEFINE m == w[k]
             r == m.round
             Failed(class, f) == [m EXCEPT !.pc = "persist", !.class = class, !.form = f]
             v == [m EXCEPT !.pc = "replayed"]
  <2>1. row' = row /\ UNCHANGED facts BY <1>5 DEF ReplayForm
  <2>2. m.pc = "replay" /\ IsEnding(m) /\ r \in Rounds /\ m.pc # "idle" /\ IsRow(row[r])
    BY <1>5, <1>s, RequestIs DEF ReplayForm, Ending
  <2>3. IsControl(m.form, FormInputs) /\ m.form.input \in FormInputs BY <2>2 DEF IsEnding
  <2>4. StepSound(k) BY <1>q
  <2>5. Justified(m.mk.terminal, r) /\ m.form.status = "pending"
    BY <2>2, <2>4 DEF StepSound, Ending
  <2>6. JustifiedNext(m.mk.terminal, r)
    BY <2>1, <2>5 DEF JustifiedNext, Justified, Unclosable, facts
  <2>7. ASSUME Holds(k)
        PROVE  /\ SameDecision(row[r].form, m.old) /\ Stands(row[r].market, m.mk)
               /\ Stands(row[r].form, m.form) /\ m.form.input # row[r].form.terminal
               /\ m.form.input = row[r].form.input => m.form.retries = row[r].form.retries
    <3>1. HolderSound(m, row[r]) BY <2>2, <2>4, <2>7 DEF StepSound
    <3> QED BY <2>2, <3>1 DEF HolderSound, Ending
  <2>8. PICK class, f :
          /\ w' \in {[w EXCEPT ![k] = Failed(class, f)], [w EXCEPT ![k] = v]}
          /\ \/ class = "terminal" /\ f = Terminal(m.form)
             \/ class \in {"transient", "other"} /\ f = FailForm(m.form, class)
    <3>1. \/ \E class \in {"transient", "other"} :
              w' = [w EXCEPT ![k].pc = "persist", ![k].class = class, ![k].form = FailForm(m.form, class)]
          \/ w' = [w EXCEPT ![k].pc = "persist", ![k].class = "terminal", ![k].form = Terminal(m.form)]
          \/ w' = [w EXCEPT ![k].pc = "replayed"]
      BY <1>5 DEF ReplayForm
    <3>2. \/ \E class \in {"transient", "other"} : w' = [w EXCEPT ![k] = Failed(class, FailForm(m.form, class))]
          \/ w' = [w EXCEPT ![k] = Failed("terminal", Terminal(m.form))]
          \/ w' = [w EXCEPT ![k] = v]
      BY <3>1
    <3> HIDE DEF Failed, v
    <3> QED BY <3>2
  <2>9. \A q \in Workers : q # k => w'[q] = w[q] BY <1>f, <2>8
  <2> DEFINE x == Failed(class, f)
  <2>10. CASE w' = [w EXCEPT ![k] = x]
    <3>1. /\ x.pc = "persist" /\ x.round = r /\ x.old = m.old /\ x.mk = m.mk
          /\ x.class = class /\ x.form = f
      BY <2>2 DEF IsEnding
    <3> HIDE DEF x
    <3>2. w'[k] = x BY <1>f, <2>10
    <3>3. /\ f.input = m.form.input
          /\ f.terminal = f.input \/ (f.terminal = m.form.terminal /\ f.status = "pending")
          /\ class = "other" => f.status = "manual_review" \/ f.retries > m.form.retries
      BY <2>3, <2>8, FailureIs, FailFormIs
    <3>4. ASSUME Holds(k)' PROVE HolderSound(x, row[r])
      <4>1. Holds(k) BY <2>1, <3>1, <3>2, <3>4 DEF Holds
      <4>2. Stands(row[r].form, f) BY <2>7, <3>3, <4>1 DEF Stands
      <4>3. class = "other" => Counts(row[r].form, f)
        <5>1. m.form.input = row[r].form.input => m.form.retries = row[r].form.retries
          BY <2>7, <4>1
        <5> QED BY <3>3, <5>1 DEF Counts
      <4> QED BY <2>7, <3>1, <4>1, <4>2, <4>3 DEF HolderSound, Opening, Repairing
    <3>5. StepSound(k)'
      BY <2>1, <2>6, <3>1, <3>2, <3>4
      DEF StepSound, Opening, Repairing, JustifiedNext, Justified, Unclosable
    <3> QED BY <2>1, <2>9, <3>5, SoundAfter
  <2>11. CASE w' = [w EXCEPT ![k] = v]
    <3>1. v.pc = "replayed" /\ v.round = r /\ v.old = m.old /\ v.mk = m.mk
      BY <2>2 DEF IsEnding
    <3> HIDE DEF v
    <3>2. w'[k] = v BY <1>f, <2>11
    <3>3. ASSUME Holds(k)' PROVE HolderSound(v, row[r])
      <4>1. Holds(k) BY <2>1, <3>1, <3>2, <3>3 DEF Holds
      <4> QED BY <2>7, <3>1, <4>1 DEF HolderSound, Opening, Repairing
    <3>4. StepSound(k)'
      BY <2>1, <2>6, <3>1, <3>2, <3>3
      DEF StepSound, Opening, Repairing, JustifiedNext, Justified, Unclosable
    <3> QED BY <2>1, <2>9, <3>4, SoundAfter
  <2> QED BY <2>8, <2>10, <2>11
<1>6. ASSUME NEW k \in Workers, AfterReplay(k) PROVE StatisticsIInv'
  <2> DEFINE m == w[k]
             r == m.round
             a == Audit(r)
             f == FormControl(m.old, a)
             x == [m EXCEPT !.pc = "persist", !.audit = a, !.form = f]
  <2>1. row' = row /\ UNCHANGED facts BY <1>6 DEF AfterReplay
  <2>2. m.pc = "replayed" /\ IsEnding(m) /\ r \in Rounds /\ m.pc # "idle" /\ IsRow(row[r])
    BY <1>6, <1>s, RequestIs DEF AfterReplay, Ending
  <2>3. a \in AuditRows BY <1>f, <2>2, AuditIs
  <2>4. IsControl(m.old, FormInputs) /\ m.class = None BY <2>2 DEF IsEnding
  <2>5. StepSound(k) BY <1>q
  <2>6. JustifiedNext(m.mk.terminal, r)
    BY <2>1, <2>2, <2>5 DEF StepSound, Ending, JustifiedNext, Justified, Unclosable, facts
  <2>7. ASSUME Holds(k)
        PROVE  /\ SameDecision(row[r].form, m.old) /\ Stands(row[r].market, m.mk)
               /\ Stands(row[r].form, f)
    <3>1. HolderSound(m, row[r]) BY <2>2, <2>5, <2>7 DEF StepSound
    <3>2. SameDecision(row[r].form, m.old) /\ Stands(row[r].market, m.mk)
      BY <2>2, <3>1 DEF HolderSound, Ending
    <3> QED BY <2>3, <2>4, <3>2, FormControlIs
  <2>8. w' = [w EXCEPT ![k] = x] BY <1>6 DEF AfterReplay
  <2>9. \A q \in Workers : q # k => w'[q] = w[q] BY <1>f, <2>8
  <2> HIDE DEF a, f
  <2>10. /\ x.pc = "persist" /\ x.round = r /\ x.old = m.old /\ x.mk = m.mk
         /\ x.class = None /\ x.form = f
    BY <2>2, <2>4 DEF IsEnding
  <2> HIDE DEF x
  <2>11. w'[k] = x BY <1>f, <2>8
  <2>12. ASSUME Holds(k)' PROVE HolderSound(x, row[r])
    <3>1. Holds(k) BY <2>1, <2>10, <2>11, <2>12 DEF Holds
    <3>2. None # "other" BY NoneAssumption
    <3> QED BY <2>7, <2>10, <3>1, <3>2 DEF HolderSound, Opening, Repairing
  <2>13. StepSound(k)'
    BY <2>1, <2>6, <2>10, <2>11, <2>12
    DEF StepSound, Opening, Repairing, JustifiedNext, Justified, Unclosable
  <2> QED BY <2>1, <2>9, <2>13, SoundAfter
<1>7. ASSUME NEW k \in Workers, Persist(k) PROVE StatisticsIInv'
  <2> DEFINE m == w[k]
             r == m.round
  <2>1. UNCHANGED facts /\ w' = [w EXCEPT ![k] = Idle] BY <1>7 DEF Persist
  <2>2. m.pc = "persist" /\ IsEnding(m) /\ r \in Rounds BY <1>7, <1>s, RequestIs DEF Persist, Ending
  <2>3. StepSound(k) BY <1>q
  <2>4. /\ Recorded(k).token = None /\ Recorded(k).market.terminal = m.mk.terminal
    <3>1. IsControl(m.mk, MarketInputs) BY <2>2 DEF IsEnding
    <3>2. SameDecision(ToRow(m.mk, m.age), m.mk) BY <3>1, TimesDecideNothing
    <3>3. Recorded(k).token = None /\ Recorded(k).market = ToRow(m.mk, m.age) BY <2>2, RecordedIs
    <3> QED BY <3>2, <3>3 DEF SameDecision
  <2>5. Justified(m.mk.terminal, r) BY <2>2, <2>3 DEF StepSound, Ending
  <2>6. \A i \in Rounds : row'[i] = row[i] \/ (i = r /\ row'[i] = Recorded(k))
    BY <1>7, <1>f DEF Persist
  <2>7. \A q \in Workers : q # k => w'[q] = w[q] BY <1>f, <2>1
  <2>8. StepSound(k)' BY <1>f, <2>1 DEF StepSound, Idle
  <2>9. ASSUME NEW i \in Rounds, row'[i] # row[i] PROVE RoundSound(i)'
    BY <2>1, <2>4, <2>5, <2>6, <2>9 DEF RoundSound, Justified, Unclosable, facts
  <2> QED BY <2>4, <2>6, <2>7, <2>8, <2>9, SoundAfter
<1>8. ASSUME NEW k \in Workers, FailAudit(k) PROVE StatisticsIInv'
  <2> DEFINE r == w[k].round
  <2>1. w' = [w EXCEPT ![k] = Idle] BY <1>8 DEF FailAudit
  <2>2. r \in Rounds /\ IsRow(row[r]) BY <1>8, <1>s, RequestIs DEF FailAudit
  <2>3. \/ row' = row
        \/ /\ \A i \in Rounds : i # r => row'[i] = row[i]
           /\ row'[r].token = None /\ row'[r].market = row[r].market
    BY <1>8, <1>s, <2>2, FailedAuditIs
  <2>7. \A q \in Workers : q # k => w'[q] = w[q] BY <1>f, <2>1
  <2>8. StepSound(k)' BY <1>f, <2>1 DEF StepSound, Idle
  <2>9. ASSUME NEW i \in Rounds, row'[i] # row[i] PROVE RoundSound(i)'
    <3>1. i = r /\ row'[i].market = row[i].market BY <2>3, <2>9
    <3>2. row[i] # NoRow BY <2>2, <3>1, RowIs
    <3> QED BY <1>r, <1>s, <3>1, <3>2, RoundStaysSound
  <2> QED BY <2>3, <2>7, <2>8, <2>9, SoundAfter
<1>9. ASSUME NEW k \in Workers, Cut(k) PROVE StatisticsIInv'
  <2>1. row' = row /\ w' = [w EXCEPT ![k] = Idle] BY <1>9 DEF Cut
  <2>2. \A q \in Workers : q # k => w'[q] = w[q] BY <1>f, <2>1
  <2>3. StepSound(k)' BY <1>f, <2>1 DEF StepSound, Idle
  <2> QED BY <2>1, <2>2, <2>3, SoundAfter
<1>10. ASSUME NEW r \in Rounds,
              StoreWinners(r) \/ StoreFinal(r) \/ ChangeEntry(r) \/ RegisterSystem(r)
       PROVE  StatisticsIInv'
  <2>1. row' = row /\ w' = w BY <1>10 DEF StoreWinners, StoreFinal, ChangeEntry, RegisterSystem
  <2> QED BY <2>1, SoundBeside
<1>11. ASSUME PassTime PROVE StatisticsIInv'
  <2>1. ASSUME NEW r \in Rounds
        PROVE  /\ row[r] = NoRow => row'[r] = NoRow
               /\ row[r] # NoRow =>
                    /\ row'[r].token = row[r].token
                    /\ SameDecision(row'[r].form, row[r].form)
                    /\ SameDecision(row'[r].market, row[r].market)
    <3>1. row[r] # NoRow => IsRow(row[r]) BY <1>s DEF ShapesOK
    <3> QED BY <1>11, <3>1, PassedRowIs DEF PassTime
  <2>2. ASSUME NEW r \in Rounds PROVE RoundSound(r)'
    <3>1. CASE row[r] = NoRow BY <2>1, <3>1 DEF RoundSound
    <3>2. CASE row[r] # NoRow BY <1>r, <1>s, <2>1, <3>2, RoundStaysSound DEF SameDecision
    <3> QED BY <3>1, <3>2
  <2>3. ASSUME NEW q \in Workers PROVE StepSound(q)'
    <3>1. KeptRequest(w[q], w'[q]) BY <1>11, <1>s, OlderIs
    <3>2. w[q].pc # "idle" => w[q].round \in Rounds /\ IsRow(row[w[q].round]) BY <1>s, RequestIs
    <3>3. w[q].pc # "idle" => row[w[q].round] # NoRow BY <3>2, RowIs
    <3> QED BY <1>q, <1>s, <2>1, <3>1, <3>2, <3>3, BystanderSound
  <2> QED BY <1>s, <2>2, <2>3 DEF StatisticsIInv
<1>12. CASE UNCHANGED vars
  <2>1. row' = row /\ w' = w BY <1>12 DEF vars
  <2> QED BY <2>1, SoundBeside
<1> QED BY <1>1, <1>2, <1>3, <1>4, <1>5, <1>6, <1>7, <1>8, <1>9, <1>10, <1>11, <1>12
  DEF Next, Step, BeginNext, BeginNamed, Due

LEMMA StatisticsInvariant == Spec => []StatisticsIInv
BY StatisticsStarts, StatisticsKeeps, PTL DEF Spec

\* A closing market is given up on an input only while that input is what the
\* archived game cannot close, in every interleaving of requests and facts.
THEOREM StatisticsGivenUpRightly == Spec => []GivenUpRightly
<1>1. StatisticsIInv => GivenUpRightly
  <2> SUFFICES ASSUME StatisticsIInv, NEW r \in Stored,
                      row[r].market.terminal = MarketInput(Audit(r)),
                      MarketFound(Audit(r)) = "pending"
               PROVE  ~ (active[r] \subseteq Priced /\ Priced \subseteq known[r])
    BY DEF GivenUpRightly
  <2>1. r \in Rounds /\ row[r] # NoRow BY DEF Stored
  <2>2. ShapesOK /\ RoundSound(r) BY <2>1 DEF StatisticsIInv
  <2>3. Justified(row[r].market.terminal, r) BY <2>1, <2>2 DEF RoundSound
  <2>4. /\ Audit(r) \in AuditRows
        /\ Audit(r).final = final[r] /\ Audit(r).version = version[r] /\ Audit(r).active = active[r]
    BY <2>1, <2>2, AuditIs DEF ShapesOK
  <2>5. row[r].market.terminal # None
    <3>1. IsRow(row[r]) BY <2>1, <2>2 DEF ShapesOK
    <3>2. MarketInput(Audit(r)) \in MarketInputs
      BY <2>4, <3>1, MarketControlIs DEF IsRow, SameDecision
    <3>3. None \notin MarketInputs BY NoneAssumption DEF MarketInputs
    <3> QED BY <3>2, <3>3
  <2>6. row[r].market.terminal[4] = version[r] BY <2>4 DEF MarketInput
  <2>7. final[r] /\ Unclosable(r) BY <2>3, <2>5, <2>6 DEF Justified
  <2>8. active[r] # {} BY <2>4, <2>7 DEF MarketFound
  <2> QED BY <2>7, <2>8 DEF Unclosable
<1> QED BY <1>1, StatisticsInvariant, PTL

\* Only the holder of a lease changes what a row has decided.
LEMMA RowsFollow ==
  ASSUME ShapesOK, [Next]_vars, NEW r \in Stored
  PROVE  \/ SameDecision(row[r].form, row'[r].form) /\ SameDecision(row[r].market, row'[r].market)
         \/ \E k \in Workers : Persist(k) /\ Holds(k) /\ w[k].round = r /\ row'[r] = Recorded(k)
<1> DEFINE Same == SameDecision(row[r].form, row'[r].form)
                   /\ SameDecision(row[r].market, row'[r].market)
<1>1. r \in Rounds /\ row[r] # NoRow /\ IsRow(row[r]) BY DEF Stored, ShapesOK
<1>2. CASE row'[r] = row[r] BY <1>2 DEF SameDecision
<1>3. ASSUME NEW k \in Workers, NEW i \in Rounds, Begin(k, i) PROVE Same
  <2>1. row' = [Queued EXCEPT ![i].token = k, ![i].live = TRUE] BY <1>3 DEF Begin
  <2>2. Queued[r] = row[r] /\ DOMAIN Queued = Rounds BY <1>1, QueuedIs
  <2>3. row'[r] \in {row[r], [row[r] EXCEPT !.token = k, !.live = TRUE]} BY <1>1, <2>1, <2>2
  <2>4. row'[r].form = row[r].form /\ row'[r].market = row[r].market BY <1>1, <2>3 DEF IsRow
  <2> QED BY <2>4 DEF SameDecision
<1>4. ASSUME NEW k \in Workers, Persist(k), row'[r] # row[r]
      PROVE  Holds(k) /\ w[k].round = r /\ row'[r] = Recorded(k)
  BY <1>1, <1>4 DEF Persist, ShapesOK
<1>5. ASSUME NEW k \in Workers, FailAudit(k) PROVE Same
  <2>1. w[k].round \in Rounds /\ IsRow(row[w[k].round]) BY <1>5, RequestIs DEF FailAudit
  <2>2. \/ row' = row
        \/ /\ \A i \in Rounds : i # w[k].round => row'[i] = row[i]
           /\ row'[w[k].round].form = row[w[k].round].form
           /\ row'[w[k].round].market = row[w[k].round].market
    BY <1>5, <2>1, FailedAuditIs
  <2> QED BY <1>1, <2>2 DEF SameDecision
<1>6. ASSUME PassTime PROVE Same
  <2>1. row'[r] = [row[r] EXCEPT !.next = Since(@, 1), !.live = FALSE,
                                 !.form = NearerControl(@), !.market = NearerControl(@)]
    BY <1>1, <1>6 DEF PassTime
  <2>2. SameDecision(row'[r].form, row[r].form) /\ SameDecision(row'[r].market, row[r].market)
    BY <1>1, <2>1, PassedRowIs
  <2> QED BY <2>2 DEF SameDecision
<1> QED BY <1>2, <1>3, <1>4, <1>5, <1>6
  DEF Next, Step, BeginNext, BeginNamed, FirstAudit, RepairMarket, AfterRepair, ReplayForm,
      AfterReplay, Cut, StoreWinners, StoreFinal, ChangeEntry, RegisterSystem, vars, Due

\* A decision that stands is neither forgotten nor overwritten, the holder of a
\* lease replays no Form that is decided, and its failures count or decide -
\* whatever requests overlap, outlive their lease or are cut off.
THEOREM StatisticsDecisionsStand == Spec => DecisionsStand
<1> DEFINE Standing ==
      /\ \A r \in Stored : /\ Stands(row[r].form, row'[r].form)
                           /\ Stands(row[r].market, row'[r].market)
      /\ \A k \in Workers : LET c == row[w[k].round].form IN
             /\ ReplayForm(k) /\ Holds(k) => w[k].form.input # c.terminal
             /\ Persist(k) /\ Holds(k) /\ w[k].class = "other" =>
                    Counts(c, row'[w[k].round].form)
<1>1. ASSUME StatisticsIInv, [Next]_vars PROVE Standing
  <2>0. ShapesOK BY <1>1 DEF StatisticsIInv
  <2>1. ASSUME NEW k \in Workers, Persist(k), Holds(k)
        PROVE  /\ row'[w[k].round] = Recorded(k)
               /\ Stands(row[w[k].round].form, Recorded(k).form)
               /\ Stands(row[w[k].round].market, Recorded(k).market)
               /\ w[k].class = "other" => Counts(row[w[k].round].form, Recorded(k).form)
    <3>1. w[k].pc = "persist" /\ w[k].round \in Rounds /\ IsEnding(w[k])
      BY <2>0, <2>1, RequestIs DEF Persist, Ending
    <3>2. HolderSound(w[k], row[w[k].round])
      BY <1>1, <2>1, <3>1 DEF StatisticsIInv, StepSound
    <3>3. /\ Stands(row[w[k].round].form, w[k].form) /\ Stands(row[w[k].round].market, w[k].mk)
          /\ w[k].class = "other" => Counts(row[w[k].round].form, w[k].form)
      BY <3>1, <3>2 DEF HolderSound, Ending
    <3>4. IsControl(w[k].form, FormInputs) /\ IsControl(w[k].mk, MarketInputs)
      BY <3>1 DEF IsEnding
    <3>5. /\ SameDecision(Recorded(k).form, w[k].form) /\ Recorded(k).form.status = w[k].form.status
          /\ SameDecision(Recorded(k).market, w[k].mk) /\ Recorded(k).market.status = w[k].mk.status
      <4>1. /\ Recorded(k).form = ToRow(w[k].form, w[k].age)
            /\ Recorded(k).market = ToRow(w[k].mk, w[k].age)
        BY <3>1, RecordedIs
      <4>2. /\ SameDecision(ToRow(w[k].form, w[k].age), w[k].form)
            /\ ToRow(w[k].form, w[k].age).status = w[k].form.status
        BY <3>4, TimesDecideNothing
      <4>3. /\ SameDecision(ToRow(w[k].mk, w[k].age), w[k].mk)
            /\ ToRow(w[k].mk, w[k].age).status = w[k].mk.status
        BY <3>4, TimesDecideNothing
      <4> QED BY <4>1, <4>2, <4>3
    <3>6. row'[w[k].round] = Recorded(k) BY <2>0, <2>1, <3>1 DEF Persist, ShapesOK
    <3> QED BY <3>3, <3>5, <3>6 DEF Stands, Counts, SameDecision
  <2>2. ASSUME NEW r \in Stored
        PROVE  Stands(row[r].form, row'[r].form) /\ Stands(row[r].market, row'[r].market)
    <3>1. CASE /\ SameDecision(row[r].form, row'[r].form)
               /\ SameDecision(row[r].market, row'[r].market)
      BY <3>1 DEF SameDecision, Stands
    <3>2. CASE \E k \in Workers : Persist(k) /\ Holds(k) /\ w[k].round = r /\ row'[r] = Recorded(k)
      BY <2>1, <3>2
    <3> QED BY <1>1, <2>0, <3>1, <3>2, RowsFollow
  <2>3. ASSUME NEW k \in Workers, ReplayForm(k), Holds(k)
        PROVE  w[k].form.input # row[w[k].round].form.terminal
    <3>1. w[k].pc = "replay" BY <2>3 DEF ReplayForm
    <3> QED BY <1>1, <2>3, <3>1 DEF StatisticsIInv, StepSound, HolderSound
  <2> QED BY <2>1, <2>2, <2>3
<1>2. StatisticsIInv /\ [Next]_vars => [Standing]_vars BY <1>1
<1>3. Spec => [][Standing]_vars
  <2> HIDE DEF Standing
  <2> QED BY <1>2, StatisticsInvariant, PTL DEF Spec
<1> QED BY <1>3 DEF DecisionsStand

=============================================================================
