----------------------------- MODULE PositionJobs -----------------------------
(***************************************************************************)
(* The jobs that derive positions from captured telemetry                    *)
(* (xlabs-position-reconstruction-v1.js): a job walks through the captures of  *)
(* a range of races in the order of race, instant of capture and id, one       *)
(* capture a request.  A request has no lease: it reads the job's row once,    *)
(* looks for the next capture after the cursor it read, derives and stores     *)
(* its rows in several batches, and writes the job's row without a condition,  *)
(* so requests overlap and a killed one leaves part of the rows behind.        *)
(*                                                                           *)
(* The rows of a capture are counted in the order they are stored:            *)
(* checkpoints, episodes, summaries, places.  They are inserted under ids made *)
(* of the capture, with DO NOTHING, so storing them again changes nothing.     *)
(***************************************************************************)
EXTENDS Integers, FiniteSets

CONSTANTS
    Races,          \* the races, in the order of their external ids
    Ids,            \* ids of captures
    Callers,        \* requests that may be at work at the same time
    Jobs,           \* job ids, in the order of creation
    LastCapture,    \* bound: the last instant of a capture
    ErrorLimit,     \* failures in a row that end a job, 3
    Batches         \* bound: batches the rows of a capture are stored in

ASSUME PositionAssumption ==
    /\ Races \subseteq Nat /\ Ids \subseteq Nat /\ Jobs \subseteq Nat
    /\ LastCapture \in Nat /\ ErrorLimit \in Nat \ {0} /\ Batches \in Nat

VARIABLES
    captures,       \* source_records of telemetry: [race, fetched, id, kind]
    stored,         \* how many of the batches of a capture are stored
    jobs,           \* the job rows, by id
    quarantine,     \* <<job, capture>>: set aside for its contents
    request,        \* what every request is doing
    missed          \* ghost: <<job, capture>>, captured too late for the job

positionVars == <<captures, stored, jobs, quarantine, request, missed>>


Kinds == {"sound", "duplicate_target", "unresolved"}
Instants == 0 .. LastCapture
Captures == [race : Races, fetched : Instants, id : Ids, kind : Kinds]
NoCapture == [race |-> -1, fetched |-> 0, id |-> 0, kind |-> "sound"]
AtRest == [at |-> "idle"]
NoJob == [status |-> "none"]

JobRows == [status : {"running", "completed", "failed"}, from : Races, to : Races,
            cursor : Captures \cup {NoCapture}, errors : Nat]

AtCapture == {"derive", "store", "advance", "quarantine", "fail"}
RequestRows ==
    {AtRest} \cup [at : {"choose", "finish"}, job : Jobs, cursor : Captures \cup {NoCapture}, errors : Nat]
           \cup [at : AtCapture, job : Jobs, cursor : Captures \cup {NoCapture}, errors : Nat, capture : Captures]

PositionTypeOK ==
    /\ captures \subseteq Captures
    /\ \A c, d \in captures : c.id = d.id => c = d
    /\ stored \in [Ids -> 0 .. Batches]
    /\ jobs \in [Jobs -> JobRows \cup {NoJob}]
    /\ quarantine \subseteq Jobs \X Captures
    /\ request \in [Callers -> RequestRows]
    /\ missed \subseteq Jobs \X Captures

PositionInit ==
    /\ captures = {}
    /\ stored = [i \in Ids |-> 0]
    /\ jobs = [j \in Jobs |-> NoJob]
    /\ quarantine = {}
    /\ request = [r \in Callers |-> AtRest]
    /\ missed = {}

(***************************************************************************)
(* The order of captures, and the one a job takes next.                      *)
(***************************************************************************)
Precedes(c, d) ==
    \/ c.race < d.race
    \/ c.race = d.race /\ c.fetched < d.fetched
    \/ c.race = d.race /\ c.fetched = d.fetched /\ c.id < d.id

InRange(j, c) == jobs[j].status # "none" /\ jobs[j].from <= c.race /\ c.race <= jobs[j].to

OpenByRace(j, cursor) == {c \in captures : InRange(j, c) /\ cursor.race < c.race}
Open(j, cursor) == {c \in captures : InRange(j, c) /\ Precedes(cursor, c)}
NextCaptures(j, cursor) == {c \in Open(j, cursor) : \A d \in Open(j, cursor) : d = c \/ Precedes(c, d)}

(***************************************************************************)
(* Captures arrive, whatever the jobs are doing, and the X-Labs backfill       *)
(* derives the rows of a sound capture too.                                   *)
(***************************************************************************)
\* nothing looks for a capture in front of what a request has read or chosen,
\* and the job's own cursor may lie before it: an overlapping request sets it back
PassedBy(j, c) ==
    \/ jobs[j].status # "running"
    \/ ~Precedes(jobs[j].cursor, c)
    \/ \E r \in Callers :
        /\ request[r].at # "idle" /\ request[r].job = j
        /\ \/ request[r].at = "finish"
           \/ request[r].at = "choose" /\ ~Precedes(request[r].cursor, c)
           \/ request[r].at \in AtCapture /\ Precedes(c, request[r].capture)

Capture(c) ==
    /\ \A d \in captures : d.id # c.id /\ d.fetched <= c.fetched
    /\ captures' = captures \cup {c}
    /\ missed' = missed \cup {<<j, c>> : j \in {k \in Jobs : jobs[k].status # "none" /\ PassedBy(k, c)}}
    /\ UNCHANGED <<stored, jobs, quarantine, request>>

BackfillStores(c) ==
    /\ c.kind = "sound" /\ stored[c.id] < Batches
    /\ stored' = [stored EXCEPT ![c.id] = @ + 1]
    /\ UNCHANGED <<captures, jobs, quarantine, request, missed>>

(***************************************************************************)
(* Requests.                                                                 *)
(***************************************************************************)
CreateJob(j, from, to) ==
    /\ jobs[j].status = "none" /\ from <= to
    /\ \A k \in Jobs : k < j => jobs[k].status # "none"
    /\ jobs' = [jobs EXCEPT ![j] = [status |-> "running", from |-> from, to |-> to,
                                    cursor |-> NoCapture, errors |-> 0]]
    /\ UNCHANGED <<captures, stored, quarantine, request, missed>>

\* named, or the oldest that is running; any other job is only reported
LoadJob(r, j) ==
    /\ request[r] = AtRest /\ jobs[j].status = "running"
    /\ request' = [request EXCEPT ![r] = [at |-> "choose", job |-> j,
                                          cursor |-> jobs[j].cursor, errors |-> jobs[j].errors]]
    /\ UNCHANGED <<captures, stored, jobs, quarantine, missed>>

Goto(r, place, c) ==
    request' = [request EXCEPT ![r] = [at |-> place, job |-> request[r].job, cursor |-> request[r].cursor,
                                       errors |-> request[r].errors, capture |-> c]]

Choose(r) ==
    /\ request[r].at = "choose"
    /\ IF Open(request[r].job, request[r].cursor) = {}
       THEN request' = [request EXCEPT ![r].at = "finish"]
       ELSE \E c \in NextCaptures(request[r].job, request[r].cursor) : Goto(r, "derive", c)
    /\ UNCHANGED <<captures, stored, jobs, quarantine, missed>>

FinishJob(r) ==
    /\ request[r].at = "finish"
    /\ jobs' = [jobs EXCEPT ![request[r].job].status = "completed"]
    /\ request' = [request EXCEPT ![r] = AtRest]
    /\ UNCHANGED <<captures, stored, quarantine, missed>>

Derive(r) ==
    /\ request[r].at = "derive"
    /\ Goto(r, CASE request[r].capture.kind = "sound" -> "store"
                 [] request[r].capture.kind = "duplicate_target" -> "quarantine"
                 [] OTHER -> "fail",
            request[r].capture)
    /\ UNCHANGED <<captures, stored, jobs, quarantine, missed>>

\* every batch is stored on its own; a row that exists stays as it is
Store(r) ==
    LET id == request[r].capture.id
    IN  /\ request[r].at = "store"
        /\ IF stored[id] < Batches
           THEN stored' = [stored EXCEPT ![id] = @ + 1] /\ UNCHANGED request
           ELSE Goto(r, "advance", request[r].capture) /\ UNCHANGED stored
        /\ UNCHANGED <<captures, jobs, quarantine, missed>>

\* a read or a batch of the database or the bucket fails
Breaks(r) ==
    /\ request[r].at \in {"derive", "store", "advance", "quarantine"}
    /\ Goto(r, "fail", request[r].capture)
    /\ UNCHANGED <<captures, stored, jobs, quarantine, missed>>

Advanced(job, c) == [job EXCEPT !.cursor = c, !.errors = 0]

Advance(r) ==
    /\ request[r].at = "advance"
    /\ jobs' = [jobs EXCEPT ![request[r].job] = Advanced(@, request[r].capture)]
    /\ request' = [request EXCEPT ![r] = AtRest]
    /\ UNCHANGED <<captures, stored, quarantine, missed>>

Quarantine(r) ==
    /\ request[r].at = "quarantine"
    /\ quarantine' = quarantine \cup {<<request[r].job, request[r].capture>>}
    /\ jobs' = [jobs EXCEPT ![request[r].job] = Advanced(@, request[r].capture)]
    /\ request' = [request EXCEPT ![r] = AtRest]
    /\ UNCHANGED <<captures, stored, missed>>

\* counted from the row as it was read, and the status is written either way
Fail(r) ==
    /\ request[r].at = "fail"
    /\ jobs' = [jobs EXCEPT ![request[r].job].errors = request[r].errors + 1,
                            ![request[r].job].status =
                                IF request[r].errors + 1 >= ErrorLimit THEN "failed" ELSE "running"]
    /\ request' = [request EXCEPT ![r] = AtRest]
    /\ UNCHANGED <<captures, stored, quarantine, missed>>

Killed(r) ==
    /\ request[r] # AtRest
    /\ request' = [request EXCEPT ![r] = AtRest]
    /\ UNCHANGED <<captures, stored, jobs, quarantine, missed>>

PositionStep(r) ==
    \/ \E j \in Jobs : LoadJob(r, j)
    \/ Choose(r) \/ FinishJob(r) \/ Derive(r) \/ Store(r) \/ Breaks(r)
    \/ Advance(r) \/ Quarantine(r) \/ Fail(r) \/ Killed(r)

PositionNext ==
    \/ \E c \in Captures : Capture(c)
    \/ \E c \in captures : BackfillStores(c)
    \/ \E j \in Jobs, from, to \in Races : CreateJob(j, from, to)
    \/ \E r \in Callers : PositionStep(r)

PositionSpec == PositionInit /\ [][PositionNext]_positionVars

(***************************************************************************)
(* Properties.                                                               *)
(***************************************************************************)
Covered(j, c) == stored[c.id] = Batches \/ <<j, c>> \in quarantine \/ <<j, c>> \in missed

(* A completed job has derived or set aside every capture of its range that   *)
(* was there before the job had passed its place: overlapping requests, a      *)
(* cursor that goes back, a failure between two batches or a job row written   *)
(* from a stale copy never lose one (stepXlabsPositionReconstructionJob).      *)
CompletedMeansCovered ==
    \A j \in Jobs : jobs[j].status = "completed" =>
        \A c \in captures : InRange(j, c) => Covered(j, c)
=============================================================================
