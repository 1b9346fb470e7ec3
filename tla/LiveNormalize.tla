---------------------------- MODULE LiveNormalize ----------------------------
(***************************************************************************)
(* Normalization of the captured snapshots of one upcoming V85/V86 game.   *)
(* A snapshot holds N starts; each step maps one of them, so that a round  *)
(* is spread over several invocations.  The automatic normalizer of the    *)
(* morning run resumes from official_live_normalization_state, the         *)
(* operator's POST /v1/provider/normalize from the cursor of the request.  *)
(*                                                                         *)
(* Sources are numbered in the order of fetched_at.  The race is within    *)
(* the three-day window of the selection.  The source_gap branch of the    *)
(* automatic step is left out: no validation of today's code raises the    *)
(* error it waits for, and its mark survives in older rows only.           *)
(***************************************************************************)
EXTENDS Naturals, FiniteSets

CONSTANTS
    Workers,     \* automatic normalizations that may overlap
    Operators,   \* callers of POST /v1/provider/normalize
    K,           \* snapshots captured of the game
    N,           \* starts of the game
    Limit,       \* MAX_AUTO_NORMALIZE_FAILURES
    MaxSteps,    \* steps of one automatic invocation
    Careless,    \* sources whose operator sends any cursor, not just one it was given
    MaxMishaps   \* bound: failed and killed invocations

ASSUME SizeAssumption == {K, N, Limit, MaxSteps} \subseteq Nat \ {0}
ASSUME BoundAssumption == MaxMishaps \in Nat
ASSUME ActorAssumption == Workers \cap Operators = {}

VARIABLES
    quality,       \* source_records.quality_status, "none" before the capture
    owned,         \* sources of the post-race settlement
    row,           \* official_live_normalization_state.status, "none" without a row
    next_cursor, failure_count,
    observed,      \* starts with a race_entry observation of the source
    whole,         \* starts whose equipment, market and odds are stored too
    audit,         \* cursors of the successful import_runs of stage entry
    handed,        \* cursors a response has named for the source
    pc, src, cursor, steps, \* of an invocation
    mishaps

state == <<row, next_cursor, failure_count>>
facts == <<quality, owned, observed, whole, audit>>
local == <<src, cursor, steps>>
vars == <<state, facts, handed, pc, local, mishaps>>

Sources == 1 .. K
Starts == 0 .. (N - 1)
Actors == Workers \cup Operators
Prefix(c) == {i \in Starts : i < c}

Init ==
    /\ \E gap \in SUBSET {1} :
         quality = [s \in Sources |-> IF s \in gap THEN "captured_source_gap" ELSE "none"]
    /\ owned = {}
    /\ row = [s \in Sources |-> "none"]
    /\ next_cursor = [s \in Sources |-> 0]
    /\ failure_count = [s \in Sources |-> 0]
    /\ observed = [s \in Sources |-> {}]
    /\ whole = [s \in Sources |-> {}]
    /\ audit = [s \in Sources |-> {}]
    /\ handed = [s \in Sources |-> {0}]
    /\ pc = [a \in Actors |-> "idle"]
    /\ src = [a \in Actors |-> 1]
    /\ cursor = [a \in Actors |-> 0]
    /\ steps = [a \in Actors |-> 0]
    /\ mishaps = 0

\* an invocation goes on, or ends and forgets what it held
Goes(a, label) == pc' = [pc EXCEPT ![a] = label] /\ UNCHANGED local
Ends(a) == /\ pc' = [pc EXCEPT ![a] = "idle"]
           /\ src' = [src EXCEPT ![a] = 1]
           /\ cursor' = [cursor EXCEPT ![a] = 0]
           /\ steps' = [steps EXCEPT ![a] = 0]

-----------------------------------------------------------------------------
(* Capture: the scheduled one opens a state row, the provider route and the *)
(* settlement of the played round do not.                                   *)

Uncaptured(s) == quality[s] = "none" /\ \A t \in Sources : t < s => quality[t] # "none"

CaptureScheduled(s) ==
    /\ Uncaptured(s)
    /\ quality' = [quality EXCEPT ![s] = "captured_unmapped"]
    /\ row' = [row EXCEPT ![s] = "running"]
    /\ UNCHANGED <<owned, next_cursor, failure_count, observed, whole, audit,
                   handed, pc, local, mishaps>>

CaptureByHand(s) ==
    /\ Uncaptured(s)
    /\ quality' = [quality EXCEPT ![s] = "captured_unmapped"]
    /\ UNCHANGED <<state, owned, observed, whole, audit, handed, pc, local, mishaps>>

\* finalizeRoundGame captures the final game under its own name ...
CaptureFinal(s) ==
    /\ Uncaptured(s)
    /\ quality' = [quality EXCEPT ![s] = "captured_unmapped"]
    /\ owned' = owned \cup {s}
    /\ UNCHANGED <<state, observed, whole, audit, handed, pc, local, mishaps>>

\* ... and, with the payout stored, marks that source without mapping a start.
MarkFinal(s) ==
    /\ s \in owned
    /\ quality' = [quality EXCEPT ![s] = "normalized"]
    /\ UNCHANGED <<state, owned, observed, whole, audit, handed, pc, local, mishaps>>

-----------------------------------------------------------------------------
(* The automatic normalizer.                                                *)

\* mutant: any later snapshot supersedes
NewestOfAll(s) == /\ s \notin owned
                  /\ \A t \in Sources : t > s => quality[t] = "none"

Newest(s) == /\ s \notin owned
             /\ \A t \in Sources : t > s => quality[t] = "none" \/ t \in owned

\* selectPendingOfficialGameSource
Pending(s) ==
    /\ quality[s] \in {"captured_unmapped", "captured_source_gap"}
    /\ Newest(s)
    /\ row[s] # "source_gap"
    /\ quality[s] = "captured_source_gap" \/ failure_count[s] < Limit

Select(w) ==
    /\ pc[w] = "idle"
    /\ \E s \in Sources : Pending(s) /\ src' = [src EXCEPT ![w] = s]
    /\ pc' = [pc EXCEPT ![w] = "read"]
    /\ UNCHANGED <<state, facts, handed, cursor, steps, mishaps>>

\* mutant: the observations stand in for the audit log
ReadCursorFromObservations(w) ==
    /\ pc[w] = "read"
    /\ LET s == src[w]
           c == IF row[s] = "none" THEN Cardinality(observed[s]) ELSE next_cursor[s]
       IN  /\ cursor' = [cursor EXCEPT ![w] = c]
           /\ next_cursor' = [next_cursor EXCEPT ![s] = c]
           /\ row' = [row EXCEPT ![s] = IF @ = "none" THEN "running" ELSE @]
    /\ pc' = [pc EXCEPT ![w] = "begin"]
    /\ UNCHANGED <<failure_count, facts, handed, src, steps, mishaps>>

\* completedNormalizationCursor: the row, or once the audit log of a source
\* without a row.  A log with a hole in it is refused.
ReadCursor(w) ==
    /\ pc[w] = "read"
    /\ LET s == src[w]
           From(c) == /\ pc' = [pc EXCEPT ![w] = "begin"]
                      /\ cursor' = [cursor EXCEPT ![w] = c]
                      /\ UNCHANGED <<src, steps>>
       IN  \/ row[s] # "none" /\ From(next_cursor[s]) /\ UNCHANGED state
           \/ /\ row[s] = "none"
              /\ \E c \in 0 .. N :
                   /\ audit[s] = Prefix(c)
                   /\ From(c)
                   /\ next_cursor' = [next_cursor EXCEPT ![s] = c]
              /\ row' = [row EXCEPT ![s] = "running"]
              /\ UNCHANGED failure_count
           \/ /\ row[s] = "none"
              /\ \A c \in 0 .. N : audit[s] # Prefix(c)
              /\ Ends(w)
              /\ UNCHANGED state
    /\ UNCHANGED <<facts, handed, mishaps>>

-----------------------------------------------------------------------------
(* One step of either caller.                                               *)

\* an operator's request
Request(o) ==
    /\ pc[o] = "idle"
    /\ \E s \in Sources, c \in 0 .. N :
         /\ quality[s] # "none"
         /\ s \in Careless \/ c \in handed[s]
         /\ src' = [src EXCEPT ![o] = s]
         /\ cursor' = [cursor EXCEPT ![o] = c]
    /\ pc' = [pc EXCEPT ![o] = "begin"]
    /\ UNCHANGED <<state, facts, handed, steps, mishaps>>

\* normalizeCapturedOfficialGameSequential: what the observations let pass
Admitted(s, c) == c <= Cardinality(observed[s])

\* the automatic normalizer goes on to its state row, the operator's route answers
Returns(a, label) == IF a \in Workers THEN Goes(a, label) ELSE Ends(a)

\* mutant: one start too many
BeginPastEnd(a) ==
    /\ pc[a] = "begin"
    /\ IF quality[src[a]] = "normalized" THEN Returns(a, "completed")
       ELSE Goes(a, IF cursor[a] > N THEN "finalize" ELSE "observe")
    /\ UNCHANGED <<state, facts, handed, mishaps>>

\* mutant: finalizes as soon as the game has its entries, from any snapshot
BeginByEntries(a) ==
    /\ pc[a] = "begin"
    /\ Admitted(src[a], cursor[a])
    /\ IF quality[src[a]] = "normalized" THEN Returns(a, "completed")
       ELSE Goes(a, IF UNION {observed[s] : s \in Sources} = Starts
                    THEN "finalize" ELSE "observe")
    /\ UNCHANGED <<state, facts, handed, mishaps>>

\* the branch of normalizeCapturedOfficialGameChunk
Begin(a) ==
    /\ pc[a] = "begin"
    /\ Admitted(src[a], cursor[a])
    /\ IF quality[src[a]] = "normalized" THEN Returns(a, "completed")
       ELSE Goes(a, IF cursor[a] = N THEN "finalize" ELSE "observe")
    /\ UNCHANGED <<state, facts, handed, mishaps>>

\* mapOneStart as far as the race entry and its observation
Observe(a) ==
    /\ pc[a] = "observe"
    /\ observed' = [observed EXCEPT ![src[a]] = @ \cup {cursor[a]}]
    /\ Goes(a, "fill")
    /\ UNCHANGED <<state, quality, owned, whole, audit, handed, mishaps>>

\* the rest of mapOneStart: equipment, betting, odds, and the audit row
Fill(a) ==
    /\ pc[a] = "fill"
    /\ LET s == src[a] IN
         /\ whole' = [whole EXCEPT ![s] = @ \cup {cursor[a]}]
         /\ audit' = [audit EXCEPT ![s] = @ \cup {cursor[a]}]
         /\ handed' = [handed EXCEPT ![s] =
                         IF a \in Operators THEN @ \cup {cursor[a] + 1} ELSE @]
    /\ Returns(a, "store")
    /\ UNCHANGED <<state, quality, owned, observed, mishaps>>

\* finalizeNormalization: the game has its eight legs and N entries, whichever
\* snapshot they were mapped from (after Begin it always has)
Finalize(a) ==
    /\ pc[a] = "finalize"
    /\ UNION {observed[s] : s \in Sources} = Starts
    /\ quality' = [quality EXCEPT ![src[a]] = "normalized"]
    /\ Returns(a, "completed")
    /\ UNCHANGED <<state, owned, observed, whole, audit, handed, mishaps>>

\* mutant: the last start completes the row
StoreProgressCompletes(w) ==
    /\ pc[w] = "store"
    /\ row' = [row EXCEPT ![src[w]] = IF cursor[w] + 1 = N THEN "completed" ELSE "running"]
    /\ next_cursor' = [next_cursor EXCEPT ![src[w]] = cursor[w] + 1]
    /\ Ends(w)
    /\ UNCHANGED <<failure_count, facts, handed, mishaps>>

\* storeNormalizationProgress after a start; the last step's cursor is answered
StoreProgress(w) ==
    /\ pc[w] = "store"
    /\ row' = [row EXCEPT ![src[w]] = "running"]
    /\ next_cursor' = [next_cursor EXCEPT ![src[w]] = cursor[w] + 1]
    /\ IF steps[w] + 1 < MaxSteps
       THEN /\ pc' = [pc EXCEPT ![w] = "begin"]
            /\ cursor' = [cursor EXCEPT ![w] = @ + 1]
            /\ steps' = [steps EXCEPT ![w] = @ + 1]
            /\ UNCHANGED <<src, handed>>
       ELSE /\ Ends(w)
            /\ handed' = [handed EXCEPT ![src[w]] = @ \cup {cursor[w] + 1}]
    /\ UNCHANGED <<failure_count, facts, mishaps>>

\* storeNormalizationProgress after the last step
StoreCompleted(w) ==
    /\ pc[w] = "completed"
    /\ row' = [row EXCEPT ![src[w]] = "completed"]
    /\ next_cursor' = [next_cursor EXCEPT ![src[w]] = N]
    /\ Ends(w)
    /\ UNCHANGED <<failure_count, facts, handed, mishaps>>

-----------------------------------------------------------------------------
(* Errors.                                                                  *)

\* recordNormalizationFailure; the operator's route only answers the error
RecordFailure(a) ==
    /\ IF a \in Workers
       THEN LET s == src[a] IN
              /\ failure_count' = [failure_count EXCEPT ![s] = @ + 1]
              /\ row' = [row EXCEPT ![s] = IF failure_count[s] + 1 >= Limit
                                           THEN "failed" ELSE "running"]
       ELSE UNCHANGED <<failure_count, row>>
    /\ Ends(a)
    /\ UNCHANGED <<next_cursor, facts, handed>>

\* "cursor cannot skip unfinished entries"
Refuse(a) ==
    /\ pc[a] = "begin"
    /\ ~Admitted(src[a], cursor[a])
    /\ RecordFailure(a)
    /\ UNCHANGED mishaps

\* a failed read of D1 or of the bucket, or a failed write
Fail(a) ==
    /\ pc[a] \notin {"idle", "read"}
    /\ mishaps < MaxMishaps
    /\ mishaps' = mishaps + 1
    /\ RecordFailure(a)

\* the invocation ends, by its runtime or before the loop's error handling
Kill(a) ==
    /\ pc[a] # "idle"
    /\ mishaps < MaxMishaps
    /\ mishaps' = mishaps + 1
    /\ Ends(a)
    /\ UNCHANGED <<state, facts, handed>>

-----------------------------------------------------------------------------
Step(a) == Begin(a) \/ Observe(a) \/ Fill(a) \/ Finalize(a) \/ Refuse(a)

Automatic(w) == Select(w) \/ ReadCursor(w) \/ StoreProgress(w) \/ StoreCompleted(w)

Next ==
    \/ \E s \in Sources : \/ CaptureScheduled(s) \/ CaptureByHand(s)
                          \/ CaptureFinal(s) \/ MarkFinal(s)
    \/ \E w \in Workers : Automatic(w)
    \/ \E o \in Operators : Request(o)
    \/ \E a \in Actors : Step(a) \/ Fail(a) \/ Kill(a)

Spec == Init /\ [][Next]_vars

\* The morning run comes back every day and an invocation that is not killed
\* takes its next step; captures, requests, failures and kills owe nothing.
FairSpec == Spec /\ \A w \in Workers : WF_vars(Automatic(w) \/ Step(w))

-----------------------------------------------------------------------------
(* Properties.                                                              *)

\* Every variable stays in its range.
TypeOK ==
    /\ quality \in [Sources -> {"none", "captured_unmapped", "captured_source_gap",
                                "normalized"}]
    /\ owned \subseteq Sources
    /\ row \in [Sources -> {"none", "running", "failed", "completed"}]
    /\ next_cursor \in [Sources -> 0 .. N]
    /\ failure_count \in [Sources -> Nat]
    /\ observed \in [Sources -> SUBSET Starts]
    /\ whole \in [Sources -> SUBSET Starts]
    /\ audit \in [Sources -> SUBSET Starts]
    /\ handed \in [Sources -> SUBSET (0 .. N)]
    /\ pc \in [Actors -> {"idle", "read", "begin", "observe", "fill", "finalize",
                          "store", "completed"}]
    /\ src \in [Actors -> Sources]
    /\ cursor \in [Actors -> 0 .. N]
    /\ steps \in [Actors -> 0 .. MaxSteps]
    /\ mishaps \in 0 .. MaxMishaps

\* The README's "resumes only from successful contiguous checkpoints": every
\* start before a stored or an answered cursor has been mapped to its last
\* row, whoever mapped it and whatever failed or overlapped meanwhile.
CheckpointIsWhole ==
    \A s \in Sources \ Careless : \A c \in handed[s] \cup {next_cursor[s]} : Prefix(c) \subseteq whole[s]

\* A source is marked normalized_verified_subset only when each of its starts
\* has its entry, equipment, market and odds: the quality check that follows
\* and the promotions of the morning take the mark for that.  The exception is
\* the final snapshot, which the settlement marks for its payout alone; the
\* settlement marks no snapshot but its own.
NormalizedIsWhole ==
    \A s \in Sources \ (Careless \cup owned) :
        quality[s] = "normalized" => whole[s] = Starts

\* A state row says completed only of a source whose mark was written first,
\* although a slower invocation may still store its own progress over the row.
CompletedIsNormalized ==
    \A s \in Sources : row[s] = "completed" => quality[s] = "normalized"

\* The newest snapshot of a game is not left unmapped: it is normalized,
\* superseded by a newer one, or has used up its failures.  A final snapshot
\* owned by the settlement neither waits here nor supersedes.
NewestSettles ==
    \A s \in Sources \ Careless :
        (quality[s] = "captured_unmapped" /\ s \notin owned) ~>
            \/ quality[s] = "normalized"
            \/ \E t \in Sources : t > s /\ quality[t] # "none" /\ t \notin owned
            \/ failure_count[s] >= Limit

\* The guard's own "cursor cannot skip unfinished entries": no step maps a
\* start, or finalizes, while an earlier start lacks some of its rows.
SkipsNothing ==
    \A a \in Actors : pc[a] \in {"observe", "fill", "finalize"} =>
        Prefix(cursor[a]) \subseteq whole[src[a]]

=============================================================================
