------------------------- MODULE LiveNormalize_proofs -------------------------
(***************************************************************************)
(* Proofs about LiveNormalize, for every number of snapshots, starts,      *)
(* normalizers, operators and failures.                                    *)
(*                                                                         *)
(* What a cursor claims is not inductive on its own: an invocation carries *)
(* its cursor in memory while others write, and a source without a state   *)
(* row is resumed from the audit log.  The invariant adds that the log     *)
(* names complete starts only and that the cursor in memory is covered.    *)
(* The automatic normalizer moreover never holds a snapshot owned by the   *)
(* settlement, whose mark says nothing of its starts.                      *)
(***************************************************************************)
EXTENDS LiveNormalize, TLAPS

\* The audit log names only starts that are completely mapped.
AuditIsWhole == \A s \in Sources : audit[s] \subseteq whole[s]

\* What an invocation at work knows: where its cursor stands, and that it is
\* covered by complete starts unless a careless operator chose it.
LabelSound(a) ==
    /\ pc[a] \in {"observe", "fill", "store"} => cursor[a] \in Starts
    /\ pc[a] = "finalize" => cursor[a] = N
    /\ pc[a] = "completed" => quality[src[a]] = "normalized"
CursorSound(a) ==
    src[a] \notin Careless =>
        /\ pc[a] \notin {"idle", "read"} => Prefix(cursor[a]) \subseteq whole[src[a]]
        /\ pc[a] = "store" => cursor[a] \in whole[src[a]]
InvocationsSound == \A a \in Actors : LabelSound(a) /\ CursorSound(a)

\* A snapshot in the hands of the automatic normalizer has been captured, and
\* not by the settlement.
HeldLive(w) == pc[w] # "idle" => quality[src[w]] # "none" /\ src[w] \notin owned
WorkersHoldLive == \A w \in Workers : HeldLive(w)

IInv == /\ TypeOK
        /\ CheckpointIsWhole
        /\ NormalizedIsWhole
        /\ CompletedIsNormalized
        /\ AuditIsWhole
        /\ InvocationsSound

USE DEF Actors, Sources, Starts

LEMMA Sizes == K \in Nat /\ N \in Nat /\ Limit \in Nat /\ MaxSteps \in Nat
                 /\ K > 0 /\ N > 0 /\ MaxSteps > 0
BY SizeAssumption

\* The starts before a cursor: none before 0, one more at each step, all of
\* them before N.
LEMMA Prefixes ==
    ASSUME NEW c \in 0 .. N
    PROVE  /\ Prefix(c) \in SUBSET Starts
           /\ c = 0 => Prefix(c) = {}
           /\ c \in Starts => Prefix(c + 1) = Prefix(c) \cup {c}
           /\ c = N => Prefix(c) = Starts
BY Sizes DEF Prefix

LEMMA InitIInv == Init => IInv
<1> SUFFICES ASSUME Init PROVE IInv
  OBVIOUS
<1>0. Prefix(0) = {}
  BY Sizes, Prefixes
<1>1. TypeOK
  BY Sizes, BoundAssumption DEF Init, TypeOK
<1>2. CheckpointIsWhole
  BY <1>0 DEF Init, CheckpointIsWhole
<1>3. NormalizedIsWhole /\ CompletedIsNormalized /\ AuditIsWhole
  BY DEF Init, NormalizedIsWhole, CompletedIsNormalized, AuditIsWhole
<1>4. InvocationsSound
  BY DEF Init, InvocationsSound, LabelSound, CursorSound
<1> QED
  BY <1>1, <1>2, <1>3, <1>4 DEF IInv

-----------------------------------------------------------------------------
(* What a step leaves alone.  A step moves one invocation, and the rows only *)
(* grow: complete starts stay complete and a mark stays.                     *)

Labels == {"idle", "read", "begin", "observe", "fill", "finalize", "store", "completed"}

RowsOK ==
    /\ quality \in [Sources -> {"none", "captured_unmapped", "captured_source_gap",
                                "normalized"}]
    /\ owned \subseteq Sources
    /\ row \in [Sources -> {"none", "running", "failed", "completed"}]
    /\ next_cursor \in [Sources -> 0 .. N]
    /\ failure_count \in [Sources -> Nat]
    /\ observed \in [Sources -> SUBSET Starts]
    /\ whole \in [Sources -> SUBSET Starts]
    /\ audit \in [Sources -> SUBSET Starts]
    /\ handed \in [Sources -> SUBSET (0 .. N)]

LocalsOK ==
    /\ pc \in [Actors -> Labels]
    /\ src \in [Actors -> Sources]
    /\ cursor \in [Actors -> 0 .. N]
    /\ steps \in [Actors -> 0 .. MaxSteps]

LEMMA TypeSplit == TypeOK <=> RowsOK /\ LocalsOK /\ mishaps \in 0 .. MaxMishaps
BY DEF TypeOK, RowsOK, LocalsOK, Labels

Others(a) == \A b \in Actors \ {a} : /\ pc'[b] = pc[b]
                                     /\ src'[b] = src[b]
                                     /\ cursor'[b] = cursor[b]

Grows == \A s \in Sources : /\ whole[s] \subseteq whole'[s]
                            /\ quality[s] = "normalized" => quality'[s] = "normalized"

LEMMA EndsLocal ==
    ASSUME LocalsOK, NEW a \in Actors, Ends(a)
    PROVE  LocalsOK' /\ Others(a) /\ LabelSound(a)' /\ CursorSound(a)'
<1>1. 1 \in Sources /\ 0 \in 0 .. N /\ 0 \in 0 .. MaxSteps
  BY Sizes
<1>2. LocalsOK' /\ Others(a) /\ pc'[a] = "idle"
  BY <1>1 DEF LocalsOK, Ends, Others, Labels
<1> QED
  BY <1>2 DEF LabelSound, CursorSound

LEMMA GoesLocal ==
    ASSUME LocalsOK, NEW a \in Actors, NEW label \in Labels, Goes(a, label)
    PROVE  LocalsOK' /\ Others(a) /\ pc'[a] = label /\ src' = src /\ cursor' = cursor
BY DEF LocalsOK, Goes, Others, local

\* A step that moves one invocation, keeps it sound and only lets the rows
\* grow keeps them all sound.
LEMMA OthersSound ==
    ASSUME LocalsOK, InvocationsSound, Grows, NEW a \in Actors, Others(a),
           LabelSound(a)', CursorSound(a)'
    PROVE  InvocationsSound'
<1> SUFFICES ASSUME NEW b \in Actors PROVE LabelSound(b)' /\ CursorSound(b)'
  BY DEF InvocationsSound
<1>1. CASE b = a
  BY <1>1
<1>2. CASE b # a
  <2>1. pc'[b] = pc[b] /\ src'[b] = src[b] /\ cursor'[b] = cursor[b] /\ src[b] \in Sources
    BY <1>2 DEF Others, LocalsOK
  <2>2. /\ whole[src[b]] \subseteq whole'[src[b]]
        /\ quality[src[b]] = "normalized" => quality'[src[b]] = "normalized"
    BY <2>1 DEF Grows
  <2>3. LabelSound(b) /\ CursorSound(b)
    BY DEF InvocationsSound
  <2> QED
    BY <2>1, <2>2, <2>3 DEF LabelSound, CursorSound
<1> QED
  BY <1>1, <1>2

\* The same when no invocation moves.
LEMMA NoneMoves ==
    ASSUME LocalsOK, InvocationsSound, Grows, UNCHANGED <<pc, local>>
    PROVE  LocalsOK' /\ InvocationsSound'
<1>1. LocalsOK'
  BY DEF LocalsOK, local
<1>2. SUFFICES ASSUME NEW b \in Actors PROVE LabelSound(b)' /\ CursorSound(b)'
  BY <1>1 DEF InvocationsSound
<1>3. src[b] \in Sources /\ LabelSound(b) /\ CursorSound(b)
  BY DEF LocalsOK, InvocationsSound
<1> QED
  BY <1>3 DEF LabelSound, CursorSound, Grows, local

\* The conjuncts about the rows that a step need not be asked about when it
\* leaves cursors, marks, complete starts and the log alone.
LEMMA RowsKept ==
    ASSUME CheckpointIsWhole, NormalizedIsWhole, CompletedIsNormalized, AuditIsWhole,
           UNCHANGED <<facts, handed, next_cursor, row>>
    PROVE  /\ CheckpointIsWhole' /\ NormalizedIsWhole'
           /\ CompletedIsNormalized' /\ AuditIsWhole' /\ Grows
BY DEF CheckpointIsWhole, NormalizedIsWhole, CompletedIsNormalized, AuditIsWhole, Grows, facts

-----------------------------------------------------------------------------
(* Each action preserves the invariant.                                     *)

LEMMA IInvParts ==
    IInv <=> /\ RowsOK /\ LocalsOK /\ mishaps \in 0 .. MaxMishaps
             /\ CheckpointIsWhole /\ NormalizedIsWhole /\ CompletedIsNormalized
             /\ AuditIsWhole /\ InvocationsSound
BY TypeSplit DEF IInv

LEMMA IInvNext ==
    ASSUME RowsOK', LocalsOK', mishaps' \in 0 .. MaxMishaps,
           CheckpointIsWhole', NormalizedIsWhole', CompletedIsNormalized',
           AuditIsWhole', InvocationsSound'
    PROVE  IInv'
BY DEF IInv, TypeOK, RowsOK, LocalsOK, Labels

LEMMA CaptureStep ==
    ASSUME IInv, NEW s \in Sources,
           CaptureScheduled(s) \/ CaptureByHand(s) \/ CaptureFinal(s)
    PROVE  IInv'
<1>0. RowsOK /\ LocalsOK /\ mishaps \in 0 .. MaxMishaps
  BY IInvParts
<1>1. /\ quality[s] = "none"
      /\ quality' = [quality EXCEPT ![s] = "captured_unmapped"]
      /\ owned' \in {owned, owned \cup {s}}
      /\ row' = row \/ row' = [row EXCEPT ![s] = "running"]
      /\ UNCHANGED <<next_cursor, failure_count, observed, whole, audit, handed,
                     pc, local, mishaps>>
  BY DEF CaptureScheduled, CaptureByHand, CaptureFinal, Uncaptured, state
<1>2. RowsOK' /\ Grows
  BY <1>0, <1>1 DEF RowsOK, Grows
<1>3. LocalsOK' /\ InvocationsSound'
  BY <1>0, <1>1, <1>2, NoneMoves, IInvParts
<1>4. CheckpointIsWhole' /\ AuditIsWhole'
  BY <1>1, IInvParts DEF CheckpointIsWhole, AuditIsWhole
<1>5. NormalizedIsWhole' /\ CompletedIsNormalized'
  BY <1>0, <1>1, IInvParts DEF RowsOK, NormalizedIsWhole, CompletedIsNormalized
<1> QED
  BY <1>0, <1>1, <1>2, <1>3, <1>4, <1>5, IInvParts, IInvNext

\* The settlement marks its own snapshot, about which nothing is claimed.
LEMMA MarkFinalStep ==
    ASSUME IInv, NEW s \in Sources, MarkFinal(s)
    PROVE  IInv'
<1>0. RowsOK /\ LocalsOK /\ mishaps \in 0 .. MaxMishaps
  BY IInvParts
<1>1. /\ s \in owned
      /\ quality' = [quality EXCEPT ![s] = "normalized"]
      /\ UNCHANGED <<row, next_cursor, failure_count, owned, observed, whole, audit, handed,
                     pc, local, mishaps>>
  BY DEF MarkFinal, state
<1>2. RowsOK' /\ Grows
  BY <1>0, <1>1 DEF RowsOK, Grows
<1>3. LocalsOK' /\ InvocationsSound'
  BY <1>0, <1>1, <1>2, NoneMoves, IInvParts
<1>4. CheckpointIsWhole' /\ AuditIsWhole'
  BY <1>1, IInvParts DEF CheckpointIsWhole, AuditIsWhole
<1>5. NormalizedIsWhole' /\ CompletedIsNormalized'
  BY <1>0, <1>1, IInvParts DEF RowsOK, NormalizedIsWhole, CompletedIsNormalized
<1> QED
  BY <1>0, <1>1, <1>2, <1>3, <1>4, <1>5, IInvParts, IInvNext

LEMMA SelectStep ==
    ASSUME IInv, NEW w \in Workers, Select(w)
    PROVE  IInv'
<1>0. LocalsOK /\ RowsOK
  BY IInvParts
<1>1. PICK s \in Sources : src' = [src EXCEPT ![w] = s]
  BY DEF Select
<1>2. pc' = [pc EXCEPT ![w] = "read"] /\ UNCHANGED <<cursor, steps>>
  BY DEF Select
<1>3. LocalsOK' /\ Others(w) /\ LabelSound(w)' /\ CursorSound(w)'
  BY <1>0, <1>1, <1>2 DEF LocalsOK, Others, LabelSound, CursorSound, Labels
<1>4. UNCHANGED <<state, facts, handed, mishaps>>
  BY DEF Select
<1>5. CheckpointIsWhole' /\ NormalizedIsWhole' /\ CompletedIsNormalized' /\ AuditIsWhole'
      /\ Grows
  BY <1>4, RowsKept, IInvParts DEF state
<1>6. InvocationsSound'
  BY <1>0, <1>3, <1>5, OthersSound, IInvParts
<1>7. RowsOK'
  BY <1>0, <1>4 DEF RowsOK, state, facts
<1> QED
  BY <1>3, <1>4, <1>5, <1>6, <1>7, IInvParts, IInvNext

LEMMA RequestStep ==
    ASSUME IInv, NEW o \in Operators, Request(o)
    PROVE  IInv'
<1>0. LocalsOK /\ RowsOK
  BY IInvParts
<1>1. PICK s \in Sources, c \in 0 .. N :
        /\ s \in Careless \/ c \in handed[s]
        /\ src' = [src EXCEPT ![o] = s]
        /\ cursor' = [cursor EXCEPT ![o] = c]
  BY DEF Request
<1>2. pc' = [pc EXCEPT ![o] = "begin"] /\ UNCHANGED steps
  BY DEF Request
<1>3. LocalsOK' /\ Others(o) /\ pc'[o] = "begin" /\ src'[o] = s /\ cursor'[o] = c
  BY <1>0, <1>1, <1>2 DEF LocalsOK, Others, Labels
<1>4. UNCHANGED <<state, facts, handed, mishaps>>
  BY DEF Request
<1>5. CheckpointIsWhole' /\ NormalizedIsWhole' /\ CompletedIsNormalized' /\ AuditIsWhole'
      /\ Grows
  BY <1>4, RowsKept, IInvParts DEF state
<1>6. s \notin Careless => Prefix(c) \subseteq whole'[s]
  BY <1>1, <1>4, <1>5 DEF CheckpointIsWhole
<1>7. LabelSound(o)' /\ CursorSound(o)'
  <2>1. LabelSound(o)'
    BY <1>3 DEF LabelSound
  <2>2. CursorSound(o)'
    BY <1>3, <1>6 DEF CursorSound, Prefix
  <2> QED
    BY <2>1, <2>2
<1>8. InvocationsSound'
  BY <1>0, <1>3, <1>5, <1>7, OthersSound, IInvParts
<1>9. RowsOK'
  BY <1>0, <1>4 DEF RowsOK, state, facts
<1> QED
  BY <1>3, <1>4, <1>5, <1>8, <1>9, IInvParts, IInvNext

\* A source without a row is resumed where its audit log ends, and the log
\* names complete starts.
LEMMA ReadCursorStep ==
    ASSUME IInv, NEW w \in Workers, ReadCursor(w)
    PROVE  IInv'
<1> DEFINE s == src[w]
<1>0. LocalsOK /\ RowsOK /\ s \in Sources /\ UNCHANGED <<facts, handed, mishaps>>
  BY IInvParts DEF LocalsOK, ReadCursor
<1>1. Grows /\ NormalizedIsWhole' /\ AuditIsWhole'
  BY <1>0, IInvParts DEF Grows, facts, NormalizedIsWhole, AuditIsWhole
<1>2. ASSUME NEW c \in 0 .. N, Prefix(c) \subseteq whole[s] \/ s \in Careless,
             pc' = [pc EXCEPT ![w] = "begin"], cursor' = [cursor EXCEPT ![w] = c],
             UNCHANGED <<src, steps>>
      PROVE  LocalsOK' /\ InvocationsSound'
  <2>1. LocalsOK' /\ Others(w) /\ pc'[w] = "begin" /\ src'[w] = s /\ cursor'[w] = c
    BY <1>0, <1>2 DEF LocalsOK, Others, Labels
  <2>2. LabelSound(w)'
    BY <2>1 DEF LabelSound
  <2>3. whole' = whole
    BY <1>0 DEF facts
  <2>4. CursorSound(w)'
    BY <1>2, <2>1, <2>3 DEF CursorSound, Prefix
  <2> QED
    BY <1>0, <1>1, <2>1, <2>2, <2>4, OthersSound, IInvParts
<1>3. CASE /\ row[s] # "none" /\ UNCHANGED state
           /\ pc' = [pc EXCEPT ![w] = "begin"]
           /\ cursor' = [cursor EXCEPT ![w] = next_cursor[s]] /\ UNCHANGED <<src, steps>>
  <2>1. next_cursor[s] \in 0 .. N /\ (Prefix(next_cursor[s]) \subseteq whole[s] \/ s \in Careless)
    BY <1>0, IInvParts DEF RowsOK, CheckpointIsWhole
  <2>2. LocalsOK' /\ InvocationsSound'
    BY <1>2, <1>3, <2>1
  <2>3. RowsOK' /\ CheckpointIsWhole' /\ CompletedIsNormalized'
    BY <1>0, <1>3, RowsKept, IInvParts DEF RowsOK, state, facts
  <2> QED
    BY <1>0, <1>1, <2>2, <2>3, IInvParts, IInvNext
<1>4. ASSUME NEW c \in 0 .. N, audit[s] = Prefix(c),
             pc' = [pc EXCEPT ![w] = "begin"], cursor' = [cursor EXCEPT ![w] = c],
             UNCHANGED <<src, steps>>,
             next_cursor' = [next_cursor EXCEPT ![s] = c],
             row' = [row EXCEPT ![s] = "running"], UNCHANGED failure_count
      PROVE  IInv'
  <2>1. Prefix(c) \subseteq whole[s]
    BY <1>0, <1>4, IInvParts DEF AuditIsWhole
  <2>2. LocalsOK' /\ InvocationsSound'
    BY <1>2, <1>4, <2>1
  <2>3. RowsOK'
    BY <1>0, <1>4 DEF RowsOK, facts
  <2>4. CheckpointIsWhole'
    <3> SUFFICES ASSUME NEW t \in Sources \ Careless, NEW d \in handed[t] \cup {next_cursor'[t]}
                 PROVE  Prefix(d) \subseteq whole[t]
      BY <1>0 DEF CheckpointIsWhole, facts, Prefix
    <3>1. d \in handed[t] \cup {next_cursor[t]} => Prefix(d) \subseteq whole[t]
      BY IInvParts DEF CheckpointIsWhole
    <3>2. d \notin handed[t] \cup {next_cursor[t]} => t = s /\ d = c
      BY <1>0, <1>4 DEF RowsOK
    <3> QED
      BY <2>1, <3>1, <3>2
  <2>5. CompletedIsNormalized'
    BY <1>0, <1>4, IInvParts DEF RowsOK, CompletedIsNormalized, facts
  <2> QED
    BY <1>0, <1>1, <2>2, <2>3, <2>4, <2>5, IInvParts, IInvNext
<1>5. CASE Ends(w) /\ UNCHANGED state
  <2>1. LocalsOK' /\ InvocationsSound'
    BY <1>0, <1>1, <1>5, EndsLocal, OthersSound, IInvParts
  <2>2. RowsOK' /\ CheckpointIsWhole' /\ CompletedIsNormalized'
    BY <1>0, <1>5, RowsKept, IInvParts DEF RowsOK, state, facts
  <2> QED
    BY <1>0, <1>1, <2>1, <2>2, IInvParts, IInvNext
<1> QED
  BY <1>3, <1>4, <1>5 DEF ReadCursor

LEMMA ReturnsLocal ==
    ASSUME LocalsOK, NEW a \in Actors, NEW label \in Labels, Returns(a, label)
    PROVE  /\ LocalsOK' /\ Others(a)
           /\ \/ pc'[a] = label /\ src' = src /\ cursor' = cursor
              \/ LabelSound(a)' /\ CursorSound(a)'
BY EndsLocal, GoesLocal DEF Returns

LEMMA BeginStep ==
    ASSUME IInv, NEW a \in Actors, Begin(a)
    PROVE  IInv'
<1>0. /\ LocalsOK /\ RowsOK /\ LabelSound(a) /\ CursorSound(a)
      /\ pc[a] = "begin" /\ UNCHANGED <<state, facts, handed, mishaps>>
  BY IInvParts DEF InvocationsSound, Begin
<1>1. CheckpointIsWhole' /\ NormalizedIsWhole' /\ CompletedIsNormalized' /\ AuditIsWhole'
      /\ Grows /\ RowsOK'
  BY <1>0, RowsKept, IInvParts DEF state, RowsOK, facts
<1>2. src[a] \in Sources /\ cursor[a] \in 0 .. N /\ whole' = whole /\ quality' = quality
  BY <1>0 DEF LocalsOK, facts
<1>3. src[a] \notin Careless => Prefix(cursor[a]) \subseteq whole[src[a]]
  BY <1>0 DEF CursorSound
<1>4. CASE quality[src[a]] = "normalized" /\ Returns(a, "completed")
  <2>1. /\ LocalsOK' /\ Others(a)
        /\ \/ pc'[a] = "completed" /\ src' = src /\ cursor' = cursor
           \/ LabelSound(a)' /\ CursorSound(a)'
    BY <1>0, <1>4, ReturnsLocal DEF Labels
  <2>2. LabelSound(a)' /\ CursorSound(a)'
    BY <1>2, <1>3, <1>4, <2>1 DEF LabelSound, CursorSound, Prefix
  <2> QED
    BY <1>0, <1>1, <2>1, <2>2, OthersSound, IInvParts, IInvNext
<1>5. ASSUME NEW label \in {"finalize", "observe"}, Goes(a, label),
             label = "finalize" <=> cursor[a] = N
      PROVE  IInv'
  <2>1. LocalsOK' /\ Others(a) /\ pc'[a] = label /\ src' = src /\ cursor' = cursor
    BY <1>0, <1>5, GoesLocal DEF Labels
  <2>2. cursor[a] # N => cursor[a] \in Starts
    BY <1>2, Sizes
  <2>3. LabelSound(a)'
    BY <1>5, <2>1, <2>2 DEF LabelSound
  <2>4. CursorSound(a)'
    BY <1>2, <1>3, <1>5, <2>1 DEF CursorSound, Prefix
  <2> QED
    BY <1>0, <1>1, <2>1, <2>3, <2>4, OthersSound, IInvParts, IInvNext
<1> QED
  BY <1>4, <1>5 DEF Begin

LEMMA ObserveStep ==
    ASSUME IInv, NEW a \in Actors, Observe(a)
    PROVE  IInv'
<1>0. /\ LocalsOK /\ RowsOK /\ LabelSound(a) /\ CursorSound(a) /\ pc[a] = "observe"
      /\ observed' = [observed EXCEPT ![src[a]] = @ \cup {cursor[a]}] /\ Goes(a, "fill")
      /\ UNCHANGED <<state, quality, owned, whole, audit, handed, mishaps>>
  BY IInvParts DEF InvocationsSound, Observe
<1>1. src[a] \in Sources /\ cursor[a] \in Starts
  BY <1>0 DEF LocalsOK, LabelSound
<1>2. RowsOK' /\ Grows
  BY <1>0, <1>1 DEF RowsOK, Grows, state
<1>3. LocalsOK' /\ Others(a) /\ pc'[a] = "fill" /\ src' = src /\ cursor' = cursor
  BY <1>0, GoesLocal DEF Labels
<1>4. LabelSound(a)'
  BY <1>1, <1>3 DEF LabelSound
<1>5. CursorSound(a)'
  BY <1>0, <1>3 DEF CursorSound, Prefix
<1>6. CheckpointIsWhole' /\ NormalizedIsWhole' /\ CompletedIsNormalized' /\ AuditIsWhole'
  BY <1>0, IInvParts DEF CheckpointIsWhole, NormalizedIsWhole, CompletedIsNormalized,
                         AuditIsWhole, state
<1> QED
  BY <1>0, <1>2, <1>3, <1>4, <1>5, <1>6, OthersSound, IInvParts, IInvNext

\* The prefix before the cursor and the start at it make the next prefix.
LEMMA FillStep ==
    ASSUME IInv, NEW a \in Actors, Fill(a)
    PROVE  IInv'
<1> DEFINE s == src[a]
           c == cursor[a]
<1>0. /\ LocalsOK /\ RowsOK /\ LabelSound(a) /\ CursorSound(a) /\ pc[a] = "fill"
      /\ whole' = [whole EXCEPT ![s] = @ \cup {c}]
      /\ audit' = [audit EXCEPT ![s] = @ \cup {c}]
      /\ handed' = [handed EXCEPT ![s] = IF a \in Operators THEN @ \cup {c + 1} ELSE @]
      /\ Returns(a, "store")
      /\ UNCHANGED <<state, quality, owned, observed, mishaps>>
  BY IInvParts DEF InvocationsSound, Fill
<1>1. s \in Sources /\ c \in Starts /\ c \in 0 .. N /\ c + 1 \in 0 .. N
  BY <1>0, Sizes DEF LocalsOK, LabelSound
<1>2. RowsOK' /\ Grows /\ c \in whole'[s] /\ AuditIsWhole'
  BY <1>0, <1>1, IInvParts DEF RowsOK, Grows, AuditIsWhole, state
<1>3. Prefix(c + 1) = Prefix(c) \cup {c}
  BY <1>1, Prefixes
<1>4. s \notin Careless => Prefix(c) \subseteq whole'[s] /\ Prefix(c + 1) \subseteq whole'[s]
  BY <1>0, <1>1, <1>2, <1>3 DEF CursorSound, Grows
<1>5. /\ LocalsOK' /\ Others(a)
      /\ \/ pc'[a] = "store" /\ src' = src /\ cursor' = cursor
         \/ LabelSound(a)' /\ CursorSound(a)'
  BY <1>0, ReturnsLocal DEF Labels
<1>6. LabelSound(a)' /\ CursorSound(a)'
  BY <1>1, <1>2, <1>4, <1>5 DEF LabelSound, CursorSound, Prefix
<1>7. CheckpointIsWhole'
  <2> SUFFICES ASSUME NEW t \in Sources \ Careless, NEW d \in handed'[t] \cup {next_cursor[t]}
               PROVE  Prefix(d) \subseteq whole'[t]
    BY <1>0 DEF CheckpointIsWhole, state, Prefix
  <2>1. d \in handed[t] \cup {next_cursor[t]} => Prefix(d) \subseteq whole'[t]
    BY <1>2, IInvParts DEF CheckpointIsWhole, Grows
  <2>2. d \notin handed[t] \cup {next_cursor[t]} => t = s /\ d = c + 1
    BY <1>0 DEF RowsOK
  <2> QED
    BY <1>4, <2>1, <2>2
<1>8. NormalizedIsWhole' /\ CompletedIsNormalized'
  <2>1. NormalizedIsWhole'
    <3> SUFFICES ASSUME NEW t \in Sources \ (Careless \cup owned),
                         quality[t] = "normalized"
                 PROVE  whole'[t] = Starts
      BY <1>0 DEF NormalizedIsWhole
    <3>1. whole[t] = Starts /\ whole[t] \subseteq whole'[t] /\ whole'[t] \subseteq Starts
      BY <1>2, IInvParts DEF NormalizedIsWhole, Grows, RowsOK
    <3> QED
      BY <3>1
  <2>2. CompletedIsNormalized'
    BY <1>0, IInvParts DEF CompletedIsNormalized, state
  <2> QED
    BY <2>1, <2>2
<1> QED
  BY <1>0, <1>2, <1>5, <1>6, <1>7, <1>8, OthersSound, IInvParts, IInvNext

\* Only a cursor at the end finalizes, and it covers every start.
LEMMA FinalizeStep ==
    ASSUME IInv, NEW a \in Actors, Finalize(a)
    PROVE  IInv'
<1> DEFINE s == src[a]
<1>0. /\ LocalsOK /\ RowsOK /\ LabelSound(a) /\ CursorSound(a) /\ pc[a] = "finalize"
      /\ quality' = [quality EXCEPT ![s] = "normalized"] /\ Returns(a, "completed")
      /\ UNCHANGED <<state, owned, observed, whole, audit, handed, mishaps>>
  BY IInvParts DEF InvocationsSound, Finalize
<1>1. s \in Sources /\ cursor[a] = N /\ Prefix(N) = Starts
  BY <1>0, Sizes, Prefixes DEF LocalsOK, LabelSound
<1>2. RowsOK' /\ Grows /\ quality'[s] = "normalized"
  BY <1>0, <1>1 DEF RowsOK, Grows, state
<1>3. /\ LocalsOK' /\ Others(a)
      /\ \/ pc'[a] = "completed" /\ src' = src /\ cursor' = cursor
         \/ LabelSound(a)' /\ CursorSound(a)'
  BY <1>0, ReturnsLocal DEF Labels
<1>4. LabelSound(a)' /\ CursorSound(a)'
  BY <1>0, <1>2, <1>3 DEF LabelSound, CursorSound, Prefix
<1>5. CheckpointIsWhole' /\ AuditIsWhole'
  BY <1>0, IInvParts DEF CheckpointIsWhole, AuditIsWhole, state
<1>6. NormalizedIsWhole'
  <2> SUFFICES ASSUME NEW t \in Sources \ (Careless \cup owned),
                      quality'[t] = "normalized"
               PROVE  whole[t] = Starts
    BY <1>0 DEF NormalizedIsWhole
  <2>1. CASE t = s
    BY <1>0, <1>1, <2>1 DEF CursorSound, RowsOK
  <2>2. CASE t # s
    BY <1>0, <2>2, IInvParts DEF NormalizedIsWhole, RowsOK
  <2> QED
    BY <2>1, <2>2
<1>7. CompletedIsNormalized'
  BY <1>0, <1>2, IInvParts DEF CompletedIsNormalized, Grows, state
<1> QED
  BY <1>0, <1>2, <1>3, <1>4, <1>5, <1>6, <1>7, OthersSound, IInvParts, IInvNext

LEMMA StoreProgressStep ==
    ASSUME IInv, NEW w \in Workers, StoreProgress(w)
    PROVE  IInv'
<1> DEFINE s == src[w]
           c == cursor[w]
<1>0. /\ LocalsOK /\ RowsOK /\ LabelSound(w) /\ CursorSound(w) /\ pc[w] = "store"
      /\ row' = [row EXCEPT ![s] = "running"]
      /\ next_cursor' = [next_cursor EXCEPT ![s] = c + 1]
      /\ UNCHANGED <<failure_count, facts, mishaps>>
  BY IInvParts DEF InvocationsSound, StoreProgress
<1>1. s \in Sources /\ c \in Starts /\ c \in 0 .. N /\ c + 1 \in 0 .. N
  BY <1>0, Sizes DEF LocalsOK, LabelSound
<1>2. handed' = handed \/ handed' = [handed EXCEPT ![s] = @ \cup {c + 1}]
  BY DEF StoreProgress
<1>3. RowsOK' /\ Grows
  BY <1>0, <1>1, <1>2 DEF RowsOK, Grows, facts
<1>4. s \notin Careless => Prefix(c + 1) \subseteq whole[s]
  BY <1>0, <1>1, Prefixes DEF CursorSound
<1>5. LocalsOK' /\ Others(w) /\ LabelSound(w)' /\ CursorSound(w)'
  <2>1. CASE /\ steps[w] + 1 < MaxSteps
             /\ pc' = [pc EXCEPT ![w] = "begin"]
             /\ cursor' = [cursor EXCEPT ![w] = @ + 1]
             /\ steps' = [steps EXCEPT ![w] = @ + 1]
             /\ src' = src
    <3>1. steps[w] + 1 \in 0 .. MaxSteps
      BY <1>0, <2>1, Sizes DEF LocalsOK
    <3>2. /\ LocalsOK' /\ Others(w) /\ pc'[w] = "begin"
          /\ src'[w] = s /\ cursor'[w] = c + 1
      BY <1>0, <1>1, <2>1, <3>1 DEF LocalsOK, Others, Labels
    <3>3. LabelSound(w)'
      BY <3>2 DEF LabelSound
    <3>4. CursorSound(w)'
      BY <1>0, <1>4, <3>2 DEF CursorSound, Prefix, facts
    <3> QED
      BY <3>2, <3>3, <3>4
  <2>2. CASE Ends(w)
    BY <1>0, <2>2, EndsLocal
  <2> QED
    BY <2>1, <2>2 DEF StoreProgress
<1>6. CheckpointIsWhole'
  <2> SUFFICES ASSUME NEW t \in Sources \ Careless, NEW d \in handed'[t] \cup {next_cursor'[t]}
               PROVE  Prefix(d) \subseteq whole[t]
    BY <1>0 DEF CheckpointIsWhole, facts, Prefix
  <2>1. d \in handed[t] \cup {next_cursor[t]} => Prefix(d) \subseteq whole[t]
    BY IInvParts DEF CheckpointIsWhole
  <2>2. handed'[t] \subseteq handed[t] \cup (IF t = s THEN {c + 1} ELSE {})
    BY <1>0, <1>2 DEF RowsOK
  <2>3. next_cursor'[t] = IF t = s THEN c + 1 ELSE next_cursor[t]
    BY <1>0 DEF RowsOK
  <2> QED
    BY <1>4, <2>1, <2>2, <2>3
<1>7. NormalizedIsWhole' /\ AuditIsWhole'
  BY <1>0, IInvParts DEF NormalizedIsWhole, AuditIsWhole, facts
<1>8. CompletedIsNormalized'
  BY <1>0, IInvParts DEF CompletedIsNormalized, RowsOK, facts
<1> QED
  BY <1>0, <1>3, <1>5, <1>6, <1>7, <1>8, OthersSound, IInvParts, IInvNext

\* The row of a snapshot that is not the settlement's is completed over a mark
\* that says what it should.
LEMMA StoreCompletedStep ==
    ASSUME IInv, WorkersHoldLive, NEW w \in Workers, StoreCompleted(w)
    PROVE  IInv'
<1> DEFINE s == src[w]
<1>0. /\ LocalsOK /\ RowsOK /\ LabelSound(w) /\ pc[w] = "completed"
      /\ row' = [row EXCEPT ![s] = "completed"]
      /\ next_cursor' = [next_cursor EXCEPT ![s] = N]
      /\ Ends(w) /\ UNCHANGED <<failure_count, facts, handed, mishaps>>
  BY IInvParts DEF InvocationsSound, StoreCompleted
<1>1. s \in Sources /\ N \in 0 .. N /\ quality[s] = "normalized" /\ s \notin owned
  BY <1>0, Sizes DEF LocalsOK, LabelSound, WorkersHoldLive, HeldLive
<1>2. RowsOK' /\ Grows
  BY <1>0, <1>1 DEF RowsOK, Grows, facts
<1>3. s \notin Careless => Prefix(N) \subseteq whole[s]
  BY <1>1, Prefixes, IInvParts DEF NormalizedIsWhole
<1>4. CheckpointIsWhole'
  <2> SUFFICES ASSUME NEW t \in Sources \ Careless, NEW d \in handed[t] \cup {next_cursor'[t]}
               PROVE  Prefix(d) \subseteq whole[t]
    BY <1>0 DEF CheckpointIsWhole, facts, Prefix
  <2>1. d \in handed[t] \cup {next_cursor[t]} => Prefix(d) \subseteq whole[t]
    BY IInvParts DEF CheckpointIsWhole
  <2>2. d \notin handed[t] \cup {next_cursor[t]} => t = s /\ d = N
    BY <1>0 DEF RowsOK
  <2> QED
    BY <1>3, <2>1, <2>2
<1>5. NormalizedIsWhole' /\ AuditIsWhole' /\ CompletedIsNormalized'
  BY <1>0, <1>1, IInvParts DEF NormalizedIsWhole, AuditIsWhole, CompletedIsNormalized,
                               RowsOK, facts
<1>6. LocalsOK' /\ InvocationsSound'
  BY <1>0, <1>2, EndsLocal, OthersSound, IInvParts
<1> QED
  BY <1>0, <1>2, <1>4, <1>5, <1>6, IInvParts, IInvNext

\* Refuse, Fail and Kill end an invocation and claim nothing new.
LEMMA FailureStep ==
    ASSUME IInv, NEW a \in Actors, RecordFailure(a) \/ Kill(a), mishaps' \in 0 .. MaxMishaps
    PROVE  IInv'
<1>0. /\ LocalsOK /\ RowsOK /\ Ends(a) /\ UNCHANGED <<next_cursor, facts, handed>>
      /\ \/ row' = row /\ failure_count' = failure_count
         \/ /\ row' = [row EXCEPT ![src[a]] = IF failure_count[src[a]] + 1 >= Limit
                                              THEN "failed" ELSE "running"]
            /\ failure_count' = [failure_count EXCEPT ![src[a]] = @ + 1]
  BY IInvParts DEF RecordFailure, Kill, state
<1>1. RowsOK' /\ Grows
  <2>1. row' \in [Sources -> {"none", "running", "failed", "completed"}]
    BY <1>0 DEF RowsOK, LocalsOK
  <2>2. failure_count' \in [Sources -> Nat]
    <3>1. src[a] \in Sources /\ failure_count \in [Sources -> Nat]
      BY <1>0 DEF RowsOK, LocalsOK
    <3>2. failure_count[src[a]] + 1 \in Nat
      BY <3>1
    <3>3. \/ failure_count' = failure_count
          \/ failure_count' = [failure_count EXCEPT ![src[a]] = failure_count[src[a]] + 1]
      BY <1>0
    <3> HIDE DEF Sources
    <3> QED
      BY <3>1, <3>2, <3>3
  <2> QED
    BY <1>0, <2>1, <2>2 DEF RowsOK, Grows, facts
<1>2. CheckpointIsWhole' /\ NormalizedIsWhole' /\ AuditIsWhole'
  BY <1>0, IInvParts DEF CheckpointIsWhole, NormalizedIsWhole, AuditIsWhole, facts
<1>3. CompletedIsNormalized'
  BY <1>0, IInvParts DEF CompletedIsNormalized, RowsOK, LocalsOK, facts
<1>4. LocalsOK' /\ InvocationsSound'
  BY <1>0, <1>1, EndsLocal, OthersSound, IInvParts
<1> QED
  BY <1>1, <1>2, <1>3, <1>4, IInvNext

\* A captured snapshot does not become the settlement's.
LEMMA CapturedStaysLive ==
    ASSUME RowsOK, LocalsOK, [Next]_vars, NEW s \in Sources,
           quality[s] # "none", s \notin owned
    PROVE  quality'[s] # "none" /\ s \notin owned'
<1> USE DEF RowsOK, LocalsOK
<1>1. ASSUME NEW t \in Sources,
             CaptureScheduled(t) \/ CaptureByHand(t) \/ CaptureFinal(t) \/ MarkFinal(t)
      PROVE  quality'[s] # "none" /\ s \notin owned'
  BY <1>1 DEF CaptureScheduled, CaptureByHand, CaptureFinal, MarkFinal, Uncaptured
<1>2. ASSUME NEW a \in Actors, Finalize(a) PROVE quality'[s] # "none" /\ s \notin owned'
  BY <1>2 DEF Finalize
<1>3. CASE UNCHANGED <<quality, owned>>
  BY <1>3
<1> QED
  BY <1>1, <1>2, <1>3 DEF Next, Step, Automatic, vars, facts, Select, ReadCursor, Request,
     Begin, Observe, Fill, StoreProgress, StoreCompleted, Refuse, Fail, Kill, RecordFailure

\* An automatic normalizer goes on with the snapshot it selected.
LEMMA WorkersKeepLive ==
    ASSUME RowsOK, LocalsOK, WorkersHoldLive, [Next]_vars
    PROVE  WorkersHoldLive'
<1> SUFFICES ASSUME NEW w \in Workers, pc'[w] # "idle"
             PROVE  quality'[src'[w]] # "none" /\ src'[w] \notin owned'
  BY DEF WorkersHoldLive, HeldLive
<1> USE DEF LocalsOK
<1>1. CASE pc[w] # "idle" /\ src'[w] = src[w]
  BY <1>1, CapturedStaysLive DEF WorkersHoldLive, HeldLive
<1>2. CASE Select(w)
  <2>1. PICK s \in Sources : Pending(s) /\ src' = [src EXCEPT ![w] = s]
    BY <1>2 DEF Select
  <2>2. src'[w] = s /\ quality[s] # "none" /\ s \notin owned
    BY <2>1 DEF Pending, Newest
  <2> QED
    BY <2>2, CapturedStaysLive
<1>3. ASSUME ~Select(w) PROVE pc[w] # "idle" /\ src'[w] = src[w]
  <2>1. ASSUME NEW a \in Actors, Ends(a) PROVE pc[w] # "idle" /\ src'[w] = src[w]
    BY <2>1 DEF Ends
  <2>2. ASSUME NEW a \in Actors, NEW label, Goes(a, label), pc[a] # "idle"
        PROVE  pc[w] # "idle" /\ src'[w] = src[w]
    BY <2>2 DEF Goes, local
  <2>3. ASSUME NEW v \in Workers, Automatic(v) PROVE pc[w] # "idle" /\ src'[w] = src[w]
    BY <1>3, <2>1, <2>3 DEF Automatic, Select, ReadCursor, StoreProgress, StoreCompleted
  <2>4. ASSUME NEW o \in Operators, Request(o) PROVE pc[w] # "idle" /\ src'[w] = src[w]
    BY <2>4, ActorAssumption DEF Request
  <2>5. ASSUME NEW a \in Actors, Step(a) PROVE pc[w] # "idle" /\ src'[w] = src[w]
    BY <2>1, <2>2, <2>5 DEF Step, Begin, Observe, Fill, Finalize, Refuse, RecordFailure, Returns
  <2>6. ASSUME NEW a \in Actors, Fail(a) \/ Kill(a) PROVE pc[w] # "idle" /\ src'[w] = src[w]
    BY <2>1, <2>6 DEF Fail, Kill, RecordFailure
  <2>7. CASE UNCHANGED <<pc, local>>
    BY <2>7 DEF local
  <2> QED
    BY <2>3, <2>4, <2>5, <2>6, <2>7 DEF Next, vars, CaptureScheduled, CaptureByHand,
       CaptureFinal, MarkFinal
<1> QED
  BY <1>1, <1>2, <1>3

LEMMA NextIInv == IInv /\ WorkersHoldLive /\ [Next]_vars => IInv' /\ WorkersHoldLive'
<1> SUFFICES ASSUME IInv, WorkersHoldLive, [Next]_vars PROVE IInv' /\ WorkersHoldLive'
  OBVIOUS
<1>0. WorkersHoldLive'
  BY WorkersKeepLive, IInvParts
<1>1. ASSUME NEW s \in Sources, \/ CaptureScheduled(s) \/ CaptureByHand(s)
                                \/ CaptureFinal(s) \/ MarkFinal(s)
      PROVE IInv'
  BY <1>1, CaptureStep, MarkFinalStep
<1>2. ASSUME NEW w \in Workers, Automatic(w) PROVE IInv'
  BY <1>2, SelectStep, ReadCursorStep, StoreProgressStep, StoreCompletedStep DEF Automatic
<1>3. ASSUME NEW o \in Operators, Request(o) PROVE IInv'
  BY <1>3, RequestStep
<1>4. ASSUME NEW a \in Actors, Begin(a) \/ Observe(a) \/ Fill(a) \/ Finalize(a) PROVE IInv'
  BY <1>4, BeginStep, ObserveStep, FillStep, FinalizeStep
<1>5. ASSUME NEW a \in Actors, Refuse(a) \/ Fail(a) \/ Kill(a) PROVE IInv'
  <2>1. mishaps' \in 0 .. MaxMishaps
    BY <1>5, BoundAssumption, IInvParts DEF Refuse, Fail, Kill
  <2> QED
    BY <1>5, <2>1, FailureStep DEF Refuse, Fail
<1>6. ASSUME UNCHANGED vars PROVE IInv'
  <2>1. /\ RowsOK' /\ LocalsOK' /\ mishaps' \in 0 .. MaxMishaps
        /\ CheckpointIsWhole' /\ NormalizedIsWhole' /\ CompletedIsNormalized' /\ AuditIsWhole'
        /\ Grows
    BY <1>6, RowsKept, IInvParts DEF vars, state, facts, local, RowsOK, LocalsOK
  <2>2. InvocationsSound'
    BY <1>6, <2>1, NoneMoves, IInvParts DEF vars
  <2> QED
    BY <2>1, <2>2, IInvNext
<1> QED
  BY <1>0, <1>1, <1>2, <1>3, <1>4, <1>5, <1>6 DEF Next, Step

-----------------------------------------------------------------------------
(* The theorems.                                                            *)

THEOREM LiveInvariant == Spec => []IInv
<1>1. Init => WorkersHoldLive
  BY DEF Init, WorkersHoldLive, HeldLive
<1> QED
  BY <1>1, InitIInv, NextIInv, PTL DEF Spec

\* Every variable of the normalizer keeps its type.
THEOREM LiveTypeCorrect == Spec => []TypeOK
<1>1. IInv => TypeOK
  BY DEF IInv
<1> QED
  BY <1>1, LiveInvariant, PTL

\* No stored or answered cursor claims a start that is not completely mapped:
\* normalization resumes "only from successful contiguous checkpoints".
THEOREM CheckpointsAreWhole == Spec => []CheckpointIsWhole
<1>1. IInv => CheckpointIsWhole
  BY DEF IInv
<1> QED
  BY <1>1, LiveInvariant, PTL

\* A source marked normalized_verified_subset has all rows of all its starts,
\* unless it is the final snapshot that the settlement captured for its payout.
THEOREM MarksAreWhole == Spec => []NormalizedIsWhole
<1>1. IInv => NormalizedIsWhole
  BY DEF IInv
<1> QED
  BY <1>1, LiveInvariant, PTL

\* A completed state row belongs to a marked source.
THEOREM CompletedRowsAreMarked == Spec => []CompletedIsNormalized
<1>1. IInv => CompletedIsNormalized
  BY DEF IInv
<1> QED
  BY <1>1, LiveInvariant, PTL

=============================================================================
