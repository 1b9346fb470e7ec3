--------------------------- MODULE MCXlabsBackfill ---------------------------
(* Small instances of XlabsBackfill: the workers, and the callers that queue *)
(* or reopen a daily job, are interchangeable.                               *)
EXTENDS XlabsBackfill, TLC

\* A daily list needs an order, a historical range needs several dates.
RacesPerDate == [s \in Scopes |-> IF s = "daily" THEN 2 ELSE 1]

\* What a later change of the official data makes callers reopen is followed
\* up to the next invocation: the properties say nothing of a changed list.
Narrow == changes = 0 \/ \A w \in Workers : pc[w] = "idle"

Symmetry == Permutations(Workers) \union Permutations(Ensurers)
=============================================================================
