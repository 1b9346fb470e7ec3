----------------------------- MODULE MCSettlement -----------------------------
(* Small instances of Settlement: the batches are interchangeable, and so    *)
(* are the starts of a race.                                                 *)
EXTENDS Settlement, TLC

\* A batch that goes on to its next step stands where an operator's step
\* begins, so budgets of more than one step are followed in one batch at a time
\* and until the first mishap.
Narrow == \A w \in Workers : steps[w] > 1 =>
              /\ mishaps = 0
              /\ \A v \in Workers \ {w} : steps[v] <= 1

Symmetry == Permutations(Workers) \union Permutations(Starts)
=============================================================================
