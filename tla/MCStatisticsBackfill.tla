------------------------- MODULE MCStatisticsBackfill -------------------------
(* Two entries, one or both of which the replay can rank. *)
EXTENDS StatisticsBackfill, TLC

CONSTANTS first, second

Audited == [ref |-> 1, verdict |-> "audited", covers |-> {first, second}]
MCLineages == {Audited, [ref |-> 2, verdict |-> "invalid", covers |-> {}]}

\* The pack of the system counts the second as scratched.
WithoutB == [ref |-> 1, verdict |-> "audited", covers |-> {first}]
MCNarrowLineages == {WithoutB}
\* Two changes of the facts, one of the systems and winners, or a mishap; while two
\* requests are at work the facts stay.
Narrow ==
    /\ changes + mishaps <= 2
    /\ (\E r \in Rounds : results[r] # "pending" \/ lineage[r] # First) => changes + mishaps <= 1
    /\ (\A k \in Workers : w[k] # Idle) => changes = 0
Symmetry == Permutations(Workers)
=================================================================================
