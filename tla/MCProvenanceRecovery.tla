------------------------- MODULE MCProvenanceRecovery -------------------------
(* Instances of ProvenanceRecovery for TLC.                                    *)
EXTENDS ProvenanceRecovery, TLC

MCCells == {<<1, 1, "x">>, <<1, 1, "y">>, <<1, 2, "x">>, <<1, 2, "y">>, <<2, 1, "x">>}

MCFact == [c \in MCCells |-> "a"]

(* The first source kept its rows; the second lost both of its own.           *)
MCStarts == {<<{c \in MCCells : c[2] = 1}, {}>>}

Symmetry == Permutations(Requests)

(* A run that follows another is only watched from beside it.                 *)
Narrow ==
    Cardinality({r \in Runs : run[r].phase # "none"}) > 1 =>
        \A r \in Runs : Active(r) => run[r].missing = 0 /\ run[r].family = 1
=============================================================================
