------------------------- MODULE MCOfficialBackfill -------------------------
(* Instances of OfficialBackfill for TLC; a cfg picks the range of dates.  *)
EXTENDS OfficialBackfill, TLC

CONSTANTS w1, w2

MCWorkers == {w1, w2}
Symmetry == Permutations(MCWorkers)
=============================================================================
