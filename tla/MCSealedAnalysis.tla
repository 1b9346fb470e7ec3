--------------------------- MODULE MCSealedAnalysis ---------------------------
(* Small instances of SealedAnalysis: clients and legs are interchangeable;  *)
(* the ids of locks are not, they break ties of created_at.                  *)
EXTENDS SealedAnalysis, TLC

Symmetry == Permutations(Clients) \cup Permutations(Legs)
=============================================================================
