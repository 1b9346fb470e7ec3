--------------------------- MODULE MCLiveNormalize ---------------------------
(* Small instances of LiveNormalize: the automatic normalizers are           *)
(* interchangeable.                                                          *)
EXTENDS LiveNormalize, TLC

Symmetry == Permutations(Workers)
=============================================================================
