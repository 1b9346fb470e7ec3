--------------------------- MODULE MCStorageCleanup ---------------------------
(* Small instances of StorageCleanup.  Two audit runs or two overlapping step *)
(* requests: with a second run under way, one request steps at a time.       *)
EXTENDS StorageCleanup, TLC

Symmetry == Permutations(Steppers) \cup Permutations(Executors) \cup Permutations(Runs)
            \cup Permutations(Facts)

Narrow == Cardinality({r \in Runs : run[r].status # "none"})
            + Cardinality({k \in Steppers : pages[k].at # "idle"}) <= 3
=============================================================================
