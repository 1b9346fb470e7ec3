---------------------------- MODULE MCPostRaceReview ----------------------------
(* Two legs with one spike; a content takes both horses of a leg and one of the
   other.  Of the winners first stored one pattern is enough: under it content c2
   misses the second leg and the sealed analyses the first. *)
EXTENDS PostRaceReview, TLC

CONSTANTS a, b, c1, c2

MCPick == (c1 :> <<{a}, {a, b}>>) @@ (c2 :> <<{a, b}, {b}>>)

\* One analysis is sealed before either start, a newer one only before the later.
MCSealedRuns ==
    {[round |-> 1, sub |-> 1, lock |-> -1, cutoff |-> 0, decided |-> 0, created |-> 0,
      pick |-> <<{b}, {a, b}>>],
     [round |-> 1, sub |-> 2, lock |-> 0, cutoff |-> 1, decided |-> 1, created |-> 1,
      pick |-> <<{b}, {a, b}>>]}

InFlight == {imp[k].payload : k \in {k \in Importers : imp[k] # Idle}}
Sent == {u.payload : u \in runs} \cup InFlight

\* Scratchings and late market rows are followed up to the import they refuse; Step 1
\* is exported in the first hour; the second submission follows the first; two
\* imports overlap before the results, two reviews while no import is in flight, and
\* what was reviewed has content c2.
Narrow ==
    /\ active = [r \in Rounds |-> [l \in Legs |-> Horses]]
    /\ market = [r \in Rounds |-> {}]
    /\ \A e \in exports : e.stage = 1 => e.at = 0
    /\ \A p \in Sent : p.sub = 2 => p.text = c2 /\ \E q \in Sent : q.sub = 1
    /\ \A r \in Rounds : resultAt[r] # None =>
           /\ <<a, a>> \in history[r] /\ \A p \in Sent : p.text = c2
           /\ \E k \in Importers : imp[k] = Idle
    /\ (\A p \in Reviewers : rev[p] # Idle) => InFlight = {}

Symmetry == Permutations(Importers) \cup Permutations(Reviewers)
=================================================================================
