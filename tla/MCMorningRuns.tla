---------------------------- MODULE MCMorningRuns ----------------------------
(* A smaller schedule with the proportions of the real one: one official run *)
(* more than a full turn, one X-Labs run for each date of the window.        *)
EXTENDS MorningRuns

\* Date 2 may be short or have no round, the others are long.  Rounds become
\* known date by date, except that those of the first date may be late.
Narrow ==
    /\ \A d \in Dates : races[d] = 1 => d = 2
    /\ \A d \in Dates : eligible[d] = 1 => d = 2
    /\ \A d \in Dates : rounds[d] = "no_game" => d < 1 \/ d = 2
    /\ \A d, e \in Dates : 1 < d /\ d < e /\ eligible[e] > 0 => eligible[d] > 0 \/ rounds[d] # "waiting"
=============================================================================
