---------------------------- MODULE MCCalculations ----------------------------
(* Two small instances side by side: the questions of Calculations, each      *)
(* asked before any job has begun, and the position jobs.  Neither looks at    *)
(* the other; requests are interchangeable.                                   *)
EXTENDS Calculations, PositionJobs, TLC

MCLegShapes == {<<4>>, <<3, 1>>, <<1, 3>>, <<2, 1, 1>>, <<4, 0>>, <<1, 1, 1, 1>>}
MCPolicies ==
    {[train |-> 1, calibration |-> 1, test |-> 1, step |-> 1],
     [train |-> 1, calibration |-> 1, test |-> 1, step |-> 2]}
MCTraits == {{}, {"method"}, {"driver"}, {"track", "method"}}
MCStances == {[seen |-> 0, gap |-> 0, side |-> 0], [seen |-> 5, gap |-> 0, side |-> 0],
              [seen |-> 5, gap |-> 20, side |-> 10]}

MCMonths == [m \in 1 .. 36 |-> 1]
MCPageDays == <<5, 14, 17, 23>>
MCPageShapes == [trainer : {1, 2, NoValue}, distance : {2640}, ran : {TRUE}]
                \cup [trainer : {1}, distance : {2741, 2540, NoValue}, ran : {TRUE}]
                \cup [trainer : {1}, distance : {2640}, ran : {FALSE}]
MCFormLimits == [horse |-> 1, driver |-> 2, trainer |-> 2]
MCPrizeSteps == <<1, 2, 3>>
MCWeights == <<60, 40>>

MCInit == PositionInit /\ question = NoQuestion
MCNext ==
    \/ PositionNext /\ question = NoQuestion /\ UNCHANGED question
    \/ PositionInit /\ question = NoQuestion /\ Ask /\ UNCHANGED positionVars
MCSpec == MCInit /\ [][MCNext]_<<positionVars, question>>

Symmetry == Permutations(Callers)
=============================================================================
