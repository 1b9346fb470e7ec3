--------------------------- MODULE DecisionOptimizer ---------------------------
(***************************************************************************)
(* From sealed Step 1 judgements to the one system that is played: the        *)
(* decision probabilities of a lock and its market pack                       *)
(* (analysis-decision-probability-v1.js) and the search for the system with   *)
(* an exact number of spikes that has the highest chance under the budget     *)
(* (analysis-optimizer-v1.js).                                                *)
(*                                                                           *)
(* Probabilities are whole parts of One, and the chance of a system is the    *)
(* product of its legs' parts, where the code adds logarithms of floating     *)
(* point numbers: near-ties that rounding would decide are out of reach.      *)
(***************************************************************************)
EXTENDS Integers, Sequences, FiniteSets

LOCAL INSTANCE SequencesExt

CONSTANTS
    LegCount,       \* 8
    ExactSpikes,    \* 3
    One,            \* the parts a probability of 1 has
    TargetMin       \* the lower end of the target band, 150

ASSUME OptimizerAssumption ==
    LegCount \in Nat \ {0} /\ ExactSpikes \in 0 .. LegCount /\ One \in Nat \ {0} /\ TargetMin \in Nat

LegNumbers == 1 .. LegCount
Refused == <<>>

\* Probabilities: entry -> parts of One, entries numbered in the order of their ids.
SumsToOne(p) == FoldLeft(LAMBDA x, y : x + y, 0, p) = One

(***************************************************************************)
(* The decision.                                                             *)
(***************************************************************************)
\* The market's own chances of the active field: all of it, or none.
ProxyUsable(leg, proxy) ==
    IF proxy.complete
    THEN DOMAIN proxy.parts = DOMAIN leg /\ SumsToOne(proxy.parts)
    ELSE proxy.parts = <<>>

\* A decision takes over the blind probabilities; the market is bound to it, not blended.
Decide(lock, market) ==
    IF /\ market.lock = lock.id
       /\ \A i \in LegNumbers : /\ lock.legs[i] # <<>> /\ SumsToOne(lock.legs[i])
                                /\ ProxyUsable(lock.legs[i], market.legs[i])
    THEN [i \in LegNumbers |-> lock.legs[i]]
    ELSE Refused

(***************************************************************************)
(* The frontier of a leg: its k best entries, for every k.                    *)
(***************************************************************************)
Likelier(p, e, f) == p[e] > p[f] \/ (p[e] = p[f] /\ e < f)
Ranked(p) == SortSeq([i \in DOMAIN p |-> i], LAMBDA e, f : Likelier(p, e, f))
Coverage(p, k) == FoldLeft(LAMBDA sum, e : sum + p[e], 0, SubSeq(Ranked(p), 1, k))

(***************************************************************************)
(* The search: leg by leg, one partial system per number of spikes and rows.  *)
(***************************************************************************)
Empty == [rows |-> 1, spikes |-> 0, parts |-> 1, sizes |-> <<>>]

\* Signatures list the chosen entries leg by leg: where two first differ, and never in
\* the last leg, "," sorts before "|" and the larger choice comes first.
SignatureBefore(s, t) ==
    \E i \in DOMAIN s : s[i] > t[i] /\ \A j \in 1 .. i - 1 : s[j] = t[j]

StateBetter(a, b) ==
    a.parts > b.parts \/ (a.parts = b.parts /\ SignatureBefore(a.sizes, b.sizes))

FinalBetter(a, b) ==
    \/ a.parts > b.parts
    \/ a.parts = b.parts /\ a.rows < b.rows
    \/ a.parts = b.parts /\ a.rows = b.rows /\ SignatureBefore(a.sizes, b.sizes)

SameKeyByRows(a, b) == a.rows = b.rows
SameKey(a, b) == a.rows = b.rows /\ a.spikes = b.spikes

\* A partial system grows by the k best entries of the next leg.
Grown(s, legs, k) ==
    LET i == Len(s.sizes) + 1
    IN  [rows |-> s.rows * k, spikes |-> s.spikes + (IF k = 1 THEN 1 ELSE 0),
         parts |-> s.parts * Coverage(legs[i], k), sizes |-> Append(s.sizes, k)]

Fits(s, maxRows) ==
    /\ s.rows <= maxRows
    /\ s.spikes <= ExactSpikes
    /\ s.spikes + LegCount - Len(s.sizes) >= ExactSpikes
    /\ s.parts > 0

BestPerKey(states) == {s \in states : ~ \E t \in states : SameKey(s, t) /\ StateBetter(t, s)}

SearchLeg(states, legs, i, maxRows) ==
    BestPerKey({s \in {Grown(t, legs, k) : t \in states, k \in DOMAIN legs[i]} : Fits(s, maxRows)})

SearchExact(legs, maxRows) ==
    LET last == FoldLeft(LAMBDA states, i : SearchLeg(states, legs, i, maxRows),
                         {Empty}, [i \in LegNumbers |-> i])
    IN  {s \in last : s.spikes = ExactSpikes /\ ~ \E t \in last : FinalBetter(t, s)}

(***************************************************************************)
(* The system: refused when the budget buys no row, when too many legs have   *)
(* one entry only, or when nothing fits.                                      *)
(***************************************************************************)
PolicyAccepted(budget, price) == price > 0 /\ TargetMin > 0 /\ TargetMin <= budget
RowsWithin(budget, price) == budget \div price
Singletons(legs) == Cardinality({i \in LegNumbers : Len(legs[i]) = 1})

System(legs, budget, price) ==
    LET found == SearchExact(legs, RowsWithin(budget, price))
    IN  IF RowsWithin(budget, price) < 1 \/ Singletons(legs) > ExactSpikes \/ found = {}
        THEN Refused
        ELSE (CHOOSE s \in found : TRUE).sizes

\* An optimizer run needs the decision of the newest lock, for the field that starts.
FieldUnchanged(decision, active) == \A i \in LegNumbers : active[i] = DOMAIN decision[i]

Play(lock, market, newest, active, budget, price) ==
    LET decision == Decide(lock, market)
    IN  IF decision = Refused THEN Refused
        ELSE IF /\ PolicyAccepted(budget, price)
                /\ newest = lock.id /\ FieldUnchanged(decision, active)
        THEN System(decision, budget, price) ELSE Refused

(***************************************************************************)
(* The reference: every system there is, and the best of them.                *)
(***************************************************************************)
Product(sizes) == FoldLeft(LAMBDA x, y : x * y, 1, sizes)
Chance(legs, s) == Product([i \in LegNumbers |-> Coverage(legs[i], s[i])])

Systems(legs, budget, price) ==
    {s \in [LegNumbers -> 1 .. One] :
        /\ \A i \in LegNumbers : s[i] <= Len(legs[i])
        /\ Product(s) * price <= budget
        /\ Cardinality({i \in LegNumbers : s[i] = 1}) = ExactSpikes
        /\ Chance(legs, s) > 0}

AsGood(legs, s, t) ==
    \/ Chance(legs, s) > Chance(legs, t)
    \/ Chance(legs, s) = Chance(legs, t) /\ Product(s) < Product(t)
    \/ Chance(legs, s) = Chance(legs, t) /\ Product(s) = Product(t)
           /\ (s = t \/ SignatureBefore(s, t))

Market(id, legs, complete) ==
    [lock |-> id, legs |-> [i \in LegNumbers |->
        [complete |-> complete, parts |-> IF complete THEN Reverse(legs[i]) ELSE <<>>]]]
===============================================================================
