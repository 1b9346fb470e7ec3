--------------------------- MODULE ReplayCalibration ---------------------------
(***************************************************************************)
(* Replays of stored forecasts against what happened                          *)
(* (replay-calibration-v1.js): which decision of a round is replayed, how the  *)
(* targets are divided into chronological folds, what is scored on the         *)
(* held-out groups, and what is checked before a result is stored.            *)
(*                                                                           *)
(* A forecast gives every entry its parts of One (see DecisionOptimizer).     *)
(* Means are kept as counts and sums, the logarithmic loss as the bag of the  *)
(* probabilities the winners had.  A stored replay has the hash of its         *)
(* content as id, so storing it twice is storing it once.                     *)
(***************************************************************************)
EXTENDS DecisionOptimizer

LOCAL INSTANCE FiniteSetsExt
LOCAL INSTANCE Functions

CONSTANTS
    Bins            \* calibration bins, 10

ASSUME ReplayAssumption == Bins \in Nat \ {0}

(***************************************************************************)
(* Scores.                                                                   *)
(***************************************************************************)
Observed(e, winner) == IF e = winner THEN One ELSE 0

Score(forecast, winner) ==
    [probability |-> forecast[winner],
     rank  |-> 1 + Cardinality({e \in DOMAIN forecast : Likelier(forecast, e, winner)}),
     brier |-> MapThenSumSet(LAMBDA e : (forecast[e] - Observed(e, winner)) * (forecast[e] - Observed(e, winner)),
                             DOMAIN forecast)]

BinOf(p) == Min({Bins - 1, (p * Bins) \div One})

\* evaluations: [target, group, at, variant, winner, forecast]
Calibration(evaluations) ==
    [b \in 0 .. Bins - 1 |->
        LET inBin == {x \in evaluations \X LegNumbers :
                        x[2] \in DOMAIN x[1].forecast /\ BinOf(x[1].forecast[x[2]]) = b}
        IN  [count     |-> Cardinality(inBin),
             predicted |-> MapThenSumSet(LAMBDA x : x[1].forecast[x[2]], inBin),
             observed  |-> Cardinality({x \in inBin : x[2] = x[1].winner})]]

Summary(evaluations) ==
    LET of(v) == Score(v.forecast, v.winner)
    IN  [count  |-> Cardinality(evaluations),
         losses |-> [q \in 0 .. One |-> Cardinality({v \in evaluations : of(v).probability = q})],
         brier  |-> MapThenSumSet(LAMBDA v : of(v).brier, evaluations),
         rank   |-> MapThenSumSet(LAMBDA v : of(v).rank, evaluations),
         within |-> [k \in 1 .. 3 |-> Cardinality({v \in evaluations : of(v).rank <= k})],
         calibration |-> Calibration(evaluations)]

(***************************************************************************)
(* Walk-forward folds: groups of the same instant share a block, and a fold    *)
(* trains on the first blocks, calibrates on the next and tests on the next.   *)
(***************************************************************************)
BlocksByGroup(groups) ==
    [i \in 1 .. Cardinality(groups) |->
        {g \in groups : Cardinality({h \in groups : h.at < g.at \/ (h.at = g.at /\ h.id < g.id)}) = i - 1}]
Blocks(groups) ==
    LET times == {g.at : g \in groups}
    IN  [i \in 1 .. Cardinality(times) |->
            {g \in groups : Cardinality({t \in times : t < g.at}) = i - 1}]

Between(blocks, from, to) == UNION {blocks[i] : i \in from + 1 .. to}

Folds(groups, policy) ==
    LET blocks == Blocks(groups)
        ahead == policy.calibration + policy.test
        ends == {n \in policy.train .. Len(blocks) - ahead : (n - policy.train) % policy.step = 0}
    IN  {[train       |-> Between(blocks, 0, n),
          calibration |-> Between(blocks, n, n + policy.calibration),
          test        |-> Between(blocks, n + policy.calibration, n + ahead)] : n \in ends}

Tested(folds) == {g.id : g \in UNION {f.test : f \in folds}}

(***************************************************************************)
(* Ablations: every variant differs from the baseline in one feature family.   *)
(***************************************************************************)
AblationsAccepted(families, baseline, ablations) ==
    /\ baseline \subseteq families
    /\ \A a \in ablations : /\ a.family \in families
                            /\ a.mode = "remove" <=> a.family \in baseline
    /\ \A a, b \in ablations : a.id = b.id => a = b

FamiliesOf(baseline, a) ==
    IF a.mode = "remove" THEN baseline \ {a.family} ELSE baseline \cup {a.family}

\* The feature families every variant may look at.
FeatureSets(baseline, ablations) ==
    [v \in {"baseline"} \cup {a.id : a \in ablations} |->
        IF v = "baseline" THEN baseline
        ELSE FamiliesOf(baseline, CHOOSE a \in ablations : a.id = v)]

\* A race outside the games is a target of its own when exactly one entry won it and two
\* or more started.  races: [id, at, game, winners, features]; predict is what the producer makes of a view of the features.
SportsTargets(races, sets, predict) ==
    {[id |-> r.id, group |-> r.id, groupAt |-> r.at, at |-> r.at, eligible |-> TRUE,
      winner |-> CHOOSE e \in r.winners : TRUE,
      forecasts |-> [v \in DOMAIN sets |-> predict[[f \in sets[v] |-> r.features[f]]]]] :
        r \in {x \in races : ~ x.game /\ Cardinality(x.winners) = 1}}

(***************************************************************************)
(* A replay.  targets: [id, group, groupAt, at, winner, forecasts, eligible],  *)
(* forecasts by variant: blind and decision, or the baseline and ablations.    *)
(* config: the walk-forward policy and the groups named as regression-only.    *)
(***************************************************************************)
Automatic(targets) == {t.group : t \in {u \in targets : ~ u.eligible}}

Evaluations(targets) ==
    UNION {{[target |-> t.id, group |-> t.group, at |-> t.at, variant |-> v,
             winner |-> t.winner, forecast |-> t.forecasts[v]] : v \in DOMAIN t.forecasts} : t \in targets}

ByVariant(evaluations, groups) ==
    [v \in {x.variant : x \in evaluations} |->
        Summary({x \in evaluations : x.variant = v /\ x.group \in groups})]

Replay(targets, config) ==
    LET regression == config.regression \cup Automatic(targets)
        evidence == {t \in targets : t.group \notin regression}
        folds == Folds({[id |-> t.group, at |-> t.groupAt] : t \in evidence}, config.policy)
        evaluations == Evaluations(targets)
    IN  [config    |-> config,
         automatic |-> Automatic(targets),
         status    |-> IF folds = {} THEN "insufficient_evidence" ELSE "completed",
         targets   |-> Cardinality(targets),
         evidence  |-> Cardinality(evidence),
         folds     |-> folds,
         heldOut   |-> ByVariant(evaluations, Tested(folds)),
         regression |-> ByVariant(evaluations, regression),
         evaluations |-> evaluations]

(***************************************************************************)
(* Before a result is stored, everything in it is computed again from its      *)
(* evaluations and its configuration.                                         *)
(***************************************************************************)
TargetsOf(evaluations) ==
    {[id |-> v.target, group |-> v.group, at |-> v.at, winner |-> v.winner,
      field |-> DOMAIN v.forecast] : v \in evaluations}

\* A target is one and the same in all of its variants.
OneIdentity(evaluations) ==
    \A t, u \in TargetsOf(evaluations) : t.id = u.id => t = u

VariantsOf(evaluations, id) == {v.variant : v \in {x \in evaluations : x.target = id}}

\* The instant of a group is the earliest of its targets.
LatestGroups(targets) ==
    {[id |-> t.group, at |-> Max({u.at : u \in {x \in targets : x.group = t.group}})] : t \in targets}
GroupsOf(targets) ==
    {[id |-> t.group, at |-> Min({u.at : u \in {x \in targets : x.group = t.group}})] : t \in targets}

Storable(result, variants) ==
    LET targets == TargetsOf(result.evaluations)
        regression == result.config.regression
        evidence == {t \in targets : t.group \notin regression}
    IN  /\ OneIdentity(result.evaluations)
        /\ result.targets = Cardinality(targets)
        /\ result.evidence = Cardinality(evidence)
        /\ result.folds = Folds(GroupsOf(evidence), result.config.policy)
        /\ result.status = IF result.folds = {} THEN "insufficient_evidence" ELSE "completed"
        /\ \A t \in targets : VariantsOf(result.evaluations, t.id) = variants
        /\ result.heldOut = ByVariant(result.evaluations, Tested(result.folds))
        /\ result.regression = ByVariant(result.evaluations, regression)

(***************************************************************************)
(* The decision of a round that is replayed.  A round: [first, last] of its     *)
(* starts, settled, external: the instants its external runs were created and  *)
(* rest on, and what was sealed: decisions [id, lock, cutoff, created],         *)
(* locks [id, asOf, created], revisions [parent, created], optimizers           *)
(* [id, decision, created] and integrations [id, decision, optimizer, step2,    *)
(* created].                                                                 *)
(***************************************************************************)
LockOf(r, d) == CHOOSE l \in r.locks : l.id = d.lock

Replayable(r, d) ==
    /\ r.external = {}
    /\ d.cutoff <= r.first
    /\ d.created < r.first
    /\ LockOf(r, d).created < d.cutoff
    /\ ~ \E v \in r.revisions : v.parent = d.lock /\ v.created <= d.cutoff

LaterDecision(d, e) ==
    \/ d.cutoff > e.cutoff
    \/ d.cutoff = e.cutoff /\ d.created > e.created
    \/ d.cutoff = e.cutoff /\ d.created = e.created /\ d.id > e.id

AllOptimizers(r, d) == {o.id : o \in {x \in r.optimizers : x.decision = d.id}}
OptimizersBefore(r, d) ==
    {o.id : o \in {x \in r.optimizers : x.decision = d.id /\ x.created < r.first}}

IntegrationsBefore(r, d) ==
    {i \in r.integrations : i.decision = d.id /\ i.created < r.first /\ i.step2 < r.first}

\* An integration on an optimizer run that is not among them is refused: nothing is replayed.
Lineage(r) ==
    LET candidates == {d \in r.decisions : Replayable(r, d)}
        chosen == {d \in candidates : ~ \E e \in candidates : LaterDecision(e, d)}
    IN  {[decision |-> d.id, lock |-> d.lock, optimizers |-> OptimizersBefore(r, d),
          integrations |-> {i.id : i \in IntegrationsBefore(r, d)}] :
            d \in {x \in chosen : r.settled
                     /\ \A i \in IntegrationsBefore(r, x) : i.optimizer \in OptimizersBefore(r, x)}}

\* An external run teaches when every instant it rests on lies before the first start.
ExternalEligible(r) == \A t \in UNION r.external : t < r.first

(***************************************************************************)
(* The system of an optimizer run is computed again, and scored.              *)
(***************************************************************************)
Diagnostic(decision, budget, price, winners, stored) ==
    LET system == System(decision, budget, price)
        chosen(i) == Range(SubSeq(Ranked(decision[i]), 1, system[i]))
        covered == {i \in LegNumbers : winners[i] \in chosen(i)}
    IN  IF system = Refused \/ stored # [i \in LegNumbers |-> chosen(i)] THEN Refused
        ELSE [covered |-> Cardinality(covered),
              spikeMisses |-> Cardinality({i \in LegNumbers \ covered : system[i] = 1}),
              hit |-> covered = LegNumbers]
===============================================================================
