------------------------------- MODULE Features -------------------------------
(***************************************************************************)
(* The features of a start that a blind judgement is given, each built from   *)
(* what was known at its cutoff: performance (performance-features-v3.js),    *)
(* equipment response (equipment-response-v1.js), person context              *)
(* (person-context-*.js), the candidates of a replay                          *)
(* (replay-feature-candidates-v1.js), and the snapshots of the official       *)
(* provider as of an instant (official-snapshots.js).                        *)
(*                                                                           *)
(* A metric keeps its sample, a set of <<entry, value>>: means, medians, best *)
(* values, rates and confidences are functions of it.                        *)
(***************************************************************************)
EXTENDS RelevantHistory


CONSTANTS
    YearLength,     \* instants of a year
    Windows,        \* days of the person windows, {14, 30, 90, 365}
    BaselineDays,   \* 365
    SegmentRows,    \* rows a person's segment needs, 3
    DevelopmentRows, ComparisonRows,    \* recent rows, and known values a comparison needs
    TrainerRows     \* newest starts of a trainer that are looked at

ASSUME FeaturesAssumption ==
    /\ YearLength \in Nat \ {0} /\ BaselineDays \in Nat /\ Windows \subseteq Nat /\ SegmentRows \in Nat
    /\ DevelopmentRows \in Nat /\ ComparisonRows \in Nat \ {0} /\ TrainerRows \in Nat \ {0}

(***************************************************************************)
(* Samples.                                                                  *)
(***************************************************************************)
Starts(rows) == {r.start : r \in rows}

Values(starts, fact) ==
    {<<s.entry, s.result.facts[fact]>> : s \in {x \in starts : fact \in DOMAIN x.result.facts}}
Placings(starts) == {v \in Values(starts, "placing") : v[2] > 0}
UpTo(starts, place) == {<<v[1], v[2] <= place>> : v \in Placings(starts)}
Prizes(starts) == {<<s.entry, s.prize>> : s \in {x \in starts : x.prize # NoValue}}
Times(rows, time) ==
    {<<r.start.entry, r.telemetry[time]>> :
        r \in {x \in rows : x.telemetry # NoValue /\ time \in DOMAIN x.telemetry}}

Metric(sample, total) ==
    LET n == Cardinality(sample)
    IN  [sample |-> sample, total |-> total, level |-> EvidenceLevel(n, n, 0)]
ContextMetric(sample, total) ==
    [sample |-> sample, total |-> total, level |-> EvidenceLevel(0, 0, Cardinality(sample))]

IfAny(sample) == IF sample = {} THEN NoValue ELSE sample
Prior(level, sample) == [level |-> level, value |-> IfAny(sample), effective |-> Cardinality(sample)]
Shrunk(sample, priors) == Backoff(IfAny(sample), Cardinality(sample), priors)

(***************************************************************************)
(* Snapshots of the official provider: of a source that is synced completely. *)
(* The newest observation counts, whichever source repeated it.              *)
(***************************************************************************)
Snapshot(book, of, cutoff) ==
    LET known == Known(book.snapshots, of, cutoff)
        Later(r, q) == r.observed > q.observed \/ (r.observed = q.observed /\ r.id > q.id)
    IN  IF known = {} THEN NoValue ELSE (CHOOSE r \in known : ~ \E q \in known : Later(q, r)).value

YearOf(instant) == instant \div YearLength
Annual(book, who, cutoff) == Snapshot(book, <<"year", YearOf(cutoff), who>>, cutoff)
Life(book, who, cutoff) == Snapshot(book, <<"life", who>>, cutoff)

StartPoints(book, horse, cutoff) ==
    LET Points(stat) == IF stat = NoValue THEN NoValue ELSE stat.points
        year == Points(Annual(book, <<"horse", horse>>, cutoff))
    IN  IF year # NoValue THEN year ELSE Points(Life(book, <<"horse", horse>>, cutoff))

\* How many of the official starts are in the book.
OfficialCoverage(book, horse, cutoff) ==
    LET own == Cardinality({s \in book.starts : s.horse = horse /\ OfficialBy(s, cutoff)})
        life == Life(book, <<"horse", horse>>, cutoff)
    IN  IF life = NoValue THEN "no_official_life"
        ELSE IF own > life.starts THEN "source_conflict"
        ELSE IF own = life.starts THEN "complete" ELSE "partial"

(***************************************************************************)
(* Performance, from the rows that are shown.                                 *)
(***************************************************************************)
Capacity(book, target, h) ==
    [record |-> Snapshot(book, <<"record", <<"horse", target.horse>>>>, h.cutoff),
     points |-> StartPoints(book, target.horse, h.cutoff),
     life   |-> Life(book, <<"horse", target.horse>>, h.cutoff),
     times  |-> Metric(Values(Starts(h.shown), "time"), Cardinality(h.shown)),
     last400 |-> Metric(Times(h.shown, "last400"), Cardinality(h.shown)),
     prizes |-> Metric(Prizes(Starts(h.shown)), Cardinality(h.shown))]

Form(h) ==
    LET n == Cardinality(h.shown)
        starts == Starts(h.shown)
    IN  [placings |-> Metric(Placings(starts), n),
         facts    |-> [f \in {"time", "gallop", "disqualified"} |-> Metric(Values(starts, f), n)],
         times    |-> [t \in {"first200", "last400"} |-> Metric(Times(h.shown, t), n)],
         covered  |-> Cardinality({r \in h.shown : r.telemetry # NoValue}),
         rest     |-> h.rest]

\* The race as it stands now: its first prize and who runs in it have no instant.
Opponents(book, target) ==
    {s \in book.starts : s.race = target.race /\ s.entry # target.entry /\ ~ s.scratched}

ClassContext(book, target, h) ==
    LET against == Opponents(book, target)
        points == {<<s.entry, StartPoints(book, s.horse, h.cutoff)>> : s \in against}
    IN  [prize |-> target.prize,
         prizes |-> Metric(Prizes(Starts(h.shown)), Cardinality(h.shown)),
         points |-> StartPoints(book, target.horse, h.cutoff),
         against |-> Metric({p \in points : p[2] # NoValue}, Cardinality(against)),
         proposition |-> h.proposition]

\* Here a start of an unknown hour counts as the beginning of its day.
Development(h) ==
    LET starts == Starts(h.shown)
        Later(a, b) == \/ TargetEvent(a) > TargetEvent(b)
                       \/ TargetEvent(a) = TargetEvent(b)
                          /\ (a.race < b.race \/ (a.race = b.race /\ a.entry < b.entry))
        recent == {s \in starts : Cardinality({q \in starts : Later(q, s)}) < DevelopmentRows}
        samples == [placings |-> Placings(starts), top3 |-> UpTo(starts, 3), times |-> Values(starts, "time"),
                    prizes |-> Prizes(starts), last400 |-> Times(h.shown, "last400")]
        Part(f, those) == {v \in samples[f] : v[1] \in {s.entry : s \in those}}
    IN  [f \in DOMAIN samples |->
            [recent |-> Part(f, recent), baseline |-> Part(f, starts \ recent),
             compared |-> /\ Cardinality(Part(f, recent)) >= ComparisonRows
                          /\ Cardinality(Part(f, starts \ recent)) >= ComparisonRows]]

SameMethod(target, starts) == {s \in starts : Same(target.method, s.method)}
SameContext(target, starts) == {s \in SameMethod(target, starts) : Similar(target, s)}

MethodDistance(target, h) ==
    LET starts == Starts(h.shown)
        direct == SameContext(target, starts)
    IN  Shrunk(UpTo(direct, 3),
            <<Prior("same_start_method", UpTo(SameMethod(target, starts) \ direct, 3)),
              Prior("relevant_history", UpTo(starts \ direct, 3))>>)

RestReadiness(h) ==
    LET like == {r \in h.shown : Same(RestBucket(h.rest), RestBucket(r.rest))}
    IN  [gallops |-> Values(Starts(like), "gallop"),
         top3 |-> Shrunk(UpTo(Starts(like), 3),
                     <<Prior("relevant_history_other_rest", UpTo(Starts(h.shown \ like), 3))>>)]

\* The last prior is the whole safe history, the direct sample included.
GallopRisk(target, h) ==
    LET starts == Starts(h.shown)
        direct == SameContext(target, starts)
    IN  [failed |-> h.aggregates.failed,
         gallops |-> Shrunk(Values(direct, "gallop"),
             <<Prior("same_start_method", Values(SameMethod(target, starts) \ direct, "gallop")),
               Prior("full_safe_history", Values(Starts(h.rows), "gallop"))>>)]

Performance(book, target, h) ==
    [capacity |-> Capacity(book, target, h), form |-> Form(h), class |-> ClassContext(book, target, h),
     development |-> Development(h), methodDistance |-> MethodDistance(target, h),
     rest |-> RestReadiness(h), gallop |-> GallopRisk(target, h)]

(***************************************************************************)
(* Equipment: what the horse did in this state and after this change, and the *)
(* trainer's other horses after the same change.  Equipment without a known   *)
(* part is none.                                                             *)
(***************************************************************************)
Equipped(value) == IF value = NoValue \/ DOMAIN value.state = {} THEN NoValue ELSE value
ChangeOf(value) == IF Equipped(value) = NoValue THEN NoValue ELSE value.change

Summary3(starts, rows) ==
    [placings |-> Placings(starts), gallops |-> Values(starts, "gallop"), starts |-> Cardinality(starts),
     times |-> [t \in {"first200", "last400"} |-> Times(rows, t)]]

\* The horse's estimates start from a direct sample, never from the prior alone.
OwnPrior(direct, prior) ==
    Shrunk(direct, IF direct = {} THEN <<>> ELSE <<Prior("horse_all_safe_history", prior)>>)

TrainerStarts(book, target, cutoff) ==
    LET known == {s \in book.starts : Same(target.trainer, s.trainer) /\ EventOf(s) < cutoff /\ OfficialBy(s, cutoff)}
        Later(q, s) == EventOf(q) > EventOf(s) \/ (EventOf(q) = EventOf(s) /\ q.entry > s.entry)
    IN  {s \in known : Cardinality({q \in known : Later(q, s)}) < TrainerRows}

EquipmentResponse(book, target, h) ==
    LET now == Equipped(h.equipment)
        change == ChangeOf(h.equipment)
        usable == {r \in book.equipment : Equipped(r.value) # NoValue}
        known == {r \in h.rows : Equipped(r.equipment) # NoValue}
        same == {r \in known : now # NoValue /\ r.equipment.state = now.state}
        changed == {r \in known : Same(change, ChangeOf(r.equipment))}
        others == {s \in TrainerStarts(book, target, h.cutoff) :
                     /\ s.horse # target.horse
                     /\ Same(change, ChangeOf(NewestOf(usable, s.entry, h.cutoff)))}
    IN  [now |-> now,
         same |-> Summary3(Starts(same), same),
         changed |-> Summary3(Starts(changed), changed),
         baseline |-> Summary3(Starts(h.rows \ changed), {}),
         top3 |-> OwnPrior(UpTo(Starts(same), 3), UpTo(Starts(h.rows), 3)),
         wins |-> OwnPrior(UpTo(Starts(same), 1), UpTo(Starts(h.rows), 1)),
         gallops |-> OwnPrior(Values(Starts(same), "gallop"), Values(Starts(h.rows), "gallop")),
         trainer |-> [top3 |-> ContextMetric(UpTo(others, 3), Cardinality(others)),
                      gallops |-> ContextMetric(Values(others, "gallop"), Cardinality(others))]]

(***************************************************************************)
(* Persons: the year before the cutoff, its windows and its segments.         *)
(***************************************************************************)
Within(starts, cutoff, days) ==
    {s \in starts : EventOf(s) >= cutoff - days * DayLength /\ EventOf(s) < cutoff}

PersonStarts(book, role, who, cutoff) ==
    Within({s \in book.starts : Same(who, s[role]) /\ OfficialBy(s, cutoff)}, cutoff, BaselineDays)

PersonSummary(starts) ==
    [placings |-> Placings(starts), starts |-> Cardinality(starts),
     facts |-> [f \in {"gallop", "disqualified"} |-> Values(starts, f)]]

\* A window is shrunk towards the year, of which it is a part.
Window(starts, cutoff, days) ==
    LET own == Within(starts, cutoff, days)
    IN  [summary |-> PersonSummary(own),
         top3 |-> Shrunk(UpTo(own, 3), <<Prior("person_365d_baseline", UpTo(starts, 3))>>),
         wins |-> Shrunk(UpTo(own, 1), <<Prior("person_365d_baseline", UpTo(starts, 1))>>),
         gallops |-> Shrunk(Values(own, "gallop"),
                             <<Prior("person_365d_baseline", Values(starts, "gallop"))>>)]

Segment(starts) ==
    IF Cardinality(starts) >= SegmentRows THEN PersonSummary(starts)
    ELSE [starts |-> Cardinality(starts)]

Segments(target, starts) ==
    [method   |-> Segment(SameMethod(target, starts)),
     distance |-> Segment({s \in starts : Similar(target, s)}),
     track    |-> Segment({s \in starts : Same(target.track, s.track)}),
     tier     |-> Segment({s \in starts : Same(target.tier, s.tier)})]

\* The provider's own figures of the year step in only when the book knows no start.
Availability(starts, annual) ==
    IF starts # {} THEN "own_history"
    ELSE IF annual # NoValue /\ annual.starts > 0 THEN "provider_fallback" ELSE "unavailable"

Person(book, target, role, cutoff) ==
    LET who == target[role]
        starts == PersonStarts(book, role, who, cutoff)
        annual == IF who = NoValue THEN NoValue ELSE Annual(book, <<role, who>>, cutoff)
    IN  [availability |-> Availability(starts, annual), annual |-> annual,
         windows |-> [days \in Windows |-> Window(starts, cutoff, days)],
         segments |-> Segments(target, starts)]

\* The horse with this driver against the horse with another one, within the year.
DriverHorse(target, h) ==
    LET starts == Within(Starts(h.rows), h.cutoff, BaselineDays)
        together == {s \in starts : Same(target.driver, s.driver)}
        apart == {s \in starts \ together : target.driver # NoValue /\ s.driver # NoValue}
    IN  [together |-> PersonSummary(together), apart |-> PersonSummary(apart),
         first200 |-> Times({r \in h.rows : r.start \in together}, "first200")]

PersonContext(book, target, h) ==
    [driver |-> Person(book, target, "driver", h.cutoff),
     trainer |-> Person(book, target, "trainer", h.cutoff),
     together |-> DriverHorse(target, h)]

(***************************************************************************)
(* Candidates of a replay, for the entries of a race.                         *)
(***************************************************************************)
PointsDynamics(book, target, field, cutoff) ==
    LET rows(s) == Known(book.points, s.horse, cutoff)
        now(s) == NewestOf(rows(s), s.horse, cutoff)
        different == {r \in rows(target) : r.value # now(target)}
    IN  [now |-> now(target), previous |-> NewestOf(different, target.horse, cutoff),
         observations |-> Cardinality(rows(target)),
         above |-> IF now(target) = NoValue THEN NoValue
                   ELSE Cardinality({s \in field : now(s) # NoValue /\ now(s) > now(target)})]

\* Positions reconstructed in earlier starts, whatever their results: of each start the
\* trajectory stored last, a target's own among them if its start lies before the cutoff.
PositionEvidence(book, target, cutoff) ==
    LET past == {s \in book.starts : s.horse = target.horse /\ EventOf(s) < cutoff}
        values == {<<s.entry, NewestOf(book.trajectories, s.entry, cutoff)>> : s \in past}
    IN  {v \in values : v[2] # NoValue}

Candidates(book, target, field, cutoff) ==
    [points |-> PointsDynamics(book, target, field, cutoff),
     terms |-> PropositionOf(book, target, cutoff),
     positions |-> PositionEvidence(book, target, cutoff)]

(***************************************************************************)
(* All of it.                                                                *)
(***************************************************************************)
FeaturesOf(book, target, asOf) ==
    LET h == History(book, target, asOf)
    IN  [history |-> h, coverage |-> OfficialCoverage(book, target.horse, h.cutoff),
         performance |-> Performance(book, target, h), equipment |-> EquipmentResponse(book, target, h),
         persons |-> PersonContext(book, target, h),
         candidates |-> Candidates(book, target, {target} \cup Opponents(book, target), h.cutoff)]

\* What the database held at an instant: the starts, and of results and observations
\* those that were made and stored by then.
AsKnown(book, instant) ==
    LET Kept(rows) == {r \in rows : r.observed <= instant /\ r.seen <= instant}
    IN  [starts |-> {IF s.result = NoValue \/ s.result.seen <= instant THEN s
                     ELSE [s EXCEPT !.result = NoValue] : s \in book.starts},
         equipment |-> Kept(book.equipment), telemetry |-> Kept(book.telemetry),
         propositions |-> Kept(book.propositions), points |-> Kept(book.points),
         intervals |-> Kept(book.intervals), trajectories |-> Kept(book.trajectories), snapshots |-> Kept(book.snapshots)]
===============================================================================
