--------------------------- MODULE RelevantHistory ---------------------------
(***************************************************************************)
(* What may be known about a start before it: the cutoff of a target, the     *)
(* starts and observations that lie before it, and the selection of the past  *)
(* starts that are shown (relevant-history-v1.js), with the evidence levels   *)
(* and the hierarchical backoff every feature uses (analysis-v3-foundations.js).*)
(*                                                                           *)
(* A book is what the database holds:                                        *)
(*   starts  a set of [entry, race, horse, driver, trainer, day, at, method,  *)
(*           track, distance, actual, type, prize, lane, tier, handicap,      *)
(*           scratched, result], the result NoValue or [seen, official,       *)
(*           facts]: the facts that are known                                *)
(*   and sets of observations [of, observed, seen, id, value], of an entry    *)
(*   (equipment, telemetry, intervals, trajectories), of a race               *)
(*   (propositions), of a horse (points) or of a horse or person and a kind   *)
(*   (snapshots), the value NoValue when the row cannot be used.              *)
(* Instants are numbers, a day has DayLength of them, and what is not known   *)
(* is NoValue.  A mean or a rate is kept as its sample.                       *)
(***************************************************************************)
EXTENDS Integers, Sequences, FiniteSets

LOCAL INSTANCE FiniteSetsExt

CONSTANTS
    NoValue,
    DayLength,      \* instants of a day
    MaxRows,        \* rows shown, 16
    RecentRows,     \* of them the newest, 5
    Tolerance,      \* of similar distances, 250 m
    RestShort, RestNormal,  \* 14 and 45 days
    MinEffective,   \* the sample a prior needs, 8
    RelevantForA    \* the relevant sample of evidence level A, 3

ASSUME HistoryAssumption ==
    /\ NoValue \notin Int
    /\ DayLength \in Nat \ {0} /\ MaxRows \in Nat \ {0} /\ RecentRows \in 1 .. MaxRows
    /\ RestShort \in Nat /\ RestNormal \in Nat /\ RestShort <= RestNormal
    /\ MinEffective \in Nat \ {0} /\ RelevantForA \in Nat \ {0} /\ Tolerance \in Nat

(***************************************************************************)
(* Instants: a past start of an unknown hour counts as the end of its day, a  *)
(* target as the beginning of it.                                             *)
(***************************************************************************)
EventOf(s) == IF s.at # NoValue THEN s.at ELSE (s.day + 1) * DayLength - 1
TargetEvent(s) == IF s.at # NoValue THEN s.at ELSE s.day * DayLength
CutoffOf(target, asOf) == Min({TargetEvent(target), asOf})

(***************************************************************************)
(* Observations: the newest that can be read and was made and stored by then. *)
(***************************************************************************)
NewerRow(r, q) ==
    \/ r.observed > q.observed
    \/ r.observed = q.observed /\ r.seen > q.seen
    \/ r.observed = q.observed /\ r.seen = q.seen /\ r.id > q.id

KnownObserved(rows, of, cutoff) == {r \in rows : r.of = of /\ r.observed <= cutoff /\ r.value # NoValue}
Known(rows, of, cutoff) == {r \in KnownObserved(rows, of, cutoff) : r.seen <= cutoff}

NewestOf(rows, of, cutoff) ==
    LET known == Known(rows, of, cutoff)
    IN  IF known = {} THEN NoValue
        ELSE (CHOOSE r \in known : ~ \E q \in known : NewerRow(q, r)).value

EquipmentOf(book, s, cutoff) == NewestOf(book.equipment, s.entry, cutoff)
TelemetryOf(book, s, cutoff) == NewestOf(book.telemetry, s.entry, cutoff)
PropositionOf(book, s, cutoff) == NewestOf(book.propositions, s.race, cutoff)

(***************************************************************************)
(* The safe rows: the horse's other starts with an official result, over and  *)
(* seen at the cutoff.                                                        *)
(***************************************************************************)
OfficialBy(s, cutoff) ==
    /\ ~ s.scratched /\ s.result # NoValue
    /\ s.result.official /\ s.result.seen <= cutoff

Safe(book, target, cutoff) ==
    {s \in book.starts : /\ s.horse = target.horse /\ s.entry # target.entry /\ s.race # target.race
                         /\ EventOf(s) < cutoff /\ OfficialBy(s, cutoff)}

Newer(a, b) ==
    \/ EventOf(a) > EventOf(b)
    \/ EventOf(a) = EventOf(b) /\ (a.race < b.race \/ (a.race = b.race /\ a.entry < b.entry))

NewestRows(rows, n) == {s \in rows : Cardinality({q \in rows : Newer(q, s)}) < n}

\* The start before this one, in the order of events and then of ids.
Before(rows, s) ==
    {q \in rows \ {s} : EventOf(q) < EventOf(s) \/ (EventOf(q) = EventOf(s) /\ Newer(q, s))}
RestOf(rows, s) ==
    IF Before(rows, s) = {} THEN NoValue
    ELSE EventOf(s) - Max({EventOf(q) : q \in Before(rows, s)})
RestBucket(rest) ==
    IF rest = NoValue THEN NoValue
    ELSE IF rest <= RestShort * DayLength THEN "short"
    ELSE IF rest <= RestNormal * DayLength THEN "normal" ELSE "long"
TargetRest(rows, cutoff) ==
    IF rows = {} THEN NoValue ELSE cutoff - Max({EventOf(q) : q \in rows})

(***************************************************************************)
(* Why a row is shown.                                                       *)
(***************************************************************************)
ReasonOrder == <<"same_start_method", "similar_distance", "same_track_context", "similar_proposition",
                 "same_equipment", "same_driver", "xlabs_representative", "rest_comparable", "error_pattern">>

Same(x, y) == x # NoValue /\ x = y

\* A proposition is a function of the facts that were parsed.
Signature(proposition) ==
    IF proposition = NoValue \/ DOMAIN proposition = {} THEN NoValue ELSE proposition

\* Equipment is a function of the parts that are known.
EquipmentMatch(target, past) ==
    /\ target # NoValue /\ past # NoValue /\ DOMAIN target.state # {}
    /\ \A part \in DOMAIN target.state :
           part \in DOMAIN past.state /\ past.state[part] = target.state[part]

\* The distance a horse ran from where it started, else that of the race.
DistanceOf(s) == IF s.actual # NoValue THEN s.actual ELSE s.distance
Similar(target, s) ==
    /\ DistanceOf(target) # NoValue /\ DistanceOf(s) # NoValue
    /\ DistanceOf(s) \in DistanceOf(target) - Tolerance .. DistanceOf(target) + Tolerance

HasFact(s, fact, value) == fact \in DOMAIN s.result.facts /\ s.result.facts[fact] = value

Reasons(book, target, cutoff, rows, s) ==
    LET holds ==
          [recent              |-> s \in NewestRows(rows, RecentRows),
           same_start_method   |-> Same(target.method, s.method),
           similar_distance    |-> Similar(target, s),
           same_track_context  |-> Same(target.track, s.track),
           similar_proposition |-> Same(Signature(PropositionOf(book, target, cutoff)),
                                       Signature(PropositionOf(book, s, cutoff))),
           same_equipment      |-> EquipmentMatch(EquipmentOf(book, target, cutoff), EquipmentOf(book, s, cutoff)),
           same_driver         |-> Same(target.driver, s.driver),
           xlabs_representative |-> TelemetryOf(book, s, cutoff) # NoValue,
           rest_comparable     |-> Same(RestBucket(TargetRest(rows, cutoff)), RestBucket(RestOf(rows, s))),
           error_pattern       |-> HasFact(s, "gallop", TRUE) \/ HasFact(s, "disqualified", TRUE)]
    IN  {r \in DOMAIN holds : holds[r]}

(***************************************************************************)
(* The rows that are shown: the newest, then for every reason its best row    *)
(* that is not shown yet, then the best of the rest.                          *)
(***************************************************************************)
WithBest(shown, pool, reasons) ==
    LET left == pool \ shown
        Better(a, b) == \/ Cardinality(reasons[a]) > Cardinality(reasons[b])
                        \/ Cardinality(reasons[a]) = Cardinality(reasons[b]) /\ Newer(a, b)
    IN  IF Cardinality(shown) >= MaxRows \/ left = {} THEN shown
        ELSE shown \cup {CHOOSE s \in left : ~ \E q \in left : Better(q, s)}

\* The newest, grown by the best row of each pool in turn.
GrownBy(reasons, pools) ==
    LET shown[i \in 0 .. Len(pools)] ==
            IF i = 0 THEN NewestRows(DOMAIN reasons, RecentRows) ELSE WithBest(shown[i - 1], pools[i], reasons)
    IN  shown[Len(pools)]

PerReason(reasons) == [i \in DOMAIN ReasonOrder |-> {s \in DOMAIN reasons : ReasonOrder[i] \in reasons[s]}]
Filling(reasons) == [i \in 1 .. MaxRows |-> {s \in DOMAIN reasons : reasons[s] # {}}]

ShownNewestFirst(reasons) == GrownBy(reasons, Filling(reasons) \o PerReason(reasons))

Shown(reasons) == GrownBy(reasons, PerReason(reasons) \o Filling(reasons))

(***************************************************************************)
(* What is known about all of the rows together.                              *)
(***************************************************************************)
Facts == {"placing", "earned", "gallop", "disqualified", "time"}

Earned(rows) ==
    MapThenSumSet(LAMBDA s : s.result.facts["earned"], {s \in rows : "earned" \in DOMAIN s.result.facts})

Aggregates(book, rows, cutoff) ==
    LET Count(P(_)) == Cardinality({s \in rows : P(s)})
    IN  [starts  |-> Cardinality(rows),
         known   |-> [f \in Facts |-> Count(LAMBDA s : f \in DOMAIN s.result.facts)],
         placed  |-> [p \in 1 .. 3 |-> Count(LAMBDA s : HasFact(s, "placing", p))],
         failed  |-> [f \in {"gallop", "disqualified"} |-> Count(LAMBDA s : HasFact(s, f, TRUE))],
         methods |-> [m \in {s.method : s \in rows} \ {NoValue} |-> Count(LAMBDA s : s.method = m)],
         earned  |-> Earned(rows),
         telemetry |-> Count(LAMBDA s : TelemetryOf(book, s, cutoff) # NoValue),
         equipment |-> Count(LAMBDA s : EquipmentOf(book, s, cutoff) # NoValue),
         events  |-> {EventOf(s) : s \in rows}]

\* What the features of a target are built from: every safe row with what is known about
\* it, and the rows that are shown.
History(book, target, asOf) ==
    LET cutoff == CutoffOf(target, asOf)
        starts == Safe(book, target, cutoff)
        reasons == [s \in starts |-> Reasons(book, target, cutoff, starts, s)]
        Row(s) == [start |-> s, reasons |-> reasons[s], rest |-> RestOf(starts, s),
                   equipment |-> EquipmentOf(book, s, cutoff),
                   telemetry |-> TelemetryOf(book, s, cutoff),
                   proposition |-> PropositionOf(book, s, cutoff)]
    IN  [cutoff |-> cutoff,
         equipment |-> EquipmentOf(book, target, cutoff),
         proposition |-> PropositionOf(book, target, cutoff),
         rest |-> TargetRest(starts, cutoff),
         aggregates |-> Aggregates(book, starts, cutoff),
         rows |-> {Row(s) : s \in starts},
         shown |-> {Row(s) : s \in Shown(reasons)}]

(***************************************************************************)
(* Evidence levels and backoff: the direct sample, shrunk towards the first   *)
(* prior with a large enough sample of its own.                               *)
(***************************************************************************)
EvidenceLevel(direct, relevant, context) ==
    IF relevant >= RelevantForA THEN "A"
    ELSE IF direct >= 1 THEN "B"
    ELSE IF context >= 1 THEN "C" ELSE "D"

\* A direct value of n starts and a sequence of priors [level, value, effective].
Backoff(value, n, priors) ==
    LET usable == SelectSeq(priors, LAMBDA p : p.value # NoValue /\ p.effective >= MinEffective)
        direct == value # NoValue /\ n > 0
    IN  [value  |-> IF direct THEN value ELSE NoValue, n |-> n,
         prior  |-> IF usable = <<>> THEN NoValue ELSE Head(usable),
         source |-> IF direct
                    THEN IF usable # <<>> THEN "direct_plus_model_estimate" ELSE "direct"
                    ELSE IF usable # <<>> THEN "model_estimate" ELSE "unknown"]

\* Every source a feature names was selected by the instant the feature is for.
ProvenanceAccepted(sources, asOf) == \A seen \in sources : seen <= asOf
===============================================================================
