----------------------------- MODULE Populations -----------------------------
(***************************************************************************)
(* What all known starts say about a start: race priors by levels of likeness *)
(* (race-priors-v1.js) and X-Labs evidence profiles (xlabs-evidence-           *)
(* profiles-v1.js).  Both read the population in shards, calendar quarters and *)
(* calendar years, and add the parts up.                                      *)
(***************************************************************************)
EXTENDS Features

LOCAL INSTANCE FiniteSetsExt
LOCAL INSTANCE Bags

CONSTANTS
    QuarterLength,              \* instants of a quarter
    DistanceBounds, FieldBounds, \* where the next bucket begins: 1800, 2400, 3000 and 9, 13
    ProfileRows,                \* newest starts of a profile, 5
    ShiftSample                 \* the sample a shift is judged on, 8

ASSUME PopulationAssumption ==
    /\ QuarterLength \in Nat \ {0} /\ YearLength % QuarterLength = 0 /\ QuarterLength % DayLength = 0
    /\ DistanceBounds \subseteq Nat /\ FieldBounds \subseteq Nat
    /\ ProfileRows \in Nat /\ ShiftSample \in Nat

(***************************************************************************)
(* Contexts.                                                                 *)
(***************************************************************************)
Bucket(x, bounds) == IF x = NoValue THEN NoValue ELSE Cardinality({b \in bounds : x >= b})
Field(book, s) == Cardinality({q \in book.starts : q.race = s.race /\ ~ q.scratched})

ContextOf(book, s) ==
    [track |-> s.track, method |-> s.method, distance |-> Bucket(s.distance, DistanceBounds),
     field |-> IF Field(book, s) = 0 THEN NoValue ELSE Bucket(Field(book, s), FieldBounds)]

\* The levels of likeness, the narrowest first; one needs all of its parts.
Levels == <<{"track", "method", "distance", "field"}, {"track", "method", "distance"}, {"track", "method"},
            {"method", "distance", "field"}, {"method", "distance"}, {"method"}, {}>>
Hierarchy(context) == SelectSeq(Levels, LAMBDA level : \A part \in level : context[part] # NoValue)

Matches(book, s, context, level) == \A part \in level : ContextOf(book, s)[part] = context[part]

(***************************************************************************)
(* Tallies of starts, and of shards of them.                                  *)
(***************************************************************************)
Tally(starts) ==
    LET winners == {s \in starts : HasFact(s, "placing", 1)}
        laned == {s \in winners : s.lane # NoValue}
    IN  [starts |-> Cardinality(starts), races |-> Cardinality({s.race : s \in starts}),
         wins |-> Cardinality(winners),
         top3 |-> Cardinality({s \in starts : \E p \in 1 .. 3 : HasFact(s, "placing", p)}),
         gallopKnown |-> Cardinality(Values(starts, "gallop")),
         gallops |-> Cardinality({s \in starts : HasFact(s, "gallop", TRUE)}),
         laned |-> Cardinality({s.race : s \in laned}),
         lanes |-> [l \in {s.lane : s \in laned} |-> Cardinality({s \in laned : s.lane = l})]]

\* Counts of every shard are added; the lanes are a bag.
Merged(parts) ==
    [k \in {"starts", "races", "wins", "top3", "gallopKnown", "gallops", "laned", "lanes"} |->
        IF k = "lanes" THEN FoldSet(LAMBDA p, bag : parts[p].lanes (+) bag, EmptyBag, DOMAIN parts)
        ELSE MapThenSumSet(LAMBDA p : parts[p][k], DOMAIN parts)]

(***************************************************************************)
(* Race priors.  The quarters run from that of the first race before the       *)
(* cutoff's day to that of the cutoff.                                        *)
(***************************************************************************)
DayOf(instant) == instant \div DayLength
EarlierDays(book, cutoff) == {s.day : s \in {x \in book.starts : x.day < DayOf(cutoff)}}
QuarterOf(day) == (day * DayLength) \div QuarterLength
QuartersBefore(book, cutoff) ==
    QuarterOf(Min(EarlierDays(book, cutoff) \cup {DayOf(cutoff)})) .. QuarterOf(DayOf(cutoff)) - 1
Quarters(book, cutoff) ==
    QuarterOf(Min(EarlierDays(book, cutoff) \cup {DayOf(cutoff)})) .. QuarterOf(DayOf(cutoff))

PriorStarts(book, race, cutoff) ==
    {s \in book.starts : s.race # race /\ OfficialBy(s, cutoff) /\ EventOf(s) < cutoff}

LevelTallies(book, target, cutoff) ==
    LET context == ContextOf(book, target)
        starts == PriorStarts(book, target.race, cutoff)
        Like(level) == {s \in starts : Matches(book, s, context, level)}
    IN  [level \in {Levels[i] : i \in DOMAIN Levels} |->
            Merged([q \in Quarters(book, cutoff) |-> Tally({s \in Like(level) : QuarterOf(s.day) = q})])]

\* A prior of a metric, from the first level or from a sample that stands before it.
Rate(metric, tally) ==
    LET n == IF metric = "gallops" THEN tally.gallopKnown ELSE tally.starts
    IN  IF n = 0 THEN NoValue ELSE <<tally[metric], n>>

RatePrior(metric, direct, tallies) ==
    Backoff(Rate(metric, direct), direct.races,
            [i \in DOMAIN tallies |-> [level |-> i, value |-> Rate(metric, tallies[i]),
                                       effective |-> tallies[i].races]])
RatePriors(direct, tallies) == [m \in {"wins", "top3", "gallops"} |-> RatePrior(m, direct, tallies)]

\* How even the winners' lanes are: the bag of lanes itself.
ShapePrior(tallies) ==
    LET Lanes(t) == IF t.lanes = EmptyBag THEN NoValue ELSE t.lanes
    IN  Backoff(Lanes(Head(tallies)), Head(tallies).laned,
                [i \in DOMAIN Tail(tallies) |-> [level |-> i, value |-> Lanes(Tail(tallies)[i]),
                                                 effective |-> Tail(tallies)[i].laned]])

RacePriors(book, target, asOf) ==
    LET cutoff == CutoffOf(target, asOf)
        context == ContextOf(book, target)
        hierarchy == Hierarchy(context)
        all == LevelTallies(book, target, cutoff)
        tallies == [i \in DOMAIN hierarchy |-> all[hierarchy[i]]]
        narrow == {s \in PriorStarts(book, target.race, cutoff) : Matches(book, s, context, Head(hierarchy))}
        terms(s) == Signature(PropositionOf(book, s, cutoff))
        alike == {s \in narrow : /\ target.type = NoValue \/ s.type = target.type
                                 /\ terms(target) = NoValue \/ terms(s) = terms(target)}
        Position(key) == IF target[key] = NoValue THEN NoValue
                         ELSE RatePriors(Tally({s \in narrow : s[key] = target[key]}), tallies)
    IN  [outcome |-> RatePriors(Head(tallies), Tail(tallies)),
         context |-> IF target.type = NoValue /\ terms(target) = NoValue THEN NoValue
                     ELSE RatePriors(Tally(alike), tallies),
         position |-> [key \in {"lane", "tier", "handicap"} |-> Position(key)],
         shape |-> ShapePrior(tallies)]

(***************************************************************************)
(* X-Labs evidence.  A start of an unknown hour counts as the beginning of its *)
(* day, here, and its result need not be final.                               *)
(***************************************************************************)
Measures == {"opening100", "closing400", "extra"}

Measure(book, s, cutoff) ==
    LET opening == NewestOf(book.intervals, s.entry, cutoff)
        whole == TelemetryOf(book, s, cutoff)
        Part(p) == IF whole # NoValue /\ p \in DOMAIN whole THEN whole[p] ELSE NoValue
        PerMillion(metres) ==
            IF metres = NoValue \/ DistanceOf(s) = NoValue \/ DistanceOf(s) <= 0 THEN NoValue
            ELSE (1000000 * metres) \div DistanceOf(s)
    IN  [opening100 |-> opening, closing400 |-> Part("last400"), extra |-> PerMillion(Part("extra"))]

MeasuredStarts(book, cutoff) ==
    {s \in book.starts : /\ ~ s.scratched /\ s.horse # NoValue /\ s.result # NoValue
                         /\ s.result.seen <= cutoff /\ TargetEvent(s) < cutoff}

\* Eligible and measured starts, and the sum, of every bucket of every dimension.
Dimensions(book, s) ==
    LET c == ContextOf(book, s)
    IN  {<<"overall", 0>>, <<"year", YearOf(s.day * DayLength)>>, <<"track", c.track>>, <<"method", c.method>>,
         <<"distance", c.distance>>, <<"method_distance", <<c.method, c.distance>>>>,
         <<"race_type", s.type>>, <<"field_size", c.field>>}

Total(values) == MapThenSumSet(LAMBDA x : values[x], DOMAIN values)

Population(book, starts, cutoff) ==
    LET buckets == UNION {Dimensions(book, s) : s \in starts}
        In(b) == {s \in starts : b \in Dimensions(book, s)}
        Known1(b, m) == {s \in In(b) : Measure(book, s, cutoff)[m] # NoValue}
    IN  [b \in buckets |->
            [eligible |-> Cardinality(In(b)),
             measured |-> [m \in Measures |-> Cardinality(Known1(b, m))],
             sum |-> [m \in Measures |-> Total([s \in Known1(b, m) |-> Measure(book, s, cutoff)[m]])]]]

\* The years run from that of the first to that of the last race before the cutoff's day.
Years(book, cutoff) ==
    LET days == EarlierDays(book, cutoff)
    IN  IF days = {} THEN {} ELSE YearOf(Min(days) * DayLength) .. YearOf(Max(days) * DayLength)

AddedUp(part) ==
    LET with(b) == {y \in DOMAIN part : b \in DOMAIN part[y]}
    IN  [b \in UNION {DOMAIN part[y] : y \in DOMAIN part} |->
            [eligible |-> Total([y \in with(b) |-> part[y][b].eligible]),
             measured |-> [m \in Measures |-> Total([y \in with(b) |-> part[y][b].measured[m]])],
             sum |-> [m \in Measures |-> Total([y \in with(b) |-> part[y][b].sum[m]])]]]

MergedPopulation(book, cutoff) ==
    AddedUp([y \in Years(book, cutoff) |->
        Population(book, {s \in MeasuredStarts(book, cutoff) : YearOf(s.day * DayLength) = y}, cutoff)])

NoBucket == [eligible |-> 0, measured |-> [m \in Measures |-> 0], sum |-> [m \in Measures |-> 0]]
BucketOf(population, b) == IF b \in DOMAIN population THEN population[b] ELSE NoBucket

\* One measure of one horse: its starts in the target's context, else all of them.
Profile(book, target, population, measure, cutoff) ==
    LET history == {s \in MeasuredStarts(book, cutoff) : s.horse = target.horse}
        context == ContextOf(book, target)
        Value(s) == Measure(book, s, cutoff)[measure]
        measured == {s \in history : Value(s) # NoValue}
        relevant == {s \in measured :
                        /\ context.method # NoValue \/ context.distance # NoValue
                        /\ \A part \in {"method", "distance"} : \/ context[part] = NoValue
                                                                \/ ContextOf(book, s)[part] = context[part]}
        direct == IF relevant # {} THEN relevant ELSE measured
        around == BucketOf(population, <<"method_distance", <<context.method, context.distance>>>>)
        global == BucketOf(population, <<"overall", 0>>)
        Level(name, b) == [level |-> name, effective |-> b.measured[measure],
                           value |-> IF b.measured[measure] = 0 THEN NoValue
                                     ELSE <<b.sum[measure], b.measured[measure]>>]
        Later(q, s) == TargetEvent(q) > TargetEvent(s) \/ (TargetEvent(q) = TargetEvent(s) /\ q.entry > s.entry)
        recent == {s \in history : Cardinality({q \in history : Later(q, s)}) < ProfileRows}
    IN  [estimate |-> Backoff(IfAny({<<s.entry, Value(s)>> : s \in direct}), Cardinality(direct),
                              <<Level("method_distance", around), Level("global", global)>>),
         level |-> EvidenceLevel(Cardinality(measured), Cardinality(relevant), around.measured[measure]),
         completed |-> Cardinality(history), measured |-> Cardinality(measured),
         recent |-> Cardinality(recent \cap measured)]

\* Whether what was measured is like what could have been, by twice the total variation
\* distance times both totals.
Shift(population, dimension, target, measure) ==
    LET own == {b \in DOMAIN population : b[1] = dimension}
        eligible == MapThenSumSet(LAMBDA b : population[b].eligible, own)
        measured == MapThenSumSet(LAMBDA b : population[b].measured[measure], own)
        Gap(b) == population[b].eligible * measured - population[b].measured[measure] * eligible
        distance == MapThenSumSet(LAMBDA b : IF Gap(b) < 0 THEN - Gap(b) ELSE Gap(b), own)
        overall == BucketOf(population, <<"overall", 0>>)
        mine == BucketOf(population, target)
    IN  [unseen |-> mine.eligible = 0,
         sparse |-> mine.eligible \in 1 .. ShiftSample - 1,
         under  |-> 2 * mine.measured[measure] * overall.eligible < overall.measured[measure] * mine.eligible,
         shift  |-> eligible >= ShiftSample /\ measured >= ShiftSample /\ 5 * distance >= 2 * eligible * measured]

Evidence(book, target, asOf) ==
    LET cutoff == CutoffOf(target, asOf)
        population == MergedPopulation(book, cutoff)
    IN  [m \in Measures |->
            [profile |-> Profile(book, target, population, m, cutoff),
             shift |-> [b \in Dimensions(book, target) |-> Shift(population, b[1], b, m)]]]
===============================================================================
