------------------------------ MODULE Statistics ------------------------------
(***************************************************************************)
(* The statistics pages: rankings of horses, drivers and trainers             *)
(* (statistics/core.js, horses.js, drivers.js, trainers.js), the trend         *)
(* leaderboards with the form indices (trend.js, horse-form-index.js,          *)
(* person-form-index.js), the pages of one calendar year                      *)
(* (entity-detail-calendar-statistics.js), the older breakdowns               *)
(* (routes/entity-stat-breakdowns.js) and the forms kept with an analysis      *)
(* (analysis-form-snapshot-v1.js).                                           *)
(*                                                                           *)
(* A start has, besides the fields of RelevantHistory, its number, monte,      *)
(* breed, sex, born, actual (the distance it starts from) and back (the back   *)
(* row); the book has also                                                   *)
(*   markets    [of, at, stop, sourced, id, rank, percent] of an entry         *)
(*   positions  [of, sourced, leader, death] of an entry                       *)
(*   trips      [of, seen, id, scenario] of an entry                           *)
(*   homes      [of, observed, id, track] of a trainer                         *)
(*   openings, closings   [of, day, seen, id, pace] of an entry               *)
(* A question has filters: NoValue, or "all", where nothing is asked.  Days    *)
(* are numbered through the months; the scores of a start are whole per cents. *)
(***************************************************************************)
EXTENDS Features

LOCAL INSTANCE FiniteSetsExt
LOCAL INSTANCE TLC

CONSTANTS
    MonthLengths,           \* days of the months of the calendar, January first
    Top,                    \* rows of a ranking, 10
    LongRest,               \* days, 60
    HigherPrize,            \* first prize of the better races, 100 000
    Longshot,               \* per cent of the bets, 5
    FormLimits,             \* newest placings of a form ranking: of a horse 10, of a person 30
    HorseWeights,           \* of the newest starts, per cent, <<35, 25, 18, 13, 9>>
    PersonWeights,          \* of the newest starts, 30 of them, each 0.94 of the one before
    ComponentRows,          \* starts a component of a person's form needs, 3
    PriorResults            \* results of a horse before its target, 3

ASSUME StatisticsAssumption == HorseWeights \in Seq(Nat)

(***************************************************************************)
(* Days and months.                                                          *)
(***************************************************************************)
MonthStart[m \in DOMAIN MonthLengths] == IF m = 1 THEN 0 ELSE MonthStart[m - 1] + MonthLengths[m - 1]

MonthOf(day) == CHOOSE m \in DOMAIN MonthLengths : day \in MonthStart[m] .. MonthStart[m] + MonthLengths[m] - 1
MonthsBack(day, n) ==
    LET m == MonthOf(day)
    IN  IF n >= m THEN 0 ELSE MonthStart[m - n] + Min({day - MonthStart[m], MonthLengths[m - n] - 1})

CalendarYear(day) == (MonthOf(day) - 1) \div 12
FirstOfYear(year) == MonthStart[12 * year + 1]

FirstDay(period, day) ==
    CASE period = "2w" -> day - 13
      [] period = "4w" -> day - 27
      [] period = "3m" -> MonthsBack(day, 3)
      [] period = "6m" -> MonthsBack(day, 6)
      [] period = "1y" -> MonthsBack(day, 12)

(***************************************************************************)
(* What the filters ask of a start.                                          *)
(***************************************************************************)
Standards == [d640 |-> 640, d1640 |-> 1640, d2140 |-> 2140, d2640 |-> 2640, d3140 |-> 3140, d3640 |-> 3640,
              d4140 |-> 4140]
Near(distance, group) == distance \in Standards[group] - 100 .. Standards[group] + 100
OtherLong(distance) ==
    distance > 2640 /\ \A g \in DOMAIN Standards : Standards[g] >= 2640 => ~ Near(distance, g)

DistanceGroup(distance) ==
    IF distance = NoValue THEN "unknown"
    ELSE IF \E g \in DOMAIN Standards : Near(distance, g) THEN CHOOSE g \in DOMAIN Standards : Near(distance, g)
    ELSE IF distance > 2640 THEN "other_long" ELSE "unknown"

DistanceFits(group, distance) ==
    \/ group = "all"
    \/ /\ distance # NoValue
       /\ IF group = "other_long" THEN OtherLong(distance) ELSE Near(distance, group)

Asked(asked, value) == asked = NoValue \/ asked = value
MethodOf(s) == IF s.method = NoValue THEN "unknown" ELSE s.method
BetterRace(s) == s.tier # NoValue \/ (s.prize # NoValue /\ s.prize >= HigherPrize)

ScopeFits(scope, s) ==
    CASE scope = "all" -> TRUE
      [] scope = "high_prize" -> BetterRace(s)
      [] scope = "weekday" -> ~ BetterRace(s)
      [] scope = "stl" -> s.tier # NoValue

OnVolt(s) == MethodOf(s) = "volt"
LaneQuality(s) == IF s.lane \in {1, 6, 7} THEN "good" ELSE "other"
Handicapped(s) == /\ OnVolt(s) /\ NoValue \notin {s.handicap, s.actual, s.distance}
                  /\ s.actual - s.distance = s.handicap

StartFits(f, role, year, s) ==
    /\ Asked(f.track, s.track)
    /\ f.method = "all" \/ MethodOf(s) = f.method
    /\ f.type = "all" \/ (f.type = "monte") = s.monte
    /\ Asked(f.breed, s.breed) /\ Asked(f.sex, s.sex)
    /\ f.age = NoValue \/ (s.born # NoValue /\ year - s.born = f.age)
    /\ DistanceFits(f.distance, s.distance)
    /\ ScopeFits(f.scope, s)
    /\ role # "horse" =>
         /\ f.lane = "all" \/ (OnVolt(s) /\ s.lane # NoValue /\ LaneQuality(s) = f.lane)
         /\ f.handicap = NoValue \/ (Handicapped(s) /\ s.handicap = f.handicap)

\* All races of a horse are asked for without an end, those of a person up to the day.
InPeriod(f, role, s) ==
    /\ f.period = "all" => role = "horse" \/ s.day <= f.asOf
    /\ f.period # "all" => s.day \in FirstDay(f.period, f.asOf) .. f.asOf

InYear(f, s) ==
    /\ CalendarYear(s.day) = f.year
    /\ f.year = CalendarYear(f.asOf) => s.day <= f.asOf

(***************************************************************************)
(* Counted starts: not scratched, with a result; and what is counted of them. *)
(***************************************************************************)
Counted(book) == {s \in book.starts : ~ s.scratched /\ s.result # NoValue}

FactOf(s, fact) == IF fact \in DOMAIN s.result.facts THEN s.result.facts[fact] ELSE NoValue
Placing(s) == FactOf(s, "placing")
Placed(starts, places) == Cardinality({s \in starts : Placing(s) \in places})
Verified(starts, fact) == {s \in starts : FactOf(s, fact) # NoValue}

CoreMetrics(starts) ==
    LET paid == Verified(starts, "earned")
    IN  [starts |-> Cardinality(starts),
         wins |-> Placed(starts, {1}), seconds |-> Placed(starts, {2}), thirds |-> Placed(starts, {3}),
         top3 |-> Placed(starts, 1 .. 3),
         gallops |-> Cardinality({s \in starts : HasFact(s, "gallop", TRUE)}),
         gallopVerified |-> Cardinality(Verified(starts, "gallop")),
         disqualifications |-> Cardinality({s \in starts : HasFact(s, "disqualified", TRUE)}),
         prizeVerified |-> Cardinality(paid),
         prize |-> IF paid = {} THEN NoValue ELSE MapThenSumSet(LAMBDA s : FactOf(s, "earned"), paid)]

(***************************************************************************)
(* Rankings: a metric orders by its fractions, the larger first, and then by   *)
(* the id; Top rows are shown with their rank.                                *)
(***************************************************************************)
Fractions(metric, r) ==
    CASE metric = "winRate" -> <<<<r.wins, r.starts>>, <<r.wins, 1>>, <<r.starts, 1>>>>
      [] metric = "top3Rate" -> <<<<r.top3, r.starts>>, <<r.top3, 1>>, <<r.starts, 1>>>>
      [] metric = "wins" -> <<<<r.wins, 1>>, <<r.wins, r.starts>>, <<r.starts, 1>>>>
      [] metric = "earnings" -> <<<<r.prize, 1>>, <<r.wins, 1>>, <<r.starts, 1>>>>
      [] metric = "perStart" -> <<<<r.prize, r.prizeVerified>>, <<r.prize, 1>>, <<r.prizeVerified, 1>>>>
      [] metric = "lowestWinRate" -> <<<<-r.wins, r.starts>>, <<-r.wins, 1>>, <<r.starts, 1>>>>
      [] metric = "placing" -> <<<<-r.sum, r.used>>, <<r.used, 1>>>>
      [] metric = "points" -> <<<<r.points, 1>>, <<r.observed, 1>>>>
      [] metric = "form" -> <<<<r.score, 1>>, <<r.used, 1>>, <<r.wins, r.starts>>>>

Larger(a, b) == a[1] * b[2] > b[1] * a[2]
RanksBefore(metric, q, r) ==
    LET a == Fractions(metric, q)
        b == Fractions(metric, r)
        same == {i \in DOMAIN a : ~ Larger(a[i], b[i]) /\ ~ Larger(b[i], a[i])}
    IN  \/ \E i \in DOMAIN a : Larger(a[i], b[i]) /\ 1 .. i - 1 \subseteq same
        \/ same = DOMAIN a /\ q.id < r.id

Ranking(metric, rows) ==
    LET Rank(r) == 1 + Cardinality({q \in rows : RanksBefore(metric, q, r)})
    IN  {[rank |-> Rank(r), row |-> r] : r \in {q \in rows : Rank(q) <= Top}}

Minimum(f) == IF f.min = NoValue THEN 1 ELSE f.min
OfEach(role, starts, Row(_)) ==
    {[id |-> i] @@ Row({s \in starts : s[role] = i}) : i \in {s[role] : s \in starts} \ {NoValue}}

Filtered(book, f, role) ==
    {s \in Counted(book) : InPeriod(f, role, s) /\ StartFits(f, role, CalendarYear(f.asOf), s)}

\* A horse needs its minimum of starts for every metric, a person only for rates.
CoreRanking(book, f, role, metric) ==
    LET rows == OfEach(role, Filtered(book, f, role), CoreMetrics)
        needed == IF role = "horse" \/ metric \in {"winRate", "top3Rate"} THEN Minimum(f) ELSE 1
    IN  Ranking(metric, {r \in rows : /\ r.starts >= needed
                                      /\ metric \in {"earnings", "perStart"} => r.prizeVerified > 0})

\* The year of the day asked for, whatever the period.
AnnualEarnings(book, f, role) ==
    LET starts == {s \in Counted(book) : /\ s.day \in FirstOfYear(CalendarYear(f.asOf)) .. f.asOf
                                         /\ StartFits(f, role, CalendarYear(f.asOf), s)}
    IN  Ranking("earnings", {r \in OfEach(role, starts, CoreMetrics) : r.prizeVerified > 0})

(***************************************************************************)
(* Newest first; the number of a race that is not known counts as none.       *)
(***************************************************************************)
NumberOf(s) == IF s.number = NoValue THEN 0 ELSE s.number
RunAfter(q, s) ==
    \/ q.day > s.day
    \/ q.day = s.day /\ (NumberOf(q) > NumberOf(s) \/ (NumberOf(q) = NumberOf(s) /\ q.entry > s.entry))
NewestFirst(starts, n) ==
    LET Place(s) == 1 + Cardinality({q \in starts : RunAfter(q, s)})
    IN  [i \in 1 .. Min({n, Cardinality(starts)}) |-> CHOOSE s \in starts : Place(s) = i]

\* The mean of the newest placings.
FormRow(role, starts) ==
    LET newest == {s \in starts : Cardinality({q \in starts : RunAfter(q, s)}) < FormLimits[role]}
    IN  [used |-> Cardinality(newest), sum |-> MapThenSumSet(Placing, newest)]
FormRanking(book, f, role) ==
    LET placed == {s \in Filtered(book, f, role) : Placing(s) # NoValue /\ Placing(s) > 0}
    IN  Ranking("placing", OfEach(role, placed, LAMBDA starts : FormRow(role, starts)))

(***************************************************************************)
(* Starts of a kind: from the lead or the death seat, from the back row, by    *)
(* the method, the lane and the handicap, of short, middle and long races, at  *)
(* the trainer's home track and away, as favourite and as longshot.           *)
(***************************************************************************)
MarketAtStop(book, s) ==
    LET open == {r \in book.markets : r.of = s.entry /\ r.sourced /\ r.at <= r.stop}
    IN  {r \in open : ~ \E q \in open : q.at > r.at \/ (q.at = r.at /\ q.id > r.id)}

HomeOf(book, trainer) ==
    LET known == {r \in book.homes : r.of = trainer}
    IN  IF known = {} THEN NoValue
        ELSE (CHOOSE r \in known : ~ \E q \in known : q.observed > r.observed \/ (q.observed = r.observed /\ q.id > r.id)).track

SeenAs(book, s, place) == \E r \in book.positions : r.of = s.entry /\ r.sourced /\ r[place]

OfKind(book, kind, s) ==
    CASE kind \in {"leader", "death"} -> SeenAs(book, s, kind)
      [] kind = "backRow" -> MethodOf(s) = "auto" /\ s.back
      [] kind \in {"auto", "volt"} -> MethodOf(s) = kind
      [] kind \in {"good", "other"} -> OnVolt(s) /\ s.lane # NoValue /\ LaneQuality(s) = kind
      [] kind = "handicap" -> Handicapped(s) /\ s.handicap > 0
      [] kind = "short" -> DistanceGroup(s.distance) \in {"d640", "d1640"}
      [] kind = "medium" -> DistanceGroup(s.distance) = "d2140"
      [] kind = "long" -> s.distance # NoValue /\ s.distance >= 2540
      [] kind = "home" -> s.track # NoValue /\ s.track = HomeOf(book, s.trainer)
      [] kind = "away" -> NoValue \notin {s.track, HomeOf(book, s.trainer)} /\ s.track # HomeOf(book, s.trainer)
      [] kind = "favorite" -> \E r \in MarketAtStop(book, s) : r.rank = 1
      [] kind = "longshot" -> \E r \in MarketAtStop(book, s) : r.percent # NoValue /\ r.percent \in 0 .. Longshot

\* The profiles of distance look at every distance, whatever is asked for.
KindRanking(book, f, role, kind) ==
    LET asked == IF kind \in {"short", "medium", "long"} THEN [f EXCEPT !.distance = "all"] ELSE f
        starts == {s \in Filtered(book, asked, role) : OfKind(book, kind, s)}
    IN  Ranking("winRate", {r \in OfEach(role, starts, CoreMetrics) : r.starts >= Minimum(f)})

\* The page of one horse, driver or trainer.
KindSummary(book, f, role, id, kind) ==
    CoreMetrics({s \in Filtered(book, f, role) : s[role] = id /\ OfKind(book, kind, s)})
DetailSummary(book, f, role, id) == CoreMetrics({s \in Filtered(book, f, role) : s[role] = id})

(***************************************************************************)
(* After a rest: the gaps lie between the starts of a horse that are looked   *)
(* at, whatever the filters; the first start ends a long gap, the second is    *)
(* the one after it.  The rankings of trainers look at starts with a trainer.  *)
(***************************************************************************)
Previous(sequence, s) ==
    LET before == {q \in sequence : q.horse = s.horse /\ RunAfter(s, q)}
    IN  {q \in before : ~ \E p \in before : RunAfter(p, q)}
AfterLongGap(sequence, s) == \E q \in Previous(sequence, s) : s.day - q.day >= LongRest

AfterRest(sequence, s, which) ==
    IF which = "first" THEN AfterLongGap(sequence, s)
    ELSE ~ AfterLongGap(sequence, s) /\ \E q \in Previous(sequence, s) : AfterLongGap(sequence, q)

RestFigures(starts) ==
    [starts |-> Cardinality(starts), wins |-> Placed(starts, {1}), top3 |-> Placed(starts, 1 .. 3)]

RestSequence(book, role) == {s \in Counted(book) : role = "trainer" => s.trainer # NoValue}

RestRanking(book, f, role, which) ==
    LET sequence == RestSequence(book, role)
        starts == {s \in Filtered(book, f, role) : s \in sequence /\ AfterRest(sequence, s, which)}
    IN  Ranking("winRate", {r \in OfEach(role, starts, RestFigures) : r.starts >= Minimum(f)})

RestSummary(book, f, role, id, which) ==
    LET sequence == RestSequence(book, role)
    IN  RestFigures({s \in Filtered(book, f, role) : s \in sequence /\ s[role] = id /\ AfterRest(sequence, s, which)})

(***************************************************************************)
(* Fastest opening and closing: the newest measurement of each start by the    *)
(* day asked for, which may be one that cannot be used.                       *)
(***************************************************************************)
NewestBy(rows, of, day) ==
    LET known == {r \in rows : r.of = of /\ r.day <= day}
    IN  {r \in known : ~ \E q \in known : q.seen > r.seen \/ (q.seen = r.seen /\ q.id > r.id)}

PaceRow(rows, day, starts) ==
    LET measured == {r \in UNION {NewestBy(rows, s.entry, day) : s \in starts} : r.pace # NoValue}
    IN  [used |-> Cardinality(measured), sum |-> MapThenSumSet(LAMBDA r : r.pace, measured)]

PaceRanking(book, f, rows) ==
    LET Row(starts) == PaceRow(rows, f.asOf, starts)
    IN  Ranking("placing", {r \in OfEach("horse", Filtered(book, f, "horse"), Row) :
                                r.used > 0 /\ r.used >= Minimum(f)})

(***************************************************************************)
(* Start points: the newest that were observed by the day asked for, of the    *)
(* horses that have started as the filters ask.                               *)
(***************************************************************************)
CurrentPoints(book, horse, day) ==
    LET known == {r \in book.points : r.of = horse /\ r.observed < (day + 1) * DayLength}
    IN  {r \in known : ~ \E q \in known : q.observed > r.observed \/ (q.observed = r.observed /\ q.id > r.id)}

PointRanking(book, f) ==
    Ranking("points", {[id |-> p.of, points |-> p.value, observed |-> p.observed] :
        p \in UNION {CurrentPoints(book, i, f.asOf) : i \in {s.horse : s \in Filtered(book, f, "horse")}}})
=============================================================================
