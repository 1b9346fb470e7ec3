------------------------------ MODULE EntityPages ------------------------------
(***************************************************************************)
(* The form indices (statistics/horse-form-index.js, person-form-index.js),   *)
(* the trend leaderboards built on them (statistics/trend.js), the forms kept  *)
(* with an analysis (analysis-form-snapshot-v1.js), and the pages of a horse,  *)
(* driver or trainer (entity-detail-calendar-statistics.js,                    *)
(* trainer-calendar-home-statistics.js, routes/entity-stat-breakdowns.js,      *)
(* statistics/horse-patterns.js, horse-top-speed.js).  The book has also       *)
(*   speeds     [of, seen, id, parts] of an entry                             *)
(*                                                                           *)
(* Scores are whole per cents; an instant NoValue stands for the page of a     *)
(* day, which looks at every result there is.                                *)
(***************************************************************************)
EXTENDS Statistics

LOCAL INSTANCE FiniteSetsExt
LOCAL INSTANCE TLC

CONSTANTS
    PatternRows,    \* newest starts whose paces are shown, 10
    PrizeSteps      \* first prizes at which a race is one per cent harder, growing

(***************************************************************************)
(* Scores.                                                                   *)
(***************************************************************************)
AtMost(n, top) == IF n > top THEN top ELSE n
AtLeast(n, bottom) == IF n < bottom THEN bottom ELSE n
Clamped(n, bottom) == AtLeast(AtMost(n, 100), bottom)

\* The mean of the parts <<value, weight>> that are known.
Weighted(parts) ==
    LET known == {i \in DOMAIN parts : parts[i][1] # NoValue}
        Total(x) == MapThenSumSet(LAMBDA i : x[i], known)
        weight == Total([i \in DOMAIN parts |-> parts[i][2]])
    IN  IF weight = 0 THEN NoValue
        ELSE Total([i \in DOMAIN parts |-> IF i \in known THEN parts[i][1] * parts[i][2] ELSE 0]) \div weight

\* Where a value <<entry, n>> lies among those of its field, 100 the best.
Percentile(entry, values, lowerIsBetter) ==
    LET own == {v \in values : v[1] = entry}
        n == (CHOOSE v \in own : TRUE)[2]
        worse == Cardinality({v \in values : IF lowerIsBetter THEN v[2] > n ELSE v[2] < n})
        equal == Cardinality({v \in values : v[2] = n})
    IN  IF own = {} \/ Cardinality(values) < 2 THEN NoValue
        ELSE Clamped((100 * worse + 50 * (equal - 1)) \div (Cardinality(values) - 1), 0)

PlaceScore(place, size) ==
    IF place = NoValue \/ place < 1 \/ size < 1 THEN NoValue
    ELSE IF size = 1 THEN IF place = 1 THEN 100 ELSE NoValue
    ELSE Clamped((100 * (size - place)) \div (size - 1), 0)
ResultScore(s, size) == IF HasFact(s, "disqualified", TRUE) THEN 0 ELSE PlaceScore(Placing(s), size)

PrizeScore(prize) ==
    IF prize = NoValue \/ prize < 0 THEN NoValue
    ELSE (100 * Cardinality({i \in DOMAIN PrizeSteps : PrizeSteps[i] <= prize})) \div Len(PrizeSteps)

TierScores == [class_iii |-> 35, class_ii |-> 45, class_i |-> 55, bronze |-> 65, silver |-> 75, gold |-> 90]
TierScore(tier) == IF tier \in DOMAIN TierScores THEN TierScores[tier] ELSE NoValue

ChallengeScore(opponent, own) ==
    IF NoValue \in {opponent, own} \/ opponent < 0 \/ own < 0 THEN NoValue
    ELSE IF opponent = 0 /\ own = 0 THEN 50 ELSE (100 * opponent) \div (opponent + own)

\* The lower of the middle values.
Median(values) ==
    LET middle == (Cardinality(values) - 1) \div 2
        IsMedian(n) == /\ Cardinality({v \in values : v[2] < n}) <= middle
                       /\ Cardinality({v \in values : v[2] <= n}) > middle
    IN  IF values = {} THEN NoValue ELSE (CHOOSE v \in values : IsMedian(v[2]))[2]

(***************************************************************************)
(* A start of a horse against its field.  The newest telemetry of an entry is  *)
(* the one stored last; what the horses had won before is taken as of the start *)
(* itself.                                                                   *)
(***************************************************************************)
Runners(book, s) == {q \in book.starts : q.race = s.race /\ ~ q.scratched}

StoredTelemetry(book, s, cutoff) ==
    LET known == {r \in book.telemetry : r.of = s.entry /\ r.seen <= cutoff /\ r.value # NoValue}
    IN  {r \in known : ~ \E q \in known : q.seen > r.seen \/ (q.seen = r.seen /\ q.id > r.id)}

MeasuresOf(book, field, cutoff, measure) ==
    UNION {{<<s.entry, r.value[measure]>> : r \in {x \in StoredTelemetry(book, s, cutoff) :
                                                     measure \in DOMAIN x.value}} : s \in field}

\* A start without a measurement counts as one without extra metres.
ExtraShares(book, field, cutoff) ==
    LET Extra(s) == LET known == MeasuresOf(book, {s}, cutoff, "extra") IN IF known = {} THEN {<<s.entry, 0>>} ELSE known
    IN  UNION {{<<s.entry, (1000 * v[2]) \div DistanceOf(s)>> : v \in Extra(s)} :
                  s \in {q \in field : DistanceOf(q) # NoValue /\ DistanceOf(q) > 0}}

SeenResult(s, instant) == s.result # NoValue /\ (instant = NoValue \/ s.result.seen <= instant)
OfficialTimes(field, instant) == Values({s \in field : SeenResult(s, instant)}, "time")

Challenge(book, s, of) ==
    LET Own(q) == LET life == Life(book, <<"horse", q.horse>>, EventOf(s))
                  IN  IF life = NoValue THEN NoValue ELSE life[of]
        others == {<<q.entry, Own(q)>> : q \in {x \in Runners(book, s) : x.horse # s.horse}}
    IN  ChallengeScore(Median({v \in others : v[2] # NoValue}), Own(s))

StartScores(book, s, cutoff, instant) ==
    LET field == Runners(book, s)
        Speed(values) == Percentile(s.entry, values, TRUE)
    IN  [result |-> ResultScore(s, Cardinality(field)),
         difficulty |-> Weighted(<<<<PrizeScore(s.prize), 55>>, <<TierScore(s.tier), 15>>,
                                   <<Challenge(book, s, "points"), 20>>, <<Challenge(book, s, "earnings"), 10>>>>),
         work |-> Percentile(s.entry, ExtraShares(book, field, cutoff), FALSE),
         speed |-> Weighted(<<<<Speed(OfficialTimes(field, instant)), 50>>,
                              <<Speed(MeasuresOf(book, field, cutoff, "last400")), 50>>>>)]

HorseIndex(scores) ==
    LET Performance2(x) == Weighted(<<<<x.result, 30>>, <<x.difficulty, 30>>, <<x.work, 20>>, <<x.speed, 20>>>>)
        parts == [i \in DOMAIN scores |-> <<Performance2(scores[i]), HorseWeights[i]>>]
        score == Weighted(parts)
    IN  [score |-> IF score = NoValue THEN NoValue ELSE Clamped(score, 1),
         used |-> Cardinality({i \in DOMAIN parts : parts[i][1] # NoValue})]

FormEligible(starts) == {s \in starts : Placing(s) # NoValue \/ HasFact(s, "disqualified", TRUE)}
EndOfDay(day) == (day + 1) * DayLength - 1

(***************************************************************************)
(* The form of a horse: on the page of a year, or as of an instant, when only  *)
(* starts before it with a result stored by then count.                      *)
(***************************************************************************)
StartedBefore(s, instant) ==
    IF s.at # NoValue THEN s.at < instant ELSE s.day < instant \div DayLength

FormStarts(book, f, horse, instant) ==
    {s \in FormEligible(Counted(book)) :
        /\ s.horse = horse /\ InYear(f, s) /\ StartFits(f, "horse", f.year, s)
        /\ instant # NoValue => StartedBefore(s, instant) /\ SeenResult(s, instant)}

HorseForm(book, f, horse, instant) ==
    LET newest == NewestFirst(FormStarts(book, f, horse, instant), Len(HorseWeights))
        cutoff == IF instant = NoValue THEN EndOfDay(f.asOf) ELSE instant
    IN  HorseIndex([i \in DOMAIN newest |-> StartScores(book, newest[i], cutoff, instant)])

(***************************************************************************)
(* Forms kept with an analysis: of the entries of a leg as of the pack, each    *)
(* with its rank in the leg; what is kept already stays.                      *)
(***************************************************************************)
AllFilters(day) ==
    [asOf |-> day, period |-> "all", year |-> CalendarYear(day), track |-> NoValue, method |-> "all",
     type |-> "all", breed |-> NoValue, sex |-> NoValue, age |-> NoValue, distance |-> "all", scope |-> "all",
     lane |-> "all", handicap |-> NoValue, min |-> NoValue]

LegForms(book, entries, asOf) ==
    LET form == [s \in entries |-> HorseForm(book, AllFilters(asOf \div DayLength), s.horse, asOf)]
        Rank(s) == IF form[s].score = NoValue THEN NoValue
                   ELSE 1 + Cardinality({q \in entries : form[q].score # NoValue /\ form[q].score > form[s].score})
    IN  {[entry |-> s.entry, score |-> form[s].score, used |-> form[s].used, rank |-> Rank(s)] : s \in entries}

KeptForms(kept, pack, forms) ==
    kept \cup {[pack |-> pack, form |-> x] :
                  x \in {y \in forms : ~ \E k \in kept : k.pack = pack /\ k.form.entry = y.entry}}

(***************************************************************************)
(* The form of a person: results, and of a driver how they compare with the    *)
(* market's rank at the bet stop, of a trainer with the horse's own results     *)
(* before, whoever trained it then.                                          *)
(***************************************************************************)
PersonTargets(book, f, role, id) ==
    NewestFirst({s \in FormEligible(Counted(book)) : s[role] = id /\ InYear(f, s) /\ StartFits(f, role, f.year, s)},
                Len(PersonWeights))

Against(actual, expected) ==
    IF NoValue \in {actual, expected} THEN NoValue ELSE Clamped(50 + ((actual - expected) \div 2), 0)

MarketScore(book, s) ==
    LET size == Cardinality(Runners(book, s))
        ranks == {r.rank : r \in MarketAtStop(book, s)} \cap 1 .. size
    IN  IF ranks = {} THEN NoValue
        ELSE Against(ResultScore(s, size), PlaceScore(CHOOSE rank \in ranks : TRUE, size))

EarlierResults(book, s) ==
    NewestFirst({q \in FormEligible(Counted(book)) :
                    /\ q.horse = s.horse
                    /\ \/ q.day < s.day
                       \/ q.day = s.day /\ NoValue \notin {q.number, s.number} /\ q.number < s.number},
                PriorResults)

DevelopmentScore(book, s) ==
    LET earlier == EarlierResults(book, s)
        Score2(q) == ResultScore(q, Cardinality(Runners(book, q)))
    IN  Against(Score2(s), Weighted([i \in DOMAIN earlier |-> <<Score2(earlier[i]), 1>>]))

Component(values) ==
    LET score == Weighted([i \in DOMAIN values |-> <<values[i], PersonWeights[i]>>])
    IN  IF Cardinality({i \in DOMAIN values : values[i] # NoValue}) < ComponentRows THEN NoValue
        ELSE Clamped(score, 1)

PersonForm(book, f, role, id) ==
    LET targets == PersonTargets(book, f, role, id)
        Second(s) == IF role = "driver" THEN MarketScore(book, s) ELSE DevelopmentScore(book, s)
        results == Component([i \in DOMAIN targets |->
                                ResultScore(targets[i], Cardinality(Runners(book, targets[i])))])
        second == Component([i \in DOMAIN targets |-> Second(targets[i])])
    IN  IF results = NoValue THEN NoValue ELSE Clamped(Weighted(<<<<results, 60>>, <<second, 40>>>>), 1)

(***************************************************************************)
(* Trend: persons by the rate of wins, highest or lowest first, horses by form. *)
(***************************************************************************)
TrendStarts(book, f, role) ==
    Filtered(book, [f EXCEPT !.age = NoValue, !.sex = NoValue, !.distance = "all", !.lane = "all",
                             !.handicap = NoValue], role)

PersonTrend(book, f, role, metric) ==
    Ranking(metric, {r \in OfEach(role, TrendStarts(book, f, role), CoreMetrics) : r.starts >= Minimum(f)})

HorseTrend(book, f) ==
    LET starts == TrendStarts(book, f, "horse")
        Of(h) == {s \in starts : s.horse = h}
        horses == {h \in {s.horse : s \in starts} : Cardinality(FormEligible(Of(h))) >= Minimum(f)}
        Index(h) == LET newest == NewestFirst(FormEligible(Of(h)), Len(HorseWeights))
                    IN  HorseIndex([i \in DOMAIN newest |->
                                       StartScores(book, newest[i], EndOfDay(f.asOf), NoValue)])
    IN  Ranking("form", {r \in {[id |-> h, score |-> Index(h).score, used |-> Index(h).used,
                                 wins |-> Placed(Of(h), {1}), starts |-> Cardinality(Of(h))] : h \in horses} :
                            r.score # NoValue})

(***************************************************************************)
(* The page of a calendar year: a summary, and its starts by method, distance  *)
(* and track.                                                                *)
(***************************************************************************)
YearStarts(book, f, role, id) ==
    {s \in Counted(book) : s[role] = id /\ InYear(f, s) /\ StartFits(f, role, f.year, s)}

GroupedBy(starts, GroupOf(_)) ==
    [g \in {GroupOf(s) : s \in starts} |-> CoreMetrics({s \in starts : GroupOf(s) = g})]

CalendarCore(book, f, role, id) ==
    LET starts == YearStarts(book, f, role, id)
    IN  [summary   |-> CoreMetrics(starts),
         methods   |-> GroupedBy(starts, MethodOf),
         distances |-> GroupedBy(starts, LAMBDA s : DistanceGroup(s.distance)),
         tracks    |-> GroupedBy(starts, LAMBDA s : s.track)]

CalendarMarket(book, f, role, id, kind) ==
    CoreMetrics({s \in YearStarts(book, f, role, id) : OfKind(book, kind, s)})

\* Rests are looked up among all starts of the horses that ran for the entity in the year.
OwnSequence(book, f, role, id) == {s \in Counted(book) : s[role] = id}
HorsesSequence(book, f, role, id) ==
    LET ran == {s.horse : s \in {x \in book.starts : ~ x.scratched /\ x[role] = id /\ InYear(f, x)}}
    IN  {s \in Counted(book) : s.horse \in ran}

CalendarRest(book, f, role, id, which) ==
    LET sequence == HorsesSequence(book, f, role, id)
    IN  RestFigures({s \in YearStarts(book, f, role, id) : AfterRest(sequence, s, which)})

\* The trip stored last says how the race went; one of another kind counts for none.
Scenarios == {"leader", "pocket", "death_seat", "second_over", "third_over", "back"}
TripScenarios(book, f, horse) ==
    LET Trip(s) == LET known == {r \in book.trips : r.of = s.entry}
                   IN  {r.scenario : r \in {x \in known : ~ \E q \in known :
                                               q.seen > x.seen \/ (q.seen = x.seen /\ q.id > x.id)}}
    IN  [k \in Scenarios |-> RestFigures({s \in YearStarts(book, f, "horse", horse) : k \in Trip(s)})]

CalendarHome(book, f, trainer) ==
    [k \in {"home", "away"} |->
        CoreMetrics({s \in YearStarts(book, f, "trainer", trainer) : OfKind(book, k, s)})]

(***************************************************************************)
(* The older breakdowns: a whole year or all years, whatever the day; distances *)
(* as they are, and the methods of distances and tracks chosen on their own.  *)
(***************************************************************************)
Breakdowns(book, year, scope, role, id, methods) ==
    LET starts == {s \in Counted(book) : /\ s[role] = id /\ ScopeFits(scope, s)
                                         /\ year # NoValue => CalendarYear(s.day) = year}
        By(method) == {s \in starts : method = "all" \/ MethodOf(s) = method}
    IN  [summary   |-> CoreMetrics(starts),
         methods   |-> GroupedBy(starts, MethodOf),
         distances |-> GroupedBy(By(methods.distance), LAMBDA s : s.distance),
         tracks    |-> GroupedBy(By(methods.track), LAMBDA s : s.track)]

(***************************************************************************)
(* The boards of rankings.  A part of a board is asked for on its own or with  *)
(* the others.                                                               *)
(***************************************************************************)
CoreBoard(book, f, role, metrics) == [m \in metrics |-> CoreRanking(book, f, role, m)]
KindBoard(book, f, role, kinds) == [k \in kinds |-> KindRanking(book, f, role, k)]
RestBoard(book, f, role) == [w \in {"first", "second"} |-> RestRanking(book, f, role, w)]

DriverBoard(book, f) ==
    [core |-> CoreBoard(book, f, "driver", {"winRate", "top3Rate", "wins", "perStart"}),
     form |-> FormRanking(book, f, "driver"), year |-> AnnualEarnings(book, f, "driver"),
     kinds |-> KindBoard(book, f, "driver",
                   {"leader", "death", "backRow", "auto", "volt", "favorite", "longshot"})]

TrainerBoard(book, f) ==
    [core |-> CoreBoard(book, f, "trainer", {"winRate", "top3Rate", "wins", "perStart"}),
     form |-> FormRanking(book, f, "trainer"), year |-> AnnualEarnings(book, f, "trainer"),
     kinds |-> KindBoard(book, f, "trainer",
                   {"auto", "volt", "good", "other", "handicap", "home", "away", "short", "medium", "long",
                    "favorite", "longshot"}),
     rest |-> RestBoard(book, f, "trainer")]

HorseBoard(book, f) ==
    [core |-> CoreBoard(book, f, "horse", {"winRate", "top3Rate", "perStart"}),
     form |-> FormRanking(book, f, "horse"), rest |-> RestBoard(book, f, "horse"),
     opening |-> PaceRanking(book, f, book.openings), closing |-> PaceRanking(book, f, book.closings),
     points |-> PointRanking(book, f)]

(***************************************************************************)
(* The page of one of them in a period, which no minimum is asked of.         *)
(***************************************************************************)
NewestForm(book, f, role, id) ==
    FormRow(role, {s \in Filtered(book, f, role) : s[role] = id /\ Placing(s) # NoValue /\ Placing(s) > 0})

DriverDetail(book, f, id) ==
    [summary |-> DetailSummary(book, f, "driver", id), form |-> NewestForm(book, f, "driver", id),
     markets |-> [k \in {"favorite", "longshot"} |-> KindSummary(book, f, "driver", id, k)]]

TrainerDetail(book, f, id) ==
    [summary |-> DetailSummary(book, f, "trainer", id), form |-> NewestForm(book, f, "trainer", id),
     kinds |-> [k \in {"favorite", "longshot", "home", "away"} |-> KindSummary(book, f, "trainer", id, k)],
     rest |-> [w \in {"first", "second"} |-> RestSummary(book, f, "trainer", id, w)]]

HorseDetail(book, f, id) ==
    [summary |-> DetailSummary(book, f, "horse", id), form |-> NewestForm(book, f, "horse", id),
     rest |-> [w \in {"first", "second"} |-> RestSummary(book, f, "horse", id, w)]]

(***************************************************************************)
(* What else the page of a horse shows.  Its start points: the newest, the last *)
(* that differed, and when they changed.  The paces of its newest starts, as    *)
(* they are known now, whatever the day.  And its best paces ever.            *)
(***************************************************************************)
PointPattern(book, horse, day) ==
    LET rows == {r \in book.points : r.of = horse /\ r.observed <= EndOfDay(day)}
        Later(r, q) == r.observed > q.observed \/ (r.observed = q.observed /\ r.id > q.id)
        Newest(those) == {r \in those : ~ \E q \in those : Later(q, r)}
        now == Newest(rows)
        before == Newest({r \in rows : \E c \in now : r.value # c.value})
        since == {r \in rows : \A b \in before : Later(r, b)}
    IN  [now |-> now, before |-> before,
         changed |-> IF before = {} THEN {} ELSE {r \in since : ~ \E q \in since : Later(r, q)}]

PacePattern(book, horse, day, historicalOnly) ==
    LET Telemetry2(s) == StoredTelemetry(book, s, Max({r.seen : r \in book.telemetry} \cup {0}))
        raced == {s \in Counted(book) : /\ s.horse = horse /\ s.result.official /\ Telemetry2(s) # {}
                                        /\ IF historicalOnly THEN s.day < day ELSE s.day <= day}
        newest == {s \in raced : Cardinality({q \in raced : RunAfter(q, s)}) < PatternRows}
    IN  [measure \in {"first200", "last400", "extra"} |->
            UNION {{<<s.entry, r.value[measure]>> : r \in {x \in Telemetry2(s) : measure \in DOMAIN x.value}} :
                      s \in newest}]

\* A row of speeds has parts: time and length of the hundreds that were measured validly.
SegmentOf(parts, last) ==
    LET hundreds == {100 * k : k \in 0 .. (last \div 100) - 1}
        Total(x) == MapThenSumSet(LAMBDA m : parts[m][x], hundreds)
    IN  IF hundreds \subseteq DOMAIN parts THEN {<<Total("elapsed"), Total("metres")>>} ELSE {}

TopSpeed(book, horse, day) ==
    LET own == {s \in book.starts : s.horse = horse /\ ~ s.scratched}
        NewestRow(rows, s) ==
            LET known == {r \in rows : r.of = s.entry /\ r.seen <= EndOfDay(day)}
            IN  {r \in known : ~ \E q \in known : q.seen > r.seen \/ (q.seen = r.seen /\ q.id > r.id)}
        segments(last) == UNION {UNION {SegmentOf(r.parts, last) : r \in NewestRow(book.speeds, s)} : s \in own}
        fastest(paces) == {p \in paces : ~ \E q \in paces : q[1] * p[2] < p[1] * q[2]}
    IN  [first |-> [last \in {100, 200, 500} |-> fastest(segments(last))],
         last400 |-> LET paces == UNION {{r.value["last400"] : r \in {x \in StoredTelemetry(book, s, EndOfDay(day)) :
                                                                   "last400" \in DOMAIN x.value}} : s \in own}
                     IN  IF paces = {} THEN NoValue ELSE Min(paces)]

HorsePage(book, f, id) ==
    HorseDetail(book, f, id) @@
    [points |-> PointPattern(book, id, f.asOf), paces |-> PacePattern(book, id, f.asOf, FALSE),
     fastest |-> TopSpeed(book, id, f.asOf)]
=============================================================================
