----------------------------- MODULE Calculations -----------------------------
(***************************************************************************)
(* What the pure calculations promise, asked of small instances: the system   *)
(* that is played (DecisionOptimizer), replays of forecasts                   *)
(* (ReplayCalibration), what is known about a start (RelevantHistory,          *)
(* Features, Populations), what is seen in the telemetry of a race             *)
(* (Telemetry), and the statistics pages (Statistics, EntityPages).  A question is one instance, chosen by its parameters; the     *)
(* answer is computed from it, so that every promise is about the question.   *)
(***************************************************************************)
EXTENDS ReplayCalibration, Populations, Telemetry, EntityPages

LOCAL INSTANCE FiniteSetsExt
LOCAL INSTANCE TLC

CONSTANTS
    LegShapes,          \* bound: the legs that are tried
    Budgets, Prices,    \* bounds: budgets and line prices that are tried
    Policies,           \* bound: the walk-forward policies that are tried
    LastDay,            \* bound: the last day of a book
    Traits,             \* bound: what past starts may have in common with the target
    Stances,            \* bound: how a horse may pass a checkpoint
    PageDays, PageShapes    \* bounds: the days of four starts, and how they may differ

(* Sizes of a policy are whole numbers (nullablePositiveInteger in              *)
(* normalizeWalkForwardPolicy), and a horse passes at a distance.              *)
ASSUME CalculationsAssumption ==
    /\ \A p \in Policies : {p.train, p.calibration, p.test} \subseteq Nat
    /\ \A s \in Stances : s.gap \in Int
    /\ LastDay \in Nat

VARIABLE question

NoQuestion == [of |-> "nothing"]

(***************************************************************************)
(* Systems: legs, a budget and a price.                                       *)
(***************************************************************************)
AskSystem ==
    \E legs \in [LegNumbers -> LegShapes], budget \in Budgets, price \in Prices :
        question' = [of |-> "system", legs |-> legs, budget |-> budget, price |-> price]

(* The system that is played is, of all that fit, the one with the highest    *)
(* chance by the blind probabilities, then the cheapest, then the first by     *)
(* signature, whatever the market says; without one, or when lock, market or   *)
(* field have moved on, nothing is.  The search keeps one partial system per   *)
(* number of spikes and rows, drops early what cannot get its spikes any more, *)
(* and must lose none of it (analysis-optimizer-v1.js).                       *)
PlayedIsBest ==
    question.of = "system" =>
        LET legs == question.legs
            lock == [id |-> 1, legs |-> legs]
            all == Systems(legs, question.budget, question.price)
            field == [i \in LegNumbers |-> DOMAIN legs[i]]
            Played(market, newest, active) == Play(lock, market, newest, active, question.budget, question.price)
        IN  /\ \A complete \in BOOLEAN :
                  LET s == Played(Market(1, legs, complete), 1, field)
                  IN  IF all = {} \/ TargetMin > question.budget THEN s = Refused
                      ELSE s \in all /\ \A t \in all : AsGood(legs, s, t)
            /\ Played(Market(2, legs, TRUE), 1, field) = Refused
            /\ Played(Market(1, legs, TRUE), 2, field) = Refused
            /\ Played(Market(1, legs, TRUE), 1, [field EXCEPT ![1] = @ \ {1}]) = Refused

(***************************************************************************)
(* Replays: three rounds of two legs, at any of three instants, some of them   *)
(* played by an external run that came too late, and some named as             *)
(* regression-only.                                                          *)
(***************************************************************************)
TriedTargets(first, late) ==
    {[id |-> <<g, l>>, group |-> g, groupAt |-> first[g], at |-> first[g] + l,
      winner |-> 1 + (g % 2), eligible |-> g \notin late,
      forecasts |-> [blind |-> <<One - 1, 1>>, decision |-> <<l, One - l>>]] :
        g \in DOMAIN first, l \in {0, 1}}

AskReplay ==
    \E first \in [1 .. 3 -> 1 .. 3], late \in SUBSET {1, 2}, named \in SUBSET {1, 3}, policy \in Policies :
        question' = [of |-> "replay", targets |-> TriedTargets(first, late),
                     config |-> [regression |-> named, policy |-> policy]]

(* The chronology of the held-out evidence, legs of a round and rounds of one *)
(* instant together: whatever a fold tests starts after everything it was      *)
(* calibrated on, and that after everything it was trained on; a round that is *)
(* only watched for regressions is in no fold (replay-calibration-v1.js).     *)
TestedAfterTrained ==
    question.of = "replay" =>
        LET result == Replay(question.targets, question.config)
            Earlier(G, H) == \A g \in G, h \in H : g.at < h.at
        IN  \A f \in result.folds :
                /\ Earlier(f.train, f.calibration) /\ Earlier(f.calibration, f.test)
                /\ Earlier(f.train, f.test)
                /\ \A g \in f.train \cup f.calibration \cup f.test :
                       g.id \notin Automatic(question.targets) \cup question.config.regression

(* A replay can be stored exactly when every round it put aside on its own     *)
(* account, because an external run came too late, is also named in the        *)
(* configuration: what is computed again before storing knows the named rounds *)
(* only (assertReplayAggregateConsistency).                                   *)
ReplayIsStorable ==
    question.of = "replay" =>
        (Storable(Replay(question.targets, question.config), {"blind", "decision"})
            <=> Automatic(question.targets) \subseteq question.config.regression)

(***************************************************************************)
(* A book about horse 1, which starts in race 9, against horse 2, and has     *)
(* started twice before; horse 2 has the same trainer and has started once.    *)
(***************************************************************************)
Start(entry, race, horse, day, at, result) ==
    [entry |-> entry, race |-> race, horse |-> horse, driver |-> 1, trainer |-> 1, day |-> day, at |-> at,
     method |-> "auto", track |-> 1, distance |-> 2140, type |-> NoValue, prize |-> race, lane |-> entry,
     tier |-> NoValue, handicap |-> NoValue, scratched |-> FALSE, number |-> race, monte |-> FALSE,
     breed |-> NoValue, sex |-> NoValue, born |-> NoValue, actual |-> NoValue, back |-> FALSE, result |-> result]

Result(seen, facts) == [seen |-> seen, official |-> TRUE, facts |-> facts]
Ran(seen, place) == Result(seen, [placing |-> place, earned |-> place, gallop |-> place = 3, time |-> 70 + place])

(***************************************************************************)
(* What was not known yet: a late row of some kinds, made at the cutoff and    *)
(* stored then or after, and a result seen before, at or after it.            *)
(***************************************************************************)
RowKinds == {"equipment", "telemetry", "intervals", "trajectories", "propositions", "points", "snapshots"}

\* who a kind of row is about in this book, and what it says
Subjects == [equipment |-> {1, 3}, telemetry |-> {1, 3}, intervals |-> {1, 3}, trajectories |-> {1, 3},
             propositions |-> {1, 9}, points |-> {1, 2}, snapshots |-> {<<"life", <<"horse", 1>>>>, <<"year", 0, <<"driver", 1>>>>}]
Says(kind, x) ==
    CASE kind = "equipment" -> [state |-> [shoes |-> x], change |-> x]
      [] kind = "telemetry" -> [first200 |-> x, last400 |-> x, extra |-> x]
      [] kind = "propositions" -> [terms |-> x]
      [] kind = "snapshots" -> [starts |-> x, points |-> x, earnings |-> x]
      [] OTHER -> x

Observations(kind, late, cutoff, delay) ==
    {[of |-> s, observed |-> 1, seen |-> 1, id |-> 1, value |-> Says(kind, 1)] : s \in Subjects[kind]}
        \cup {[of |-> s, observed |-> cutoff, seen |-> cutoff + delay, id |-> 2, value |-> Says(kind, 2)] :
                s \in IF kind \in late THEN Subjects[kind] ELSE {}}

LastStart(hourKnown) ==
    Start(3, 9, 1, LastDay, IF hourKnown THEN LastDay * DayLength + 2 ELSE NoValue, NoValue)

KnowledgeBook(late, delay, seen, hourKnown) ==
    LET cutoff == TargetEvent(LastStart(hourKnown))
        rows == [kind \in RowKinds |-> Observations(kind, late, cutoff, delay)]
    IN  [starts |-> {LastStart(hourKnown), Start(4, 9, 2, LastDay, NoValue, NoValue),
                     Start(1, 1, 1, 0, 1, Ran(2, 1)), Start(2, 2, 1, 1, NoValue, Ran(cutoff + seen, 3)),
                     Start(5, 2, 2, 1, NoValue, Ran(cutoff + seen, 1))},
         equipment |-> rows["equipment"], telemetry |-> rows["telemetry"], intervals |-> rows["intervals"],
         trajectories |-> rows["trajectories"], propositions |-> rows["propositions"],
         points |-> rows["points"], snapshots |-> rows["snapshots"]]

AskKnowledge ==
    \E late \in {{kind} : kind \in RowKinds} \cup {{}, RowKinds}, delay \in {0, 1}, seen \in {-1, 0, 1}, hourKnown, early \in BOOLEAN :
        question' = [of |-> "knowledge", book |-> KnowledgeBook(late, delay, seen, hourKnown),
                     target |-> LastStart(hourKnown),
                     asOf |-> TargetEvent(LastStart(hourKnown)) + (IF early THEN -1 ELSE 1)]

(* No hindsight: whatever was made, stored or decided after the cutoff of a   *)
(* start changes none of its features, priors and evidence                    *)
(* (performance-features-v3.js, equipment-response-v1.js, person-context-v1.js,*)
(* race-priors-v1.js, xlabs-evidence-profiles-v1.js), and none of the forms      *)
(* kept with an analysis made by then (analysis-form-snapshot-v1.js).         *)
FutureChangesNothing ==
    question.of = "knowledge" =>
        LET then == AsKnown(question.book, CutoffOf(question.target, question.asOf))
            Same2(Built(_, _, _)) == Built(question.book, question.target, question.asOf)
                                        = Built(then, question.target, question.asOf)
            Forms(book) == LegForms(book, Runners(book, question.target), CutoffOf(question.target, question.asOf))
        IN  Same2(FeaturesOf) /\ Same2(RacePriors) /\ Same2(Evidence) /\ Forms(question.book) = Forms(then)

(***************************************************************************)
(* Populations: three starts on any days, and a target.                       *)
(***************************************************************************)
NoRows == [kind \in RowKinds |-> {}]

ShardBook(days, last, hourKnown) ==
    [NoRows EXCEPT !["intervals"] =
        {[of |-> e, observed |-> 0, seen |-> 0, id |-> 1, value |-> e] : e \in {1, 2}}]
    @@ [starts |-> {Start(9, 9, 9, last, IF hourKnown THEN last * DayLength + 2 ELSE NoValue, NoValue)}
                      \cup {[Start(e, e, e, days[e], IF hourKnown THEN days[e] * DayLength + 1 ELSE NoValue, Ran(0, e))
                                EXCEPT !.track = (e + 1) \div 2] : e \in DOMAIN days}]

AskShards ==
    \E days \in [1 .. 3 -> 0 .. LastDay], last \in 1 .. LastDay, hourKnown \in BOOLEAN :
        /\ days[1] <= days[2]
        /\ question' = [of |-> "shards", book |-> ShardBook(days, last, hourKnown), last |-> last]

(* Adding up the shards loses and doubles nothing: the quarters of a race's    *)
(* prior are its whole population at every level of likeness, and the years of *)
(* the X-Labs population are its measured starts, except those on the cutoff's *)
(* own day when the year of that day has no earlier race day                   *)
(* (mergeAggregateRows, populationDateBounds).                                *)
ShardsAddUp ==
    question.of = "shards" =>
        LET book == question.book
            target == CHOOSE s \in book.starts : s.entry = 9
            cutoff == TargetEvent(target)
            years == Years(book, cutoff)
            own == {s \in MeasuredStarts(book, cutoff) :
                        s.day = question.last /\ \A d \in EarlierDays(book, cutoff) :
                                                    YearOf(d * DayLength) < YearOf(question.last * DayLength)}
        IN  /\ \A i \in DOMAIN Levels :
                   LevelTallies(book, target, cutoff)[Levels[i]]
                     = Tally({s \in PriorStarts(book, 9, cutoff) :
                                Matches(book, s, ContextOf(book, target), Levels[i])})
            /\ MergedPopulation(book, cutoff)
                 = Population(book, MeasuredStarts(book, cutoff) \ own, cutoff)

(***************************************************************************)
(* Histories: past starts that have some traits in common with the target.    *)
(***************************************************************************)
PastStart(e, trait) ==
    LET plain == [Start(e, e, 1, e * e, NoValue, Ran(0, 4)) EXCEPT
                    !.driver = 2, !.method = "volt", !.distance = 1000, !.track = 2]
    IN  [plain EXCEPT !.driver   = IF "driver" \in trait THEN 1 ELSE @,
                      !.method   = IF "method" \in trait THEN "auto" ELSE @,
                      !.distance = IF "distance" \in trait THEN 2140 ELSE @,
                      !.track    = IF "track" \in trait THEN 1 ELSE @]

OnlyStarts(starts) == [x \in RowKinds \cup {"starts"} |-> IF x = "starts" THEN starts ELSE {}]

AskHistory ==
    \E traits \in [1 .. 5 -> Traits] :
        question' = [of |-> "history",
                     book |-> OnlyStarts({Start(9, 9, 1, 90, NoValue, NoValue)}
                                            \cup {PastStart(e, traits[e]) : e \in 1 .. 5})]

(* Rows that are shown: never more than fit, the newest always among them, and *)
(* when there is a place for each, no reason a past start would be shown for    *)
(* goes without a row, however many rows the commoner reasons could fill        *)
(* (selectRelevantRows).                                                      *)
ReasonsRepresented ==
    question.of = "history" =>
        LET target == CHOOSE s \in question.book.starts : s.entry = 9
            h == History(question.book, target, TargetEvent(target))
            reasons == (UNION {r.reasons : r \in h.rows}) \ {"recent"}
        IN  /\ Cardinality(h.shown) <= MaxRows
            /\ {r \in h.rows : "recent" \in r.reasons} \subseteq h.shown
            /\ RecentRows + Cardinality(reasons) <= MaxRows =>
                 \A reason \in reasons : \E r \in h.shown : reason \in r.reasons

(***************************************************************************)
(* Telemetry: three horses pass 700, 600, 500 and 400 metres from home, at     *)
(* each mark in five frames around it, at the first two alike; a stance is how *)
(* many of the frames see the horse, how far it is behind and how far out.     *)
(* The third horse is always behind, and the race is seen from 700 metres on.  *)
(***************************************************************************)
Behind == [seen |-> 5, gap |-> Metres(6), side |-> 0]

FrameAt(mark, f, stances) ==
    [at |-> 7000 * mark + 500 * f,
     targets |-> [n \in {m \in 1 .. 3 : f <= stances[m].seen} |->
                    [distance |-> Metres(100 * (8 - mark)) + 10 * (3 - f) + stances[n].gap,
                     side |-> stances[n].side]]]

RaceOf(first, second) ==
    [length |-> Metres(700),
     active |-> 1 .. 3,
     frames |-> [k \in 1 .. 18 |->
        LET mark == 1 + (k + 1) \div 5
            like == Max({mark - 1, 1})
        IN  FrameAt(mark, 1 + ((k + 1) % 5), <<first[like], second[like], Behind>>)]]

AskTelemetry ==
    \E first, second \in [1 .. 3 -> Stances] : \E rows \in {CheckpointRows(RaceOf(first, second))} :
        question' = [of |-> "telemetry", rows |-> rows, votes |-> [n \in 1 .. 3 |-> VotesFor(rows, n)]]

AskPaces ==
    \E first \in [1 .. 3 -> Stances], stance \in Stances :
      \E race \in {RaceOf(first, <<stance, stance, stance>>)} :
        \E paces \in {[n \in race.active |-> IntervalFeatures(race, n)]} :
            question' = [of |-> "paces", paces |-> paces,
                         ranks |-> [n \in race.active |-> FieldRank(paces, n, "first100")],
                         whole |-> [n \in race.active |-> Interval(race, n, 0, Metres(200))]]

(* Only one horse has a place: two horses of a race that are both given the    *)
(* lead, the pocket or the same place outside were not seen together often      *)
(* enough; one of them rests on a single, sure sighting                        *)
(* (classifyXlabsTripScenarios).                                              *)
ExclusiveByVotes ==
    question.of = "telemetry" =>
        LET trip == [n \in 1 .. 3 |-> TripOf(question.votes[n])]
            placed == {n \in 1 .. 3 : trip[n] # Absent}
        IN  \A n, m \in placed :
                n # m /\ trip[n].place = trip[m].place /\ trip[n].place \in Exclusive =>
                    1 \in {trip[n].votes, trip[m].votes}

(* The paces of a horse agree: where two neighbouring hundreds and both         *)
(* together are measured, times and lengths add up, though each is taken from  *)
(* the nearest frames and judged on its own; and the faster opening has the    *)
(* lower rank in the field (intervalMeasurement, addFieldRelativeMetrics).     *)
PacesAgree ==
    question.of = "paces" =>
        LET first(n) == question.paces[n].first100
            second(n) == question.paces[n].second100
            whole(n) == question.whole[n]
        IN  /\ \A n \in 1 .. 3 : Absent \notin {first(n), second(n), whole(n)} =>
                  /\ first(n).elapsed + second(n).elapsed = whole(n).elapsed
                  /\ first(n).metres + second(n).metres = whole(n).metres
            /\ \A n, m \in 1 .. 3 : Absent \notin {first(n), first(m)} =>
                  (question.ranks[n] < question.ranks[m] <=> Slower(first(m), first(n)))

(***************************************************************************)
(* Pages: two horses, the first with a start in the first year and two in the  *)
(* second, the second horse with one more; starts differ in trainer, distance and whether they have a result.  *)
(***************************************************************************)
PageStart(e, shape) ==
    [Start(e, e, IF e = 4 THEN 2 ELSE 1, PageDays[e], NoValue,
           IF shape.ran THEN Ran(0, e) ELSE NoValue)
        EXCEPT !.trainer = shape.trainer, !.distance = shape.distance,
               !.track = IF shape.distance = NoValue THEN NoValue ELSE 1 + (e % 2),
               !.method = IF shape.distance = NoValue THEN NoValue ELSE "volt"]

AskPages ==
    \E shapes \in [1 .. 3 -> PageShapes] :
        question' = [of |-> "pages",
                     book |-> NoRows @@ [starts |-> {PageStart(e, shapes[1 + (e % 3)]) : e \in 1 .. 4}, markets |-> {},
                                        positions |-> {}, homes |-> {[of |-> 1, observed |-> 0, id |-> 1, track |-> 1]}]]

(* The pages tell one story.  On the last day of a year, for every horse and   *)
(* trainer, the page of the year and the page of the period of a year show the  *)
(* same starts and starts after rests, provided that every start has a trainer: *)
(* rests count the gaps between all starts of a horse, also those of another    *)
(* year or trainer.  The groups of a page add up to its summary; the page of    *)
(* one distance is that group of the whole page; the board of the year's         *)
(* earnings and the older breakdown show the sums of the summary; starts at home *)
(* and away are those whose track is known (entity-detail-calendar-statistics.js,*)
(* statistics/trainers.js, horses.js, trainer-calendar-home-statistics.js,      *)
(* routes/entity-stat-breakdowns.js).                                        *)
PagesAgree ==
    question.of = "pages" =>
        LET book == question.book
            f == AllFilters(FirstOfYear(2) - 1)
            year == [f EXCEPT !.period = "1y"]
            Sum(groups, x) == MapThenSumSet(LAMBDA g : groups[g][x], DOMAIN groups)
            complete == \A s \in book.starts : s.trainer # NoValue
        IN  \A role \in {"horse", "trainer"}, id \in {1, 2} :
              LET page == CalendarCore(book, f, role, id)
                  detail == IF role = "horse" THEN HorseDetail(book, year, id) ELSE TrainerDetail(book, year, id)
                  board == IF role = "horse" THEN AnnualEarnings(book, f, role) ELSE TrainerBoard(book, f).year
                  starts == YearStarts(book, f, role, id)
              IN  /\ detail.summary = page.summary
                  /\ \A which \in {"first", "second"} :
                        LET rest == CalendarRest(book, f, role, id, which)
                        IN  /\ rest = RestFigures({s \in starts : AfterRest(Counted(book), s, which)})
                            /\ role = "horse" \/ complete => rest = detail.rest[which]
                  /\ \A x \in {"starts", "wins", "top3"} :
                        /\ Sum(page.methods, x) = page.summary[x]
                        /\ Sum(page.distances, x) = page.summary[x]
                        /\ Sum(page.tracks, x) = page.summary[x]
                  /\ \A g \in DOMAIN page.distances \ {"unknown"} :
                        CalendarCore(book, [f EXCEPT !.distance = g], role, id).summary = page.distances[g]
                  /\ page.summary.prize # NoValue =>
                        {r.row.prize : r \in {x \in board : x.row.id = id}} = {page.summary.prize}
                  /\ Breakdowns(book, f.year, "all", role, id, [distance |-> "all", track |-> "all"]).summary
                       = page.summary
                  /\ role = "trainer" =>
                        LET places == CalendarHome(book, f, id)
                        IN  /\ \A k \in {"home", "away"} : places[k] = detail.kinds[k]
                            /\ HomeOf(book, id) # NoValue =>
                                 places["home"].starts + places["away"].starts
                                   = Cardinality({s \in starts : s.track # NoValue})

Ask ==
    \/ AskSystem \/ AskReplay \/ AskKnowledge \/ AskShards \/ AskHistory \/ AskTelemetry \/ AskPaces
    \/ AskPages

QuestionSpec == question = NoQuestion /\ [][question = NoQuestion /\ Ask]_question
=============================================================================
