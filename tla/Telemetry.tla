------------------------------- MODULE Telemetry -------------------------------
(***************************************************************************)
(* What is derived from the telemetry of one race: the hundred-metre          *)
(* intervals of every entry (xlabs-intervals-v2.js), the order of the field   *)
(* at checkpoints and the episodes seen between them                          *)
(* (xlabs-position-reconstruction-v1.js), and the place every entry had five   *)
(* hundred metres from home (xlabs-trip-classification-v1.js).                *)
(*                                                                           *)
(* A race is [length, frames, active]: its distance, the frames in order, and *)
(* the start numbers that are not scratched.  A frame is [at, targets]: its   *)
(* time in milliseconds and, for every start number seen, the distance to the  *)
(* finish and how far from the inner rail.  Lengths are in quarters of a       *)
(* metre, shares and confidences in per cent, both exact for the thresholds    *)
(* of the code.  The stretch is straight: the way a horse moves is the way its *)
(* distance to the finish falls.  Frames name a target once; the import        *)
(* refuses the others (see PositionJobs).                                      *)
(***************************************************************************)
EXTENDS Integers, Sequences, FiniteSets

LOCAL INSTANCE SequencesExt

CONSTANT Absent     \* what was not measured

Metres(m) == 4 * m
Percent(part, whole) == IF whole = 0 THEN 0 ELSE (100 * part) \div whole
Apart(a, b) == IF a > b THEN a - b ELSE b - a
InOrder(S, Less(_, _)) ==
    [k \in 1 .. Cardinality(S) |-> CHOOSE x \in S : Cardinality({y \in S : Less(y, x)}) = k - 1]
Least(S, Better(_, _)) == CHOOSE x \in S : \A y \in S \ {x} : Better(x, y)

FramesOf(race) == DOMAIN race.frames
SeenIn(race, n) == {i \in FramesOf(race) : n \in DOMAIN race.frames[i].targets}
DistanceAt(race, i, n) == race.frames[i].targets[n].distance

(***************************************************************************)
(* Intervals.  An endpoint is the frame that is closest, the first of equally  *)
(* close ones.                                                                *)
(***************************************************************************)
EndpointError(race, i, n, from) == Apart(DistanceAt(race, i, n), from)

ClosestReading(race, n, from) ==
    Least(SeenIn(race, n),
          LAMBDA i, j : \/ EndpointError(race, i, n, from) < EndpointError(race, j, n, from)
                        \/ /\ EndpointError(race, i, n, from) = EndpointError(race, j, n, from)
                           /\ i < j)

Measured(race, n, first, last) == DistanceAt(race, first, n) - DistanceAt(race, last, n)
ElapsedToNext(race, first, last) ==
    race.frames[Min({last + 1, Len(race.frames)})].at - race.frames[first].at
Elapsed(race, first, last) == race.frames[last].at - race.frames[first].at

IntervalStatus(race, n, start, end) ==
    IF SeenIn(race, n) = {} THEN "missing_endpoint"
    ELSE LET from  == race.length - start
             to    == race.length - end
             first == ClosestReading(race, n, from)
             last  == ClosestReading(race, n, to)
             local == SeenIn(race, n) \cap (first .. last)
         IN  IF first >= last \/ Measured(race, n, first, last) <= 0 THEN "invalid_progression"
             ELSE IF Max({EndpointError(race, first, n, from), EndpointError(race, last, n, to)}) > Metres(20)
               THEN "endpoint_too_far"
             ELSE IF 10 * Measured(race, n, first, last) \notin 8 * (end - start) .. 12 * (end - start)
               THEN "distance_mismatch"
             ELSE IF Percent(Cardinality(local), last - first + 1) < 90 THEN "insufficient_local_coverage"
             ELSE "valid"

\* the time and the measured length: a pace is their quotient
Interval(race, n, start, end) ==
    IF start < 0 \/ end > race.length \/ IntervalStatus(race, n, start, end) # "valid" THEN Absent
    ELSE LET first == ClosestReading(race, n, race.length - start)
             last  == ClosestReading(race, n, race.length - end)
         IN  [elapsed |-> Elapsed(race, first, last), metres |-> Measured(race, n, first, last)]

NotSlower(a, b) == a.elapsed * b.metres <= b.elapsed * a.metres
Slower(a, b) == ~NotSlower(a, b)

StandardIntervals(race) == {Metres(100 * k) : k \in 0 .. race.length \div Metres(100) - 1}

ValidHundreds(race, n) ==
    [s \in {t \in StandardIntervals(race) : Interval(race, n, t, t + Metres(100)) # Absent} |->
        Interval(race, n, s, s + Metres(100))]

IntervalFeatures(race, n) ==
    LET hundreds == ValidHundreds(race, n)
        last(m)  == Interval(race, n, race.length - Metres(m), race.length)
    IN  [first100  |-> Interval(race, n, 0, Metres(100)),
         second100 |-> Interval(race, n, Metres(100), Metres(200)),
         last100   |-> last(100),
         last200   |-> last(200),
         last400   |-> last(400),
         measured  |-> Cardinality(DOMAIN hundreds),
         expected  |-> Cardinality(StandardIntervals(race)),
         best      |-> {hundreds[s] : s \in {t \in DOMAIN hundreds :
                                \A u \in DOMAIN hundreds : NotSlower(hundreds[t], hundreds[u])}},
         worst     |-> {hundreds[s] : s \in {t \in DOMAIN hundreds :
                                \A u \in DOMAIN hundreds : NotSlower(hundreds[u], hundreds[t])}},
         midrace   |-> [s \in {t \in DOMAIN hundreds :
                                t >= Metres(200) /\ t + Metres(100) <= race.length - Metres(400)} |-> hundreds[s]]]

\* the ascending rank among the active entries that have the feature
FieldRank(paces, n, feature) ==
    LET has == {m \in DOMAIN paces : paces[m][feature] # Absent}
    IN  IF n \notin has THEN Absent
        ELSE 1 + Cardinality({m \in has : Slower(paces[n][feature], paces[m][feature])})

(***************************************************************************)
(* The field at a frame, smoothed over the neighbouring frames.               *)
(***************************************************************************)
Radius == 2
Around(race, i) == {j \in FramesOf(race) : Apart(i, j) <= Radius}
Samples(race, i, n) == Around(race, i) \cap SeenIn(race, n)
LocalCoverage(race, i, n) == Percent(Cardinality(Samples(race, i, n)), Cardinality(Around(race, i)))

\* sums over the samples: a mean is Sum / number
SumOver(race, i, n, field) ==
    MapThenFoldSet(+, 0, LAMBDA j : race.frames[j].targets[n][field], LAMBDA S : CHOOSE j \in S : TRUE,
                   Samples(race, i, n))
SmoothedMean(race, i, n, field) == SumOver(race, i, n, field) \div Cardinality(Samples(race, i, n))

InSight(race, i) == race.active \cap DOMAIN race.frames[i].targets
Ahead(race, i, n, m) ==
    \/ DistanceAt(race, i, n) < DistanceAt(race, i, m)
    \/ DistanceAt(race, i, n) = DistanceAt(race, i, m) /\ n < m
LeaderAt(race, i) == Least(InSight(race, i), LAMBDA n, m : Ahead(race, i, n, m))
LeaderDistance(race, i) == DistanceAt(race, i, LeaderAt(race, i))

\* a horse within half a metre of another one has no rank
Ambiguous(race, i, n) ==
    \E m \in InSight(race, i) \ {n} :
        Apart(DistanceAt(race, i, n), DistanceAt(race, i, m)) <= Metres(1) \div 2

\* the nearest frames before and after that see the horse
Tangent(race, i, n) ==
    LET before == {j \in SeenIn(race, n) : j < i /\ i - j <= Radius + 2}
        after  == {j \in SeenIn(race, n) : j > i /\ j - i <= Radius + 2}
    IN  /\ before # {} /\ after # {}
        /\ race.frames[Min(after)].at - race.frames[Max(before)].at <= 1500
        /\ Apart(SmoothedMean(race, Max(before), n, "distance"),
                 SmoothedMean(race, Min(after), n, "distance")) >= Metres(1) \div 4

(***************************************************************************)
(* Checkpoints: every hundred metres the leader has gone, and the finish, at    *)
(* the frame that comes closest, every frame once.                            *)
(***************************************************************************)
Leads(race) == [i \in {j \in FramesOf(race) : InSight(race, j) # {}} |-> LeaderDistance(race, i)]
Progress(leads, i) == Max({0, leads[Min(DOMAIN leads)] - leads[i]})
HasFinish(leads) == leads[Max(DOMAIN leads)] <= Metres(5)
AtFinish == -1

Marks(leads) ==
    [k \in 1 .. Max({Progress(leads, i) : i \in DOMAIN leads}) \div Metres(100) + 1 |-> Metres(100 * (k - 1))]
        \o (IF HasFinish(leads) THEN <<AtFinish>> ELSE <<>>)

FrameFor(leads, mark) ==
    LET open  == IF mark # AtFinish /\ HasFinish(leads) THEN DOMAIN leads \ {Max(DOMAIN leads)} ELSE DOMAIN leads
        error == [i \in open |-> IF mark = AtFinish THEN leads[i] ELSE Apart(Progress(leads, i), mark)]
        best  == {i \in open : \A j \in open : error[i] <= error[j]}
        near  == {i \in best : error[i] <= (IF mark = AtFinish THEN Metres(5) ELSE Metres(25))}
    IN  IF near = {} THEN Absent ELSE Min(near)

\* a frame that an earlier mark has taken is not used again
Checkpoints(leads) ==
    LET marks == Marks(leads)
        frame == [k \in DOMAIN marks |-> FrameFor(leads, marks[k])]
        taken == {k \in DOMAIN marks : frame[k] # Absent /\ \A l \in 1 .. k - 1 : frame[l] # frame[k]}
    IN  InOrder({frame[k] : k \in taken}, <)

CheckpointRow(race, leads, i, n) ==
    LET observed == InSight(race, i)
        leader   == LeaderAt(race, i)
        field    == Percent(Cardinality(observed), Cardinality(race.active))
        local    == LocalCoverage(race, i, n)
        ranked   == field >= 50 /\ ~Ambiguous(race, i, n)
        lateral  == Tangent(race, i, leader) /\ local >= 60
    IN  [entry    |-> n,
         frame    |-> i,
         progress |-> Progress(leads, i),
         distance |-> DistanceAt(race, i, n),
         rank     |-> IF ranked THEN 1 + Cardinality({m \in observed : m # n /\ Ahead(race, i, m, n)}) ELSE Absent,
         gap      |-> IF Ambiguous(race, i, leader) THEN Absent
                      ELSE DistanceAt(race, i, n) - LeaderDistance(race, i),
         side     |-> IF lateral THEN SmoothedMean(race, i, n, "side") - SmoothedMean(race, i, leader, "side")
                      ELSE Absent,
         field    |-> field,
         longitudinal |-> LET c == Min({field, local}) IN IF ranked THEN c ELSE (3 * c) \div 4,
         lateral  |-> IF lateral THEN Min({field, local, LocalCoverage(race, i, leader)}) ELSE Absent]

CheckpointRows(race) ==
    LET leads == Leads(race)
        at    == Checkpoints(leads)
    IN  [k \in DOMAIN at |-> {CheckpointRow(race, leads, at[k], n) : n \in InSight(race, at[k])}]

(***************************************************************************)
(* Episodes.                                                                 *)
(***************************************************************************)
\* rows are those of every checkpoint, in order
RowsOf(rows, n) == InOrder({r \in UNION {rows[k] : k \in DOMAIN rows} : r.entry = n},
                           LAMBDA r, s : r.frame < s.frame)

SureLeader(field) ==
    LET first == {r \in field : r.rank = 1 /\ r.longitudinal >= 50}
    IN  IF Cardinality(first) = 1 THEN (CHOOSE r \in first : TRUE).entry ELSE Absent

\* a new leader that the next checkpoint confirms, at most one unclear between
LeadChanges(rows) ==
    LET first == [k \in DOMAIN rows |-> SureLeader(rows[k])]
        known(k) == {p \in Max({1, k - 2}) .. k - 1 : first[p] # Absent}
    IN  {[entry |-> first[k], kind |-> "lead_change", start |-> Max(known(k)), end |-> k + 1] :
            k \in {l \in 2 .. Len(rows) - 1 :
                        /\ first[l] # Absent /\ first[l] = first[l + 1]
                        /\ known(l) # {} /\ first[Max(known(l))] # first[l]}}

Movement(from, to) ==
    IF Absent \in {from.rank, to.rank, from.gap, to.gap} THEN Absent
    ELSE IF from.rank - to.rank >= 2 \/ from.gap - to.gap >= Metres(5) THEN "forward"
    ELSE IF to.rank - from.rank >= 2 \/ to.gap - from.gap >= Metres(5) THEN "loss"
    ELSE Absent

MovementsFromEveryRow(rows, n) ==
    LET own == RowsOf(rows, n)
        far(a) == {b \in a + 1 .. Len(own) : own[b].progress - own[a].progress >= Metres(200)}
        kind(a) == IF far(a) = {} THEN Absent ELSE Movement(own[a], own[Min(far(a))])
    IN  {[entry |-> n, kind |-> kind(a), start |-> a, end |-> Min(far(a))] :
            a \in {b \in DOMAIN own : kind(b) # Absent}}

\* the search goes on at the end of a movement, or else at the next row
Movements(rows, n) ==
    LET own == RowsOf(rows, n)
        far(a) == {b \in a + 1 .. Len(own) : own[b].progress - own[a].progress >= Metres(200)}
        kind(a) == IF far(a) = {} THEN Absent ELSE Movement(own[a], own[Min(far(a))])
        step(found, a) ==
            IF kind(a) = Absent \/ \E e \in found : a < e.end THEN found
            ELSE found \cup {[entry |-> n, kind |-> kind(a), start |-> a, end |-> Min(far(a))]}
    IN  FoldLeft(step, {}, [a \in DOMAIN own |-> a])

Wide(row) == row.side # Absent /\ Apart(row.side, 0) >= Metres(5) \div 2

WideOffsets(rows, n) ==
    LET own == RowsOf(rows, n)
        run(a, b) == /\ \A k \in a .. b : Wide(own[k])
                     /\ a = 1 \/ ~Wide(own[a - 1])
                     /\ b = Len(own) \/ ~Wide(own[b + 1])
    IN  {[entry |-> n, kind |-> "wide", start |-> p[1], end |-> p[2]] :
            p \in {q \in (DOMAIN own) \X (DOMAIN own) :
                        /\ q[1] < q[2] /\ run(q[1], q[2])
                        /\ own[q[2]].progress - own[q[1]].progress >= Metres(200)}}

EpisodesOf(rows, n) ==
    {e \in LeadChanges(rows) : e.entry = n} \cup Movements(rows, n) \cup WideOffsets(rows, n)

SummaryOf(race, rows, n) ==
    LET own    == RowsOf(rows, n)
        ranked == {k \in DOMAIN own : own[k].rank # Absent}
    IN  [checkpoints |-> Len(own),
         ranked      |-> Cardinality(ranked),
         episodes    |-> Cardinality(EpisodesOf(rows, n)),
         status      |-> IF /\ Len(own) >= 3 /\ Cardinality(ranked) >= 2
                            /\ Percent(Cardinality(SeenIn(race, n)), Len(race.frames)) >= 80 THEN "usable"
                         ELSE IF own # <<>> THEN "partial" ELSE "insufficient"]

(***************************************************************************)
(* Places in the decision window, four to six hundred metres from home.       *)
(***************************************************************************)
Exclusive == {"leader", "pocket", "death_seat", "second_over", "third_over"}

UsableLongitudinal(r) == r.rank # Absent /\ r.gap # Absent /\ r.field >= 60 /\ r.longitudinal >= 65
UsableLateral(r) == UsableLongitudinal(r) /\ r.side # Absent /\ r.lateral >= 55
BaseConfidence(r) == Min({r.field, r.longitudinal})
LateralConfidence(r) == Min({BaseConfidence(r), r.lateral})
OnSide(r) == IF r.side = 0 THEN 0 ELSE IF r.side < 0 THEN -1 ELSE 1
NearestOf(votes, Key(_)) == {v \in votes : \A w \in votes : Key(v) <= Key(w)}

WindowLeader(field) ==
    LET leaders == {r \in field : UsableLongitudinal(r) /\ r.rank = 1 /\ r.gap <= Metres(3) \div 4}
    IN  IF Cardinality(leaders) = 1 THEN CHOOSE r \in leaders : TRUE ELSE Absent

InWindow(field) ==
    /\ WindowLeader(field) # Absent
    /\ WindowLeader(field).distance \in Metres(400) .. Metres(600)

\* ranked horses are never equally far behind
FirstBy(field) == Least(field, LAMBDA r, q : r.gap < q.gap)

PlacesAt(field) ==
    LET leader == WindowLeader(field)
        others == {r \in field : r.entry # leader.entry /\ UsableLateral(r)}
        inner  == {r \in others : Apart(r.side, 0) <= Metres(5) \div 4 /\ r.gap > Metres(3) \div 4}
        pocket == {r \in inner : r = FirstBy(inner) /\ r.gap <= Metres(8)}
        outer  == {r \in others : Apart(r.side, 0) \in Metres(3) \div 2 .. Metres(21) \div 4}
        near   == {r \in outer : r.gap <= Metres(11) \div 2}
        death  == {r \in near : r = FirstBy(near)}
        chain  == {r \in outer \ death :
                    \A d \in death : /\ OnSide(r) = OnSide(d)
                                     /\ Apart(Apart(r.side, 0), Apart(d.side, 0)) <= Metres(3) \div 2
                                     /\ r.gap > d.gap}
        next(before, rest) == {r \in rest : /\ r = FirstBy(rest)
                                            /\ \A b \in before : r.gap - b.gap <= Metres(8)}
        second == IF death = {} THEN {} ELSE next(death, chain)
        third  == IF second = {} THEN {} ELSE next(second, chain \ second)
        placed == {leader} \cup pocket \cup death \cup second \cup third
        back   == {r \in field \ placed : UsableLongitudinal(r) /\ (r.rank >= 4 \/ r.gap > Metres(8))}
    IN  {<<leader.entry, "leader", BaseConfidence(leader)>>}
            \cup {<<r.entry, "pocket", LateralConfidence(r)>> : r \in pocket}
            \cup {<<r.entry, "death_seat", LateralConfidence(r)>> : r \in death}
            \cup {<<r.entry, "second_over", LateralConfidence(r)>> : r \in second}
            \cup {<<r.entry, "third_over", LateralConfidence(r)>> : r \in third}
            \cup {<<r.entry, "back", BaseConfidence(r)>> : r \in back}

\* what every checkpoint of the window says of the entry
VotesFor(rows, n) ==
    LET vote(k, p) == [place |-> p[2], confidence |-> p[3], checkpoint |-> k,
                       distance |-> WindowLeader(rows[k]).distance]
    IN  UNION {{vote(k, p) : p \in {q \in PlacesAt(rows[k]) : q[1] = n}} :
                    k \in {l \in DOMAIN rows : InWindow(rows[l])}}

ByPlace(votes, place) == {v \in votes : v.place = place}
FromDecision(v) == Apart(v.distance, Metres(500))

\* the place most votes name, the surest of equally many
Favoured(votes) ==
    {p \in {v.place : v \in votes} :
        \A o \in {v.place : v \in votes} :
            LET mine   == ByPlace(votes, p)
                theirs == ByPlace(votes, o)
            IN  \/ Cardinality(mine) > Cardinality(theirs)
                \/ /\ Cardinality(mine) = Cardinality(theirs)
                   /\ Max({v.confidence : v \in mine}) >= Max({v.confidence : v \in theirs})}

NearestVotes(votes) ==
    LET near == NearestOf(votes, FromDecision)
    IN  {v \in near : \A w \in near : v.confidence >= w.confidence}

SelectedByOneVote(votes, place) ==
    /\ place \in Favoured(votes)
    /\ Cardinality(votes) = 1 => \A v \in votes : v.confidence >= 90

Selected(votes, place) ==
    /\ place \in Favoured(votes)
    /\ IF Cardinality(votes) = 1 THEN \A v \in votes : v.confidence >= 90
       ELSE /\ Cardinality(ByPlace(votes, place)) >= 2
            /\ \/ place \in {v.place : v \in NearestVotes(votes)}
               \/ 2 * Cardinality(ByPlace(votes, place)) # Cardinality(votes)

\* the place the entry is given, from its votes
TripOf(votes) ==
    LET places == {p \in Favoured(votes) : Selected(votes, p)}
    IN  IF places = {} THEN Absent
        ELSE LET place == CHOOSE p \in places : TRUE
             IN  [place  |-> place,
                  votes  |-> Cardinality(votes),
                  stable |-> Cardinality(ByPlace(votes, place)),
                  at     |-> Min({FromDecision(v) : v \in ByPlace(votes, place)})]
=============================================================================
