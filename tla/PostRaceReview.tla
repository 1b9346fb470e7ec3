----------------------------- MODULE PostRaceReview -----------------------------
(***************************************************************************)
(* Post-race review of registered analyses (post-race-review-v2.js and        *)
(* external-analysis-evidence-v1.js) on top of their registration: once every *)
(* leg of a round has one winner, the round's latest external run - or, where *)
(* none exists, the newest analysis sealed before its start - is reviewed leg  *)
(* by leg, and an eligible miss becomes an observation for a hypothesis.      *)
(*                                                                           *)
(* Reviews are requested by hand, may overlap and may be cut off.            *)
(***************************************************************************)
EXTENDS ExternalRuns, Integers

CONSTANTS
    SealedRuns,    \* analysis_v3_runs: sub its id, lock, decided (decision and optimizer) and
                   \* created when they were stored, pick what the optimizer chose
    References,    \* rounds imported as references: diagnosed, never learned from
    Reviewers      \* overlapping review requests

ASSUME ReviewAssumption ==
    /\ IsFiniteSet(SealedRuns)
    /\ SealedRuns \subseteq [round : Rounds, sub : Nat, lock : Int, cutoff : Int, decided : Int,
                            created : Int, pick : [Legs -> SUBSET Horses]]
    /\ \A u, v \in SealedRuns : u.sub = v.sub => u = v

VARIABLES
    start,         \* the first races.scheduled_start_at of a round
    won,           \* the horses stored with placing 1, per leg
    resultAt,      \* when a round's results were first stored (kept for the properties)
    history,       \* the winners a round ever had (kept for the properties)
    knownStarts,   \* the starts it was known by since then (kept for the properties)
    reviews,       \* post_race_reviews_external_v1 and post_race_reviews_v2
    observed,      \* reviews with a learning_observations row
    links,         \* reviews linked to their hypothesis
    rev            \* what each review request holds

reviewVars == <<start, won, resultAt, history, knownStarts, reviews, observed, links, rev>>
vars == <<runVars, reviewVars>>

\* A lineage is an external run or a sealed analysis.
External(r, s) == [kind |-> "external", round |-> r, sub |-> s]
SealedOf(u) == [kind |-> "sealed", round |-> u.round, sub |-> u.sub]

Settled(r) == \A l \in Legs : Cardinality(won[r][l]) = 1
Winners(r) == [l \in Legs |-> CHOOSE h \in Horses : h \in won[r][l]]
ReviewsOf(x) == {v \in reviews : v.of = x}
Complete(x) == Cardinality(ReviewsOf(x)) = LastLeg
RunOf(x) == CHOOSE u \in runs : u.round = x.round /\ u.sub = x.sub

AnalysisOf(x) == CHOOSE u \in SealedRuns : SealedOf(u) = x

PickOf(x) ==
    IF x.kind = "external" THEN Pick[RunOf(x).payload.text] ELSE AnalysisOf(x).pick

Earliest(S) == CHOOSE r \in S : \A q \in S : r <= q

ExternalDue ==
    {r \in Rounds : /\ RunsOf(r) # {} /\ Settled(r)
                    /\ ~ Complete(External(r, Latest(r).sub))}

\* A sealed analysis is stale as soon as the round has an external run.
NeverSuperseded(r) == FALSE
Superseded(r) == RunsOf(r) # {}

\* The analyses sealed before a start, and the newest: of the start known now, so that
\* another is due when it moves.  (One made after the results lies before no start.)
SealedBefore(r, first) ==
    {u \in SealedRuns : u.round = r /\ u.created < first /\ u.cutoff < first}
SealedAt(r, first) ==
    CHOOSE u \in SealedBefore(r, first) :
        \A v \in SealedBefore(r, first) : v = u \/ Supersedes(u, v)

SealedDue ==
    {r \in Rounds : /\ ~ Superseded(r) /\ Settled(r) /\ SealedBefore(r, start[r]) # {}
                    /\ ~ Complete(SealedOf(SealedAt(r, start[r])))}

\* The query leaves the lock and the decision to be checked; if they fail, it throws.
LineageSound(u, first) == u.lock < u.cutoff /\ u.decided < first

\* Every instant of the analysis lies before the first start known now.
ChronologyTrusted(u, first) == TRUE
Chronological(u, first) ==
    \A t \in {u.created, u.payload.s1.at, u.payload.s2.at, u.payload.s2.cutoff} : t < first

Learns(u) ==
    /\ u.eligible /\ Chronological(u, start[u.round])
    /\ u.round \notin References

Forecast(u) == \A l \in Legs : Winners(u.round)[l] \in u.payload.s1.active[l]

Begin(x, learns) ==
    [phase |-> "review", of |-> x, leg |-> 1, learns |-> learns,
     winners |-> Winners(x.round), picks |-> PickOf(x)]

\* The request takes the earliest due round; a forecast without the winner throws.
BeginExternal(p) ==
    /\ rev[p] = Idle /\ ExternalDue # {}
    /\ LET u == Latest(Earliest(ExternalDue))
       IN  /\ Forecast(u)
           /\ rev' = [rev EXCEPT ![p] = Begin(External(u.round, u.sub), Learns(u))]
    /\ UNCHANGED <<runVars, start, won, resultAt, history, knownStarts, reviews, observed, links>>

BeginSealed(p) ==
    /\ rev[p] = Idle /\ ExternalDue = {} /\ SealedDue # {}
    /\ LET r == Earliest(SealedDue)
           u == SealedAt(r, start[r])
       IN  /\ LineageSound(u, start[r])
           /\ rev' = [rev EXCEPT ![p] = Begin(SealedOf(u), r \notin References)]
    /\ UNCHANGED <<runVars, start, won, resultAt, history, knownStarts, reviews, observed, links>>

(***************************************************************************)
(* One leg: insert or keep the review, compare it with what this request      *)
(* sees, and link an eligible miss.                                          *)
(***************************************************************************)
Verdict(m) ==
    [of |-> m.of, leg |-> m.leg, winner |-> m.winners[m.leg],
     miss |-> m.winners[m.leg] \notin m.picks[m.leg], learns |-> m.learns]

SameLeg(v, w) == v.of = w.of /\ v.leg = w.leg

\* A stored review this request may go on from.
AgreesOnVerdict(v, w) == v.learns = w.learns
Agrees(v, w) == v = w

Candidate(v) == v.miss /\ v.learns

\* The leg is done: the next one, or the request answers.
Onwards(m) ==
    IF m.leg = LastLeg THEN Idle ELSE [m EXCEPT !.leg = @ + 1, !.phase = "review"]

\* The verdict stands: an eligible miss is linked before the leg is done.
Reviewed(m) == IF Candidate(Verdict(m)) THEN [m EXCEPT !.phase = "link"] ELSE Onwards(m)

ReviewLeg(p) ==
    LET w == Verdict(rev[p])
        stored == {v \in reviews : SameLeg(v, w)}
    IN  /\ rev[p].phase = "review"
        /\ reviews' = IF stored = {} THEN reviews \cup {w} ELSE reviews
        /\ rev' = [rev EXCEPT ![p] = IF \A v \in stored : Agrees(v, w) THEN Reviewed(@) ELSE Idle]
        /\ UNCHANGED <<runVars, start, won, resultAt, history, knownStarts, observed, links>>

\* The external review links in one batch.
LinkExternal(p) ==
    LET w == Verdict(rev[p])
    IN  /\ rev[p].phase = "link" /\ w.of.kind = "external"
        /\ observed' = observed \cup {w}
        /\ links' = links \cup {w}
        /\ rev' = [rev EXCEPT ![p] = Onwards(@)]
        /\ UNCHANGED <<runVars, start, won, resultAt, history, knownStarts, reviews>>

\* The sealed review stores the observation and links it in separate statements.
ObserveSealed(p) ==
    LET w == Verdict(rev[p])
    IN  /\ rev[p].phase = "link" /\ w.of.kind = "sealed" /\ w \notin observed
        /\ observed' = observed \cup {w}
        /\ UNCHANGED <<runVars, start, won, resultAt, history, knownStarts, reviews, links, rev>>

LinkSealed(p) ==
    LET w == Verdict(rev[p])
    IN  /\ rev[p].phase = "link" /\ w.of.kind = "sealed" /\ w \in observed
        /\ links' = links \cup {w}
        /\ rev' = [rev EXCEPT ![p] = Onwards(@)]
        /\ UNCHANGED <<runVars, start, won, resultAt, history, knownStarts, reviews, observed>>

DropReview(p) ==
    /\ rev[p] # Idle
    /\ rev' = [rev EXCEPT ![p] = Idle]
    /\ UNCHANGED <<runVars, start, won, resultAt, history, knownStarts, reviews, observed, links>>

(***************************************************************************)
(* Settlement and the import of results, as far as the review reads them.    *)
(* The review asks only about rounds with all winners, so they come at once.  *)
(***************************************************************************)
StoreResults(r) ==
    /\ resultAt[r] = None /\ now >= start[r]
    /\ resultAt' = [resultAt EXCEPT ![r] = now]
    /\ knownStarts' = [knownStarts EXCEPT ![r] = {start[r]}]
    /\ \E w \in [Legs -> Horses] :
           /\ won' = [won EXCEPT ![r] = [l \in Legs |-> {w[l]}]]
           /\ history' = [history EXCEPT ![r] = {w}]
    /\ UNCHANGED <<runVars, start, reviews, observed, links, rev>>

\* The provider corrects legs: another winner, or a dead heat.
CorrectResult(r) ==
    /\ resultAt[r] # None /\ Change
    /\ \E w \in [Legs -> SUBSET Horses \ {{}}] \ {won[r]} : won' = [won EXCEPT ![r] = w]
    /\ history' = [history EXCEPT ![r] =
                     IF \A l \in Legs : Cardinality(won'[r][l]) = 1
                     THEN @ \cup {[l \in Legs |-> CHOOSE h \in won'[r][l] : TRUE]} ELSE @]
    /\ UNCHANGED <<now, planned, active, market, exports, runs, imp, answered,
                   start, resultAt, knownStarts, reviews, observed, links, rev>>

\* A capture or a result moves the start of a race, never past its result.
MoveStart(r) ==
    /\ Change
    /\ \E t \in Hours \ {0, start[r]} :
           /\ resultAt[r] # None => t <= resultAt[r]
           /\ start' = [start EXCEPT ![r] = t]
           /\ knownStarts' = [knownStarts EXCEPT ![r] = IF resultAt[r] = None THEN @ ELSE @ \cup {t}]
    /\ UNCHANGED <<now, planned, active, market, exports, runs, imp, answered,
                   won, resultAt, history, reviews, observed, links, rev>>

Init ==
    /\ RunInit
    /\ start = [r \in Rounds |-> FirstStart]
    /\ won = [r \in Rounds |-> [l \in Legs |-> {}]]
    /\ resultAt = [r \in Rounds |-> None]
    /\ history = [r \in Rounds |-> {}] /\ knownStarts = [r \in Rounds |-> {}]
    /\ reviews = {} /\ observed = {} /\ links = {}
    /\ rev = [p \in Reviewers |-> Idle]

Next ==
    \/ RunNext /\ UNCHANGED reviewVars
    \/ \E r \in Rounds : StoreResults(r) \/ CorrectResult(r) \/ MoveStart(r)
    \/ \E p \in Reviewers : \/ BeginExternal(p) \/ BeginSealed(p) \/ ReviewLeg(p)
                            \/ LinkExternal(p) \/ ObserveSealed(p) \/ LinkSealed(p)
                            \/ DropReview(p)

Spec == Init /\ [][Next]_vars

(***************************************************************************)
(* Properties                                                                *)
(***************************************************************************)

\* Types: a run carries its own payload, a submission is one run of its round, and
\* a review and the learning made of it belong to a lineage that exists.
TypeOK ==
    /\ now \in Hours /\ planned \in [Rounds -> Hours] /\ start \in [Rounds -> Hours]
    /\ \A u \in runs : u.round = u.payload.round /\ u.sub = u.payload.sub
    /\ \A u, v \in runs : u.round = v.round /\ u.sub = v.sub => u = v
    /\ \A v \in reviews : v.of.kind = "external" => \E u \in runs : v.of = External(u.round, u.sub)
    /\ links \subseteq observed /\ observed \subseteq reviews

\* An import that was answered as stored, first or again, answered for exactly the
\* content that is stored (DECISIONS: exact retries are idempotent, changed content
\* needs a new submission), also when two imports of one submission race.
AnsweredIsStored == \A p \in answered : \E u \in Stored(p) : u.payload = p

\* Nothing is learned from an analysis that was registered, or whose sources were
\* exported, once results of its round were stored - however the planned start and
\* the start of the races were corrected in between.
NoHindsight ==
    \A v \in links : v.of.kind = "external" =>
        LET u == RunOf(v.of)
        IN  \A t \in {u.created, u.payload.s1.at, u.payload.s2.at} : t < resultAt[u.round]

\* A round's outcome is learned from through one lineage: never through a sealed
\* analysis and an external run as well, nor through two external runs.  Only where the
\* start moved after the results may two sealed analyses teach, each the newest before
\* a start the round then had.
OneTeacher ==
    \A v, w \in links :
        LET r == v.of.round
        IN  r = w.of.round /\ v.of # w.of =>
                \E s, t \in knownStarts[r] :
                    /\ s # t
                    /\ v.of = SealedOf(SealedAt(r, s)) /\ w.of = SealedOf(SealedAt(r, t))

\* The reviews of a complete lineage tell one outcome the round really had, though
\* requests were cut off, overlapped, and the winners were corrected between them;
\* and all its legs are judged alike: all may teach or none does.
CoherentReview ==
    /\ \A x \in {v.of : v \in reviews} : Complete(x) =>
           [l \in Legs |-> (CHOOSE v \in ReviewsOf(x) : v.leg = l).winner] \in history[x.round]
    /\ \A v, w \in reviews : v.of = w.of => v.learns = w.learns

\* DECISIONS: the review is resumable and a missed winner becomes candidate learning.
\* A lineage whose legs are all reviewed, with no request at work on it, has every
\* eligible miss linked.
MissesLinked ==
    \A v \in reviews :
        (Candidate(v) /\ Complete(v.of) /\ \A p \in Reviewers : rev[p] # Idle => rev[p].of # v.of)
        => v \in links

\* The run the review takes is one no other run supersedes.
CurrentUnsuperseded ==
    \A u \in runs : u.supersedes # None =>
        ~ \E r \in Rounds : RunsOf(r) # {} /\ u.round = r /\ Latest(r).sub = u.supersedes
=================================================================================
