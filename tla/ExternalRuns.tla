------------------------------ MODULE ExternalRuns ------------------------------
(***************************************************************************)
(* Registration of externally made analyses (external-analysis-flow-v1.js):  *)
(* the Worker exports a Step 1 pack and a Step 2 market file and audits both; *)
(* an analyst works outside it; the result is imported against the two        *)
(* audited exports, and becomes the round's current run.                      *)
(*                                                                           *)
(* Imports overlap, are repeated and are cut off.  Meanwhile the live capture *)
(* moves the round's planned start, scratches horses and normalises market    *)
(* rows late.                                                                *)
(***************************************************************************)
EXTENDS Naturals, FiniteSets

CONSTANTS
    Rounds,        \* V85/V86 rounds, numbered by date
    LastLeg,       \* legs of a round (8)
    Horses,        \* the starters of a leg
    Spikes,        \* legs with a single selected horse (3)
    Submissions,   \* submission ids, in the order that breaks ties of time
    Contents,      \* what else a submission says
    Pick,          \* Pick[c][l]: the horses content c selects in leg l
    Importers,     \* overlapping import requests
    FirstStart,    \* the start first announced
    MaxTime, MaxExports, MaxChanges   \* bounds: clock, audited exports, changes by the capture

Legs == 1 .. LastLeg
Hours == 0 .. MaxTime
None == 0

ASSUME ExternalAssumption ==
    /\ Rounds \subseteq Nat /\ IsFiniteSet(Rounds)
    /\ LastLeg \in Nat \ {0} /\ Spikes \in 0 .. LastLeg
    /\ Submissions \subseteq Nat \ {None} /\ IsFiniteSet(Submissions)
    /\ IsFiniteSet(Horses)
    /\ Pick \in [Contents -> [Legs -> SUBSET Horses]]
    /\ MaxTime \in Nat /\ FirstStart \in Hours \ {0}

VARIABLES
    now,        \* hours; an import begins and ends within one
    planned,    \* game_rounds.scheduled_start_at: the deadline
    active,     \* the horses not scratched, per round and leg
    market,     \* the hours whose verified market rows are stored
    exports,    \* analysis_external_exports
    runs,       \* analysis_external_runs with the model version they share a batch with
    imp,        \* what each import request has read
    answered,   \* submissions reported to be stored (kept for the properties)
    changes     \* changes by the capture so far

runVars == <<now, planned, active, market, exports, runs, imp, answered, changes>>

Idle == [phase |-> "idle"]
Sooner(a, b) == IF a <= b THEN a ELSE b

\* The rows a market pack made for the cutoff contains.
RowsUntil(r, cutoff) == {t \in market[r] : t <= cutoff}

\* The fingerprint covers the deadline and the history up to the cutoff.
MarketPrint(r, cutoff) == [deadline |-> planned[r], rows |-> RowsUntil(r, cutoff)]

\* The run the later stages work with.
RunsOf(r) == {u \in runs : u.round = r}
Supersedes(u, v) == u.created > v.created \/ (u.created = v.created /\ u.sub > v.sub)
Latest(r) == CHOOSE u \in RunsOf(r) : \A v \in RunsOf(r) : v = u \/ Supersedes(u, v)

RunInit ==
    /\ now = 0
    /\ planned = [r \in Rounds |-> FirstStart]
    /\ active = [r \in Rounds |-> [l \in Legs |-> Horses]]
    /\ market = [r \in Rounds |-> {}]
    /\ exports = {} /\ runs = {} /\ answered = {}
    /\ imp = [k \in Importers |-> Idle]
    /\ changes = 0

(***************************************************************************)
(* The exports, recorded INSERT OR IGNORE under what they contain.           *)
(***************************************************************************)
Step1Export(r) ==
    [stage |-> 1, round |-> r, at |-> now, active |-> active[r]]

Step2Export(r) ==
    LET cutoff == Sooner(now, planned[r])
    IN  [stage |-> 2, round |-> r, at |-> now, active |-> active[r],
         cutoff |-> cutoff, print |-> MarketPrint(r, cutoff)]

Record(e) ==
    /\ Cardinality(exports \cup {e}) <= MaxExports
    /\ exports' = exports \cup {e}
    /\ UNCHANGED <<now, planned, active, market, runs, imp, answered, changes>>

ExportStep1(r) == Record(Step1Export(r))
ExportStep2(r) == Record(Step2Export(r))

(***************************************************************************)
(* The import.  A payload names the two exports; everything it derives from   *)
(* them stands or falls with the audit row.                                  *)
(***************************************************************************)
Payloads ==
    [round : Rounds, sub : Submissions, text : Contents,
     s1 : {e \in exports : e.stage = 1}, s2 : {e \in exports : e.stage = 2}]

\* The cutoff and the market of Step 2 must come out the same today.
Reproducible(e) ==
    /\ Sooner(e.at, planned[e.round]) = e.cutoff
    /\ MarketPrint(e.round, e.cutoff) = e.print

Provenance(p) ==
    /\ p.s1.round = p.round /\ p.s2.round = p.round
    /\ p.s1.at <= planned[p.round]
    /\ Reproducible(p.s2)
    /\ p.s2.at >= p.s1.at

\* Predictions cover the population of Step 1; a selection was active in both exports.
SystemAccepted(p) ==
    LET chosen == Pick[p.text]
    IN  /\ \A l \in Legs :
               /\ p.s1.active[l] # {} /\ p.s2.active[l] # {} /\ chosen[l] # {}
               /\ chosen[l] \subseteq p.s1.active[l] \cap p.s2.active[l]
        /\ Cardinality({l \in Legs : Cardinality(chosen[l]) = 1}) = Spikes

\* The id of the version is made of the round and the submission.
VersionByContent(u, p) == u.round = p.round /\ u.payload = p
SameVersion(u, p) == u.round = p.round /\ u.sub = p.sub
Stored(p) == {u \in runs : SameVersion(u, p)}
SameContent(u, p) == u.payload = p

\* What the second look at the stored submission accepts after a failed batch.
RacedBlind(u, p) == TRUE
Raced(u, p) == SameContent(u, p)

BeginImport(k) ==
    /\ imp[k] = Idle
    /\ \E p \in Payloads :
         /\ Provenance(p) /\ SystemAccepted(p)
         /\ \/ /\ Stored(p) = {}
               /\ imp' = [imp EXCEPT ![k] = [phase |-> "checked", payload |-> p,
                                             created |-> now, deadline |-> planned[p.round]]]
               /\ UNCHANGED answered
            \/ /\ Stored(p) # {} /\ \A u \in Stored(p) : SameContent(u, p)
               /\ answered' = answered \cup {p}
               /\ UNCHANGED imp
    /\ UNCHANGED <<now, planned, active, market, exports, runs, changes>>

\* The run to supersede is read before the batch.
ReadPrevious(k) ==
    /\ imp[k].phase = "checked"
    /\ imp' = [imp EXCEPT ![k] =
                 [phase |-> "ready", payload |-> @.payload, created |-> @.created,
                  deadline |-> @.deadline,
                  previous |-> LET r == @.payload.round
                               IN  IF RunsOf(r) = {} THEN None ELSE Latest(r).sub]]
    /\ UNCHANGED <<now, planned, active, market, exports, runs, answered, changes>>

PreRace(m) == m.created < m.deadline
SourcesInTime(m) == m.payload.s1.at < m.deadline /\ m.payload.s2.at < m.deadline
LearnsByTiming(m) == PreRace(m) /\ SourcesInTime(m)

NewRun(m) ==
    [round |-> m.payload.round, sub |-> m.payload.sub, payload |-> m.payload,
     created |-> m.created, eligible |-> LearnsByTiming(m), supersedes |-> m.previous]

\* One batch: the version, predictions, systems and the run, or none of them.
StoreRun(k) ==
    LET p == imp[k].payload
    IN  /\ imp[k].phase = "ready"
        /\ \/ /\ Stored(p) = {}
              /\ runs' = runs \cup {NewRun(imp[k])}
              /\ answered' = answered \cup {p}
           \/ /\ Stored(p) # {}
              /\ answered' = IF \A u \in Stored(p) : Raced(u, p)
                             THEN answered \cup {p} ELSE answered
              /\ UNCHANGED runs
        /\ imp' = [imp EXCEPT ![k] = Idle]
        /\ UNCHANGED <<now, planned, active, market, exports, changes>>

DropImport(k) ==
    /\ imp[k] # Idle
    /\ imp' = [imp EXCEPT ![k] = Idle]
    /\ UNCHANGED <<now, planned, active, market, exports, runs, answered, changes>>

(***************************************************************************)
(* The live capture, as far as registration reads what it writes.            *)
(***************************************************************************)
Change == changes < MaxChanges /\ changes' = changes + 1

ReplanRound(r) ==
    /\ Change
    /\ \E t \in Hours \ {0, planned[r]} : planned' = [planned EXCEPT ![r] = t]
    /\ UNCHANGED <<now, active, market, exports, runs, imp, answered>>

ScratchHorse(r) ==
    /\ Change
    /\ \E l \in Legs : \E h \in active[r][l] :
           active' = [active EXCEPT ![r][l] = @ \ {h}]
    /\ UNCHANGED <<now, planned, market, exports, runs, imp, answered>>

\* A snapshot fetched at hour t is normalised now: its rows carry hour t.
NormalizeMarket(r) ==
    /\ Change
    /\ \E t \in 0 .. now : t \notin market[r] /\ market' = [market EXCEPT ![r] = @ \cup {t}]
    /\ UNCHANGED <<now, planned, active, exports, runs, imp, answered>>

PassHour ==
    /\ now < MaxTime /\ \A k \in Importers : imp[k] = Idle
    /\ now' = now + 1
    /\ UNCHANGED <<planned, active, market, exports, runs, imp, answered, changes>>

RunNext ==
    \/ PassHour
    \/ \E r \in Rounds : \/ ExportStep1(r) \/ ExportStep2(r)
                         \/ ReplanRound(r) \/ ScratchHorse(r) \/ NormalizeMarket(r)
    \/ \E k \in Importers : BeginImport(k) \/ ReadPrevious(k) \/ StoreRun(k) \/ DropImport(k)
=================================================================================
