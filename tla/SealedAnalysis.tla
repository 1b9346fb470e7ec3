---------------------------- MODULE SealedAnalysis ----------------------------
(***************************************************************************)
(* Sealed Step 1 locks, their late-fact revisions and the Step 2 analyses  *)
(* built on them, for one V85/V86 round.  A client pulls a market-blind    *)
(* pack, lets an AI judge it outside the program and posts the judgement   *)
(* back; facts about the round keep arriving meanwhile.  The clock counts  *)
(* seconds, the resolution in which locks are ordered.                     *)
(*                                                                         *)
(* A fact is one normalized observation.  It is observed when its source   *)
(* is fetched and seen when it is normalized, never earlier.  A "field"    *)
(* fact changes what the replay guard compares (driver, trainer, scratch,  *)
(* lane, distance) to a new value, a "context" fact anything else a pack   *)
(* holds, if only the time of the observation.                             *)
(***************************************************************************)
EXTENDS Integers, FiniteSets

CONSTANTS
    Clients,    \* requests that may overlap: browser tabs, devices, resends
    LockIds,    \* lock and revision ids the clients may choose, ordered
    NoLock,     \* no parent: the lock is a root
    Legs,       \* the legs of the round
    Cutoff,     \* the pre-market cutoff: bet stop or start of the round
    ThinkTime,  \* least seconds between reading a revision input and posting
    AsOfLags,   \* how far back the as_of of a request may lie
    MaxLag,     \* bound: seconds from observation to normalization
    MaxTime,    \* bound on the clock
    MaxFacts    \* bound on late facts

ASSUME IdAssumption == LockIds \subseteq Int /\ NoLock \notin LockIds
ASSUME TimeAssumption ==
    /\ Cutoff \in Nat
    /\ ThinkTime \in Nat \ {0}
    /\ AsOfLags \subseteq Nat
    /\ MaxLag \in Nat
    /\ MaxTime \in Nat
    /\ MaxFacts \in Nat

VARIABLES
    clock,
    facts,      \* observations since the round was imported at time 0
    locks,      \* analysis_step1_locks and their lineage rows, by id
    analyses,   \* rows of analysis_v3_runs
    pc,         \* where the server stands in a client's request
    held,       \* the payload a client holds, and may send again
    started     \* the second in which the request was taken up

request == <<pc, held, started>>
vars == <<clock, facts, locks, analyses, request>>

Kinds == {"field", "context"}
NoPayload == [what |-> "none"]
Steps == {"idle", "lookup", "prepare", "insert", "bind", "compare",
          "commit", "facts", "integrate"}

Init ==
    /\ clock = 0
    /\ facts = {}
    /\ locks = [i \in {} |-> 0]
    /\ analyses = {}
    /\ pc = [c \in Clients |-> "idle"]
    /\ held = [c \in Clients |-> NoPayload]
    /\ started = [c \in Clients |-> 0]

(***************************************************************************)
(* Packs, fingerprints and the replay guard                                *)
(***************************************************************************)
EffectiveAsOf(t) == IF t < Cutoff THEN t ELSE Cutoff

\* A pack, which stands for its id and fingerprint: both hash as_of, and a
\* clamped request leaves a warning that names the time requested.  A leg is
\* the facts it rests on.
Pack(t) == [as_of |-> EffectiveAsOf(t),
            requested |-> t,
            legs |-> [leg \in Legs |-> {f \in facts : f.leg = leg /\ f.at <= EffectiveAsOf(t)}]]

\* The canonical rows, which are current, say what was observed by t.
ReplaySafe(t) == \A f \in facts : f.kind = "field" => f.at <= EffectiveAsOf(t)

\* ORDER BY datetime(created_at) DESC, id DESC LIMIT 1
Precedes(i, j) ==
    \/ locks[i].created_at < locks[j].created_at
    \/ locks[i].created_at = locks[j].created_at /\ i < j
IsNewest(i) == i \in DOMAIN locks /\ \A j \in DOMAIN locks \ {i} : Precedes(j, i)

AffectedLegs(before, after) ==
    LET changed == {leg \in Legs : before.legs[leg] # after.legs[leg]}
    IN  IF changed = {} /\ before # after THEN Legs ELSE changed

Reproducible(i) == ReplaySafe(locks[i].pack.as_of) /\ Pack(locks[i].pack.as_of) = locks[i].pack

\* What a market pack of lock i at the given cutoff demands of the facts.
NoLateFacts(i, cutoff) ==
    /\ Reproducible(i)
    /\ ReplaySafe(cutoff)
    /\ Pack(cutoff).legs = locks[i].pack.legs

(***************************************************************************)
(* Time, facts, and requests that end                                      *)
(***************************************************************************)
Tick ==
    /\ clock < MaxTime
    /\ clock' = clock + 1
    /\ UNCHANGED <<facts, locks, analyses, request>>

\* A fact is normalized, in a second of its own; a leg's observations of one
\* kind are normalized in the order in which they were made.
FactArrives(leg, kind, at) ==
    /\ clock < MaxTime
    /\ Cardinality(facts) < MaxFacts
    /\ clock - MaxLag < at /\ at <= clock + 1
    /\ \A f \in facts : f.leg = leg /\ f.kind = kind => f.at < at
    /\ facts' = facts \cup {[leg |-> leg, kind |-> kind, at |-> at, seen |-> clock + 1]}
    /\ clock' = clock + 1
    /\ UNCHANGED <<locks, analyses, request>>

\* The server answers, with success or a refusal.  The answer may be lost:
\* the client keeps its payload and may send it again until it pulls another.
EndCall(c) ==
    /\ pc' = [pc EXCEPT ![c] = "idle"]
    /\ started' = [started EXCEPT ![c] = 0]
    /\ UNCHANGED held

GoTo(c, step) ==
    /\ pc' = [pc EXCEPT ![c] = step]
    /\ UNCHANGED <<held, started>>

\* The import proper begins: created_at is fixed here, before its reads.
TakeUp(c, step) ==
    /\ pc' = [pc EXCEPT ![c] = step]
    /\ started' = [started EXCEPT ![c] = clock]
    /\ UNCHANGED held

Receive(c, payload) ==
    /\ pc[c] = "idle"
    /\ held' = [held EXCEPT ![c] = payload]
    /\ UNCHANGED <<clock, facts, locks, analyses, pc, started>>

\* The next step if the condition holds, else the request is refused.
Proceed(c, condition, step) ==
    /\ \/ condition /\ GoTo(c, step)
       \/ ~condition /\ EndCall(c)
    /\ UNCHANGED <<clock, facts, locks, analyses>>

\* A database error or a restarted worker before the write.
Fail(c) ==
    /\ pc[c] # "idle"
    /\ EndCall(c)
    /\ UNCHANGED <<clock, facts, locks, analyses>>

\* Mutant: one lock per round, replaced instead of added to.
SealReplaces(id, row) == locks' = [i \in {id} |-> row]

SealLock(id, row) ==
    locks' = [i \in DOMAIN locks \cup {id} |-> IF i = id THEN row ELSE locks[i]]

(***************************************************************************)
(* Root locks                                                              *)
(***************************************************************************)
ExportPack(c) ==
    \E id \in LockIds, lag \in AsOfLags :
        /\ lag <= clock
        /\ Receive(c, [what |-> "root", id |-> id, pack |-> Pack(clock - lag)])

\* 409 when the newest lock of the round is another one.
PostLock(c) ==
    /\ pc[c] = "idle"
    /\ held[c].what = "root"
    /\ Proceed(c, \A i \in DOMAIN locks : IsNewest(i) => i = held[c].id, "lookup")

\* A stored id is either this payload again or refused.
LookUpLock(c) ==
    /\ pc[c] = "lookup"
    /\ \/ held[c].id \notin DOMAIN locks /\ TakeUp(c, "prepare")
       \/ held[c].id \in DOMAIN locks /\ EndCall(c)
    /\ UNCHANGED <<clock, facts, locks, analyses>>

\* Mutant: the pack is taken as the client sent it.
PrepareTrustsClient(c) ==
    /\ pc[c] = "prepare"
    /\ Proceed(c, ReplaySafe(held[c].pack.as_of), "insert")

\* Mutant: the fingerprint is compared, but without the replay guard.
PrepareWithoutGuard(c) ==
    /\ pc[c] = "prepare"
    /\ Proceed(c, Pack(held[c].pack.as_of) = held[c].pack, "insert")

PrepareLock(c) ==
    /\ pc[c] = "prepare"
    /\ Proceed(c, /\ ReplaySafe(held[c].pack.as_of)
                  /\ Pack(held[c].pack.as_of) = held[c].pack, "insert")

\* The primary key decides between requests with one id.
InsertLock(c) ==
    /\ pc[c] = "insert"
    /\ \/ /\ held[c].id \notin DOMAIN locks
          /\ SealLock(held[c].id, [pack |-> held[c].pack,
                                   judged |-> held[c].pack.legs,
                                   created_at |-> started[c],
                                   parent |-> NoLock])
       \/ held[c].id \in DOMAIN locks /\ UNCHANGED locks
    /\ EndCall(c)
    /\ UNCHANGED <<clock, facts, analyses>>

(***************************************************************************)
(* Late-fact revisions                                                     *)
(***************************************************************************)
RevisionReadable(i, t) == ReplaySafe(t) /\ Reproducible(i)

\* Nothing to revise when the fingerprint is unchanged.
ReadRevisionInput(c) ==
    \E id \in LockIds, lag \in AsOfLags, i \in DOMAIN locks :
        /\ lag <= clock
        /\ IsNewest(i)
        /\ RevisionReadable(i, clock - lag)
        /\ Pack(clock - lag) # locks[i].pack
        /\ Receive(c, [what |-> "revision", id |-> id, parent |-> i, at |-> clock,
                       pack |-> Pack(clock - lag),
                       legs |-> AffectedLegs(locks[i].pack, Pack(clock - lag))])

PostRevision(c) ==
    /\ pc[c] = "idle"
    /\ held[c].what = "revision"
    /\ clock >= held[c].at + ThinkTime
    /\ TakeUp(c, "bind")
    /\ UNCHANGED <<clock, facts, locks, analyses>>

BindParent(c) ==
    /\ pc[c] = "bind"
    /\ Proceed(c, IsNewest(held[c].parent) /\ held[c].id # held[c].parent, "compare")

ComparePacks(c) ==
    LET new == held[c].pack
        parent == locks[held[c].parent]
    IN  /\ pc[c] = "compare"
        /\ Proceed(c, /\ RevisionReadable(held[c].parent, new.as_of)
                      /\ Pack(new.as_of) = new
                      /\ new # parent.pack
                      /\ held[c].legs = AffectedLegs(parent.pack, new), "commit")

\* One batch: the primary key and UNIQUE(parent_lock_id) undo it together.
\* The look-up of the id before it answers the same requests sooner.
RevisionFits(c) ==
    /\ held[c].id \notin DOMAIN locks
    /\ \A i \in DOMAIN locks : locks[i].parent # held[c].parent

RevisedJudgement(c) ==
    [leg \in Legs |-> IF leg \in held[c].legs THEN held[c].pack.legs[leg]
                      ELSE locks[held[c].parent].judged[leg]]

\* Mutant: the row is dated by its pack.
CommitDatedByPack(c) ==
    /\ pc[c] = "commit"
    /\ RevisionFits(c)
    /\ SealLock(held[c].id, [pack |-> held[c].pack,
                             judged |-> RevisedJudgement(c),
                             created_at |-> held[c].pack.as_of,
                             parent |-> held[c].parent])
    /\ EndCall(c)
    /\ UNCHANGED <<clock, facts, analyses>>

CommitRevision(c) ==
    /\ pc[c] = "commit"
    /\ \/ /\ RevisionFits(c)
          /\ SealLock(held[c].id, [pack |-> held[c].pack,
                                   judged |-> RevisedJudgement(c),
                                   created_at |-> started[c],
                                   parent |-> held[c].parent])
       \/ ~RevisionFits(c) /\ UNCHANGED locks
    /\ EndCall(c)
    /\ UNCHANGED <<clock, facts, analyses>>

(***************************************************************************)
(* The market pack and the Step 2 analysis                                 *)
(***************************************************************************)
ExportMarket(c) ==
    \E i \in DOMAIN locks, lag \in AsOfLags :
        /\ lag <= clock
        /\ IsNewest(i)
        /\ EffectiveAsOf(clock - lag) >= locks[i].created_at
        /\ NoLateFacts(i, EffectiveAsOf(clock - lag))
        /\ Receive(c, [what |-> "market", lock |-> i, cutoff |-> EffectiveAsOf(clock - lag)])

\* The lock must be the newest when the request is taken up.
PostStep2(c) ==
    /\ pc[c] = "idle"
    /\ held[c].what = "market"
    /\ IsNewest(held[c].lock)
    /\ held[c].cutoff >= locks[held[c].lock].created_at
    /\ TakeUp(c, "facts")
    /\ UNCHANGED <<clock, facts, locks, analyses>>

\* Mutant: the import trusts the comparison made at the export.
CompareOnlyAtExport(c) ==
    /\ pc[c] = "facts"
    /\ GoTo(c, "integrate")
    /\ UNCHANGED <<clock, facts, locks, analyses>>

CompareFacts(c) ==
    /\ pc[c] = "facts"
    /\ Proceed(c, NoLateFacts(held[c].lock, held[c].cutoff), "integrate")

\* Rows are found again by fingerprint: the same answer adds nothing, another
\* one to the same market pack does.
CommitAnalysis(c) ==
    /\ pc[c] = "integrate"
    /\ \/ analyses' = analyses \cup
              {[lock |-> held[c].lock, cutoff |-> held[c].cutoff, at |-> started[c]]}
       \/ /\ \E a \in analyses : a.lock = held[c].lock /\ a.cutoff = held[c].cutoff
          /\ UNCHANGED analyses
    /\ EndCall(c)
    /\ UNCHANGED <<clock, facts, locks>>

Next ==
    \/ Tick
    \/ \E leg \in Legs, kind \in Kinds, at \in 1 .. MaxTime : FactArrives(leg, kind, at)
    \/ \E c \in Clients :
          \/ ExportPack(c) \/ PostLock(c) \/ LookUpLock(c) \/ PrepareLock(c) \/ InsertLock(c)
          \/ ReadRevisionInput(c) \/ PostRevision(c) \/ BindParent(c) \/ ComparePacks(c)
          \/ CommitRevision(c)
          \/ ExportMarket(c) \/ PostStep2(c) \/ CompareFacts(c) \/ CommitAnalysis(c)
          \/ Fail(c)

Spec == Init /\ [][Next]_vars

(***************************************************************************)
(* Properties                                                              *)
(***************************************************************************)
Facts == [leg : Legs, kind : Kinds, at : 1 .. MaxTime, seen : 1 .. MaxTime]
Contents == [Legs -> SUBSET facts]
Packs == [as_of : 0 .. MaxTime, requested : 0 .. MaxTime, legs : Contents]
Rows == [pack : Packs, judged : Contents, created_at : 0 .. MaxTime, parent : LockIds \cup {NoLock}]
Analyses == [lock : DOMAIN locks, cutoff : 0 .. MaxTime, at : 0 .. MaxTime]
Roots == [what : {"root"}, id : LockIds, pack : Packs]
Revisions == [what : {"revision"}, id : LockIds, parent : DOMAIN locks, at : 0 .. MaxTime,
              pack : Packs, legs : SUBSET Legs]
Markets == [what : {"market"}, lock : DOMAIN locks, cutoff : 0 .. MaxTime]

\* The variables have their types: rows of the three tables, which refer to
\* rows that exist, and payloads of what the client pulled.
TypeOK ==
    /\ clock \in 0 .. MaxTime
    /\ facts \subseteq Facts
    /\ DOMAIN locks \subseteq LockIds
    /\ \A i \in DOMAIN locks : locks[i] \in Rows
    /\ analyses \subseteq Analyses
    /\ pc \in [Clients -> Steps]
    /\ DOMAIN held = Clients
    /\ \A c \in Clients : held[c] \in {NoPayload} \cup Roots \cup Revisions \cup Markets
    /\ started \in [Clients -> 0 .. MaxTime]

\* A lock that has been revised is never again the newest of its round, so
\* nothing is bound to a superseded judgement: the order by created_at and
\* id, two unguarded columns, agrees with the lineage table however long
\* the requests take and in whatever order they commit.
SupersededNeverNewest ==
    \A i \in DOMAIN locks : locks[i].parent # NoLock => ~IsNewest(locks[i].parent)

\* Every leg of a sealed lock has been judged on all facts the program had
\* by the pack's as_of when the request was taken up, also the legs that a
\* chain of revisions never sent out again.
LockKnowsFacts ==
    \A i \in DOMAIN locks, f \in facts :
        f.seen <= locks[i].created_at /\ f.at <= locks[i].pack.as_of
            => f \in locks[i].judged[f.leg]

\* The lock under a stored analysis has judged every fact up to the market
\* cutoff that the program had when the Step 2 result was posted, even if
\* facts and locks arrived between the market export and the import.
AnalysisKnowsFacts ==
    \A a \in analyses, f \in facts :
        f.seen <= a.at /\ f.at <= a.cutoff => f \in locks[a.lock].judged[f.leg]

\* The newest lock does not know a fact that a pack of this second holds.
Stale(i) ==
    /\ IsNewest(i)
    /\ \E f \in facts : f.at <= EffectiveAsOf(clock) /\ f \notin locks[i].judged[f.leg]

\* A revision of a stale lock is refused only because of a fact that came
\* after the lock and either changed a compared field or was observed
\* before the lock's own as_of: a sealed lock starts out reproducible.
RefusedOnlyForCause ==
    \A i \in DOMAIN locks :
        Stale(i) /\ ~RevisionReadable(i, clock) =>
            \E f \in facts :
                /\ f.seen > locks[i].created_at
                /\ f.kind = "field" \/ f.at <= locks[i].pack.as_of

\* Late facts that a current pack may hold can be revised into the lock:
\* scratch, driver and equipment changes are ordinary factual changes.
LateFactsRevisable ==
    \A i \in DOMAIN locks :
        Stale(i) /\ ReplaySafe(clock) => RevisionReadable(i, clock)
=============================================================================
