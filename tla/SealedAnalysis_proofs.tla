------------------------ MODULE SealedAnalysis_proofs ------------------------
(***************************************************************************)
(* Proofs about SealedAnalysis, for every number of clients, ids, legs and *)
(* facts, every lag and every cutoff.                                      *)
(*                                                                         *)
(* What a lock knows is decided in one step of a request and stored in a   *)
(* later one, and facts arrive between them.  The invariant follows the    *)
(* pack from the step that compares it to the row: it is exact for the     *)
(* facts seen when the request was taken up, and only a later fact can     *)
(* make it irreproducible.                                                 *)
(***************************************************************************)
EXTENDS SealedAnalysis, TLAPS

\* Nothing that is dated lies in the future.
Times ==
    /\ \A f \in facts : f.at <= f.seen /\ f.seen <= clock
    /\ \A i \in DOMAIN locks : locks[i].created_at <= clock
    /\ \A c \in Clients : started[c] <= clock
    /\ \A a \in analyses : a.at <= clock

\* The payload fits the place where its request stands.
CallFits(c) ==
    /\ pc[c] \in {"lookup", "prepare", "insert"} => held[c].what = "root"
    /\ pc[c] \in {"bind", "compare", "commit"} => held[c].what = "revision"
    /\ pc[c] \in {"facts", "integrate"} => held[c].what = "market"

\* A revision is read after its parent was made and posted after that.
RevisionFollows(c) ==
    /\ held[c].what = "revision" => locks[held[c].parent].created_at <= held[c].at
    /\ pc[c] \in {"bind", "compare", "commit"} => held[c].at < started[c]

\* A child is younger than its parent, in whole seconds.
LineageOrdered ==
    \A i \in DOMAIN locks :
        locks[i].parent # NoLock =>
            /\ locks[i].parent \in DOMAIN locks
            /\ locks[locks[i].parent].created_at < locks[i].created_at

\* The pack is exact for the facts seen by t: it holds those that it may
\* hold, none of them contradicts it, and if it cannot be built again now
\* then a fact was seen later that is dated before it.
Exact(pack, t) ==
    /\ EffectiveAsOf(pack.as_of) = pack.as_of
    /\ \A f \in facts : f.seen <= t /\ f.at <= pack.as_of => f \in pack.legs[f.leg]
    /\ \A f \in facts : f.seen <= t /\ f.kind = "field" => f.at <= pack.as_of
    /\ Pack(pack.as_of) # pack => \E f \in facts : f.seen > t /\ f.at <= pack.as_of

LocksExact ==
    \A i \in DOMAIN locks :
        /\ Exact(locks[i].pack, locks[i].created_at)
        /\ locks[i].judged = locks[i].pack.legs

\* What a request has established before it writes.
CallExact(c) ==
    /\ pc[c] \in {"insert", "commit"} => Exact(held[c].pack, started[c])
    /\ pc[c] = "commit" =>
          held[c].legs = AffectedLegs(locks[held[c].parent].pack, held[c].pack)

\* The facts seen by t and dated by the cutoff have been judged in lock i.
KnownBy(i, cutoff, t) ==
    \A f \in facts : f.seen <= t /\ f.at <= cutoff => f \in locks[i].judged[f.leg]

MarketKnown(c) ==
    /\ held[c].what = "market" => EffectiveAsOf(held[c].cutoff) = held[c].cutoff
    /\ pc[c] = "integrate" => KnownBy(held[c].lock, held[c].cutoff, started[c])

ClientSound(c) == CallFits(c) /\ RevisionFollows(c) /\ CallExact(c) /\ MarketKnown(c)

AnalysesKnown == \A a \in analyses : KnownBy(a.lock, a.cutoff, a.at)

IInv == /\ TypeOK
        /\ Times
        /\ LineageOrdered
        /\ LocksExact
        /\ AnalysesKnown
        /\ \A c \in Clients : ClientSound(c)

-----------------------------------------------------------------------------
(* Packs.                                                                    *)

LEMMA Effective ==
    ASSUME NEW t \in Nat
    PROVE  /\ EffectiveAsOf(t) \in Nat
           /\ EffectiveAsOf(t) <= t
           /\ EffectiveAsOf(t) <= Cutoff
           /\ EffectiveAsOf(EffectiveAsOf(t)) = EffectiveAsOf(t)
BY TimeAssumption DEF EffectiveAsOf

LEMMA PackTyped ==
    ASSUME facts \subseteq Facts, NEW t \in 0 .. MaxTime
    PROVE  Pack(t) \in Packs
<1>1. EffectiveAsOf(t) \in 0 .. MaxTime
  BY Effective, TimeAssumption
<1>2. \A leg \in Legs : {f \in facts : f.leg = leg /\ f.at <= EffectiveAsOf(t)} \in SUBSET facts
  OBVIOUS
<1> QED
  BY <1>1, <1>2 DEF Pack, Packs, Contents

\* A pack that can be built again, past the replay guard, is exact for every
\* moment up to now.
LEMMA BuiltIsExact ==
    ASSUME facts \subseteq Facts, \A f \in facts : f.seen <= clock,
           NEW pack \in Packs, NEW t \in Nat,
           ReplaySafe(pack.as_of), Pack(pack.as_of) = pack
    PROVE  Exact(pack, t)
<1>1. pack.as_of \in Nat
  BY TimeAssumption DEF Packs
<1>2. pack.as_of = EffectiveAsOf(pack.as_of)
  BY DEF Pack
<1>3. \A leg \in Legs : pack.legs[leg] = {f \in facts : f.leg = leg /\ f.at <= pack.as_of}
  BY <1>2 DEF Pack
<1>4. \A f \in facts : f.leg \in Legs
  BY DEF Facts
<1> QED
  BY <1>1, <1>2, <1>3, <1>4 DEF Exact, ReplaySafe

\* Facts that arrive do not disturb what is exact for an earlier moment.
LEMMA ExactKept ==
    ASSUME facts \subseteq Facts, NEW leg, NEW kind, NEW at, FactArrives(leg, kind, at),
           NEW pack, NEW t \in Nat, t <= clock, clock \in Nat,
           Exact(pack, t)
    PROVE  Exact(pack, t)'
<1> DEFINE new == [leg |-> leg, kind |-> kind, at |-> at, seen |-> clock + 1]
<1>1. facts' = facts \cup {new} /\ new.seen > t /\ new.at = at /\ new.leg = leg
  BY DEF FactArrives
<1>2. EffectiveAsOf(pack.as_of)' = pack.as_of
  BY DEF Exact, EffectiveAsOf
<1>3. (\A f \in facts : f.seen <= t /\ f.at <= pack.as_of => f \in pack.legs[f.leg])'
  BY <1>1 DEF Exact
<1>4. (\A f \in facts : f.seen <= t /\ f.kind = "field" => f.at <= pack.as_of)'
  BY <1>1 DEF Exact
<1>5. ASSUME Pack(pack.as_of)' # pack
      PROVE  (\E f \in facts : f.seen > t /\ f.at <= pack.as_of)'
  <2>1. CASE Pack(pack.as_of) # pack
    BY <2>1, <1>1 DEF Exact
  <2>2. CASE Pack(pack.as_of) = pack
    <3>1. ~(at <= pack.as_of) => Pack(pack.as_of)' = Pack(pack.as_of)
      <4>1. EffectiveAsOf(pack.as_of)' = pack.as_of /\ EffectiveAsOf(pack.as_of) = pack.as_of
        BY <1>2 DEF Exact
      <4> SUFFICES ASSUME ~(at <= pack.as_of)
                   PROVE  Pack(pack.as_of)' = Pack(pack.as_of)
        OBVIOUS
      <4>2. \A l \in Legs : {f \in facts' : f.leg = l /\ f.at <= pack.as_of}
                          = {f \in facts : f.leg = l /\ f.at <= pack.as_of}
        BY <1>1
      <4> QED
        BY <4>1, <4>2 DEF Pack
    <3> QED
      BY <3>1, <2>2, <1>5, <1>1
  <2> QED
    BY <2>1, <2>2
<1> QED
  BY <1>2, <1>3, <1>4, <1>5 DEF Exact

\* Without new facts, exactness is a matter of the pack alone.
LEMMA ExactSame ==
    ASSUME facts' = facts, NEW pack, NEW t, Exact(pack, t)
    PROVE  Exact(pack, t)'
BY DEF Exact, Pack, EffectiveAsOf

-----------------------------------------------------------------------------
(* Types.                                                                    *)

\* The types widen as facts and locks are added.
LEMMA TypesGrow ==
    ASSUME facts \subseteq facts', DOMAIN locks \subseteq DOMAIN locks'
    PROVE  /\ Packs \subseteq Packs' /\ Contents \subseteq Contents' /\ Rows \subseteq Rows'
           /\ Analyses \subseteq Analyses'
           /\ Roots \subseteq Roots' /\ Revisions \subseteq Revisions'
           /\ Markets \subseteq Markets'
<1>1. Contents \subseteq Contents'
  BY DEF Contents
<1>2. Packs \subseteq Packs'
  BY <1>1 DEF Packs
<1>3. Rows \subseteq Rows'
  BY <1>1, <1>2 DEF Rows
<1>4. Analyses \subseteq Analyses' /\ Markets \subseteq Markets'
  BY DEF Analyses, Markets
<1>5. Roots \subseteq Roots' /\ Revisions \subseteq Revisions'
  BY <1>2 DEF Roots, Revisions
<1> QED
  BY <1>1, <1>2, <1>3, <1>4, <1>5

Payloads == {NoPayload} \cup Roots \cup Revisions \cup Markets

\* The kind of a payload tells its fields.
LEMMA PayloadTyped ==
    ASSUME TypeOK, NEW c \in Clients
    PROVE  /\ held[c] \in Payloads
           /\ held[c].what = "root" => held[c] \in Roots
           /\ held[c].what = "revision" => held[c] \in Revisions
           /\ held[c].what = "market" => held[c] \in Markets
<1>1. held[c] \in Payloads
  BY DEF TypeOK, Payloads
<1> QED
  BY <1>1 DEF Payloads, NoPayload, Roots, Revisions, Markets

\* A row that is added under an unused id leaves the others as they were.
LEMMA Sealed ==
    ASSUME TypeOK, NEW id \in LockIds, NEW row, id \notin DOMAIN locks, SealLock(id, row)
    PROVE  /\ DOMAIN locks' = DOMAIN locks \cup {id}
           /\ locks'[id] = row
           /\ \A i \in DOMAIN locks : locks'[i] = locks[i]
BY DEF SealLock

LEMMA InitType == Init => TypeOK
BY TimeAssumption DEF Init, TypeOK, Steps

LEMMA NextType ==
    ASSUME TypeOK, Times, \A c \in Clients : ClientSound(c), [Next]_vars
    PROVE  TypeOK'
<1> USE TimeAssumption
<1>1. CASE UNCHANGED vars
  BY <1>1, TypesGrow DEF vars, request, TypeOK
<1>2. CASE Tick
  BY <1>2, TypesGrow DEF Tick, request, TypeOK
<1>3. ASSUME NEW leg \in Legs, NEW kind \in Kinds, NEW at \in 1 .. MaxTime,
             FactArrives(leg, kind, at)
      PROVE  TypeOK'
  <2>1. facts' \subseteq Facts /\ facts \subseteq facts' /\ clock' \in 0 .. MaxTime
    BY <1>3 DEF FactArrives, Facts, TypeOK
  <2> QED
    BY <1>3, <2>1, TypesGrow DEF FactArrives, request, TypeOK
<1>4. ASSUME NEW c \in Clients, NEW step \in Steps, UNCHANGED <<clock, facts, locks, analyses>>,
             GoTo(c, step) \/ TakeUp(c, step) \/ EndCall(c)
      PROVE  TypeOK'
  BY <1>4, TypesGrow DEF GoTo, TakeUp, EndCall, TypeOK, Steps
<1>5. ASSUME NEW c \in Clients, NEW payload \in Payloads, Receive(c, payload)
      PROVE  TypeOK'
  BY <1>5, TypesGrow DEF Receive, TypeOK, Payloads
<1>6. ASSUME NEW c \in Clients, NEW id \in LockIds, NEW row \in Rows, id \notin DOMAIN locks,
             SealLock(id, row), EndCall(c), UNCHANGED <<clock, facts, analyses>>
      PROVE  TypeOK'
  <2>1. /\ DOMAIN locks' = DOMAIN locks \cup {id}
        /\ \A i \in DOMAIN locks' : locks'[i] \in Rows
    BY <1>6, Sealed DEF TypeOK
  <2> QED
    BY <1>6, <2>1, TypesGrow DEF EndCall, TypeOK, Steps
<1>7. \A t \in 0 .. MaxTime : Pack(t) \in Packs
  BY PackTyped DEF TypeOK
<1>8. ASSUME NEW lag \in AsOfLags, lag <= clock
      PROVE  clock - lag \in 0 .. MaxTime /\ EffectiveAsOf(clock - lag) \in 0 .. MaxTime
  BY <1>8, Effective DEF TypeOK
<1>9. ASSUME NEW c \in Clients, ExportPack(c) \/ ReadRevisionInput(c) \/ ExportMarket(c)
      PROVE  TypeOK'
  <2>1. CASE ExportPack(c)
    <3> PICK id \in LockIds, lag \in AsOfLags :
          /\ lag <= clock
          /\ Receive(c, [what |-> "root", id |-> id, pack |-> Pack(clock - lag)])
      BY <2>1 DEF ExportPack
    <3>1. [what |-> "root", id |-> id, pack |-> Pack(clock - lag)] \in Payloads
      BY <1>7, <1>8 DEF Payloads, Roots
    <3> QED
      BY <3>1, <1>5
  <2>2. CASE ReadRevisionInput(c)
    <3> DEFINE input(id, lag, i) ==
          [what |-> "revision", id |-> id, parent |-> i, at |-> clock,
           pack |-> Pack(clock - lag),
           legs |-> AffectedLegs(locks[i].pack, Pack(clock - lag))]
    <3> PICK id \in LockIds, lag \in AsOfLags, i \in DOMAIN locks :
          lag <= clock /\ Receive(c, input(id, lag, i))
      BY <2>2 DEF ReadRevisionInput
    <3>1. AffectedLegs(locks[i].pack, Pack(clock - lag)) \in SUBSET Legs
      BY DEF AffectedLegs
    <3>2. input(id, lag, i) \in Revisions
      BY <3>1, <1>7, <1>8 DEF Revisions, TypeOK
    <3> HIDE DEF input
    <3> QED
      BY <3>2, <1>5 DEF Payloads
  <2>3. CASE ExportMarket(c)
    <3> PICK i \in DOMAIN locks, lag \in AsOfLags :
          /\ lag <= clock
          /\ Receive(c, [what |-> "market", lock |-> i, cutoff |-> EffectiveAsOf(clock - lag)])
      BY <2>3 DEF ExportMarket
    <3>1. [what |-> "market", lock |-> i, cutoff |-> EffectiveAsOf(clock - lag)] \in Payloads
      BY <1>8 DEF Payloads, Markets
    <3> QED
      BY <3>1, <1>5
  <2> QED
    BY <1>9, <2>1, <2>2, <2>3
<1>10. ASSUME NEW c \in Clients,
              \/ PostLock(c) \/ LookUpLock(c) \/ PrepareLock(c) \/ PostRevision(c)
              \/ BindParent(c) \/ ComparePacks(c) \/ PostStep2(c) \/ CompareFacts(c) \/ Fail(c)
       PROVE  TypeOK'
  <2>1. PICK step \in Steps : /\ GoTo(c, step) \/ TakeUp(c, step) \/ EndCall(c)
                             /\ UNCHANGED <<clock, facts, locks, analyses>>
    BY <1>10 DEF PostLock, LookUpLock, PrepareLock, PostRevision, BindParent, ComparePacks,
                 PostStep2, CompareFacts, Fail, Proceed, Steps
  <2> QED
    BY <2>1, <1>4
<1>11. ASSUME NEW c \in Clients, InsertLock(c)
       PROVE  TypeOK'
  <2>1. held[c] \in Roots
    BY <1>11, PayloadTyped DEF InsertLock, ClientSound, CallFits
  <2>2. CASE held[c].id \in DOMAIN locks
    BY <2>2, <1>11, <1>4 DEF InsertLock, Steps
  <2>3. CASE held[c].id \notin DOMAIN locks
    <3> DEFINE row == [pack |-> held[c].pack, judged |-> held[c].pack.legs,
                       created_at |-> started[c], parent |-> NoLock]
    <3>1. row \in Rows /\ held[c].id \in LockIds
      BY <2>1 DEF Rows, Roots, Packs, TypeOK
    <3>2. SealLock(held[c].id, row) /\ EndCall(c) /\ UNCHANGED <<clock, facts, analyses>>
      BY <2>3, <1>11 DEF InsertLock
    <3> QED
      BY <3>1, <3>2, <2>3, <1>6
  <2> QED
    BY <2>2, <2>3
<1>12. ASSUME NEW c \in Clients, CommitRevision(c)
       PROVE  TypeOK'
  <2>1. held[c] \in Revisions
    BY <1>12, PayloadTyped DEF CommitRevision, ClientSound, CallFits
  <2>2. CASE ~RevisionFits(c)
    BY <2>2, <1>12, <1>4 DEF CommitRevision, Steps
  <2>3. CASE RevisionFits(c)
    <3> DEFINE row == [pack |-> held[c].pack, judged |-> RevisedJudgement(c),
                       created_at |-> started[c], parent |-> held[c].parent]
    <3>1. RevisedJudgement(c) \in Contents
      BY <2>1 DEF RevisedJudgement, Revisions, Packs, Contents, Rows, TypeOK
    <3>2. row \in Rows /\ held[c].id \in LockIds
      BY <2>1, <3>1 DEF Rows, Revisions, TypeOK
    <3>3. SealLock(held[c].id, row) /\ EndCall(c) /\ UNCHANGED <<clock, facts, analyses>>
      BY <2>3, <1>12 DEF CommitRevision
    <3> QED
      BY <3>2, <3>3, <2>3, <1>6 DEF RevisionFits
  <2> QED
    BY <2>2, <2>3
<1>13. ASSUME NEW c \in Clients, CommitAnalysis(c)
       PROVE  TypeOK'
  <2>1. held[c] \in Markets
    BY <1>13, PayloadTyped DEF CommitAnalysis, ClientSound, CallFits
  <2>2. analyses' \subseteq Analyses
    BY <2>1, <1>13 DEF CommitAnalysis, Analyses, Markets, TypeOK
  <2> QED
    BY <2>2, <1>13, TypesGrow DEF CommitAnalysis, EndCall, TypeOK, Steps
<1> QED
  BY <1>1, <1>2, <1>3, <1>9, <1>10, <1>11, <1>12, <1>13 DEF Next

-----------------------------------------------------------------------------
(* The steps.                                                                *)

LEMMA InitIInv == Init => IInv
<1> SUFFICES ASSUME Init PROVE IInv
  OBVIOUS
<1>1. TypeOK
  BY InitType
<1>2. Times /\ LineageOrdered /\ LocksExact /\ AnalysesKnown
  BY DEF Init, Times, LineageOrdered, LocksExact, AnalysesKnown
<1>3. \A c \in Clients : ClientSound(c)
  BY DEF Init, NoPayload, ClientSound, CallFits, RevisionFollows, CallExact, MarketKnown
<1> QED
  BY <1>1, <1>2, <1>3 DEF IInv

\* What is known to a time that is past stays known when a fact arrives.
LEMMA KnownKept ==
    ASSUME NEW leg, NEW kind, NEW at, FactArrives(leg, kind, at), clock \in Nat,
           NEW i, NEW cutoff, NEW t \in Nat, t <= clock, KnownBy(i, cutoff, t)
    PROVE  KnownBy(i, cutoff, t)'
BY DEF KnownBy, FactArrives

LEMMA ArrivalKeeps ==
    ASSUME IInv, TypeOK', NEW leg, NEW kind, NEW at, FactArrives(leg, kind, at)
    PROVE  IInv'
<1>1. /\ clock \in Nat /\ facts \subseteq Facts
      /\ \A c \in Clients : started[c] \in Nat /\ started[c] <= clock
      /\ \A i \in DOMAIN locks : locks[i].created_at \in Nat /\ locks[i].created_at <= clock
      /\ \A a \in analyses : a.at \in Nat /\ a.at <= clock
  BY TimeAssumption DEF IInv, TypeOK, Times, Rows, Analyses
<1>2. UNCHANGED <<locks, analyses, pc, held, started>> /\ clock' = clock + 1
  BY DEF FactArrives, request
<1>3. Times'
  <2>1. facts' = facts \cup {[leg |-> leg, kind |-> kind, at |-> at, seen |-> clock + 1]}
    BY DEF FactArrives
  <2>2. \A f \in facts : f.seen \in Nat /\ f.at <= f.seen /\ f.seen <= clock
    BY <1>1, TimeAssumption DEF IInv, Times, Facts
  <2>3. \A f \in facts' : f.at <= f.seen /\ f.seen <= clock + 1
    BY <2>1, <2>2, <1>1 DEF FactArrives
  <2> QED
    BY <2>3, <1>1, <1>2 DEF Times
<1>4. LineageOrdered'
  BY <1>2 DEF IInv, LineageOrdered
<1>5. \A pack : \A t \in Nat : t <= clock /\ Exact(pack, t) => Exact(pack, t)'
  BY <1>1, ExactKept
<1>6. \A i, cutoff : \A t \in Nat : t <= clock /\ KnownBy(i, cutoff, t) => KnownBy(i, cutoff, t)'
  BY <1>1, KnownKept
<1>7. LocksExact'
  BY <1>1, <1>2, <1>5 DEF IInv, LocksExact
<1>8. AnalysesKnown'
  BY <1>1, <1>2, <1>6 DEF IInv, AnalysesKnown
<1>9. ASSUME NEW c \in Clients PROVE ClientSound(c)'
  <2>1. ClientSound(c)
    BY DEF IInv
  <2>2. CallFits(c)' /\ RevisionFollows(c)'
    BY <2>1, <1>2 DEF ClientSound, CallFits, RevisionFollows
  <2>3. CallExact(c)'
    BY <2>1, <1>1, <1>2, <1>5 DEF ClientSound, CallExact, AffectedLegs
  <2>4. MarketKnown(c)'
    BY <2>1, <1>1, <1>2, <1>6 DEF ClientSound, MarketKnown, EffectiveAsOf
  <2> QED
    BY <2>2, <2>3, <2>4 DEF ClientSound
<1> QED
  BY <1>3, <1>4, <1>7, <1>8, <1>9 DEF IInv

\* A step of one request that writes no lock and no analysis that knows less
\* than it should.
LEMMA QuietKeeps ==
    ASSUME IInv, TypeOK', NEW c \in Clients,
           UNCHANGED <<clock, facts, locks>>,
           \A a \in analyses' \ analyses : a.at <= clock /\ KnownBy(a.lock, a.cutoff, a.at),
           \A d \in Clients \ {c} :
              pc'[d] = pc[d] /\ held'[d] = held[d] /\ started'[d] = started[d],
           started'[c] <= clock,
           ClientSound(c)'
    PROVE  IInv'
<1>1. Times'
  BY DEF IInv, Times
<1>2. LineageOrdered'
  BY DEF IInv, LineageOrdered
<1>3. \A pack, t : Exact(pack, t) => Exact(pack, t)'
  BY ExactSame
<1>4. LocksExact'
  BY <1>3 DEF IInv, LocksExact
<1>5. \A i, cutoff, t : KnownBy(i, cutoff, t) => KnownBy(i, cutoff, t)'
  BY DEF KnownBy
<1>6. AnalysesKnown'
  BY <1>5 DEF IInv, AnalysesKnown
<1>7. ASSUME NEW d \in Clients PROVE ClientSound(d)'
  <2>1. CASE d = c
    BY <2>1
  <2>2. CASE d # c
    <3>1. ClientSound(d)
      BY DEF IInv
    <3>2. CallFits(d)' /\ RevisionFollows(d)'
      BY <3>1, <2>2 DEF ClientSound, CallFits, RevisionFollows
    <3>3. CallExact(d)'
      <4>1. pc'[d] \in {"insert", "commit"} => Exact(held[d].pack, started[d])'
        BY <3>1, <2>2, <1>3 DEF ClientSound, CallExact
      <4>2. pc'[d] = "commit" =>
              held'[d].legs = AffectedLegs(locks'[held'[d].parent].pack, held'[d].pack)
        BY <3>1, <2>2 DEF ClientSound, CallExact
      <4> QED
        BY <4>1, <4>2, <2>2 DEF CallExact, AffectedLegs
    <3>4. MarketKnown(d)'
      <4>1. held'[d].what = "market" => EffectiveAsOf(held[d].cutoff)' = held'[d].cutoff
        BY <3>1, <2>2 DEF ClientSound, MarketKnown, EffectiveAsOf
      <4>2. pc'[d] = "integrate" => KnownBy(held[d].lock, held[d].cutoff, started[d])'
        BY <3>1, <2>2, <1>5 DEF ClientSound, MarketKnown
      <4> QED
        BY <4>1, <4>2 DEF MarketKnown
    <3> QED
      BY <3>2, <3>3, <3>4 DEF ClientSound
  <2> QED
    BY <2>1, <2>2
<1> QED
  BY <1>1, <1>2, <1>4, <1>6, <1>7 DEF IInv

\* An idle client with the payload it had.
LEMMA IdleSound ==
    ASSUME TypeOK, NEW c \in Clients, ClientSound(c), EndCall(c),
           UNCHANGED <<clock, facts, locks>>
    PROVE  ClientSound(c)'
BY DEF TypeOK, EndCall, ClientSound, CallFits, RevisionFollows, CallExact, MarketKnown,
       EffectiveAsOf

\* A row that is sealed: exact, and younger than its parent.
LEMMA SealKeeps ==
    ASSUME IInv, TypeOK', NEW c \in Clients, NEW id \in LockIds, NEW row \in Rows,
           id \notin DOMAIN locks, SealLock(id, row), EndCall(c),
           UNCHANGED <<clock, facts, analyses>>,
           row.created_at <= clock,
           Exact(row.pack, row.created_at),
           row.judged = row.pack.legs,
           row.parent # NoLock => /\ row.parent \in DOMAIN locks
                                  /\ locks[row.parent].created_at < row.created_at
    PROVE  IInv'
<1> USE TimeAssumption
<1>1. /\ DOMAIN locks' = DOMAIN locks \cup {id}
      /\ locks'[id] = row
      /\ \A i \in DOMAIN locks : locks'[i] = locks[i]
  BY Sealed DEF IInv
<1>2. /\ \A d \in Clients \ {c} :
            pc'[d] = pc[d] /\ held'[d] = held[d] /\ started'[d] = started[d]
      /\ pc'[c] = "idle" /\ held'[c] = held[c] /\ started'[c] = 0
  BY DEF EndCall, IInv, TypeOK
<1>3. Times'
  BY <1>1, <1>2 DEF IInv, Times, TypeOK
<1>4. LineageOrdered'
  BY <1>1 DEF IInv, LineageOrdered
<1>5. \A pack, t : Exact(pack, t) => Exact(pack, t)'
  BY ExactSame
<1>6. LocksExact'
  BY <1>1, <1>5 DEF IInv, LocksExact
<1>7. \A i \in DOMAIN locks : \A cutoff, t : KnownBy(i, cutoff, t) => KnownBy(i, cutoff, t)'
  BY <1>1 DEF KnownBy
<1>8. AnalysesKnown'
  BY <1>7 DEF IInv, TypeOK, Analyses, AnalysesKnown
<1>9. ASSUME NEW d \in Clients PROVE ClientSound(d)'
  <2>1. /\ ClientSound(d)
        /\ held[d].what = "revision" => held[d].parent \in DOMAIN locks
        /\ held[d].what = "market" => held[d].lock \in DOMAIN locks
    BY PayloadTyped DEF IInv, Revisions, Markets
  <2>2. CallFits(d)' /\ RevisionFollows(d)'
    BY <2>1, <1>1, <1>2 DEF ClientSound, CallFits, RevisionFollows
  <2>3. CallExact(d)'
    <3>1. CASE d = c
      BY <3>1, <1>2 DEF CallExact
    <3>2. CASE d # c
      <4>1. pc'[d] = pc[d] /\ held'[d] = held[d] /\ started'[d] = started[d]
        BY <3>2, <1>2
      <4>2. pc[d] \in {"insert", "commit"} => Exact(held[d].pack, started[d])'
        BY <2>1, <4>1, <1>5 DEF ClientSound, CallExact
      <4>3. pc[d] = "commit" => locks'[held[d].parent] = locks[held[d].parent]
        BY <2>1, <1>1 DEF ClientSound, CallFits
      <4>4. pc'[d] = "commit" =>
              held'[d].legs = AffectedLegs(locks'[held'[d].parent].pack, held'[d].pack)
        BY <2>1, <4>1, <4>3 DEF ClientSound, CallExact
      <4>5. pc'[d] \in {"insert", "commit"} => Exact(held[d].pack, started[d])'
        BY <4>1, <4>2
      <4> QED
        BY <4>4, <4>5 DEF CallExact, AffectedLegs
    <3> QED
      BY <3>1, <3>2
  <2>4. MarketKnown(d)'
    BY <2>1, <1>2, <1>7 DEF ClientSound, CallFits, MarketKnown, EffectiveAsOf
  <2> QED
    BY <2>2, <2>3, <2>4 DEF ClientSound
<1> QED
  BY <1>3, <1>4, <1>6, <1>8, <1>9 DEF IInv

\* A payload that is pulled.
LEMMA PullKeeps ==
    ASSUME IInv, TypeOK', NEW c \in Clients, NEW payload, Receive(c, payload),
           payload.what = "revision" => locks[payload.parent].created_at <= payload.at,
           payload.what = "market" => EffectiveAsOf(payload.cutoff) = payload.cutoff
    PROVE  IInv'
<1>1. /\ pc' = pc /\ started' = started /\ pc[c] = "idle"
      /\ \A d \in Clients \ {c} : held'[d] = held[d]
      /\ held'[c] = payload
  BY DEF Receive, IInv, TypeOK
<1>2. ClientSound(c)'
  BY <1>1 DEF Receive, ClientSound, CallFits, RevisionFollows, CallExact, MarketKnown,
              EffectiveAsOf
<1>3. started'[c] <= clock
  BY <1>1 DEF IInv, Times
<1> QED
  BY <1>1, <1>2, <1>3, QuietKeeps DEF Receive

\* A request that goes to a step with what that step relies on.
LEMMA MoveKeeps ==
    ASSUME IInv, TypeOK', NEW c \in Clients, NEW step \in Steps, NEW t, t <= clock,
           pc' = [pc EXCEPT ![c] = step], started' = [started EXCEPT ![c] = t],
           UNCHANGED <<clock, facts, locks, analyses, held>>,
           step \in {"lookup", "prepare", "insert"} => held[c].what = "root",
           step \in {"bind", "compare", "commit"} => held[c].what = "revision" /\ held[c].at < t,
           step \in {"facts", "integrate"} => held[c].what = "market",
           step \in {"insert", "commit"} => Exact(held[c].pack, t),
           step = "commit" =>
              held[c].legs = AffectedLegs(locks[held[c].parent].pack, held[c].pack),
           step = "integrate" => KnownBy(held[c].lock, held[c].cutoff, t)
    PROVE  IInv'
<1>1. /\ \A d \in Clients \ {c} :
            pc'[d] = pc[d] /\ held'[d] = held[d] /\ started'[d] = started[d]
      /\ pc'[c] = step /\ held'[c] = held[c] /\ started'[c] = t
  BY DEF IInv, TypeOK
<1>2. CallFits(c)'
  BY <1>1 DEF CallFits
<1>3. RevisionFollows(c)'
  BY <1>1 DEF IInv, ClientSound, RevisionFollows
<1>4. CallExact(c)'
  <2>1. step \in {"insert", "commit"} => Exact(held[c].pack, t)'
    BY ExactSame
  <2> QED
    BY <2>1, <1>1 DEF CallExact, AffectedLegs
<1>5. MarketKnown(c)'
  <2>1. step = "integrate" => KnownBy(held[c].lock, held[c].cutoff, t)'
    BY DEF KnownBy
  <2>2. held'[c].what = "market" => EffectiveAsOf(held'[c].cutoff) = held'[c].cutoff
    BY <1>1 DEF IInv, ClientSound, MarketKnown
  <2> QED
    BY <2>1, <2>2, <1>1 DEF MarketKnown, EffectiveAsOf
<1>6. ClientSound(c)'
  BY <1>2, <1>3, <1>4, <1>5 DEF ClientSound
<1> QED
  BY <1>1, <1>6, QuietKeeps

\* An import that begins now.
LEMMA TakeUpKeeps ==
    ASSUME IInv, TypeOK', NEW c \in Clients, NEW step \in {"prepare", "bind", "facts"},
           TakeUp(c, step), UNCHANGED <<clock, facts, locks, analyses>>,
           step = "prepare" => held[c].what = "root",
           step = "bind" => held[c].what = "revision" /\ held[c].at < clock,
           step = "facts" => held[c].what = "market"
    PROVE  IInv'
<1> PICK now : now = clock
  OBVIOUS
<1>1. now <= clock
  BY TimeAssumption DEF IInv, TypeOK
<1>2. pc' = [pc EXCEPT ![c] = step] /\ started' = [started EXCEPT ![c] = now] /\ held' = held
  BY DEF TakeUp
<1> QED
  BY <1>1, <1>2, MoveKeeps DEF Steps

\* A request that ends without a row.
LEMMA EndKeeps ==
    ASSUME IInv, TypeOK', NEW c \in Clients, EndCall(c),
           UNCHANGED <<clock, facts, locks, analyses>>
    PROVE  IInv'
<1>1. 0 <= clock
  BY TimeAssumption DEF IInv, TypeOK
<1> QED
  BY <1>1, MoveKeeps DEF EndCall, Steps

\* The facts of a market pack that match a lock have been judged in it.
LEMMA MatchIsKnown ==
    ASSUME TypeOK, LocksExact, NEW i \in DOMAIN locks, NEW cutoff, NEW t,
           EffectiveAsOf(cutoff) = cutoff, NoLateFacts(i, cutoff)
    PROVE  KnownBy(i, cutoff, t)
<1>1. locks[i].judged = Pack(cutoff).legs
  BY DEF NoLateFacts, LocksExact
<1>2. \A leg \in Legs : Pack(cutoff).legs[leg] = {f \in facts : f.leg = leg /\ f.at <= cutoff}
  BY DEF Pack
<1>3. \A f \in facts : f.leg \in Legs
  BY DEF TypeOK, Facts
<1> QED
  BY <1>1, <1>2, <1>3 DEF KnownBy

\* A second passes.
LEMMA TickKeeps ==
    ASSUME IInv, TypeOK', Tick
    PROVE  IInv'
<1>1. UNCHANGED <<facts, locks, analyses, pc, held, started>> /\ clock' = clock + 1
  BY DEF Tick, request
<1>2. Times'
  <2>1. clock \in Nat /\ clock' >= clock
    BY <1>1, TimeAssumption DEF IInv, TypeOK
  <2>2. \A f \in facts : f.seen \in Nat /\ f.at <= f.seen /\ f.seen <= clock
    BY TimeAssumption DEF IInv, Times, TypeOK, Facts
  <2>3. \A i \in DOMAIN locks : locks[i].created_at \in Nat /\ locks[i].created_at <= clock
    BY TimeAssumption DEF IInv, Times, TypeOK, Rows
  <2>4. \A c \in Clients : started[c] \in Nat /\ started[c] <= clock
    BY TimeAssumption DEF IInv, Times, TypeOK
  <2>5. \A a \in analyses : a.at \in Nat /\ a.at <= clock
    BY TimeAssumption DEF IInv, Times, TypeOK, Analyses
  <2> QED
    BY <1>1, <2>1, <2>2, <2>3, <2>4, <2>5 DEF Times
<1>3. LineageOrdered'
  BY <1>1 DEF IInv, LineageOrdered
<1>4. \A pack, t : Exact(pack, t) => Exact(pack, t)'
  BY <1>1, ExactSame
<1>5. LocksExact'
  BY <1>1, <1>4 DEF IInv, LocksExact
<1>6. \A i, cutoff, t : KnownBy(i, cutoff, t) => KnownBy(i, cutoff, t)'
  BY <1>1 DEF KnownBy
<1>7. AnalysesKnown'
  BY <1>1, <1>6 DEF IInv, AnalysesKnown
<1>8. ASSUME NEW c \in Clients PROVE ClientSound(c)'
  <2>1. ClientSound(c)
    BY DEF IInv
  <2>2. CallFits(c)' /\ RevisionFollows(c)'
    BY <2>1, <1>1 DEF ClientSound, CallFits, RevisionFollows
  <2>3. CallExact(c)'
    BY <2>1, <1>1, <1>4 DEF ClientSound, CallExact, AffectedLegs
  <2>4. MarketKnown(c)'
    BY <2>1, <1>1, <1>6 DEF ClientSound, MarketKnown, EffectiveAsOf
  <2> QED
    BY <2>2, <2>3, <2>4 DEF ClientSound
<1> QED
  BY <1>2, <1>3, <1>5, <1>7, <1>8 DEF IInv

-----------------------------------------------------------------------------
(* The requests, one lemma per kind of payload.                              *)

LEMMA RootKeeps ==
    ASSUME IInv, TypeOK', NEW c \in Clients,
           ExportPack(c) \/ PostLock(c) \/ LookUpLock(c) \/ PrepareLock(c) \/ InsertLock(c)
    PROVE  IInv'
<1> USE TimeAssumption
<1>1. /\ TypeOK /\ Times /\ ClientSound(c) /\ clock \in Nat
      /\ started[c] \in Nat /\ started[c] <= clock
      /\ started = [started EXCEPT ![c] = started[c]]
  BY DEF IInv, TypeOK, Times
<1>2. CASE ExportPack(c)
  <2> PICK id \in LockIds, lag \in AsOfLags :
        Receive(c, [what |-> "root", id |-> id, pack |-> Pack(clock - lag)])
    BY <1>2 DEF ExportPack
  <2> QED
    BY PullKeeps
<1>3. CASE PostLock(c)
  <2>1. CASE GoTo(c, "lookup")
    BY <2>1, <1>1, <1>3, MoveKeeps DEF PostLock, Proceed, GoTo, Steps
  <2>2. CASE EndCall(c)
    BY <2>2, <1>3, EndKeeps DEF PostLock, Proceed
  <2> QED
    BY <2>1, <2>2, <1>3 DEF PostLock, Proceed
<1>4. CASE LookUpLock(c)
  <2>1. CASE TakeUp(c, "prepare")
    <3>1. held[c].what = "root"
      BY <1>1, <1>4 DEF LookUpLock, ClientSound, CallFits
    <3> QED
      BY <3>1, <2>1, <1>4, TakeUpKeeps DEF LookUpLock
  <2>2. CASE EndCall(c)
    BY <2>2, <1>4, EndKeeps DEF LookUpLock
  <2> QED
    BY <2>1, <2>2, <1>4 DEF LookUpLock
<1>5. CASE PrepareLock(c)
  <2>1. CASE EndCall(c)
    BY <2>1, <1>5, EndKeeps DEF PrepareLock, Proceed
  <2>2. CASE ~EndCall(c)
    <3>1. /\ GoTo(c, "insert") /\ UNCHANGED <<clock, facts, locks, analyses>>
          /\ pc[c] = "prepare"
          /\ ReplaySafe(held[c].pack.as_of) /\ Pack(held[c].pack.as_of) = held[c].pack
      BY <2>2, <1>5 DEF PrepareLock, Proceed
    <3>2. held[c].what = "root" /\ held[c].pack \in Packs
      BY <3>1, <1>1, PayloadTyped DEF ClientSound, CallFits, Roots
    <3>3. facts \subseteq Facts /\ \A f \in facts : f.seen <= clock
      BY <1>1 DEF TypeOK, Times
    <3>4. Exact(held[c].pack, started[c])
      BY <3>1, <3>2, <3>3, <1>1, BuiltIsExact
    <3> QED
      BY <3>1, <3>2, <3>4, <1>1, MoveKeeps DEF GoTo, Steps
  <2> QED
    BY <2>1, <2>2
<1>6. CASE InsertLock(c)
  <2>1. CASE held[c].id \in DOMAIN locks
    BY <2>1, <1>6, EndKeeps DEF InsertLock
  <2>2. CASE held[c].id \notin DOMAIN locks
    <3> DEFINE row == [pack |-> held[c].pack, judged |-> held[c].pack.legs,
                       created_at |-> started[c], parent |-> NoLock]
    <3>1. held[c] \in Roots /\ pc[c] = "insert"
      BY <1>6, <1>1, PayloadTyped DEF InsertLock, ClientSound, CallFits
    <3>2. row \in Rows /\ held[c].id \in LockIds
      BY <3>1, <1>1 DEF Rows, Roots, Packs, TypeOK
    <3>3. SealLock(held[c].id, row) /\ EndCall(c) /\ UNCHANGED <<clock, facts, analyses>>
      BY <2>2, <1>6 DEF InsertLock
    <3>4. Exact(held[c].pack, started[c])
      BY <3>1, <1>1 DEF ClientSound, CallExact
    <3>5. /\ row.created_at = started[c] /\ row.pack = held[c].pack
          /\ row.judged = held[c].pack.legs /\ row.parent = NoLock
      OBVIOUS
    <3> HIDE DEF row
    <3> QED
      BY <3>2, <3>3, <3>4, <3>5, <2>2, <1>1, SealKeeps
  <2> QED
    BY <2>1, <2>2
<1> QED
  BY <1>2, <1>3, <1>4, <1>5, <1>6

LEMMA RevisionKeeps ==
    ASSUME IInv, TypeOK', NEW c \in Clients,
           \/ ReadRevisionInput(c) \/ PostRevision(c) \/ BindParent(c) \/ ComparePacks(c)
           \/ CommitRevision(c)
    PROVE  IInv'
<1> USE TimeAssumption
<1>1. /\ TypeOK /\ Times /\ ClientSound(c) /\ clock \in Nat
      /\ started[c] \in Nat /\ started[c] <= clock
      /\ started = [started EXCEPT ![c] = started[c]]
  BY DEF IInv, TypeOK, Times
<1>2. CASE ReadRevisionInput(c)
  <2> DEFINE input(id, lag, i) ==
        [what |-> "revision", id |-> id, parent |-> i, at |-> clock,
         pack |-> Pack(clock - lag),
         legs |-> AffectedLegs(locks[i].pack, Pack(clock - lag))]
  <2> PICK id \in LockIds, lag \in AsOfLags, i \in DOMAIN locks : Receive(c, input(id, lag, i))
    BY <1>2 DEF ReadRevisionInput
  <2>1. /\ input(id, lag, i).what = "revision"
        /\ locks[input(id, lag, i).parent].created_at <= input(id, lag, i).at
    BY <1>1 DEF Times
  <2> HIDE DEF input
  <2> QED
    BY <2>1, PullKeeps
<1>3. CASE PostRevision(c)
  <2>1. held[c].what = "revision" /\ clock >= held[c].at + ThinkTime
    BY <1>3 DEF PostRevision
  <2>2. held[c].at \in Nat
    BY <2>1, <1>1, PayloadTyped DEF Revisions
  <2>3. held[c].at < clock
    BY <2>1, <2>2, <1>1
  <2> QED
    BY <2>1, <2>3, <1>3, TakeUpKeeps DEF PostRevision
<1>4. CASE BindParent(c)
  <2>1. CASE EndCall(c)
    BY <2>1, <1>4, EndKeeps DEF BindParent, Proceed
  <2>2. CASE ~EndCall(c)
    <3>1. /\ GoTo(c, "compare") /\ UNCHANGED <<clock, facts, locks, analyses>>
          /\ pc[c] = "bind"
      BY <2>2, <1>4 DEF BindParent, Proceed
    <3>2. held[c].what = "revision" /\ held[c].at < started[c]
      BY <3>1, <1>1 DEF ClientSound, CallFits, RevisionFollows
    <3> QED
      BY <3>1, <3>2, <1>1, MoveKeeps DEF GoTo, Steps
  <2> QED
    BY <2>1, <2>2
<1>5. CASE ComparePacks(c)
  <2>1. CASE EndCall(c)
    BY <2>1, <1>5, EndKeeps DEF ComparePacks, Proceed
  <2>2. CASE ~EndCall(c)
    <3>1. /\ GoTo(c, "commit") /\ UNCHANGED <<clock, facts, locks, analyses>>
          /\ pc[c] = "compare"
          /\ ReplaySafe(held[c].pack.as_of) /\ Pack(held[c].pack.as_of) = held[c].pack
          /\ held[c].legs = AffectedLegs(locks[held[c].parent].pack, held[c].pack)
      BY <2>2, <1>5 DEF ComparePacks, Proceed, RevisionReadable
    <3>2. held[c].what = "revision" /\ held[c].at < started[c] /\ held[c].pack \in Packs
      BY <3>1, <1>1, PayloadTyped DEF ClientSound, CallFits, RevisionFollows, Revisions
    <3>3. facts \subseteq Facts /\ \A f \in facts : f.seen <= clock
      BY <1>1 DEF TypeOK, Times
    <3>4. Exact(held[c].pack, started[c])
      BY <3>1, <3>2, <3>3, <1>1, BuiltIsExact
    <3> QED
      BY <3>1, <3>2, <3>4, <1>1, MoveKeeps DEF GoTo, Steps
  <2> QED
    BY <2>1, <2>2
<1>6. CASE CommitRevision(c)
  <2>1. CASE ~RevisionFits(c)
    BY <2>1, <1>6, EndKeeps DEF CommitRevision
  <2>2. CASE RevisionFits(c)
    <3> DEFINE row == [pack |-> held[c].pack, judged |-> RevisedJudgement(c),
                       created_at |-> started[c], parent |-> held[c].parent]
    <3>1. /\ held[c] \in Revisions /\ held[c].parent \in DOMAIN locks
          /\ Exact(held[c].pack, started[c])
          /\ held[c].legs = AffectedLegs(locks[held[c].parent].pack, held[c].pack)
          /\ locks[held[c].parent].created_at <= held[c].at /\ held[c].at < started[c]
      BY <1>6, <1>1, PayloadTyped DEF CommitRevision, Revisions, ClientSound, CallFits,
                                      RevisionFollows, CallExact
    \* What was not sent out is as the parent judged it.
    <3>2. RevisedJudgement(c) = held[c].pack.legs
      <4>1. locks[held[c].parent].judged = locks[held[c].parent].pack.legs
        BY <3>1 DEF IInv, LocksExact
      <4>2. \A leg \in Legs \ held[c].legs :
              locks[held[c].parent].pack.legs[leg] = held[c].pack.legs[leg]
        BY <3>1 DEF AffectedLegs
      <4>3. held[c].pack.legs \in Contents
        BY <3>1 DEF Revisions, Packs
      <4> QED
        BY <4>1, <4>2, <4>3 DEF RevisedJudgement, Contents
    <3>3. row \in Rows /\ held[c].id \in LockIds
      BY <3>1, <3>2, <1>1 DEF Rows, Revisions, Packs, TypeOK
    <3>4. SealLock(held[c].id, row) /\ EndCall(c) /\ UNCHANGED <<clock, facts, analyses>>
      BY <2>2, <1>6 DEF CommitRevision
    <3>5. /\ row.created_at = started[c] /\ row.pack = held[c].pack
          /\ row.judged = held[c].pack.legs /\ row.parent = held[c].parent
      BY <3>2
    <3>6. locks[held[c].parent].created_at < started[c]
      BY <3>1, <1>1 DEF Rows, Revisions, TypeOK
    <3> HIDE DEF row
    <3> QED
      BY <3>1, <3>3, <3>4, <3>5, <3>6, <2>2, <1>1, SealKeeps DEF RevisionFits
  <2> QED
    BY <2>1, <2>2
<1> QED
  BY <1>2, <1>3, <1>4, <1>5, <1>6

LEMMA MarketKeeps ==
    ASSUME IInv, TypeOK', NEW c \in Clients,
           ExportMarket(c) \/ PostStep2(c) \/ CompareFacts(c) \/ CommitAnalysis(c)
    PROVE  IInv'
<1> USE TimeAssumption
<1>1. /\ TypeOK /\ ClientSound(c) /\ clock \in Nat
      /\ started[c] \in Nat /\ started[c] <= clock
      /\ started = [started EXCEPT ![c] = started[c]]
  BY DEF IInv, TypeOK, Times
<1>2. CASE ExportMarket(c)
  <2> PICK i \in DOMAIN locks, lag \in AsOfLags :
        /\ lag <= clock
        /\ Receive(c, [what |-> "market", lock |-> i, cutoff |-> EffectiveAsOf(clock - lag)])
    BY <1>2 DEF ExportMarket
  <2>1. EffectiveAsOf(EffectiveAsOf(clock - lag)) = EffectiveAsOf(clock - lag)
    BY <1>1, Effective
  <2> QED
    BY <2>1, PullKeeps
<1>3. CASE PostStep2(c)
  BY <1>3, TakeUpKeeps DEF PostStep2
<1>4. CASE CompareFacts(c)
  <2>1. CASE EndCall(c)
    BY <2>1, <1>4, EndKeeps DEF CompareFacts, Proceed
  <2>2. CASE ~EndCall(c)
    <3>1. /\ GoTo(c, "integrate") /\ UNCHANGED <<clock, facts, locks, analyses>>
          /\ pc[c] = "facts" /\ NoLateFacts(held[c].lock, held[c].cutoff)
      BY <2>2, <1>4 DEF CompareFacts, Proceed
    <3>2. /\ held[c].what = "market" /\ held[c].lock \in DOMAIN locks
          /\ EffectiveAsOf(held[c].cutoff) = held[c].cutoff
      BY <3>1, <1>1, PayloadTyped DEF ClientSound, CallFits, MarketKnown, Markets
    <3>3. KnownBy(held[c].lock, held[c].cutoff, started[c])
      BY <3>1, <3>2, <1>1, MatchIsKnown DEF IInv
    <3> QED
      BY <3>1, <3>2, <3>3, <1>1, MoveKeeps DEF GoTo, Steps
  <2> QED
    BY <2>1, <2>2
<1>5. CASE CommitAnalysis(c)
  <2>1. KnownBy(held[c].lock, held[c].cutoff, started[c])
    BY <1>5, <1>1 DEF CommitAnalysis, ClientSound, MarketKnown
  <2>2. \A a \in analyses' \ analyses : a.at <= clock /\ KnownBy(a.lock, a.cutoff, a.at)
    BY <2>1, <1>5, <1>1 DEF CommitAnalysis
  <2>3. EndCall(c) /\ UNCHANGED <<clock, facts, locks>>
    BY <1>5 DEF CommitAnalysis
  <2>4. ClientSound(c)'
    BY <2>3, <1>1, IdleSound
  <2>5. /\ \A d \in Clients \ {c} :
             pc'[d] = pc[d] /\ held'[d] = held[d] /\ started'[d] = started[d]
        /\ started'[c] <= clock
    BY <2>3, <1>1 DEF EndCall, TypeOK
  <2> QED
    BY <2>2, <2>3, <2>4, <2>5, QuietKeeps
<1> QED
  BY <1>2, <1>3, <1>4, <1>5

\* Nothing is changed.
LEMMA StutterKeeps ==
    ASSUME IInv, TypeOK', UNCHANGED vars
    PROVE  IInv'
<1>1. UNCHANGED <<clock, facts, locks, analyses, pc, held, started>>
  BY DEF vars, request
<1>2. CASE Clients = {}
  <2>1. \A pack, t : Exact(pack, t) => Exact(pack, t)'
    BY <1>1, ExactSame
  <2>2. LocksExact'
    BY <1>1, <2>1 DEF IInv, LocksExact
  <2> QED
    BY <1>1, <1>2, <2>2 DEF IInv, Times, LineageOrdered, AnalysesKnown, KnownBy
<1>3. ASSUME NEW c \in Clients PROVE IInv'
  <2>1. ClientSound(c)
    BY DEF IInv
  <2>2. CallExact(c)'
    <3>1. pc'[c] \in {"insert", "commit"} => Exact(held[c].pack, started[c])'
      BY <2>1, <1>1, ExactSame DEF ClientSound, CallExact
    <3> QED
      BY <3>1, <2>1, <1>1 DEF ClientSound, CallExact, AffectedLegs
  <2>3. ClientSound(c)'
    BY <2>1, <2>2, <1>1 DEF ClientSound, CallFits, RevisionFollows, MarketKnown, KnownBy,
                           EffectiveAsOf
  <2> QED
    BY <2>3, <1>1, QuietKeeps DEF IInv, Times
<1> QED
  BY <1>2, <1>3

LEMMA NextIInv == IInv /\ [Next]_vars => IInv'
<1> SUFFICES ASSUME IInv, [Next]_vars PROVE IInv'
  OBVIOUS
<1>1. TypeOK'
  BY NextType DEF IInv
<1>2. CASE UNCHANGED vars
  BY <1>1, <1>2, StutterKeeps
<1>3. CASE Tick
  BY <1>1, <1>3, TickKeeps
<1>4. ASSUME NEW leg \in Legs, NEW kind \in Kinds, NEW at \in 1 .. MaxTime,
             FactArrives(leg, kind, at)
      PROVE  IInv'
  BY <1>1, <1>4, ArrivalKeeps
<1>5. ASSUME NEW c \in Clients,
             ExportPack(c) \/ PostLock(c) \/ LookUpLock(c) \/ PrepareLock(c) \/ InsertLock(c)
      PROVE  IInv'
  BY <1>1, <1>5, RootKeeps
<1>6. ASSUME NEW c \in Clients,
             \/ ReadRevisionInput(c) \/ PostRevision(c) \/ BindParent(c) \/ ComparePacks(c)
             \/ CommitRevision(c)
      PROVE  IInv'
  BY <1>1, <1>6, RevisionKeeps
<1>7. ASSUME NEW c \in Clients,
             ExportMarket(c) \/ PostStep2(c) \/ CompareFacts(c) \/ CommitAnalysis(c)
      PROVE  IInv'
  BY <1>1, <1>7, MarketKeeps
<1>8. ASSUME NEW c \in Clients, Fail(c) PROVE IInv'
  BY <1>1, <1>8, EndKeeps DEF Fail
<1> QED
  BY <1>2, <1>3, <1>4, <1>5, <1>6, <1>7, <1>8 DEF Next

LEMMA SealedInvariant == Spec => []IInv
BY InitIInv, NextIInv, PTL DEF Spec

-----------------------------------------------------------------------------
(* The theorems.                                                             *)

\* The rows of the three tables and the payloads of the clients have their
\* types, and rows only refer to rows that exist.
THEOREM SealedTypeCorrect == Spec => []TypeOK
<1>1. IInv => TypeOK
  BY DEF IInv
<1> QED
  BY <1>1, SealedInvariant, PTL

\* Once revised, a lock is never again what the newest-lock query returns,
\* for any number of overlapping requests: a child is at least a second
\* younger than its parent.
THEOREM SupersededLocksNeverNewest == Spec => []SupersededNeverNewest
<1>1. IInv => SupersededNeverNewest
  <2> SUFFICES ASSUME IInv, NEW i \in DOMAIN locks, locks[i].parent # NoLock,
                      IsNewest(locks[i].parent)
               PROVE  FALSE
    BY DEF SupersededNeverNewest
  <2> DEFINE p == locks[i].parent
  <2>1. p \in DOMAIN locks /\ locks[p].created_at < locks[i].created_at
    BY DEF IInv, LineageOrdered
  <2>2. locks[p].created_at \in Nat /\ locks[i].created_at \in Nat
    BY <2>1, TimeAssumption DEF IInv, TypeOK, Rows
  <2>3. Precedes(i, p)
    BY <2>1, <2>2 DEF IsNewest
  <2> QED
    BY <2>1, <2>2, <2>3 DEF Precedes
<1> QED
  BY <1>1, SealedInvariant, PTL

\* Every lock has judged, for every leg, what the program had seen by the
\* time of its request and may use at its as_of, however the facts, the root
\* and its revisions interleave.
THEOREM LocksKnowFacts == Spec => []LockKnowsFacts
<1>1. IInv => LockKnowsFacts
  BY DEF IInv, LocksExact, Exact, LockKnowsFacts
<1> QED
  BY <1>1, SealedInvariant, PTL

\* So has the lock under every stored analysis, up to its market cutoff.
THEOREM AnalysesKnowFacts == Spec => []AnalysisKnowsFacts
<1>1. IInv => AnalysisKnowsFacts
  BY DEF IInv, AnalysesKnown, KnownBy, AnalysisKnowsFacts
<1> QED
  BY <1>1, SealedInvariant, PTL

\* A stale lock whose revision is refused has met a fact, seen after it was
\* sealed, that changed a compared field or predates its as_of.
THEOREM RefusalsHaveCause == Spec => []RefusedOnlyForCause
<1>1. IInv => RefusedOnlyForCause
  <2> SUFFICES ASSUME IInv, NEW i \in DOMAIN locks, ~RevisionReadable(i, clock)
               PROVE  \E f \in facts :
                         /\ f.seen > locks[i].created_at
                         /\ f.kind = "field" \/ f.at <= locks[i].pack.as_of
    BY DEF RefusedOnlyForCause
  <2> DEFINE pack == locks[i].pack
  <2>1. /\ Exact(pack, locks[i].created_at) /\ locks[i].created_at \in Nat
        /\ pack.as_of \in Nat /\ clock \in Nat
    BY TimeAssumption DEF IInv, LocksExact, TypeOK, Rows, Packs
  <2>2. \A f \in facts : f.at \in Nat /\ f.seen \in Nat /\ f.at <= f.seen /\ f.seen <= clock
    BY TimeAssumption DEF IInv, TypeOK, Times, Facts
  <2>3. CASE ~ReplaySafe(clock)
    <3> PICK f \in facts : f.kind = "field" /\ ~(f.at <= EffectiveAsOf(clock))
      BY <2>3 DEF ReplaySafe
    <3>1. f.at > Cutoff
      BY <2>1, <2>2, TimeAssumption DEF EffectiveAsOf
    <3>2. pack.as_of <= Cutoff
      BY <2>1, Effective DEF Exact
    <3>3. ~(f.seen <= locks[i].created_at)
      BY <3>1, <3>2, <2>1, <2>2, TimeAssumption DEF Exact
    <3> QED
      BY <3>3, <2>1, <2>2
  <2>4. CASE ~ReplaySafe(pack.as_of)
    <3> PICK f \in facts : f.kind = "field" /\ ~(f.at <= EffectiveAsOf(pack.as_of))
      BY <2>4 DEF ReplaySafe
    <3>1. ~(f.seen <= locks[i].created_at)
      BY <2>1 DEF Exact
    <3> QED
      BY <3>1, <2>1, <2>2
  <2>5. CASE Pack(pack.as_of) # pack
    BY <2>5, <2>1 DEF Exact
  <2> QED
    BY <2>3, <2>4, <2>5 DEF RevisionReadable, Reproducible
<1> QED
  BY <1>1, SealedInvariant, PTL
=============================================================================
