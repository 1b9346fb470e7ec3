-------------------------- MODULE StorageCleanup_proofs --------------------------
(***************************************************************************)
(* Proofs about SnapshotStore and StorageCleanup, for any sources, facts,     *)
(* runs, page and batch sizes and any overlapping imports, audit steps and    *)
(* execute requests.  The dataset revision carries them: a write that changes *)
(* what an audit rests on leaves no audit live (WritesStale), so a live audit *)
(* has walked over the data as it is now, and what its pages counted and      *)
(* compared adds up to clean data.  A batch starts from clean data and        *)
(* replaces a row by an observation that tells the same, so it leaves the     *)
(* data clean and no as-of answer changes.                                    *)
(***************************************************************************)
EXTENDS StorageCleanup, FiniteSetTheorems, WellFoundedInduction, TLAPS

(***************************************************************************)
(* The inductive invariant.                                                  *)
(***************************************************************************)
RunRecs == [status: Statuses, rev: Nat, expired: BOOLEAN, conts: 0..MaxContinuations,
            target: 1..5, after: Refs, version: Nat, pending: BOOLEAN,
            bad: BOOLEAN, counts: [Sources -> Nat], seen: Audited \cup {<<>>}]

PageRecs == [at: {"idle", "prepared", "applied"}, run: Runs \cup {NoRun}, rev: Nat,
             target: 1..5, after: Refs, version: Nat, next: Refs, last: BOOLEAN, bad: BOOLEAN]

SessionRecs == [status: Statuses, conts: 0..MaxContinuations, expired: BOOLEAN,
                run: Runs \cup {NoRun}, rev: Nat, after: Refs, prior: Refs]

PlanRecs == [at: {"idle", "planned", "done"}, run: Runs \cup {NoRun}, rev: Nat,
             retain: [Sources -> Refs], after: Refs, prior: Refs, last: BOOLEAN]

CleanupTypeOK ==
    /\ revision \in Nat
    /\ run \in [Runs -> RunRecs]
    /\ pages \in [Steppers -> PageRecs]
    /\ session \in SessionRecs
    /\ plans \in [Executors -> PlanRecs]

(* What a source points at, and what an importer is about to point it at,    *)
(* tells what the source tells.                                              *)
FactsKept ==
    /\ \A s \in Sources : obs[s] # NoSource => fact[obs[s]] = fact[s]
    /\ \A i \in Importers : imports[i].at \in {"insert", "observe"} =>
            fact[imports[i].target] = fact[imports[i].source]

(* Pages and batches belong to runs that were started, and a run past its    *)
(* last target waits for its verdict.                                        *)
Bound ==
    /\ \A k \in Steppers : pages[k].at # "idle" =>
            pages[k].run \in Runs /\ run[pages[k].run].status # "none"
    /\ \A e \in Executors : plans[e].at = "planned" => plans[e].run \in Runs
    /\ \A r \in Runs : run[r].status = "running" /\ ~ run[r].pending => run[r].target <= 4

(* No run is ahead of the revision.                                          *)
Fence ==
    /\ \A r \in Runs : run[r].rev <= revision
    /\ FenceHolds

(* A live audit has counted what its pages have walked over, and has found   *)
(* every anomaly there.                                                      *)
Behind(c, t, s) == c.target > t \/ (c.target = t /\ s <= c.after)

CountOf(c, s) ==
    (IF s \in rows /\ Behind(c, 1, s) THEN 1 ELSE 0)
        + (IF CountsAlone(s) /\ Behind(c, 2, s) THEN 1 ELSE 0)

Thorough(c) ==
    /\ \A s \in Sources : c.counts[s] = CountOf(c, s)
    /\ ~ c.bad => /\ \A s \in Complete : Behind(c, 3, s) => c.counts[s] = 1
                  /\ \A s \in Sources : obs[s] # NoSource /\ Behind(c, 4, s) => obs[s] \in rows

AuditInv == \A r \in Runs : run[r].status = "running" /\ Live(r) => Thorough(run[r])

(* A prepared page that no other step got ahead of still describes the data, *)
(* as long as its audit is live.                                             *)
Sound(p, c) ==
    /\ p.target = c.target /\ p.after = c.after /\ p.target <= 4
    /\ p.last => \A s \in Items(p.target) : p.after < s => s <= p.next
    /\ ~ p.last => p.after < p.next
    /\ ~ p.bad => \A s \in Items(p.target) :
                        p.after < s /\ s <= p.next => ~ Anomaly(p.target, c.counts, s)

PagesInv ==
    \A k \in Steppers :
        pages[k].at = "prepared" /\ run[pages[k].run].status = "running" =>
            /\ pages[k].version <= run[pages[k].run].version
            /\ pages[k].version = run[pages[k].run].version /\ Live(pages[k].run)
                    => Sound(pages[k], run[pages[k].run])

WalkInv == Bound /\ Fence /\ AuditInv /\ PagesInv /\ AuthorizedMeansClean

(***************************************************************************)
(* Finite sets of sources.                                                   *)
(***************************************************************************)
LEMMA SourcesKnown ==
  /\ NoSource = 0 /\ NoSource \notin Sources /\ Sources \subseteq Nat /\ Refs \subseteq Nat
  /\ IsFiniteSet(Sources) /\ Sources \subseteq Refs /\ NoSource \in Refs
  /\ \A s \in Sources : s > 0
  /\ Legacy \subseteq Sources
BY SourcesAssumption DEF NoSource, Refs

LEMMA LimitsKnown ==
  /\ PageSize \in Nat /\ BatchLimit \in Nat /\ MaxContinuations \in Nat
  /\ PageSize > 0 /\ BatchLimit > 0 /\ MaxContinuations > 0 /\ NoRun \notin Runs
  /\ MaxMishaps \in Nat
BY CleanupAssumption, SourcesAssumption

\* A nonempty set of sources has a first and a last one.
LEMMA EndsExist ==
  ASSUME NEW S \in SUBSET Sources, S # {}
  PROVE  /\ \E m \in S : \A o \in S : m <= o
         /\ \E m \in S : \A o \in S : o <= m
<1> DEFINE HasEnds(X) == /\ \E m \in X : \A o \in X : m <= o
                         /\ \E m \in X : \A o \in X : o <= m
           Bad == {X \in FiniteSubsetsOf(S) : X # {} /\ ~ HasEnds(X)}
<1>0. S \subseteq Nat /\ IsFiniteSet(S) BY SourcesKnown, FS_Subset
<1>1. SUFFICES ASSUME Bad # {} PROVE FALSE
  <2>1. S \in FiniteSubsetsOf(S) BY <1>0 DEF FiniteSubsetsOf
  <2> QED BY <1>1, <2>1
<1>2. IsWellFoundedOn(StrictSubsetOrdering(S), FiniteSubsetsOf(S))
  BY FS_StrictSubsetOrderingWellFounded
<1>3. Bad \subseteq FiniteSubsetsOf(S) OBVIOUS
<1> HIDE DEF Bad
<1>4. PICK X \in Bad : \A Y \in Bad : ~ (<<Y, X>> \in StrictSubsetOrdering(S))
  BY <1>1, <1>2, <1>3, WFMin
<1> USE DEF Bad
<1>5. X \subseteq S /\ IsFiniteSet(X) /\ X # {} /\ ~ HasEnds(X) BY <1>4 DEF FiniteSubsetsOf
<1>6. PICK x \in X : TRUE BY <1>5
<1> DEFINE Y == X \ {x}
<1>7. Y \in FiniteSubsetsOf(S) /\ Y # X
  <2>1. IsFiniteSet(Y) BY <1>5, FS_Subset
  <2> QED BY <1>5, <1>6, <2>1 DEF FiniteSubsetsOf
<1>8. <<Y, X>> \in StrictSubsetOrdering(S)
  BY <1>5, <1>7 DEF StrictSubsetOrdering, FiniteSubsetsOf
<1>9. Y = {} \/ HasEnds(Y) BY <1>4, <1>7, <1>8
<1>10. X \subseteq Nat BY <1>0, <1>5
<1>11. CASE Y = {}
  <2>1. X = {x} BY <1>11, <1>6
  <2> QED BY <1>5, <1>10, <2>1
<1>12. CASE HasEnds(Y)
  <2>1. PICK m \in Y : \A o \in Y : m <= o BY <1>12
  <2>2. PICK n \in Y : \A o \in Y : o <= n BY <1>12
  <2>3. \A o \in X : o = x \/ o \in Y OBVIOUS
  <2>4. m \in Nat /\ n \in Nat /\ x \in Nat /\ \A o \in X : o \in Nat BY <1>10, <1>6
  <2>5. \E a \in X : \A o \in X : a <= o
    <3>1. CASE m <= x BY <2>1, <2>3, <2>4, <3>1
    <3>2. CASE x <= m BY <1>6, <2>1, <2>3, <2>4, <3>2
    <3> QED BY <3>1, <3>2, <2>4
  <2>6. \E a \in X : \A o \in X : o <= a
    <3>1. CASE x <= n BY <2>2, <2>3, <2>4, <3>1
    <3>2. CASE n <= x BY <1>6, <2>2, <2>3, <2>4, <3>2
    <3> QED BY <3>1, <3>2, <2>4
  <2> QED BY <1>5, <2>5, <2>6
<1> QED BY <1>9, <1>11, <1>12

LEMMA LatestIsIn ==
  ASSUME NEW S \in SUBSET Sources, S # {}
  PROVE  LET e == CHOOSE s \in S : IsLatest(s, S)
         IN  e \in S /\ \A o \in S : o <= e
<1>1. \E s \in S : IsLatest(s, S) BY EndsExist DEF IsLatest
<1> QED BY <1>1 DEF IsLatest

\* A page holds what comes after its cursor up to its last element, and all of it
\* when it is not full.
LEMMA PageIsAnInterval ==
  ASSUME NEW S \in SUBSET Sources, NEW after \in Refs, NEW n \in Nat, n > 0
  PROVE  LET page == PageOf(S, after, n)
         IN  /\ page \subseteq S
             /\ \A s \in page : after < s
             /\ \A x \in page : \A s \in S : after < s /\ s <= x => s \in page
             /\ Cardinality(page) < n => \A s \in S : after < s => s \in page
             /\ page = {} => Cardinality(page) < n
<1> DEFINE page == PageOf(S, after, n)
           Before(s) == {o \in S : after < o /\ o < s}
<1>1. S \subseteq Nat /\ IsFiniteSet(S) /\ after \in Nat BY SourcesKnown, FS_Subset
<1>2. \A X \in SUBSET S : IsFiniteSet(X) /\ Cardinality(X) \in Nat
  BY <1>1, FS_Subset, FS_CardinalityType
<1>3. page \subseteq S /\ \A s \in page : after < s BY <1>1 DEF PageOf
<1>4. ASSUME NEW x \in page, NEW s \in S, after < s, s <= x PROVE s \in page
  <2>0. x \in Nat /\ s \in Nat BY <1>1, <1>3, <1>4
  <2>1. Before(s) \subseteq Before(x)
    <3>1. \A o \in S : o < s => o < x BY <1>1, <1>4, <2>0
    <3> QED BY <3>1
  <2>2. Cardinality(Before(s)) <= Cardinality(Before(x)) BY <2>1, <1>2, FS_Subset
  <2>3. Cardinality(Before(x)) < n BY DEF PageOf
  <2>4. Cardinality(Before(s)) < n BY <2>2, <2>3, <1>2
  <2> QED BY <2>4, <1>4, <1>1 DEF PageOf
<1>5. ASSUME Cardinality(page) < n, NEW s \in S, after < s, s \notin page PROVE FALSE
  <2> DEFINE Out == {o \in S : after < o /\ o \notin page}
  <2>1. Out \in SUBSET Sources /\ Out # {} BY <1>5, <1>1
  <2>2. PICK m \in Out : \A o \in Out : m <= o BY <2>1, EndsExist
  <2>3. Before(m) \subseteq page
    <3>1. ASSUME NEW o \in Before(m), o \notin page PROVE FALSE
      <4>1. o \in Out /\ o < m BY <3>1
      <4>2. m <= o /\ m \in Nat /\ o \in Nat BY <2>2, <4>1, <1>1
      <4> QED BY <4>1, <4>2
    <3> QED BY <3>1
  <2>4. Cardinality(Before(m)) <= Cardinality(page) BY <2>3, <1>2, <1>3, FS_Subset
  <2>5. Cardinality(Before(m)) < n BY <2>4, <1>5, <1>2, <1>3
  <2> QED BY <2>2, <2>5, <1>1 DEF PageOf
<1>6. page = {} => Cardinality(page) < n BY FS_EmptySet
<1> QED BY <1>3, <1>4, <1>5, <1>6

\* The row kept for a scanned one is a source, the row itself at the latest.
LEMMA RetainedIsASource ==
  ASSUME NEW page \in SUBSET Sources, NEW prior \in Refs, NEW d \in page
  PROVE  Retained(page, prior, d) \in Refs
<1> DEFINE same(x) == sync[x] = "complete" /\ fact[x] = fact[d]
           heads == {e \in page \cup ({prior} \ {NoSource}) :
                       /\ e <= d /\ fact[e] = fact[d] /\ (e = prior \/ same(e))
                       /\ \A x \in page : e < x /\ x <= d => same(x)}
<1>1. CASE sync[d] # "complete" BY <1>1, SourcesKnown DEF Retained
<1>2. CASE sync[d] = "complete"
  <2>1. d \in Nat /\ page \subseteq Nat BY SourcesKnown
  <2>2. d \in heads BY <1>2, <2>1
  <2>3. heads \in SUBSET Sources BY SourcesKnown DEF Refs
  <2>4. PICK m \in heads : \A o \in heads : m <= o BY <2>2, <2>3, EndsExist
  <2>5. (CHOOSE e \in heads : \A o \in heads : e <= o) \in heads BY <2>4
  <2>6. Retained(page, prior, d) = CHOOSE e \in heads : \A o \in heads : e <= o
    BY <1>2 DEF Retained
  <2> QED BY <2>3, <2>5, <2>6, SourcesKnown
<1> QED BY <1>1, <1>2

(***************************************************************************)
(* The promotion keeps what its variables range over, and what observations  *)
(* tell.                                                                     *)
(***************************************************************************)
StoreInv == StoreTypeOK /\ FactsKept

ImportRecs == [at: Steps, source: Refs, target: Refs]

LEMMA InitStoreInv == StoreInit => StoreInv
BY SourcesKnown, LimitsKnown DEF StoreInit, StoreInv, StoreTypeOK, FactsKept, Idle, Steps

LEMMA ImporterMoves ==
  ASSUME StoreTypeOK, FactsKept, NEW i \in Importers, imports[i].source \in Sources,
         NEW at \in {"insert", "observe"}, NEW t \in Sources, fact[t] = fact[imports[i].source],
         imports' = [imports EXCEPT ![i].at = at, ![i].target = t],
         UNCHANGED <<fact, normalized, rows, obs, sync, mishaps>>
  PROVE  StoreInv'
<1>1. imports' \in [Importers -> ImportRecs]
  <2>1. imports \in [Importers -> ImportRecs] BY DEF StoreTypeOK, ImportRecs
  <2>2. [imports[i] EXCEPT !.at = at, !.target = t] \in ImportRecs
    BY <2>1, SourcesKnown DEF ImportRecs, Steps
  <2>3. imports' = [imports EXCEPT ![i] = [imports[i] EXCEPT !.at = at, !.target = t]]
    BY <2>1 DEF ImportRecs
  <2> QED BY <2>1, <2>2, <2>3
<1>2. /\ \A j \in Importers : imports'[j].at # "idle" => imports'[j].source \in Sources
      /\ \A j \in Importers : imports'[j].at \in {"insert", "observe"} =>
              /\ imports'[j].target \in Sources
              /\ fact[imports'[j].target] = fact[imports'[j].source]
  BY DEF StoreTypeOK, FactsKept
<1> QED BY <1>1, <1>2 DEF StoreInv, StoreTypeOK, FactsKept, ImportRecs

LEMMA ImportKeepsStore ==
  ASSUME StoreInv, NEW i \in Importers,
         ImportReads(i) \/ InsertRow(i) \/ Observe(i) \/ MarkSource(i)
  PROVE  StoreInv'
<1> DEFINE s == imports[i].source
           target == imports[i].target
<1> USE DEF Steps
<1>1. StoreTypeOK /\ FactsKept BY DEF StoreInv
<1>2. imports[i] \in ImportRecs /\ s \in Refs /\ target \in Refs /\ s = imports[i].source
  BY <1>1 DEF StoreTypeOK, ImportRecs
<1>3. imports[i].at # "idle" => s \in Sources BY <1>1 DEF StoreTypeOK
<1>4. imports[i].at \in {"insert", "observe"} => target \in Sources /\ fact[target] = fact[s]
  BY <1>1 DEF StoreTypeOK, FactsKept
<1>5. CASE Pick(i)
  BY <1>1, <1>2, <1>5, SourcesKnown DEF Pick, StoreInv, StoreTypeOK, FactsKept
<1>6. CASE Look(i)
  <2>1. PICK at \in {"insert", "observe"}, t \in rows \cup {s} :
          imports' = [imports EXCEPT ![i].at = at, ![i].target = t] /\ fact[t] = fact[s]
    BY <1>6 DEF Look
  <2>2. s \in Sources /\ t \in Sources BY <1>6, <1>1, <1>3, <2>1 DEF Look, StoreTypeOK
  <2>3. UNCHANGED <<fact, normalized, rows, obs, sync, mishaps>> BY <1>6 DEF Look
  <2> QED BY <1>1, <2>1, <2>2, <2>3, ImporterMoves
<1>7. CASE InsertRow(i)
  BY <1>1, <1>2, <1>3, <1>4, <1>7, SourcesKnown DEF InsertRow, StoreInv, StoreTypeOK, FactsKept
<1>8. CASE Observe(i)
  <2>1. s \in Sources /\ target \in Sources /\ fact[target] = fact[s]
    BY <1>3, <1>4, <1>8 DEF Observe
  <2>2. PICK at \in {"verify", "failed"} : imports' = [imports EXCEPT ![i].at = at]
    BY <1>8 DEF Observe
  <2>3. obs' = obs \/ obs' = [obs EXCEPT ![s] = target] BY <1>8 DEF Observe
  <2>4. UNCHANGED <<fact, normalized, rows, sync, mishaps>> BY <1>8 DEF Observe
  <2>5. obs' \in [Sources -> Refs] BY <1>1, <2>1, <2>3, SourcesKnown DEF StoreTypeOK
  <2>6. \A x \in Sources : obs'[x] # NoSource => fact[obs'[x]] = fact[x]
    BY <1>1, <2>1, <2>3 DEF StoreTypeOK, FactsKept
  <2>7. /\ \A j \in Importers : imports'[j].at # "idle" => imports'[j].source \in Sources
        /\ \A j \in Importers : imports'[j].at \in {"insert", "observe"} =>
                /\ imports'[j].target \in Sources
                /\ fact[imports'[j].target] = fact[imports'[j].source]
    BY <1>1, <2>1, <2>2 DEF StoreTypeOK, FactsKept
  <2>8. imports' \in [Importers -> ImportRecs]
    BY <1>1, <2>2 DEF StoreTypeOK, ImportRecs
  <2> QED BY <1>1, <2>4, <2>5, <2>6, <2>7, <2>8 DEF StoreInv, StoreTypeOK, FactsKept, ImportRecs
<1>9. CASE Verify(i)
  <2>1. PICK at \in {"complete", "failed"} : imports' = [imports EXCEPT ![i].at = at]
    BY <1>9 DEF Verify
  <2> QED BY <1>1, <1>2, <1>3, <1>9, <2>1 DEF Verify, StoreInv, StoreTypeOK, FactsKept
<1>10. CASE MarkSource(i)
  BY <1>1, <1>2, <1>3, <1>10, SourcesKnown
     DEF MarkSource, Idle, StoreInv, StoreTypeOK, FactsKept
<1>11. CASE ImportFails(i)
  BY <1>1, <1>2, <1>3, <1>11, LimitsKnown DEF ImportFails, StoreInv, StoreTypeOK, FactsKept
<1>12. CASE ImportCut(i)
  BY <1>1, <1>2, <1>12, SourcesKnown, LimitsKnown
     DEF ImportCut, Idle, StoreInv, StoreTypeOK, FactsKept
<1> QED BY <1>5, <1>6, <1>7, <1>8, <1>9, <1>10, <1>11, <1>12 DEF ImportReads

LEMMA CaptureKeepsStore ==
  ASSUME StoreInv, NEW s \in Sources, Normalize(s)
  PROVE  StoreInv'
BY DEF Normalize, StoreInv, StoreTypeOK, FactsKept

(***************************************************************************)
(* A batch.                                                                  *)
(***************************************************************************)
\* Where the observations of a batch point: at rows that stay, which tell the same.
LEMMA RewiredTells ==
  ASSUME StoreInv, NEW p \in PlanRecs, \A d \in Removed(p) : Deletable(p, d)
  PROVE  /\ Rewired(p) \in [Sources -> Refs]
         /\ Removed(p) \subseteq rows
         /\ \A s \in Sources :
               \/ /\ s \notin Removed(p) /\ obs[s] \notin Removed(p) /\ Rewired(p)[s] = obs[s]
               \/ /\ s \in Removed(p) \/ obs[s] \in Removed(p)
                  /\ Rewired(p)[s] \in rows \ Removed(p)
                  /\ fact[Rewired(p)[s]] = fact[s]
               \/ /\ s \in Removed(p) /\ obs[s] \in Sources \ Removed(p)
                  /\ Rewired(p)[s] = obs[s]
<1>1. StoreTypeOK /\ FactsKept /\ p.retain \in [Sources -> Refs]
  BY DEF StoreInv, PlanRecs
<1>2. obs \in [Sources -> Refs] /\ rows \subseteq Sources BY <1>1 DEF StoreTypeOK
<1>3. \A s \in Sources :
        Rewired(p)[s] = IF obs[s] = NoSource THEN p.retain[s]
                        ELSE IF obs[s] \in Removed(p) THEN p.retain[obs[s]] ELSE obs[s]
  BY DEF Rewired
<1>4. Removed(p) \subseteq Sources BY DEF Removed
<1>5. Rewired(p) \in [Sources -> Refs] BY <1>1, <1>2, <1>4 DEF Rewired
<1>6. \A d \in Removed(p) :
        /\ d \in rows /\ p.retain[d] \in rows /\ fact[p.retain[d]] = fact[d]
        /\ \A s \in Sources : Rewired(p)[s] # d
  BY DEF Deletable
<1>7. ASSUME NEW s \in Sources
      PROVE  \/ /\ s \notin Removed(p) /\ obs[s] \notin Removed(p) /\ Rewired(p)[s] = obs[s]
             \/ /\ s \in Removed(p) \/ obs[s] \in Removed(p)
                /\ Rewired(p)[s] \in rows \ Removed(p)
                /\ fact[Rewired(p)[s]] = fact[s]
             \/ /\ s \in Removed(p) /\ obs[s] \in Sources \ Removed(p)
                /\ Rewired(p)[s] = obs[s]
  <2>1. CASE obs[s] = NoSource
    <3>1. Rewired(p)[s] = p.retain[s] BY <1>3, <2>1
    <3>2. CASE s \in Removed(p) BY <1>6, <3>1, <3>2
    <3>3. CASE s \notin Removed(p)
      <4>1. p.retain[s] = NoSource BY <3>3 DEF Removed
      <4> QED BY <2>1, <3>1, <3>3, <4>1, <1>4, SourcesKnown
    <3> QED BY <3>2, <3>3
  <2>2. CASE obs[s] # NoSource
    <3>1. obs[s] \in Sources BY <1>2, <2>2 DEF Refs
    <3>2. CASE obs[s] \in Removed(p)
      <4>1. Rewired(p)[s] = p.retain[obs[s]] BY <1>3, <2>2, <3>2
      <4>2. fact[obs[s]] = fact[s] BY <1>1, <2>2 DEF FactsKept
      <4>3. Rewired(p)[s] \in rows /\ fact[Rewired(p)[s]] = fact[s]
        BY <1>6, <3>2, <4>1, <4>2
      <4>4. Rewired(p)[s] \notin Removed(p) BY <1>6
      <4> QED BY <3>2, <4>3, <4>4
    <3>3. CASE obs[s] \notin Removed(p)
      <4>1. Rewired(p)[s] = obs[s] BY <1>3, <2>2, <3>3
      <4> QED BY <3>1, <3>3, <4>1
    <3> QED BY <3>2, <3>3
  <2> QED BY <2>1, <2>2
<1> QED BY <1>5, <1>6, <1>7

LEMMA BatchKeepsStore ==
  ASSUME StoreInv, CleanupTypeOK, NEW e \in Executors, ExecuteBatch(e)
  PROVE  StoreInv'
<1> DEFINE p == plans[e]
<1>1. StoreTypeOK /\ FactsKept BY DEF StoreInv
<1>2. p \in PlanRecs BY DEF CleanupTypeOK
<1>3. UNCHANGED <<fact, normalized, sync, imports, mishaps>> BY DEF ExecuteBatch
<1>4. CASE UNCHANGED <<rows, obs>>
  BY <1>1, <1>3, <1>4 DEF StoreInv, StoreTypeOK, FactsKept
<1>5. CASE /\ \A d \in Removed(p) : Deletable(p, d)
           /\ rows' = rows \ Removed(p)
           /\ obs' = Rewired(p)
  <2> HIDE DEF p
  <2>1. obs' \in [Sources -> Refs] BY <1>2, <1>5, RewiredTells
  <2>2. \A s \in Sources : obs'[s] # NoSource => fact[obs'[s]] = fact[s]
    <3> TAKE s \in Sources
    <3> QED BY <1>1, <1>2, <1>5, RewiredTells DEF FactsKept
  <2>3. rows' \in SUBSET Sources BY <1>1, <1>5 DEF StoreTypeOK
  <2> QED BY <1>1, <1>3, <2>1, <2>2, <2>3 DEF StoreInv, StoreTypeOK, FactsKept
<1> QED BY <1>4, <1>5 DEF ExecuteBatch

(***************************************************************************)
(* What the variables of the cleanup range over.                             *)
(***************************************************************************)
LEMMA FirstContinuation == 0 \in 0..MaxContinuations /\ 1 \in 0..MaxContinuations
BY LimitsKnown

LEMMA Records ==
  /\ NewRun \in RunRecs /\ Ended \in RunRecs
  /\ NoPage \in PageRecs /\ NoPlan \in PlanRecs
  /\ NewSession \in SessionRecs /\ EndedSession \in SessionRecs
  /\ [NewSession EXCEPT !.status = "running", !.conts = 1] \in SessionRecs
  /\ \A c \in RunRecs : Passed(c) \in RunRecs
<1>1. NewRun \in RunRecs BY SourcesKnown, FirstContinuation DEF NewRun, RunRecs, Statuses
<1>2. Ended \in RunRecs BY <1>1 DEF Ended, RunRecs, Statuses
<1>3. NoPage \in PageRecs BY SourcesKnown DEF NoPage, PageRecs
<1>4. NoPlan \in PlanRecs BY SourcesKnown DEF NoPlan, PlanRecs
<1>5. NewSession \in SessionRecs
  BY SourcesKnown, FirstContinuation DEF NewSession, SessionRecs, Statuses
<1>6. EndedSession \in SessionRecs BY <1>5 DEF EndedSession, SessionRecs, Statuses
<1>7. [NewSession EXCEPT !.status = "running", !.conts = 1] \in SessionRecs
  BY <1>5, FirstContinuation DEF SessionRecs, Statuses
<1>8. ASSUME NEW c \in RunRecs PROVE Passed(c) \in RunRecs
  BY <1>1 DEF Passed, RunRecs, Statuses
<1> QED BY <1>1, <1>2, <1>3, <1>4, <1>5, <1>6, <1>7, <1>8

LEMMA InitCleanupType == Init => CleanupTypeOK
BY Records DEF Init, CleanupTypeOK

LEMMA DataAudited == StoreTypeOK => data \in Audited
BY DEF StoreTypeOK, data, Audited

LEMMA ItemsAre ==
  /\ Items(1) = rows
  /\ Items(2) = {s \in Sources : obs[s] # NoSource}
  /\ Items(3) = Complete
  /\ Items(4) = {s \in Sources : obs[s] # NoSource}
BY DEF Items, Targets

LEMMA ItemsAreSources == StoreTypeOK => \A t \in 1..4 : Items(t) \subseteq Sources
<1> SUFFICES ASSUME StoreTypeOK, NEW t \in 1..4 PROVE Items(t) \subseteq Sources
  OBVIOUS
<1>1. rows \subseteq Sources BY DEF StoreTypeOK
<1>2. t = 1 \/ t = 2 \/ t = 3 \/ t = 4 OBVIOUS
<1> QED BY <1>1, <1>2, ItemsAre DEF Complete

\* The audit.
LEMMA AuditTypes ==
  ASSUME StoreTypeOK, CleanupTypeOK, Bound, NEW r \in Runs,
         RunExpires(r) \/ StartAudit(r) \/ ResumeAudit(r) \/ AuditCostStop(r) \/ BindAudit(r)
  PROVE  CleanupTypeOK'
<1> DEFINE c == run[r]
<1>1. c \in RunRecs /\ run \in [Runs -> RunRecs] BY DEF CleanupTypeOK
<1>2. CASE RunExpires(r)
  <2>1. [c EXCEPT !.expired = TRUE] \in RunRecs BY <1>1 DEF RunRecs
  <2>2. run' = [run EXCEPT ![r] = [c EXCEPT !.expired = TRUE]] BY <1>1, <1>2 DEF RunExpires
  <2> QED BY <1>1, <1>2, <2>1, <2>2 DEF CleanupTypeOK, RunExpires
<1>3. CASE StartAudit(r)
  <2> DEFINE new == [NewRun EXCEPT !.status = "running", !.rev = revision, !.conts = 1,
                                   !.seen = data]
  <2>1. new \in RunRecs
    <3>1. revision \in Nat /\ data \in Audited \cup {<<>>} BY DataAudited DEF CleanupTypeOK
    <3> QED BY <3>1, Records, FirstContinuation DEF RunRecs, Statuses
  <2> HIDE DEF new
  <2>2. run' = [run EXCEPT ![r] = new] BY <1>3 DEF StartAudit, new
  <2> QED BY <1>1, <1>3, <2>1, <2>2 DEF CleanupTypeOK, StartAudit
<1>4. CASE ResumeAudit(r)
  <2> DEFINE v == IF c.conts >= MaxContinuations THEN Ended ELSE [c EXCEPT !.conts = @ + 1]
  <2>1. v \in RunRecs
    <3>1. c.conts \in 0..MaxContinuations BY <1>1 DEF RunRecs
    <3>2. CASE c.conts >= MaxContinuations BY <3>2, Records
    <3>3. CASE ~ (c.conts >= MaxContinuations)
      <4>1. c.conts + 1 \in 0..MaxContinuations BY <3>1, <3>3, LimitsKnown
      <4>2. [c EXCEPT !.conts = @ + 1] \in RunRecs BY <1>1, <4>1 DEF RunRecs
      <4> QED BY <3>3, <4>2
    <3> QED BY <3>2, <3>3
  <2>2. run' = [run EXCEPT ![r] = Ended] \/ run' = [run EXCEPT ![r] = v] BY <1>4 DEF ResumeAudit
  <2> HIDE DEF v
  <2> QED BY <1>1, <1>4, <2>1, <2>2, Records DEF CleanupTypeOK, ResumeAudit
<1>5. CASE AuditCostStop(r) BY <1>1, <1>5, Records DEF CleanupTypeOK, AuditCostStop
<1>6. CASE BindAudit(r)
  <2>1. [session EXCEPT !.run = r, !.rev = revision] \in SessionRecs
    BY DEF CleanupTypeOK, SessionRecs
  <2> QED BY <1>1, <1>6, <2>1, Records DEF CleanupTypeOK, BindAudit
<1> QED BY <1>2, <1>3, <1>4, <1>5, <1>6

\* The pages of an audit.
LEMMA PreparedPage ==
  ASSUME StoreTypeOK, CleanupTypeOK, Bound, NEW k \in Steppers, NEW r \in Runs,
         PreparePage(k, r)
  PROVE  /\ pages[k].at = "idle" /\ run[r].status = "running"
         /\ UNCHANGED <<storeVars, revision, session, plans>>
         /\ \/ run' = [run EXCEPT ![r] = Ended] /\ UNCHANGED pages
            \/ \E page \in PageRecs :
                  /\ pages' = [pages EXCEPT ![k] = page] /\ UNCHANGED run
                  /\ page.at = "prepared" /\ page.run = r /\ page.version = run[r].version
                  /\ run[r].target <= 4 /\ ~ run[r].expired /\ run[r].rev = revision
                  /\ Sound(page, run[r])
<1> DEFINE c == run[r]
           S == Items(c.target)
           page == PageOf(S, c.after, PageSize)
           new == [at |-> "prepared", run |-> r, rev |-> c.rev, target |-> c.target,
                   after |-> c.after, version |-> c.version,
                   next |-> IF page = {} THEN NoSource ELSE CHOOSE s \in page : IsLatest(s, page),
                   last |-> Cardinality(page) < PageSize,
                   bad |-> \E s \in page : Anomaly(c.target, c.counts, s)]
<1>1. c \in RunRecs /\ run[r].status = "running" /\ pages[k].at = "idle"
  BY DEF PreparePage, CleanupTypeOK
<1>2. UNCHANGED <<storeVars, revision, session, plans>> BY DEF PreparePage
<1>3. CASE run' = [run EXCEPT ![r] = Ended] /\ UNCHANGED pages BY <1>1, <1>2, <1>3
<1>4. CASE /\ ~ c.expired /\ c.rev = revision /\ ~ c.pending
           /\ pages' = [pages EXCEPT ![k] = new] /\ UNCHANGED run
  <2>1. c.target \in 1..4 /\ c.after \in Refs BY <1>1, <1>4 DEF Bound, RunRecs
  <2>2. S \in SUBSET Sources BY <2>1, ItemsAreSources
  <2> HIDE DEF S
  <2>3. /\ page \subseteq S
        /\ \A s \in page : c.after < s
        /\ \A x \in page : \A s \in S : c.after < s /\ s <= x => s \in page
        /\ Cardinality(page) < PageSize => \A s \in S : c.after < s => s \in page
        /\ page = {} => Cardinality(page) < PageSize
    BY <2>1, <2>2, LimitsKnown, PageIsAnInterval
  <2> HIDE DEF page
  <2>4. page # {} => new.next \in page /\ \A o \in page : o <= new.next
    BY <2>2, <2>3, LatestIsIn
  <2>5. page = {} => new.next = NoSource OBVIOUS
  <2>6. new.next \in Refs BY <2>2, <2>3, <2>4, <2>5, SourcesKnown
  <2>7. /\ new.at = "prepared" /\ new.run = r /\ new.version = c.version
        /\ new.target = c.target /\ new.after = c.after /\ new.rev = c.rev
        /\ new.last = (Cardinality(page) < PageSize)
        /\ new.bad = \E s \in page : Anomaly(c.target, c.counts, s)
    OBVIOUS
  <2>8. new.last \in BOOLEAN /\ new.bad \in BOOLEAN OBVIOUS
  <2>9. c.rev \in Nat /\ c.version \in Nat /\ c.target \in 1..5 BY <1>1 DEF RunRecs
  <2>10. new \in PageRecs
    <3>1. /\ c.rev \in Nat /\ c.version \in Nat /\ c.target \in 1..5 /\ c.after \in Refs
          /\ r \in Runs
      BY <2>9, <2>1
    <3> HIDE DEF c
    <3>2. (Cardinality(page) < PageSize) \in BOOLEAN OBVIOUS
    <3>3. (\E s \in page : Anomaly(c.target, c.counts, s)) \in BOOLEAN OBVIOUS
    <3> QED BY <2>6, <3>1, <3>2, <3>3 DEF PageRecs
  <2> HIDE DEF new
  <2>11. Sound(new, c)
    <3>1. new.last => \A s \in S : new.after < s => s <= new.next
      BY <2>3, <2>4, <2>7
    <3>2. ~ new.last => new.after < new.next BY <2>3, <2>4, <2>7
    <3>3. ~ new.bad => \A s \in S : new.after < s /\ s <= new.next
                                       => ~ Anomaly(new.target, c.counts, s)
      <4>1. CASE page = {}
        <5>1. \A s \in S : s > 0 /\ s \in Nat BY <2>2, SourcesKnown
        <5> QED BY <4>1, <5>1, <2>5, SourcesKnown
      <4>2. CASE page # {} BY <4>2, <2>3, <2>4, <2>7
      <4> QED BY <4>1, <4>2
    <3> QED BY <2>1, <2>7, <3>1, <3>2, <3>3 DEF Sound, S
  <2>12. /\ pages' = [pages EXCEPT ![k] = new] /\ UNCHANGED run
         /\ new.at = "prepared" /\ new.run = r /\ new.version = run[r].version
         /\ run[r].target <= 4 /\ ~ run[r].expired /\ run[r].rev = revision
         /\ Sound(new, run[r])
    BY <1>4, <2>1, <2>7, <2>11
  <2>13. \E q \in PageRecs :
            /\ pages' = [pages EXCEPT ![k] = q] /\ UNCHANGED run
            /\ q.at = "prepared" /\ q.run = r /\ q.version = run[r].version
            /\ run[r].target <= 4 /\ ~ run[r].expired /\ run[r].rev = revision
            /\ Sound(q, run[r])
    BY <2>10, <2>12
  <2> HIDE DEF c
  <2> QED BY <1>1, <1>2, <2>13
<1> QED BY <1>3, <1>4 DEF PreparePage

\* What a page makes of its run: the page fitted, or at most the run ended.
Walked(c, p) ==
    [c EXCEPT !.target = IF p.last THEN @ + 1 ELSE @,
              !.after = IF p.last THEN NoSource ELSE p.next,
              !.version = @ + 1,
              !.pending = TRUE,
              !.bad = @ \/ p.bad,
              !.counts = [s \in Sources |-> @[s] + IF Counted(p, s) THEN 1 ELSE 0]]

LEMMA AppliedPage ==
  ASSUME StoreTypeOK, CleanupTypeOK, Bound, NEW k \in Steppers, ApplyPage(k)
  PROVE  LET p == pages[k]
             c == run[p.run]
         IN  /\ p.at = "prepared" /\ p.run \in Runs
             /\ UNCHANGED <<storeVars, revision, session, plans>>
             /\ \/ /\ c.status = "running" /\ c.rev = revision /\ ~ c.pending
                   /\ c.version = p.version /\ c.target <= 4
                   /\ run' = [run EXCEPT ![p.run] = Walked(c, p)]
                   /\ pages' = [pages EXCEPT ![k].at = "applied"]
                \/ /\ run' = run \/ run' = [run EXCEPT ![p.run] = Ended]
                   /\ pages' = [pages EXCEPT ![k] = NoPage]
<1>1. pages[k].at = "prepared" BY DEF ApplyPage
<1>2. pages[k].run \in Runs BY <1>1 DEF Bound
<1>3. run[pages[k].run].status = "running" /\ ~ run[pages[k].run].pending
        => run[pages[k].run].target <= 4
  BY <1>2 DEF Bound
<1>4. UNCHANGED <<storeVars, revision, session, plans>> BY DEF ApplyPage
<1> QED BY <1>1, <1>2, <1>3, <1>4 DEF ApplyPage, Walked

LEMMA WalkedRec ==
  ASSUME NEW c \in RunRecs, NEW p \in PageRecs, c.target <= 4
  PROVE  /\ Walked(c, p) \in RunRecs
         /\ Walked(c, p).status = c.status /\ Walked(c, p).rev = c.rev
         /\ Walked(c, p).expired = c.expired /\ Walked(c, p).seen = c.seen
         /\ Walked(c, p).target = IF p.last THEN c.target + 1 ELSE c.target
         /\ Walked(c, p).after = IF p.last THEN NoSource ELSE p.next
         /\ Walked(c, p).version = c.version + 1
         /\ Walked(c, p).pending = TRUE
         /\ Walked(c, p).bad = (c.bad \/ p.bad)
         /\ \A s \in Sources :
               Walked(c, p).counts[s] = c.counts[s] + IF Counted(p, s) THEN 1 ELSE 0
<1> DEFINE w == Walked(c, p)
           counts == [s \in Sources |-> c.counts[s] + IF Counted(p, s) THEN 1 ELSE 0]
           bad == c.bad \/ p.bad
           target == IF p.last THEN c.target + 1 ELSE c.target
           after == IF p.last THEN NoSource ELSE p.next
<1>1. c.target \in 1..5 /\ c.counts \in [Sources -> Nat] /\ c.version \in Nat /\ p.next \in Refs
  BY DEF RunRecs, PageRecs
<1>2. counts \in [Sources -> Nat] BY <1>1
<1>3. bad \in BOOLEAN OBVIOUS
<1>4. target \in 1..5 BY <1>1
<1>5. after \in Refs BY <1>1, SourcesKnown
<1>6. c.version + 1 \in Nat BY <1>1
<1>7. w = [c EXCEPT !.target = target, !.after = after, !.version = c.version + 1,
                    !.pending = TRUE, !.bad = bad, !.counts = counts]
  BY DEF Walked
<1> HIDE DEF w, counts, bad, target, after
<1>8. w \in RunRecs BY <1>2, <1>3, <1>4, <1>5, <1>6, <1>7 DEF RunRecs
<1>9. /\ w.status = c.status /\ w.rev = c.rev /\ w.expired = c.expired /\ w.seen = c.seen
      /\ w.target = target /\ w.after = after /\ w.version = c.version + 1
      /\ w.pending = TRUE /\ w.bad = bad /\ w.counts = counts
  BY <1>7 DEF RunRecs
<1> QED BY <1>8, <1>9 DEF w, counts, bad, target, after

LEMMA SettledPage ==
  ASSUME CleanupTypeOK, Bound, NEW k \in Steppers, NEW reject \in BOOLEAN, SettlePage(k, reject)
  PROVE  LET p == pages[k]
             c == run[p.run]
         IN  /\ p.run \in Runs
             /\ UNCHANGED <<storeVars, revision, session, plans>>
             /\ pages' = [pages EXCEPT ![k] = NoPage]
             /\ \/ run' = run
                \/ run' = [run EXCEPT ![p.run] = Ended]
                \/ c.target <= 4 /\ run' = [run EXCEPT ![p.run] = [c EXCEPT !.pending = FALSE]]
                \/ /\ c.status = "running" /\ c.rev = revision /\ c.target = 5 /\ ~ c.bad
                   /\ run' = [run EXCEPT ![p.run] = Passed(c)]
<1> DEFINE p == pages[k]
           c == run[p.run]
           accepted == ~ reject /\ c.status = "running" /\ c.rev = revision
<1>1. p.run \in Runs BY DEF SettlePage, Bound
<1>2. c \in RunRecs /\ run \in [Runs -> RunRecs] BY <1>1 DEF CleanupTypeOK
<1>3. c.target \in 1..5 BY <1>2 DEF RunRecs
<1>4. run' = [run EXCEPT ![p.run] =
                CASE accepted /\ c.target <= 4 -> [c EXCEPT !.pending = FALSE]
                  [] accepted /\ c.target = 5 -> IF c.bad THEN Ended ELSE Passed(c)
                  [] reject /\ c.status = "running" -> Ended
                  [] ~ accepted /\ ~ reject /\ c.rev # revision
                        /\ c.status \in {"running", "complete"} -> Ended
                  [] OTHER -> c]
  BY DEF SettlePage
<1>5. CASE accepted /\ c.target <= 4
  <2> DEFINE open == [c EXCEPT !.pending = FALSE]
             passed == IF c.bad THEN Ended ELSE Passed(c)
             new == CASE accepted /\ c.target <= 4 -> open
                      [] accepted /\ c.target = 5 -> passed
                      [] reject /\ c.status = "running" -> Ended
                      [] ~ accepted /\ ~ reject /\ c.rev # revision
                            /\ c.status \in {"running", "complete"} -> Ended
                      [] OTHER -> c
  <2>0. run' = [run EXCEPT ![p.run] = new] BY <1>4
  <2>01. c.target # 5 /\ ~ (reject /\ c.status = "running") BY <1>3, <1>5
  <2> HIDE DEF open, passed
  <2>02. new = open BY <1>5, <2>01
  <2> HIDE DEF new
  <2>1. run' = [run EXCEPT ![p.run] = [c EXCEPT !.pending = FALSE]] BY <2>0, <2>02 DEF open
  <2> QED BY <1>1, <1>5, <2>1 DEF SettlePage
<1>6. CASE accepted /\ c.target = 5
  <2>1. run' = [run EXCEPT ![p.run] = IF c.bad THEN Ended ELSE Passed(c)] BY <1>4, <1>6
  <2> QED BY <1>1, <1>6, <2>1 DEF SettlePage
<1>7. CASE ~ accepted
  <2>1. run' = [run EXCEPT ![p.run] = Ended] \/ run' = [run EXCEPT ![p.run] = c]
    BY <1>4, <1>7
  <2>2. [run EXCEPT ![p.run] = c] = run BY <1>2
  <2> QED BY <1>1, <2>1, <2>2 DEF SettlePage
<1>8. (accepted /\ c.target <= 4) \/ (accepted /\ c.target = 5) \/ ~ accepted BY <1>3
<1> QED BY <1>5, <1>6, <1>7, <1>8

LEMMA PageTypes ==
  ASSUME StoreTypeOK, CleanupTypeOK, Bound, NEW k \in Steppers,
         \/ \E r \in Runs : PreparePage(k, r)
         \/ ApplyPage(k)
         \/ \E reject \in BOOLEAN : SettlePage(k, reject)
         \/ StepCut(k)
  PROVE  CleanupTypeOK'
<1> DEFINE p == pages[k]
           c == run[p.run]
<1>1. p \in PageRecs /\ run \in [Runs -> RunRecs] /\ pages \in [Steppers -> PageRecs]
  BY DEF CleanupTypeOK
<1>2. ASSUME NEW r \in Runs, PreparePage(k, r) PROVE CleanupTypeOK'
  BY <1>1, <1>2, PreparedPage, Records DEF CleanupTypeOK
<1>3. CASE ApplyPage(k)
  <2>1. [p EXCEPT !.at = "applied"] \in PageRecs BY <1>1 DEF PageRecs
  <2>2. pages' \in [Steppers -> PageRecs]
    <3>1. pages' = [pages EXCEPT ![k] = [p EXCEPT !.at = "applied"]]
            \/ pages' = [pages EXCEPT ![k] = NoPage]
      BY <1>3, AppliedPage
    <3> QED BY <1>1, <2>1, <3>1, Records
  <2>3. run' \in [Runs -> RunRecs]
    <3>1. p.run \in Runs /\ c \in RunRecs BY <1>1, <1>3, AppliedPage
    <3>2. \/ run' = run
          \/ run' = [run EXCEPT ![p.run] = Ended]
          \/ c.target <= 4 /\ run' = [run EXCEPT ![p.run] = Walked(c, p)]
      BY <1>3, AppliedPage
    <3>3. c.target <= 4 => Walked(c, p) \in RunRecs BY <1>1, <3>1, WalkedRec
    <3> QED BY <1>1, <3>1, <3>2, <3>3, Records
  <2>4. UNCHANGED <<storeVars, revision, session, plans>> BY <1>3, AppliedPage
  <2> QED BY <2>2, <2>3, <2>4 DEF CleanupTypeOK
<1>4. ASSUME NEW reject \in BOOLEAN, SettlePage(k, reject) PROVE CleanupTypeOK'
  <2>1. p.run \in Runs /\ c \in RunRecs BY <1>1, <1>4, SettledPage
  <2>2. [c EXCEPT !.pending = FALSE] \in RunRecs /\ Passed(c) \in RunRecs
    BY <2>1, Records DEF RunRecs
  <2>3. \/ run' = run
        \/ run' = [run EXCEPT ![p.run] = Ended]
        \/ run' = [run EXCEPT ![p.run] = [c EXCEPT !.pending = FALSE]]
        \/ run' = [run EXCEPT ![p.run] = Passed(c)]
    BY <1>4, SettledPage
  <2>4. run' \in [Runs -> RunRecs] BY <1>1, <2>1, <2>2, <2>3, Records
  <2>5. pages' = [pages EXCEPT ![k] = NoPage] /\ UNCHANGED <<storeVars, revision, session, plans>>
    BY <1>4, SettledPage
  <2> QED BY <1>1, <2>4, <2>5, Records DEF CleanupTypeOK
<1>5. CASE StepCut(k) BY <1>1, <1>5, Records DEF CleanupTypeOK, StepCut
<1> QED BY <1>2, <1>3, <1>4, <1>5

\* The session and its batches.
LEMMA PlanTypes ==
  ASSUME StoreTypeOK, CleanupTypeOK, NEW e \in Executors, Plan(e)
  PROVE  CleanupTypeOK'
<1>1. /\ run \in [Runs -> RunRecs] /\ session \in SessionRecs
      /\ plans \in [Executors -> PlanRecs] /\ revision \in Nat
  BY DEF CleanupTypeOK
<1>2. CASE /\ run' = [run EXCEPT ![session.run] = Ended]
           /\ UNCHANGED plans
  BY <1>1, <1>2, Records DEF CleanupTypeOK, Plan
<1>3. ASSUME NEW from \in {<<NoSource, NoSource>>, <<session.after, session.prior>>},
             LET page == PageOf(rows, from[1], BatchLimit)
                 end == IF page = {} THEN from[1] ELSE CHOOSE s \in page : IsLatest(s, page)
             IN  plans' = [plans EXCEPT ![e] =
                     [at |-> "planned", run |-> session.run, rev |-> revision,
                      retain |-> [d \in Sources |->
                         IF d \in page /\ Retained(page, from[2], d) # d
                         THEN Retained(page, from[2], d) ELSE NoSource],
                      after |-> end,
                      prior |-> IF page = {} THEN from[2] ELSE Retained(page, from[2], end),
                      last |-> \A s \in rows : s <= end]],
             UNCHANGED run
      PROVE  CleanupTypeOK'
  <2> DEFINE page == PageOf(rows, from[1], BatchLimit)
             end == IF page = {} THEN from[1] ELSE CHOOSE s \in page : IsLatest(s, page)
             retain == [d \in Sources |-> IF d \in page /\ Retained(page, from[2], d) # d
                                          THEN Retained(page, from[2], d) ELSE NoSource]
             prior == IF page = {} THEN from[2] ELSE Retained(page, from[2], end)
             last == \A s \in rows : s <= end
             new == [at |-> "planned", run |-> session.run, rev |-> revision, retain |-> retain,
                     after |-> end, prior |-> prior, last |-> last]
  <2>1. from[1] \in Refs /\ from[2] \in Refs BY <1>1, SourcesKnown DEF SessionRecs
  <2>2. rows \in SUBSET Sources BY DEF StoreTypeOK
  <2>3. page \in SUBSET Sources BY <2>1, <2>2, LimitsKnown, PageIsAnInterval
  <2>4. plans' = [plans EXCEPT ![e] = new] BY <1>3
  <2> HIDE DEF page
  <2>5. page # {} => end \in page BY <2>3, LatestIsIn
  <2>6. end \in Refs BY <2>1, <2>3, <2>5, SourcesKnown
  <2> HIDE DEF end
  <2>7. \A d \in page : Retained(page, from[2], d) \in Refs BY <2>1, <2>3, RetainedIsASource
  <2>8. retain \in [Sources -> Refs] BY <2>7, SourcesKnown
  <2>9. prior \in Refs BY <2>1, <2>5, <2>7
  <2>10. last \in BOOLEAN OBVIOUS
  <2> HIDE DEF retain, prior, last
  <2>11. new \in PlanRecs BY <1>1, <2>6, <2>8, <2>9, <2>10 DEF PlanRecs, SessionRecs
  <2> HIDE DEF new
  <2>12. UNCHANGED <<storeVars, revision, pages, session>> BY DEF Plan
  <2> QED BY <1>1, <1>3, <2>4, <2>11, <2>12 DEF CleanupTypeOK
<1> QED BY <1>2, <1>3 DEF Plan

LEMMA SessionTypes ==
  ASSUME CleanupTypeOK,
         SessionExpires \/ StartSession \/ ResumeSession \/ \E e \in Executors : Checkpoint(e)
  PROVE  CleanupTypeOK'
<1>1. session \in SessionRecs /\ plans \in [Executors -> PlanRecs] BY DEF CleanupTypeOK
<1>2. CASE SessionExpires
  <2>1. [session EXCEPT !.expired = TRUE] \in SessionRecs BY <1>1 DEF SessionRecs
  <2> QED BY <1>2, <2>1 DEF CleanupTypeOK, SessionExpires
<1>3. CASE StartSession BY <1>3, Records DEF CleanupTypeOK, StartSession
<1>4. CASE ResumeSession
  <2>1. session.conts \in 0..MaxContinuations BY <1>1 DEF SessionRecs
  <2>2. CASE session.expired \/ session.conts >= MaxContinuations
    BY <1>4, <2>2, Records DEF CleanupTypeOK, ResumeSession
  <2>3. CASE ~ (session.expired \/ session.conts >= MaxContinuations)
    <3>1. session.conts + 1 \in 0..MaxContinuations BY <2>1, <2>3, LimitsKnown
    <3>2. [session EXCEPT !.conts = @ + 1] \in SessionRecs BY <1>1, <3>1 DEF SessionRecs
    <3> QED BY <1>4, <2>3, <3>2 DEF CleanupTypeOK, ResumeSession
  <2> QED BY <2>2, <2>3
<1>5. ASSUME NEW e \in Executors, Checkpoint(e) PROVE CleanupTypeOK'
  <2> DEFINE moved == [session EXCEPT !.after = plans[e].after, !.prior = plans[e].prior]
  <2>1. moved \in SessionRecs BY <1>1 DEF SessionRecs, PlanRecs
  <2>2. session' = EndedSession \/ session' = moved \/ session' = session
    <3>1. session' = CASE session.status = "running" /\ (session.expired \/ plans[e].last) ->
                              EndedSession
                       [] session.status = "running" /\ ~ session.expired /\ ~ plans[e].last ->
                              moved
                       [] OTHER -> session
      BY <1>5 DEF Checkpoint
    <3> HIDE DEF moved
    <3> QED BY <3>1
  <2> HIDE DEF moved
  <2> QED BY <1>1, <1>5, <2>1, <2>2, Records DEF CleanupTypeOK, Checkpoint
<1> QED BY <1>2, <1>3, <1>4, <1>5

LEMMA BatchTypes ==
  ASSUME StoreInv, CleanupTypeOK, Bound, NEW e \in Executors, ExecuteBatch(e)
  PROVE  CleanupTypeOK'
<1> DEFINE p == plans[e]
<1>1. /\ plans \in [Executors -> PlanRecs] /\ p \in PlanRecs /\ run \in [Runs -> RunRecs]
      /\ session \in SessionRecs /\ revision \in Nat
  BY DEF CleanupTypeOK
<1>2. p.run \in Runs BY DEF ExecuteBatch, Bound
<1>3. [p EXCEPT !.at = "done"] \in PlanRecs BY <1>1 DEF PlanRecs
<1>4. plans' \in [Executors -> PlanRecs]
  <2>1. plans' = [plans EXCEPT ![e] = [p EXCEPT !.at = "done"]]
          \/ plans' = [plans EXCEPT ![e] = NoPlan]
    BY DEF ExecuteBatch
  <2> QED BY <1>1, <1>3, <2>1, Records
<1>5. UNCHANGED pages BY DEF ExecuteBatch
<1>6. CASE UNCHANGED <<revision, run, session>>
  BY <1>1, <1>4, <1>5, <1>6 DEF CleanupTypeOK
<1>7. CASE /\ revision' = Fenced
           /\ run' = [run EXCEPT ![p.run].rev = revision',
                                 ![p.run].seen = <<rows', obs', sync>>]
           /\ session' = [session EXCEPT !.rev = revision']
  <2>1. StoreTypeOK' BY BatchKeepsStore DEF StoreInv
  <2>2. revision' \in Nat BY <1>1, <1>7 DEF Fenced
  <2>3. <<rows', obs', sync>> \in Audited BY <2>1 DEF StoreTypeOK, Audited, ExecuteBatch
  <2> DEFINE seen == <<rows', obs', sync>>
  <2>4. [run[p.run] EXCEPT !.rev = revision', !.seen = seen] \in RunRecs
    <3> HIDE DEF seen
    <3> QED BY <1>1, <1>2, <2>2, <2>3 DEF RunRecs, seen
  <2>5. run' = [run EXCEPT ![p.run] = [run[p.run] EXCEPT !.rev = revision', !.seen = seen]]
    BY <1>1, <1>2, <1>7 DEF RunRecs
  <2>6. session' \in SessionRecs BY <1>1, <1>7, <2>2 DEF SessionRecs
  <2>7. run' \in [Runs -> RunRecs] BY <1>1, <2>4, <2>5
  <2> QED BY <1>4, <1>5, <2>2, <2>6, <2>7 DEF CleanupTypeOK
<1> QED BY <1>6, <1>7 DEF ExecuteBatch

TypeInv == StoreInv /\ CleanupTypeOK

LEMMA InitTypeInv == Init => TypeInv
BY InitStoreInv, InitCleanupType DEF Init, TypeInv

LEMMA NextTypeInv == TypeInv /\ Bound /\ [Next]_vars => TypeInv'
<1> SUFFICES ASSUME TypeInv, Bound, [Next]_vars PROVE TypeInv'
  OBVIOUS
<1>1. StoreInv /\ StoreTypeOK /\ FactsKept /\ CleanupTypeOK BY DEF TypeInv, StoreInv
<1>2. ASSUME UNCHANGED <<fact, normalized, data, imports>>,
             mishaps' = mishaps \/ (mishaps < MaxMishaps /\ mishaps' = mishaps + 1)
      PROVE  StoreInv'
  BY <1>1, <1>2, LimitsKnown DEF StoreInv, StoreTypeOK, FactsKept, data
<1>3. ASSUME UNCHANGED storeVars PROVE StoreInv'
  BY <1>2, <1>3 DEF storeVars, data
<1>4. ASSUME UNCHANGED <<run, pages, session, plans>>,
             revision' = revision \/ revision' = Fenced
      PROVE  CleanupTypeOK'
  BY <1>1, <1>4 DEF CleanupTypeOK, Fenced
<1>5. ASSUME NEW s \in Sources, Capture(s) PROVE TypeInv'
  BY <1>1, <1>4, <1>5, CaptureKeepsStore DEF Capture, TypeInv
<1>6. ASSUME NEW i \in Importers, Import(i) PROVE TypeInv'
  BY <1>1, <1>4, <1>6, ImportKeepsStore DEF Import, TypeInv, cleanupVars
<1>7. ASSUME NEW r \in Runs,
             RunExpires(r) \/ StartAudit(r) \/ ResumeAudit(r) \/ AuditCostStop(r) \/ BindAudit(r)
      PROVE  TypeInv'
  <2>1. CleanupTypeOK' BY <1>1, <1>7, AuditTypes
  <2>2. StoreInv'
    BY <1>2, <1>3, <1>7 DEF RunExpires, StartAudit, ResumeAudit, AuditCostStop, BindAudit
  <2> QED BY <2>1, <2>2 DEF TypeInv
<1>8. ASSUME NEW k \in Steppers,
             \/ \E r \in Runs : PreparePage(k, r)
             \/ ApplyPage(k)
             \/ \E reject \in BOOLEAN : SettlePage(k, reject)
             \/ StepCut(k)
      PROVE  TypeInv'
  <2>1. CleanupTypeOK' BY <1>1, <1>8, PageTypes
  <2>2. StoreInv' BY <1>2, <1>3, <1>8 DEF PreparePage, ApplyPage, SettlePage, StepCut
  <2> QED BY <2>1, <2>2 DEF TypeInv
<1>9. ASSUME \/ SessionExpires \/ StartSession \/ ResumeSession
             \/ \E e \in Executors : Checkpoint(e)
      PROVE  TypeInv'
  <2>1. CleanupTypeOK' BY <1>1, <1>9, SessionTypes
  <2>2. StoreInv'
    BY <1>2, <1>3, <1>9 DEF SessionExpires, StartSession, ResumeSession, Checkpoint
  <2> QED BY <2>1, <2>2 DEF TypeInv
<1>10. ASSUME NEW e \in Executors, Plan(e) PROVE TypeInv'
  BY <1>1, <1>3, <1>10, PlanTypes DEF Plan, TypeInv
<1>11. ASSUME NEW e \in Executors, ExecuteBatch(e) PROVE TypeInv'
  BY <1>1, <1>11, BatchTypes, BatchKeepsStore DEF TypeInv
<1>12. CASE UNCHANGED vars
  BY <1>1, <1>3, <1>4, <1>12 DEF vars, cleanupVars, TypeInv
<1> QED BY <1>5, <1>6, <1>7, <1>8, <1>9, <1>10, <1>11, <1>12 DEF Next

(***************************************************************************)
(* What an audit has walked over.  Most steps leave the data, the revision   *)
(* and the progress of the audits alone.                                     *)
(***************************************************************************)
Lingers(r) ==
    \/ run'[r] = Ended
    \/ /\ run'[r].status = run[r].status /\ run'[r].rev = run[r].rev
       /\ run'[r].target = run[r].target /\ run'[r].after = run[r].after
       /\ run'[r].version = run[r].version /\ run'[r].bad = run[r].bad
       /\ run'[r].counts = run[r].counts /\ run'[r].seen = run[r].seen
       /\ run[r].expired => run'[r].expired
       /\ run'[r].pending = run[r].pending \/ run[r].target <= 4

Quiet ==
    /\ UNCHANGED data /\ revision' = revision
    /\ \A r \in Runs : Lingers(r)
    /\ \A k \in Steppers : pages'[k] = pages[k] \/ pages'[k].at = "idle"
    /\ \A e \in Executors : plans'[e] = plans[e] \/ plans'[e].at # "planned"
                               \/ plans'[e].run \in Runs

LEMMA LingeringRuns ==
  ASSUME TypeInv, Quiet, NEW r \in Runs
  PROVE  /\ Live(r)' => Live(r) /\ run'[r].status = run[r].status
         /\ run'[r].status \in {"running", "complete", "none"} =>
               /\ run'[r].status = run[r].status /\ run'[r].rev = run[r].rev
               /\ run'[r].target = run[r].target /\ run'[r].after = run[r].after
               /\ run'[r].version = run[r].version /\ run'[r].bad = run[r].bad
               /\ run'[r].counts = run[r].counts /\ run'[r].seen = run[r].seen
               /\ run'[r].pending = run[r].pending \/ run[r].target <= 4
<1>1. Ended.status = "ended" BY DEF Ended, NewRun
<1>2. Lingers(r) /\ revision' = revision BY DEF Quiet
<1>3. CASE run'[r] = Ended BY <1>1, <1>3 DEF Live
<1>4. CASE run'[r] # Ended BY <1>2, <1>4 DEF Lingers, Live
<1> QED BY <1>3, <1>4

LEMMA QuietKeeps ==
  ASSUME TypeInv, WalkInv, Quiet
  PROVE  WalkInv'
<1>1. rows' = rows /\ obs' = obs /\ sync' = sync /\ revision' = revision BY DEF Quiet, data
<1>2. Bound'
  <2>1. ASSUME NEW k \in Steppers, pages'[k].at # "idle"
        PROVE  pages'[k].run \in Runs /\ run'[pages'[k].run].status # "none"
    <3>1. pages'[k] = pages[k] BY <2>1 DEF Quiet
    <3>2. pages[k].run \in Runs /\ run[pages[k].run].status # "none"
      BY <2>1, <3>1 DEF WalkInv, Bound
    <3> QED BY <3>1, <3>2, LingeringRuns
  <2>2. ASSUME NEW e \in Executors, plans'[e].at = "planned" PROVE plans'[e].run \in Runs
    BY <2>2 DEF Quiet, WalkInv, Bound
  <2>3. ASSUME NEW r \in Runs, run'[r].status = "running", ~ run'[r].pending
        PROVE  run'[r].target <= 4
    BY <2>3, LingeringRuns DEF WalkInv, Bound
  <2> QED BY <2>1, <2>2, <2>3 DEF Bound
<1>3. Fence'
  <2>1. ASSUME NEW r \in Runs PROVE run'[r].rev <= revision'
    <3>1. CASE run'[r] = Ended
      <4>1. Ended.rev = 0 BY DEF Ended, NewRun
      <4> QED BY <1>1, <3>1, <4>1 DEF TypeInv, CleanupTypeOK
    <3>2. CASE run'[r] # Ended
      <4>1. run'[r].rev = run[r].rev BY <3>2 DEF Quiet, Lingers
      <4> QED BY <1>1, <4>1 DEF WalkInv, Fence
    <3> QED BY <3>1, <3>2
  <2>2. ASSUME NEW r \in Runs, Live(r)' PROVE run'[r].seen = data'
    <3>1. Live(r) /\ run'[r].status \in {"running", "complete"}
      BY <2>2, LingeringRuns DEF Live
    <3>2. run'[r].seen = run[r].seen BY <3>1, LingeringRuns
    <3>3. run[r].seen = data BY <3>1 DEF WalkInv, Fence, FenceHolds
    <3> QED BY <3>2, <3>3 DEF Quiet
  <2> QED BY <2>1, <2>2 DEF Fence, FenceHolds
<1>4. AuditInv'
  <2> SUFFICES ASSUME NEW r \in Runs, run'[r].status = "running", Live(r)'
               PROVE  Thorough(run[r])'
    BY DEF AuditInv
  <2>1. Live(r) /\ run[r].status = "running" BY LingeringRuns
  <2>2. Thorough(run[r]) BY <2>1 DEF WalkInv, AuditInv
  <2>3. /\ run'[r].target = run[r].target /\ run'[r].after = run[r].after
        /\ run'[r].bad = run[r].bad /\ run'[r].counts = run[r].counts
    BY LingeringRuns
  <2> QED BY <1>1, <2>2, <2>3 DEF Thorough, CountOf, Behind, CountsAlone, Complete
<1>5. PagesInv'
  <2> SUFFICES ASSUME NEW k \in Steppers, pages'[k].at = "prepared",
                      run'[pages'[k].run].status = "running"
               PROVE  /\ pages'[k].version <= run'[pages'[k].run].version
                      /\ pages'[k].version = run'[pages'[k].run].version /\ Live(pages[k].run)'
                            => Sound(pages[k], run[pages[k].run])'
    BY DEF PagesInv
  <2>1. pages'[k] = pages[k] BY DEF Quiet
  <2>2. pages[k].run \in Runs BY <2>1 DEF WalkInv, Bound
  <2>3. PICK r \in Runs : r = pages[k].run BY <2>2
  <2>4. /\ run[r].status = "running" /\ run'[r].version = run[r].version
        /\ run'[r].target = run[r].target /\ run'[r].after = run[r].after
        /\ run'[r].counts = run[r].counts
    BY <2>1, <2>3, LingeringRuns
  <2>5. pages[k].version <= run[r].version BY <2>1, <2>3, <2>4 DEF WalkInv, PagesInv
  <2>6. ASSUME pages[k].version = run[r].version, Live(pages[k].run)'
        PROVE  Sound(pages[k], run[pages[k].run])'
    <3>1. Live(r) BY <2>1, <2>3, <2>6, LingeringRuns DEF Live
    <3>2. Sound(pages[k], run[r]) BY <2>1, <2>3, <2>4, <2>6, <3>1 DEF WalkInv, PagesInv
    <3>3. Items(pages[k].target)' = Items(pages[k].target)
      BY <1>1, <2>1 DEF Items, Complete
    <3>4. ASSUME NEW s
          PROVE  Anomaly(pages[k].target, run[r].counts, s)'
                    <=> Anomaly(pages[k].target, run[r].counts, s)
      BY <1>1, <2>1, <2>4 DEF Anomaly
    <3>5. /\ pages[k].target = run[r].target /\ pages[k].after = run[r].after
          /\ pages[k].target <= 4
          /\ pages[k].last =>
                \A s \in Items(pages[k].target) : pages[k].after < s => s <= pages[k].next
          /\ ~ pages[k].last => pages[k].after < pages[k].next
          /\ ~ pages[k].bad => \A s \in Items(pages[k].target) :
                  pages[k].after < s /\ s <= pages[k].next
                      => ~ Anomaly(pages[k].target, run[r].counts, s)
      BY <3>2 DEF Sound
    <3>6. (\A s : ~ Anomaly(pages[k].target, run[r].counts, s)'
                    <=> ~ Anomaly(pages[k].target, run[r].counts, s))
      BY <3>4
    <3>7. /\ (pages[k].target = run[r].target /\ pages[k].after = run[r].after
                 /\ pages[k].target <= 4)'
          /\ (pages[k].last =>
                \A s \in Items(pages[k].target) : pages[k].after < s => s <= pages[k].next)'
          /\ (~ pages[k].last => pages[k].after < pages[k].next)'
      BY <2>1, <2>4, <3>3, <3>5
    <3>8. (~ pages[k].bad => \A s \in Items(pages[k].target) :
                  pages[k].after < s /\ s <= pages[k].next
                      => ~ Anomaly(pages[k].target, run[r].counts, s))'
      BY <2>1, <3>3, <3>5, <3>6
    <3>9. Sound(pages[k], run[r])' BY <3>7, <3>8 DEF Sound
    <3> QED BY <2>1, <2>3, <3>9 DEF Sound
  <2> QED BY <2>1, <2>3, <2>4, <2>5, <2>6
<1>6. AuthorizedMeansClean'
  <2> SUFFICES ASSUME NEW r \in Runs, run'[r].status = "complete", Live(r)'
               PROVE  Clean'
    BY DEF AuthorizedMeansClean
  <2>1. Live(r) /\ run[r].status = "complete" BY LingeringRuns
  <2>2. Clean BY <2>1 DEF WalkInv, AuthorizedMeansClean
  <2> QED BY <1>1, <2>2 DEF Clean, Complete, SourceCount, CountsAlone
<1> QED BY <1>2, <1>3, <1>4, <1>5, <1>6 DEF WalkInv

\* A write to an audited table leaves no audit live.
LEMMA WritesStale ==
  ASSUME TypeInv, Fence, revision' = Fenced, UNCHANGED run
  PROVE  \A r \in Runs : ~ Live(r)' /\ run[r].rev <= revision'
<1>1. revision \in Nat /\ \A r \in Runs : run[r].rev \in Nat /\ run[r].rev <= revision
  BY DEF TypeInv, CleanupTypeOK, RunRecs, Fence
<1>2. CASE \E r \in Runs : Live(r)
  <2>1. revision' = revision + 1 BY <1>2 DEF Fenced
  <2> QED BY <1>1, <2>1 DEF Live
<1>3. CASE ~ \E r \in Runs : Live(r)
  <2>1. revision' = revision BY <1>3 DEF Fenced
  <2> QED BY <1>1, <1>3, <2>1 DEF Live
<1> QED BY <1>2, <1>3

LEMMA WriteKeeps ==
  ASSUME TypeInv, WalkInv, revision' = Fenced, UNCHANGED <<run, pages, plans>>
  PROVE  WalkInv'
<1>1. \A r \in Runs : ~ Live(r)' /\ run'[r].rev <= revision'
  BY WritesStale DEF WalkInv
<1>2. Bound' BY DEF WalkInv, Bound
<1>3. PagesInv'
  <2> SUFFICES ASSUME NEW k \in Steppers, pages'[k].at = "prepared",
                      run'[pages'[k].run].status = "running"
               PROVE  /\ pages'[k].version <= run'[pages'[k].run].version
                      /\ ~ Live(pages[k].run)'
    BY DEF PagesInv
  <2>1. pages[k].run \in Runs BY DEF WalkInv, Bound
  <2>2. PICK r \in Runs : r = pages[k].run BY <2>1
  <2>3. ~ Live(r)' BY <1>1
  <2>4. ~ Live(pages[k].run)' BY <2>2, <2>3 DEF Live
  <2> QED BY <2>4 DEF WalkInv, PagesInv
<1> QED BY <1>1, <1>2, <1>3 DEF WalkInv, Fence, FenceHolds, AuditInv, AuthorizedMeansClean

\* A page describes the data as long as the data, the page and its run stay.
LEMMA SoundStays ==
  ASSUME UNCHANGED data, NEW k \in Steppers, pages'[k] = pages[k], NEW r \in Runs,
         run'[r] = run[r], Sound(pages[k], run[r])
  PROVE  Sound(pages[k], run[r])'
<1>1. rows' = rows /\ obs' = obs /\ sync' = sync BY DEF data
<1>2. Items(pages[k].target)' = Items(pages[k].target) BY <1>1 DEF Items, Complete
<1>3. \A s : ~ Anomaly(pages[k].target, run[r].counts, s)'
                <=> ~ Anomaly(pages[k].target, run[r].counts, s)
  BY <1>1 DEF Anomaly
<1> QED BY <1>2, <1>3 DEF Sound

LEMMA StartKeeps ==
  ASSUME TypeInv, WalkInv, NEW r \in Runs, StartAudit(r)
  PROVE  WalkInv'
<1> DEFINE new == [NewRun EXCEPT !.status = "running", !.rev = revision, !.conts = 1,
                                 !.seen = data]
<1>1. /\ run[r].status = "none" /\ run' = [run EXCEPT ![r] = new]
      /\ UNCHANGED <<storeVars, revision, pages, plans>>
  BY DEF StartAudit
<1>2. /\ new.status = "running" /\ new.rev = revision /\ new.seen = data /\ new.target = 1
      /\ new.after = NoSource /\ new.bad = FALSE
      /\ new.counts = [s \in Sources |-> 0]
  BY DEF NewRun
<1> HIDE DEF new
<1>3. run \in [Runs -> RunRecs] /\ revision \in Nat BY DEF TypeInv, CleanupTypeOK
<1>4. run'[r] = new /\ \A q \in Runs : q # r => run'[q] = run[q] BY <1>1, <1>3
<1>5. UNCHANGED data /\ rows' = rows /\ obs' = obs /\ sync' = sync /\ revision' = revision
  BY <1>1 DEF storeVars, data
<1>6. Bound'
  BY <1>1, <1>2, <1>4 DEF WalkInv, Bound
<1>7. Fence'
  <2>1. ASSUME NEW q \in Runs PROVE run'[q].rev <= revision' /\ (Live(q)' => run'[q].seen = data')
    <3>1. CASE q = r BY <1>2, <1>3, <1>4, <1>5, <3>1
    <3>2. CASE q # r
      <4>1. run'[q] = run[q] BY <1>4, <3>2
      <4> QED BY <1>5, <4>1 DEF WalkInv, Fence, FenceHolds, Live
    <3> QED BY <3>1, <3>2
  <2> QED BY <2>1 DEF Fence, FenceHolds
<1>8. AuditInv'
  <2> SUFFICES ASSUME NEW q \in Runs, run'[q].status = "running", Live(q)'
               PROVE  Thorough(run[q])'
    BY DEF AuditInv
  <2>1. CASE q = r
    <3>1. \A s \in Sources : s \in Nat /\ s > 0 BY SourcesKnown
    <3> QED BY <1>2, <1>4, <2>1, <3>1, SourcesKnown DEF Thorough, CountOf, Behind, Complete
  <2>2. CASE q # r
    <3>1. run'[q] = run[q] BY <1>4, <2>2
    <3>2. Live(q) BY <1>5, <3>1 DEF Live
    <3>3. Thorough(run[q]) BY <3>1, <3>2 DEF WalkInv, AuditInv
    <3> QED BY <1>5, <3>1, <3>3 DEF Thorough, CountOf, Behind, CountsAlone, Complete
  <2> QED BY <2>1, <2>2
<1>9. PagesInv'
  <2> SUFFICES ASSUME NEW k \in Steppers, pages'[k].at = "prepared",
                      run'[pages'[k].run].status = "running"
               PROVE  /\ pages'[k].version <= run'[pages'[k].run].version
                      /\ pages'[k].version = run'[pages'[k].run].version /\ Live(pages[k].run)'
                            => Sound(pages[k], run[pages[k].run])'
    BY DEF PagesInv
  <2>1. pages' = pages BY <1>1
  <2>2. PICK q \in Runs : q = pages[k].run /\ run[q].status # "none"
    BY <2>1 DEF WalkInv, Bound
  <2>3. run'[q] = run[q] BY <1>1, <1>4, <2>2
  <2>4. pages[k].version <= run[q].version BY <2>1, <2>2, <2>3 DEF WalkInv, PagesInv
  <2>5. ASSUME pages[k].version = run[q].version, Live(q)' PROVE Sound(pages[k], run[q])'
    <3>1. Live(q) BY <1>5, <2>3, <2>5 DEF Live
    <3>2. Sound(pages[k], run[q]) BY <2>1, <2>2, <2>3, <2>5, <3>1 DEF WalkInv, PagesInv
    <3> QED BY <1>5, <2>1, <2>3, <3>2, SoundStays
  <2>6. Live(pages[k].run)' => Live(q)' BY <2>1, <2>2 DEF Live
  <2>7. Sound(pages[k], run[q])' => Sound(pages[k], run[pages[k].run])'
    BY <2>1, <2>2 DEF Sound
  <2> QED BY <2>1, <2>2, <2>3, <2>4, <2>5, <2>6, <2>7
<1>10. AuthorizedMeansClean'
  <2> SUFFICES ASSUME NEW q \in Runs, run'[q].status = "complete", Live(q)'
               PROVE  Clean'
    BY DEF AuthorizedMeansClean
  <2>1. run'[q] = run[q] BY <1>2, <1>4
  <2>2. Live(q) BY <1>5, <2>1 DEF Live
  <2>3. Clean BY <2>1, <2>2 DEF WalkInv, AuthorizedMeansClean
  <2> QED BY <1>5, <2>3 DEF Clean, Complete, SourceCount, CountsAlone
<1> QED BY <1>6, <1>7, <1>8, <1>9, <1>10 DEF WalkInv

LEMMA PrepareKeeps ==
  ASSUME TypeInv, WalkInv, NEW k \in Steppers, NEW r \in Runs, PreparePage(k, r)
  PROVE  WalkInv'
<1>1. TypeInv /\ StoreTypeOK /\ CleanupTypeOK /\ Bound
  BY DEF TypeInv, StoreInv, WalkInv
<1>2. run[r].status = "running" /\ UNCHANGED <<storeVars, revision, session, plans>>
  BY <1>1, PreparedPage
<1>3. UNCHANGED data /\ rows' = rows /\ obs' = obs /\ sync' = sync /\ revision' = revision
  BY <1>2 DEF storeVars, data
<1>4. run \in [Runs -> RunRecs] /\ pages \in [Steppers -> PageRecs] BY <1>1 DEF CleanupTypeOK
<1>5. CASE run' = [run EXCEPT ![r] = Ended] /\ UNCHANGED pages
  <2>1. \A q \in Runs : Lingers(q) BY <1>4, <1>5 DEF Lingers
  <2>2. Quiet BY <1>2, <1>3, <1>5, <2>1 DEF Quiet
  <2> QED BY <2>2, QuietKeeps
<1>6. ASSUME NEW page \in PageRecs,
             pages' = [pages EXCEPT ![k] = page], UNCHANGED run,
             page.at = "prepared", page.run = r, page.version = run[r].version,
             Sound(page, run[r])
      PROVE  WalkInv'
  <2>1. pages'[k] = page /\ \A j \in Steppers : j # k => pages'[j] = pages[j]
    BY <1>4, <1>6
  <2>2. Bound' BY <1>2, <1>6, <2>1 DEF WalkInv, Bound
  <2>3. \A q \in Runs : Live(q)' <=> Live(q) BY <1>3, <1>6 DEF Live
  <2>4. Fence' BY <1>3, <1>6, <2>3 DEF WalkInv, Fence, FenceHolds
  <2>5. AuditInv'
    <3> SUFFICES ASSUME NEW q \in Runs, run'[q].status = "running", Live(q)'
                 PROVE  Thorough(run[q])'
      BY DEF AuditInv
    <3>1. Thorough(run[q]) BY <1>6, <2>3 DEF WalkInv, AuditInv
    <3> QED BY <1>3, <1>6, <3>1 DEF Thorough, CountOf, Behind, CountsAlone, Complete
  <2>6. PagesInv'
    <3> SUFFICES ASSUME NEW j \in Steppers, pages'[j].at = "prepared",
                        run'[pages'[j].run].status = "running"
                 PROVE  /\ pages'[j].version <= run'[pages'[j].run].version
                        /\ pages'[j].version = run'[pages'[j].run].version /\ Live(pages[j].run)'
                              => Sound(pages[j], run[pages[j].run])'
      BY DEF PagesInv
    <3>1. CASE j = k
      <4>1. run[r].version \in Nat BY <1>4 DEF RunRecs
      <4>2. rows' = rows /\ obs' = obs /\ sync' = sync BY <1>3
      <4>3. Items(pages[k].target)' = Items(page.target) BY <2>1, <4>2 DEF Items, Complete
      <4>4. \A s : ~ Anomaly(pages[k].target, run[r].counts, s)'
                      <=> ~ Anomaly(page.target, run[r].counts, s)
        BY <1>6, <2>1, <4>2 DEF Anomaly
      <4>5. Sound(pages[k], run[r])' BY <1>6, <2>1, <4>3, <4>4 DEF Sound
      <4>6. Sound(pages[k], run[pages[k].run])' BY <1>6, <2>1, <4>5 DEF Sound
      <4> QED BY <1>6, <2>1, <3>1, <4>1, <4>6
    <3>2. CASE j # k
      <4>1. pages'[j] = pages[j] BY <2>1, <3>2
      <4>2. PICK q \in Runs : q = pages[j].run BY <4>1 DEF WalkInv, Bound
      <4>3. pages[j].version <= run[q].version BY <1>6, <4>1, <4>2 DEF WalkInv, PagesInv
      <4>4. ASSUME pages[j].version = run[q].version, Live(q)' PROVE Sound(pages[j], run[q])'
        <5>1. Sound(pages[j], run[q])
          BY <1>6, <2>3, <4>1, <4>2, <4>4 DEF WalkInv, PagesInv
        <5> QED BY <1>3, <1>6, <4>1, <5>1, SoundStays
      <4>5. Live(pages[j].run)' => Live(q)' BY <4>1, <4>2 DEF Live
      <4>6. Sound(pages[j], run[q])' => Sound(pages[j], run[pages[j].run])'
        BY <4>1, <4>2 DEF Sound
      <4> QED BY <1>6, <4>1, <4>2, <4>3, <4>4, <4>5, <4>6
    <3> QED BY <3>1, <3>2
  <2>7. AuthorizedMeansClean'
    BY <1>3, <1>6, <2>3
       DEF WalkInv, AuthorizedMeansClean, Clean, Complete, SourceCount, CountsAlone
  <2> QED BY <2>2, <2>4, <2>5, <2>6, <2>7 DEF WalkInv
<1> QED BY <1>1, <1>5, <1>6, PreparedPage

\* A page on each target.
LEMMA PagesAre ==
  ASSUME NEW p, NEW counts, NEW s
  PROVE  /\ p.target = 1 => (Counted(p, s) <=> p.after < s /\ s <= p.next /\ s \in rows)
         /\ p.target = 2 => (Counted(p, s) <=> p.after < s /\ s <= p.next /\ CountsAlone(s))
         /\ p.target \in {3, 4} => ~ Counted(p, s)
         /\ Anomaly(3, counts, s) <=> counts[s] # 1
         /\ Anomaly(4, counts, s) <=> obs[s] \notin rows
<1>1. /\ Targets[1] = "direct" /\ Targets[2] = "observed"
      /\ Targets[3] = "compare" /\ Targets[4] = "observations"
  BY DEF Targets
<1>2. CASE p.target = 1 BY <1>1, <1>2 DEF Counted, Anomaly
<1>3. CASE p.target = 2 BY <1>1, <1>3 DEF Counted, Anomaly
<1>4. CASE p.target \in {3, 4} BY <1>1, <1>4 DEF Counted, Anomaly
<1>5. CASE p.target \notin {1, 2, 3, 4} BY <1>1, <1>5 DEF Anomaly
<1> QED BY <1>2, <1>3, <1>4, <1>5

\* A page that describes the data carries a thorough audit on.
LEMMA WalkThorough ==
  ASSUME StoreTypeOK, NEW c \in RunRecs, NEW p \in PageRecs,
         c.target <= 4, Thorough(c), Sound(p, c)
  PROVE  Thorough(Walked(c, p))
<1> DEFINE w == Walked(c, p)
<1>1. /\ c.target \in 1..4 /\ p.target = c.target /\ p.after = c.after
      /\ c.after \in Nat /\ p.next \in Nat
      /\ c.counts \in [Sources -> Nat]
  <2>1. c.target \in 1..5 /\ c.after \in Refs /\ p.next \in Refs /\ c.counts \in [Sources -> Nat]
    BY DEF RunRecs, PageRecs
  <2>2. p.target = c.target /\ p.after = c.after BY DEF Sound
  <2>3. c.target \in 1..4 BY <2>1
  <2>4. c.after \in Nat /\ p.next \in Nat BY <2>1, SourcesKnown
  <2> QED BY <2>1, <2>2, <2>3, <2>4
<1>2. /\ w.target = IF p.last THEN c.target + 1 ELSE c.target
      /\ w.after = IF p.last THEN NoSource ELSE p.next
      /\ w.bad = (c.bad \/ p.bad)
      /\ \A s \in Sources : w.counts[s] = c.counts[s] + IF Counted(p, s) THEN 1 ELSE 0
  BY WalkedRec
<1> HIDE DEF w
<1>3. \A s \in Sources : s \in Nat /\ s > 0 BY SourcesKnown
<1>4. NoSource = 0 BY SourcesKnown
<1>5. rows \subseteq Sources BY DEF StoreTypeOK
<1>6. /\ p.last => \A s \in Items(p.target) : p.after < s => s <= p.next
      /\ ~ p.last => p.after < p.next
      /\ ~ p.bad => \A s \in Items(p.target) :
                        p.after < s /\ s <= p.next => ~ Anomaly(p.target, c.counts, s)
  BY DEF Sound
<1>7. \* What the page has moved the cursor over.
      ASSUME NEW s \in Sources, NEW t \in 1..4
      PROVE  Behind(w, t, s) <=>
                \/ Behind(c, t, s)
                \/ c.target = t /\ p.last
                \/ c.target = t /\ p.after < s /\ s <= p.next
  <2>1. CASE p.last
    <3>1. w.target = c.target + 1 /\ w.after = 0 BY <1>2, <1>4, <2>1
    <3> QED BY <1>1, <1>3, <2>1, <3>1 DEF Behind
  <2>2. CASE ~ p.last
    <3>1. w.target = c.target /\ w.after = p.next /\ p.after < p.next BY <1>2, <1>6, <2>2
    <3> QED BY <1>1, <1>3, <2>2, <3>1 DEF Behind
  <2> QED BY <2>1, <2>2
<1>8. \* What it says of the items it has moved over.
      ASSUME NEW s \in Sources, s \in Items(p.target)
      PROVE  /\ Behind(w, c.target, s) <=>
                   Behind(c, c.target, s) \/ (p.after < s /\ s <= p.next)
             /\ ~ (Behind(c, c.target, s) /\ p.after < s)
  BY <1>1, <1>3, <1>6, <1>7, <1>8 DEF Behind
<1>9. \A s \in Sources, t \in 1..4 : t # c.target => (Behind(w, t, s) <=> Behind(c, t, s))
  BY <1>7
<1>10. ASSUME NEW s \in Sources PROVE w.counts[s] = CountOf(w, s)
  <2>1. c.counts[s] = CountOf(c, s) /\ c.counts[s] \in Nat BY <1>1 DEF Thorough
  <2>2. w.counts[s] = c.counts[s] + IF Counted(p, s) THEN 1 ELSE 0 BY <1>2
  <2>3. CASE c.target = 1
    <3>1. Counted(p, s) <=> p.after < s /\ s <= p.next /\ s \in rows
      BY <1>1, <2>3, PagesAre
    <3>2. Behind(w, 2, s) <=> Behind(c, 2, s) BY <1>9, <2>3
    <3>3. s \in rows => /\ Behind(w, 1, s) <=> Behind(c, 1, s) \/ (p.after < s /\ s <= p.next)
                        /\ ~ (Behind(c, 1, s) /\ p.after < s)
      BY <1>1, <1>8, <2>3, ItemsAre
    <3> QED BY <2>1, <2>2, <3>1, <3>2, <3>3 DEF CountOf
  <2>4. CASE c.target = 2
    <3>1. Counted(p, s) <=> p.after < s /\ s <= p.next /\ CountsAlone(s)
      BY <1>1, <2>4, PagesAre
    <3>2. Behind(w, 1, s) <=> Behind(c, 1, s) BY <1>9, <2>4
    <3>3. CountsAlone(s) =>
            /\ Behind(w, 2, s) <=> Behind(c, 2, s) \/ (p.after < s /\ s <= p.next)
            /\ ~ (Behind(c, 2, s) /\ p.after < s)
      BY <1>1, <1>8, <2>4, ItemsAre DEF CountsAlone
    <3> QED BY <2>1, <2>2, <3>1, <3>2, <3>3 DEF CountOf
  <2>5. CASE c.target \in {3, 4}
    <3>1. ~ Counted(p, s) BY <1>1, <2>5, PagesAre
    <3>2. (Behind(w, 1, s) <=> Behind(c, 1, s)) /\ (Behind(w, 2, s) <=> Behind(c, 2, s))
      BY <1>9, <2>5
    <3> QED BY <2>1, <2>2, <3>1, <3>2 DEF CountOf
  <2> QED BY <1>1, <2>3, <2>4, <2>5
<1>11. ASSUME ~ w.bad, NEW s \in Complete, Behind(w, 3, s) PROVE w.counts[s] = 1
  <2>1. s \in Sources /\ ~ c.bad /\ ~ p.bad BY <1>2, <1>11 DEF Complete
  <2>2. CASE c.target = 3
    <3>1. w.counts[s] = c.counts[s]
      <4>1. ~ Counted(p, s) BY <1>1, <2>2, PagesAre
      <4> QED BY <1>1, <1>2, <2>1, <4>1
    <3>2. s \in Items(p.target) BY <1>1, <2>2, ItemsAre
    <3>3. CASE Behind(c, 3, s) BY <2>1, <3>1, <3>3 DEF Thorough
    <3>4. CASE p.after < s /\ s <= p.next
      <4>1. ~ Anomaly(p.target, c.counts, s) BY <1>6, <2>1, <3>2, <3>4
      <4>2. ~ Anomaly(3, c.counts, s) BY <1>1, <2>2, <4>1
      <4> QED BY <3>1, <4>2, PagesAre
    <3> QED BY <1>8, <1>11, <2>1, <2>2, <3>2, <3>3, <3>4
  <2>3. CASE c.target # 3
    <3>1. Behind(c, 3, s) BY <1>9, <1>11, <2>1, <2>3
    <3>2. c.counts[s] = 1 BY <2>1, <3>1 DEF Thorough
    <3>3. ~ Counted(p, s)
      <4>1. c.target \in {3, 4} BY <1>1, <3>1 DEF Behind
      <4> QED BY <1>1, <4>1, PagesAre
    <3> QED BY <1>2, <2>1, <3>2, <3>3
  <2> QED BY <2>2, <2>3
<1>12. ASSUME ~ w.bad, NEW s \in Sources, obs[s] # NoSource, Behind(w, 4, s)
       PROVE  obs[s] \in rows
  <2>1. ~ c.bad /\ ~ p.bad BY <1>2, <1>12
  <2>2. CASE c.target = 4
    <3>1. s \in Items(p.target) BY <1>1, <1>12, <2>2, ItemsAre
    <3>2. CASE Behind(c, 4, s) BY <1>12, <2>1, <3>2 DEF Thorough
    <3>3. CASE p.after < s /\ s <= p.next
      <4>1. ~ Anomaly(p.target, c.counts, s) BY <1>6, <2>1, <3>1, <3>3
      <4>2. ~ Anomaly(4, c.counts, s) BY <1>1, <2>2, <4>1
      <4> QED BY <4>2, PagesAre
    <3> QED BY <1>8, <1>12, <2>2, <3>1, <3>2, <3>3
  <2>3. CASE c.target # 4
    <3>1. Behind(c, 4, s) BY <1>9, <1>12, <2>3
    <3> QED BY <1>12, <2>1, <3>1 DEF Thorough
  <2> QED BY <2>2, <2>3
<1> QED BY <1>10, <1>11, <1>12 DEF w, Thorough

\* At its last verdict a thorough audit has seen all.
LEMMA ThoroughIsClean ==
  ASSUME StoreTypeOK, NEW c \in RunRecs, c.target = 5, ~ c.bad, Thorough(c)
  PROVE  Clean
<1>1. \A s : Behind(c, 1, s) /\ Behind(c, 2, s) /\ Behind(c, 3, s) /\ Behind(c, 4, s)
  BY DEF Behind
<1>2. ASSUME NEW s \in Complete PROVE SourceCount(s) = 1
  <2>1. s \in Sources BY DEF Complete
  <2>2. c.counts[s] = 1 /\ c.counts[s] = CountOf(c, s) BY <1>1, <2>1 DEF Thorough
  <2> QED BY <1>1, <2>2 DEF CountOf, SourceCount
<1>3. \A s \in Sources : obs[s] # NoSource => obs[s] \in rows BY <1>1 DEF Thorough
<1> QED BY <1>2, <1>3 DEF Clean

LEMMA ApplyKeeps ==
  ASSUME TypeInv, WalkInv, NEW k \in Steppers, ApplyPage(k)
  PROVE  WalkInv'
<1>1. StoreTypeOK /\ CleanupTypeOK /\ Bound BY DEF TypeInv, StoreInv, WalkInv
<1>2. PICK p \in PageRecs : p = pages[k] BY <1>1 DEF CleanupTypeOK
<1>3. p.run \in Runs /\ p.at = "prepared" /\ UNCHANGED <<storeVars, revision, session, plans>>
  BY <1>1, <1>2, AppliedPage
<1>4. PICK r \in Runs, c \in RunRecs : r = p.run /\ c = run[r]
  BY <1>1, <1>3 DEF CleanupTypeOK
<1>5. UNCHANGED data /\ rows' = rows /\ obs' = obs /\ sync' = sync /\ revision' = revision
  BY <1>3 DEF storeVars, data
<1>6. run \in [Runs -> RunRecs] /\ pages \in [Steppers -> PageRecs] BY <1>1 DEF CleanupTypeOK
<1>7. CASE /\ run' = run \/ run' = [run EXCEPT ![r] = Ended]
           /\ pages' = [pages EXCEPT ![k] = NoPage]
  <2>1. \A q \in Runs : Lingers(q) BY <1>6, <1>7 DEF Lingers
  <2>2. \A j \in Steppers : pages'[j] = pages[j] \/ pages'[j].at = "idle"
    BY <1>6, <1>7 DEF NoPage
  <2>3. Quiet BY <1>3, <1>5, <2>1, <2>2 DEF Quiet
  <2> QED BY <2>3, QuietKeeps
<1>8. CASE /\ c.status = "running" /\ c.rev = revision /\ ~ c.pending
           /\ c.version = p.version /\ c.target <= 4
           /\ run' = [run EXCEPT ![r] = Walked(c, p)]
           /\ pages' = [pages EXCEPT ![k].at = "applied"]
  <2> DEFINE w == Walked(c, p)
  <2>1. /\ w.status = c.status /\ w.rev = c.rev /\ w.expired = c.expired /\ w.seen = c.seen
        /\ w.version = c.version + 1 /\ w.pending = TRUE
    BY <1>8, WalkedRec
  <2>2. Thorough(c) /\ Sound(p, c) => Thorough(w) BY <1>1, <1>8, WalkThorough
  <2> HIDE DEF w
  <2>3. run'[r] = w /\ \A q \in Runs : q # r => run'[q] = run[q] BY <1>6, <1>8 DEF w
  <2>4. /\ pages'[k].at = "applied" /\ pages'[k].run = r
        /\ \A j \in Steppers : j # k => pages'[j] = pages[j]
    BY <1>2, <1>4, <1>6, <1>8 DEF PageRecs
  <2>5. \A q \in Runs : (Live(q)' <=> Live(q)) /\ run'[q].status = run[q].status
    BY <1>4, <1>5, <2>1, <2>3 DEF Live
  <2>6. Bound'
    <3>1. \A j \in Steppers : pages'[j].at # "idle" =>
              pages'[j].run \in Runs /\ run[pages'[j].run].status # "none"
      BY <1>4, <1>8, <2>4 DEF WalkInv, Bound
    <3>2. \A j \in Steppers : pages'[j].at # "idle" =>
              pages'[j].run \in Runs /\ run'[pages'[j].run].status # "none"
      BY <2>5, <3>1
    <3>3. \A e \in Executors : plans'[e].at = "planned" => plans'[e].run \in Runs
      BY <1>3 DEF WalkInv, Bound
    <3>4. \A q \in Runs : run'[q].status = "running" /\ ~ run'[q].pending => run'[q].target <= 4
      BY <2>1, <2>3 DEF WalkInv, Bound
    <3> QED BY <3>2, <3>3, <3>4 DEF Bound
  <2>7. Fence'
    BY <1>4, <1>5, <2>1, <2>3, <2>5 DEF WalkInv, Fence, FenceHolds
  <2>8. AuditInv'
    <3> SUFFICES ASSUME NEW q \in Runs, run'[q].status = "running", Live(q)'
                 PROVE  Thorough(run[q])'
      BY DEF AuditInv
    <3>1. Live(q) /\ run[q].status = "running" BY <2>5
    <3>2. Thorough(run[q]) BY <3>1 DEF WalkInv, AuditInv
    <3>3. PICK d : d = run'[q] OBVIOUS
    <3>4. Thorough(d)
      <4>1. CASE q = r
        <5>1. Thorough(c) BY <1>4, <3>2, <4>1
        <5>2. Sound(p, c)
          <6>1. pages[k].at = "prepared" /\ pages[k].run = r /\ run[r].status = "running"
                  /\ pages[k].version = run[r].version /\ Live(r)
            BY <1>2, <1>3, <1>4, <1>8, <3>1, <4>1
          <6>2. Sound(pages[k], run[r]) BY <6>1 DEF WalkInv, PagesInv
          <6> QED BY <1>2, <1>4, <6>2
        <5> QED BY <2>2, <2>3, <3>3, <4>1, <5>1, <5>2
      <4>2. CASE q # r BY <2>3, <3>2, <3>3, <4>2
      <4> QED BY <4>1, <4>2
    <3> QED BY <1>5, <3>3, <3>4 DEF Thorough, CountOf, Behind, CountsAlone, Complete
  <2>9. PagesInv'
    <3> SUFFICES ASSUME NEW j \in Steppers, pages'[j].at = "prepared",
                        run'[pages'[j].run].status = "running"
                 PROVE  /\ pages'[j].version <= run'[pages'[j].run].version
                        /\ pages'[j].version = run'[pages'[j].run].version /\ Live(pages[j].run)'
                              => Sound(pages[j], run[pages[j].run])'
      BY DEF PagesInv
    <3>1. j # k /\ pages'[j] = pages[j] BY <2>4
    <3>2. PICK q \in Runs : q = pages[j].run BY <3>1 DEF WalkInv, Bound
    <3>3. pages[j].version <= run[q].version BY <2>5, <3>1, <3>2 DEF WalkInv, PagesInv
    <3>4. CASE q = r
      <4>1. pages[j].version \in Nat /\ c.version \in Nat BY <1>6 DEF PageRecs, RunRecs
      <4>2. pages[j].version < run'[q].version BY <1>4, <2>1, <2>3, <3>3, <3>4, <4>1
      <4> QED BY <2>1, <2>3, <3>1, <3>2, <3>4, <4>1, <4>2
    <3>5. CASE q # r
      <4>1. run'[q] = run[q] BY <2>3, <3>5
      <4>2. ASSUME pages[j].version = run[q].version, Live(q)' PROVE Sound(pages[j], run[q])'
        <5>1. Sound(pages[j], run[q])
          BY <2>5, <3>1, <3>2, <4>1, <4>2 DEF WalkInv, PagesInv
        <5> QED BY <1>5, <3>1, <4>1, <5>1, SoundStays
      <4>3. Live(pages[j].run)' => Live(q)' BY <3>1, <3>2 DEF Live
      <4>4. Sound(pages[j], run[q])' => Sound(pages[j], run[pages[j].run])'
        BY <3>1, <3>2 DEF Sound
      <4> QED BY <3>1, <3>2, <3>3, <4>1, <4>2, <4>3, <4>4
    <3> QED BY <3>4, <3>5
  <2>10. AuthorizedMeansClean'
    <3> SUFFICES ASSUME NEW q \in Runs, run'[q].status = "complete", Live(q)'
                 PROVE  Clean'
      BY DEF AuthorizedMeansClean
    <3>1. Clean BY <2>5 DEF WalkInv, AuthorizedMeansClean
    <3> QED BY <1>5, <3>1 DEF Clean, Complete, SourceCount, CountsAlone
  <2> QED BY <2>6, <2>7, <2>8, <2>9, <2>10 DEF WalkInv
<1>9. \/ /\ c.status = "running" /\ c.rev = revision /\ ~ c.pending
         /\ c.version = p.version /\ c.target <= 4
         /\ run' = [run EXCEPT ![r] = Walked(c, p)]
         /\ pages' = [pages EXCEPT ![k].at = "applied"]
      \/ /\ run' = run \/ run' = [run EXCEPT ![r] = Ended]
         /\ pages' = [pages EXCEPT ![k] = NoPage]
  BY <1>1, <1>2, <1>4, AppliedPage
<1> QED BY <1>7, <1>8, <1>9

LEMMA SettleKeeps ==
  ASSUME TypeInv, WalkInv, NEW k \in Steppers, NEW reject \in BOOLEAN, SettlePage(k, reject)
  PROVE  WalkInv'
<1>1. StoreTypeOK /\ CleanupTypeOK /\ Bound BY DEF TypeInv, StoreInv, WalkInv
<1>2. pages[k].run \in Runs /\ UNCHANGED <<storeVars, revision, session, plans>>
      /\ pages' = [pages EXCEPT ![k] = NoPage]
  BY <1>1, SettledPage
<1>3. PICK r \in Runs, c \in RunRecs : r = pages[k].run /\ c = run[r]
  BY <1>1, <1>2 DEF CleanupTypeOK
<1>4. UNCHANGED data /\ rows' = rows /\ obs' = obs /\ sync' = sync /\ revision' = revision
  BY <1>2 DEF storeVars, data
<1>5. run \in [Runs -> RunRecs] /\ pages \in [Steppers -> PageRecs] BY <1>1 DEF CleanupTypeOK
<1>6. \A j \in Steppers : pages'[j] = pages[j] \/ pages'[j].at = "idle"
  BY <1>2, <1>5 DEF NoPage
<1>7. CASE \/ run' = run
           \/ run' = [run EXCEPT ![r] = Ended]
           \/ c.target <= 4 /\ run' = [run EXCEPT ![r] = [c EXCEPT !.pending = FALSE]]
  <2> DEFINE w == [c EXCEPT !.pending = FALSE]
  <2>0. /\ w.status = c.status /\ w.rev = c.rev /\ w.target = c.target /\ w.after = c.after
        /\ w.version = c.version /\ w.bad = c.bad /\ w.counts = c.counts /\ w.seen = c.seen
        /\ w.expired = c.expired
    BY DEF RunRecs
  <2> HIDE DEF w
  <2>1. ASSUME NEW q \in Runs PROVE Lingers(q)
    <3>1. CASE run'[q] = run[q] \/ run'[q] = Ended BY <3>1 DEF Lingers
    <3>2. CASE c.target <= 4 /\ q = r /\ run'[q] = w BY <1>3, <2>0, <3>2 DEF Lingers
    <3> QED BY <1>5, <1>7, <3>1, <3>2 DEF w
  <2>2. Quiet BY <1>2, <1>4, <1>6, <2>1 DEF Quiet
  <2> QED BY <2>2, QuietKeeps
<1>8. CASE /\ c.status = "running" /\ c.rev = revision /\ c.target = 5 /\ ~ c.bad
           /\ run' = [run EXCEPT ![r] = Passed(c)]
  <2> DEFINE w == Passed(c)
  <2>1. /\ w.status = "complete" /\ w.rev = c.rev /\ w.expired = c.expired /\ w.seen = c.seen
    BY DEF Passed, NewRun
  <2> HIDE DEF w
  <2>2. run'[r] = w /\ \A q \in Runs : q # r => run'[q] = run[q] BY <1>5, <1>8 DEF w
  <2>3. \A q \in Runs : /\ Live(q)' <=> Live(q)
                        /\ run'[q].rev = run[q].rev /\ run'[q].seen = run[q].seen
    BY <1>3, <1>4, <1>8, <2>1, <2>2 DEF Live
  <2>4. Bound'
    <3>1. \A j \in Steppers : pages'[j].at # "idle" =>
              pages'[j].run \in Runs /\ run'[pages'[j].run].status # "none"
      BY <1>6, <2>1, <2>2 DEF WalkInv, Bound
    <3>2. \A q \in Runs : run'[q].status = "running" /\ ~ run'[q].pending => run'[q].target <= 4
      BY <2>1, <2>2 DEF WalkInv, Bound
    <3> QED BY <1>2, <3>1, <3>2 DEF WalkInv, Bound
  <2>5. Fence' BY <1>4, <2>3 DEF WalkInv, Fence, FenceHolds
  <2>6. AuditInv'
    <3> SUFFICES ASSUME NEW q \in Runs, run'[q].status = "running", Live(q)'
                 PROVE  Thorough(run[q])'
      BY DEF AuditInv
    <3>1. run'[q] = run[q] /\ Live(q) BY <2>1, <2>2, <2>3
    <3>2. Thorough(run[q]) BY <3>1 DEF WalkInv, AuditInv
    <3> QED BY <1>4, <3>1, <3>2 DEF Thorough, CountOf, Behind, CountsAlone, Complete
  <2>7. PagesInv'
    <3> SUFFICES ASSUME NEW j \in Steppers, pages'[j].at = "prepared",
                        run'[pages'[j].run].status = "running"
                 PROVE  /\ pages'[j].version <= run'[pages'[j].run].version
                        /\ pages'[j].version = run'[pages'[j].run].version /\ Live(pages[j].run)'
                              => Sound(pages[j], run[pages[j].run])'
      BY DEF PagesInv
    <3>1. pages'[j] = pages[j] BY <1>6
    <3>2. PICK q \in Runs : q = pages[j].run BY <3>1 DEF WalkInv, Bound
    <3>3. run'[q] = run[q] BY <2>1, <2>2, <3>1, <3>2
    <3>4. pages[j].version <= run[q].version BY <3>1, <3>2, <3>3 DEF WalkInv, PagesInv
    <3>5. ASSUME pages[j].version = run[q].version, Live(q)' PROVE Sound(pages[j], run[q])'
      <4>1. Sound(pages[j], run[q]) BY <2>3, <3>1, <3>2, <3>3, <3>5 DEF WalkInv, PagesInv
      <4> QED BY <1>4, <3>1, <3>3, <4>1, SoundStays
    <3>6. Live(pages[j].run)' => Live(q)' BY <3>1, <3>2 DEF Live
    <3>7. Sound(pages[j], run[q])' => Sound(pages[j], run[pages[j].run])'
      BY <3>1, <3>2 DEF Sound
    <3> QED BY <3>1, <3>2, <3>3, <3>4, <3>5, <3>6, <3>7
  <2>8. AuthorizedMeansClean'
    <3> SUFFICES ASSUME NEW q \in Runs, run'[q].status = "complete", Live(q)'
                 PROVE  Clean'
      BY DEF AuthorizedMeansClean
    <3>1. Live(q) BY <2>3
    <3>2. CASE q = r
      <4>1. Thorough(c) BY <1>3, <1>8, <3>1, <3>2 DEF WalkInv, AuditInv
      <4>2. Clean BY <1>1, <1>8, <4>1, ThoroughIsClean
      <4> QED BY <1>4, <4>2 DEF Clean, Complete, SourceCount, CountsAlone
    <3>3. CASE q # r
      <4>1. Clean BY <2>2, <3>1, <3>3 DEF WalkInv, AuthorizedMeansClean
      <4> QED BY <1>4, <4>1 DEF Clean, Complete, SourceCount, CountsAlone
    <3> QED BY <3>2, <3>3
  <2> QED BY <2>4, <2>5, <2>6, <2>7, <2>8 DEF WalkInv
<1>9. \/ run' = run
      \/ run' = [run EXCEPT ![r] = Ended]
      \/ c.target <= 4 /\ run' = [run EXCEPT ![r] = [c EXCEPT !.pending = FALSE]]
      \/ /\ c.status = "running" /\ c.rev = revision /\ c.target = 5 /\ ~ c.bad
         /\ run' = [run EXCEPT ![r] = Passed(c)]
  BY <1>1, <1>3, SettledPage
<1> QED BY <1>7, <1>8, <1>9

\* A batch leaves clean data clean, and its audit vouches for what it made of them.
LEMMA BatchLeavesClean ==
  ASSUME StoreInv, NEW p \in PlanRecs, \A d \in Removed(p) : Deletable(p, d), Clean,
         rows' = rows \ Removed(p), obs' = Rewired(p), sync' = sync
  PROVE  Clean'
<1>1. obs \in [Sources -> Refs] /\ rows \subseteq Sources
  BY DEF StoreInv, StoreTypeOK
<1>2. /\ Removed(p) \subseteq rows
      /\ \A s \in Sources :
            \/ /\ s \notin Removed(p) /\ obs[s] \notin Removed(p) /\ obs'[s] = obs[s]
            \/ /\ s \in Removed(p) \/ obs[s] \in Removed(p)
               /\ obs'[s] \in rows \ Removed(p)
            \/ /\ s \in Removed(p) /\ obs[s] \in Sources \ Removed(p)
               /\ obs'[s] = obs[s]
  BY RewiredTells
<1>3. /\ \A s \in Complete : SourceCount(s) = 1
      /\ \A s \in Sources : obs[s] # NoSource => obs[s] \in rows
  BY DEF Clean
<1>4. Complete' = Complete /\ Complete \subseteq Sources BY DEF Complete
<1>5. NoSource \notin rows BY <1>1, SourcesKnown
<1>6. ASSUME NEW s \in Sources, obs'[s] # NoSource PROVE obs'[s] \in rows'
  BY <1>2, <1>3, <1>6
<1>7. ASSUME NEW s \in Complete PROVE SourceCount(s)' = 1
  <2>1. s \in Sources /\ SourceCount(s) = 1 BY <1>3, <1>4
  <2>2. SourceCount(s) = 1 <=>
          \/ s \in rows /\ (obs[s] = NoSource \/ obs[s] = s)
          \/ s \notin rows /\ obs[s] # NoSource
    BY DEF SourceCount, CountsAlone
  <2>3. SourceCount(s)' = 1 <=>
          \/ s \in rows' /\ (obs'[s] = NoSource \/ obs'[s] = s)
          \/ s \notin rows' /\ obs'[s] # NoSource
    BY DEF SourceCount, CountsAlone
  <2>4. CASE s \in Removed(p)
    <3>1. s \notin rows' /\ s \in rows BY <1>2, <2>4
    <3>2. obs'[s] # NoSource BY <1>2, <1>5, <2>1, <2>4, SourcesKnown
    <3> QED BY <2>3, <3>1, <3>2
  <2>5. CASE s \in rows /\ s \notin Removed(p)
    <3>1. obs[s] = NoSource \/ obs[s] = s BY <2>1, <2>2, <2>5
    <3>2. obs[s] \notin Removed(p) BY <1>2, <1>5, <2>5, <3>1
    <3>3. obs'[s] = obs[s] BY <1>2, <2>1, <2>5, <3>2
    <3> QED BY <2>3, <2>5, <3>1, <3>3
  <2>6. CASE s \notin rows
    <3>1. obs[s] # NoSource BY <2>1, <2>2, <2>6
    <3>2. obs'[s] # NoSource BY <1>2, <1>5, <2>1, <2>6, <3>1
    <3> QED BY <2>3, <2>6, <3>2
  <2> QED BY <2>4, <2>5, <2>6
<1> QED BY <1>4, <1>6, <1>7 DEF Clean

\* The guarded batch: what it needs and what it writes.
RemovesRows(e) ==
    LET p == plans[e]
    IN  /\ p.at = "planned" /\ Removed(p) # {} /\ Guarded(p)
        /\ \A d \in Removed(p) : Deletable(p, d)
        /\ rows' = rows \ Removed(p)
        /\ obs' = Rewired(p)
        /\ revision' = Fenced
        /\ run' = [run EXCEPT ![p.run].rev = revision', ![p.run].seen = <<rows', obs', sync>>]
        /\ plans' = [plans EXCEPT ![e].at = "done"]
        /\ UNCHANGED <<fact, sync, imports, pages>>

LEMMA ExecutedBatch ==
  ASSUME NEW e \in Executors, ExecuteBatch(e)
  PROVE  \/ RemovesRows(e)
         \/ /\ UNCHANGED <<data, revision, run, pages, session>>
            /\ \/ plans' = [plans EXCEPT ![e].at = "done"]
               \/ plans' = [plans EXCEPT ![e] = NoPlan]
BY DEF ExecuteBatch, RemovesRows, data

LEMMA BatchKeeps ==
  ASSUME TypeInv, WalkInv, NEW e \in Executors, ExecuteBatch(e)
  PROVE  WalkInv'
<1>1. StoreInv /\ CleanupTypeOK /\ Bound BY DEF TypeInv, WalkInv
<1>2. plans \in [Executors -> PlanRecs] /\ run \in [Runs -> RunRecs] /\ revision \in Nat
  BY <1>1 DEF CleanupTypeOK
<1>3. CASE /\ UNCHANGED <<data, revision, run, pages, session>>
           /\ \/ plans' = [plans EXCEPT ![e].at = "done"]
              \/ plans' = [plans EXCEPT ![e] = NoPlan]
  <2>1. \A x \in Executors : plans'[x] = plans[x] \/ plans'[x].at # "planned"
    BY <1>2, <1>3 DEF NoPlan, PlanRecs
  <2>2. Quiet BY <1>3, <2>1 DEF Quiet, Lingers
  <2> QED BY <2>2, QuietKeeps
<1>4. CASE RemovesRows(e)
  <2>1. PICK p \in PlanRecs : p = plans[e] BY <1>2
  <2>2. PICK r \in Runs : r = p.run BY <1>1, <1>4, <2>1 DEF RemovesRows, Bound
  <2>3. Live(r) /\ run[r].status = "complete"
    BY <1>4, <2>1, <2>2 DEF RemovesRows, Guarded, Live
  <2>4. revision' = revision + 1 BY <1>4, <2>3 DEF RemovesRows, Fenced
  <2> DEFINE seen == <<rows', obs', sync>>
  <2>5. /\ run'[r].rev = revision' /\ run'[r].seen = seen /\ run'[r].status = "complete"
        /\ \A q \in Runs : q # r => run'[q] = run[q]
    <3>1. run' = [run EXCEPT ![r].rev = revision', ![r].seen = seen]
      BY <1>4, <2>1, <2>2 DEF RemovesRows
    <3> HIDE DEF seen
    <3>2. run[r] \in RunRecs BY <1>2
    <3> QED BY <1>2, <2>3, <3>1, <3>2 DEF RunRecs
  <2>6. seen = data' BY <1>4 DEF RemovesRows, data
  <2> HIDE DEF seen
  <2>7. \A q \in Runs : q # r => ~ Live(q)'
    <3>1. \A q \in Runs : run[q].rev <= revision /\ run[q].rev \in Nat
      BY <1>2 DEF WalkInv, Fence, RunRecs
    <3> QED BY <1>2, <2>4, <2>5, <3>1 DEF Live
  <2>8. UNCHANGED pages BY <1>4 DEF RemovesRows
  <2>9. Bound'
    <3>1. \A k \in Steppers : pages'[k].at # "idle" =>
              pages'[k].run \in Runs /\ run'[pages'[k].run].status # "none"
      BY <1>1, <2>5, <2>8 DEF Bound
    <3>2. \A x \in Executors : plans'[x].at = "planned" => plans'[x].run \in Runs
      BY <1>1, <1>2, <1>4 DEF RemovesRows, Bound, PlanRecs
    <3>3. \A q \in Runs : run'[q].status = "running" /\ ~ run'[q].pending => run'[q].target <= 4
      BY <1>1, <2>5 DEF Bound
    <3> QED BY <3>1, <3>2, <3>3 DEF Bound
  <2>10. Fence'
    <3>1. ASSUME NEW q \in Runs
          PROVE  run'[q].rev <= revision' /\ (Live(q)' => run'[q].seen = data')
      <4>1. CASE q = r BY <1>2, <2>4, <2>5, <2>6, <4>1
      <4>2. CASE q # r
        <5>1. run'[q] = run[q] /\ run[q].rev <= revision /\ run[q].rev \in Nat
          BY <1>2, <2>5, <4>2 DEF WalkInv, Fence, RunRecs
        <5> QED BY <1>2, <2>4, <2>7, <4>2, <5>1
      <4> QED BY <4>1, <4>2
    <3> QED BY <3>1 DEF Fence, FenceHolds
  <2>11. AuditInv'
    <3>1. ASSUME NEW q \in Runs, run'[q].status = "running" PROVE ~ Live(q)'
      BY <2>5, <2>7, <3>1
    <3> QED BY <3>1 DEF AuditInv
  <2>12. PagesInv'
    <3> SUFFICES ASSUME NEW k \in Steppers, pages'[k].at = "prepared",
                        run'[pages'[k].run].status = "running"
                 PROVE  /\ pages'[k].version <= run'[pages'[k].run].version
                        /\ ~ Live(pages[k].run)'
      BY DEF PagesInv
    <3>1. PICK q \in Runs : q = pages[k].run BY <1>1, <2>8 DEF Bound
    <3>2. q # r /\ run'[q] = run[q] BY <2>5, <2>8, <3>1
    <3>3. ~ Live(q)' BY <2>7, <3>2
    <3>4. ~ Live(pages[k].run)' BY <2>8, <3>1, <3>3 DEF Live
    <3> QED BY <2>8, <3>1, <3>2, <3>4 DEF WalkInv, PagesInv
  <2>13. AuthorizedMeansClean'
    <3>1. Clean BY <2>3 DEF WalkInv, AuthorizedMeansClean
    <3>2. /\ \A d \in Removed(p) : Deletable(p, d)
          /\ rows' = rows \ Removed(p) /\ obs' = Rewired(p) /\ sync' = sync
      BY <1>4, <2>1 DEF RemovesRows
    <3>3. Clean' BY <1>1, <3>1, <3>2, BatchLeavesClean
    <3> QED BY <3>3 DEF AuthorizedMeansClean
  <2> QED BY <2>9, <2>10, <2>11, <2>12, <2>13 DEF WalkInv
<1> QED BY <1>3, <1>4, ExecutedBatch

(***************************************************************************)
(* The invariant of the specification.                                       *)
(***************************************************************************)
LEMMA InitWalkInv == Init => WalkInv
<1> SUFFICES ASSUME Init PROVE WalkInv
  OBVIOUS
<1>1. /\ revision = 0 /\ run = [r \in Runs |-> NewRun]
      /\ pages = [k \in Steppers |-> NoPage] /\ plans = [e \in Executors |-> NoPlan]
  BY DEF Init
<1>2. /\ NewRun.status = "none" /\ NewRun.rev = 0 /\ NoPage.at = "idle" /\ NoPlan.at = "idle"
  BY DEF NewRun, NoPage, NoPlan
<1>3. \A r \in Runs : run[r] = NewRun /\ ~ Live(r) BY <1>1, <1>2 DEF Live
<1> QED BY <1>1, <1>2, <1>3
       DEF WalkInv, Bound, Fence, FenceHolds, AuditInv, PagesInv, AuthorizedMeansClean

LEMMA NextWalkInv == TypeInv /\ WalkInv /\ [Next]_vars => WalkInv'
<1> SUFFICES ASSUME TypeInv, WalkInv, [Next]_vars PROVE WalkInv'
  OBVIOUS
<1>1. /\ CleanupTypeOK /\ run \in [Runs -> RunRecs] /\ pages \in [Steppers -> PageRecs]
      /\ plans \in [Executors -> PlanRecs] /\ session \in SessionRecs
  BY DEF TypeInv, CleanupTypeOK
<1>2. ASSUME UNCHANGED <<data, revision, run, pages, plans>> PROVE WalkInv'
  <2>1. Quiet BY <1>2 DEF Quiet, Lingers
  <2> QED BY <2>1, QuietKeeps
<1>3. ASSUME NEW r \in Runs, UNCHANGED <<data, revision, pages, plans>>,
             \/ run' = [run EXCEPT ![r] = Ended]
             \/ run' = [run EXCEPT ![r].expired = TRUE]
             \/ run' = [run EXCEPT ![r].conts = @ + 1]
      PROVE  WalkInv'
  <2>1. \A q \in Runs : q # r => Lingers(q) BY <1>1, <1>3 DEF Lingers
  <2>2. Lingers(r)
    <3> DEFINE c == run[r]
               late == [c EXCEPT !.expired = TRUE]
               more == [c EXCEPT !.conts = @ + 1]
    <3>1. c \in RunRecs BY <1>1
    <3>2. /\ late.status = c.status /\ late.rev = c.rev /\ late.target = c.target
          /\ late.after = c.after /\ late.version = c.version /\ late.pending = c.pending
          /\ late.bad = c.bad /\ late.counts = c.counts /\ late.seen = c.seen
          /\ late.expired = TRUE
      BY <3>1 DEF RunRecs
    <3>3. /\ more.status = c.status /\ more.rev = c.rev /\ more.target = c.target
          /\ more.after = c.after /\ more.version = c.version /\ more.pending = c.pending
          /\ more.bad = c.bad /\ more.counts = c.counts /\ more.seen = c.seen
          /\ more.expired = c.expired
      BY <3>1 DEF RunRecs
    <3>4. run'[r] = Ended \/ run'[r] = late \/ run'[r] = more BY <1>1, <1>3
    <3> HIDE DEF late, more
    <3> QED BY <3>2, <3>3, <3>4 DEF Lingers
  <2>3. Quiet BY <1>3, <2>1, <2>2 DEF Quiet
  <2> QED BY <2>3, QuietKeeps
<1>4. ASSUME NEW s \in Sources, Capture(s) PROVE WalkInv'
  BY <1>4, WriteKeeps DEF Capture
<1>5. ASSUME NEW i \in Importers, Import(i) PROVE WalkInv'
  <2>1. CASE ImportReads(i) /\ UNCHANGED cleanupVars
    BY <1>2, <2>1 DEF ImportReads, Pick, Look, Verify, ImportFails, ImportCut, data, cleanupVars
  <2>2. CASE /\ InsertRow(i) \/ Observe(i)
             /\ revision' = IF <<rows, obs>>' = <<rows, obs>> THEN revision ELSE Fenced
             /\ UNCHANGED <<run, pages, session, plans>>
    <3>1. UNCHANGED sync BY <2>2 DEF InsertRow, Observe
    <3>2. CASE <<rows, obs>>' = <<rows, obs>> BY <1>2, <2>2, <3>1, <3>2 DEF data
    <3>3. CASE <<rows, obs>>' # <<rows, obs>> BY <2>2, <3>3, WriteKeeps
    <3> QED BY <3>2, <3>3
  <2>3. CASE MarkSource(i) /\ revision' = Fenced /\ UNCHANGED <<run, pages, session, plans>>
    BY <2>3, WriteKeeps
  <2> QED BY <1>5, <2>1, <2>2, <2>3 DEF Import
<1>6. ASSUME NEW r \in Runs, RunExpires(r) PROVE WalkInv'
  BY <1>3, <1>6 DEF RunExpires
<1>7. ASSUME NEW r \in Runs, ResumeAudit(r) PROVE WalkInv'
  <2>1. UNCHANGED <<data, revision, pages, plans>> BY <1>7 DEF ResumeAudit, storeVars, data
  <2>2. CASE run' = [run EXCEPT ![r] = Ended] BY <1>3, <2>1, <2>2
  <2>3. CASE run' = [run EXCEPT ![r] = IF run[r].conts >= MaxContinuations THEN Ended
                                       ELSE [run[r] EXCEPT !.conts = @ + 1]]
    <3> DEFINE more == [run[r] EXCEPT !.conts = @ + 1]
    <3>1. run' = [run EXCEPT ![r] = Ended] \/ run' = [run EXCEPT ![r] = more] BY <2>3
    <3>2. [run EXCEPT ![r] = more] = [run EXCEPT ![r].conts = @ + 1] OBVIOUS
    <3> QED BY <1>3, <2>1, <3>1, <3>2
  <2> QED BY <1>7, <2>2, <2>3 DEF ResumeAudit
<1>8. ASSUME NEW r \in Runs, AuditCostStop(r) PROVE WalkInv'
  BY <1>3, <1>8 DEF AuditCostStop
<1>9. ASSUME NEW r \in Runs, BindAudit(r) PROVE WalkInv'
  BY <1>2, <1>3, <1>9 DEF BindAudit, storeVars, data
<1>10. ASSUME NEW k \in Steppers, StepCut(k) PROVE WalkInv'
  <2>1. \A j \in Steppers : pages'[j] = pages[j] \/ pages'[j].at = "idle"
    BY <1>1, <1>10 DEF StepCut, NoPage
  <2>2. Quiet BY <1>10, <2>1 DEF StepCut, Quiet, Lingers
  <2> QED BY <2>2, QuietKeeps
<1>11. CASE SessionExpires BY <1>2, <1>11 DEF SessionExpires
<1>12. CASE StartSession BY <1>2, <1>12 DEF StartSession, storeVars, data
<1>13. CASE ResumeSession BY <1>2, <1>13 DEF ResumeSession, storeVars, data
<1>14. ASSUME NEW e \in Executors, Checkpoint(e) PROVE WalkInv'
  <2>1. \A x \in Executors : plans'[x] = plans[x] \/ plans'[x].at # "planned"
    BY <1>1, <1>14 DEF Checkpoint, NoPlan
  <2>2. Quiet BY <1>14, <2>1 DEF Checkpoint, Quiet, Lingers, storeVars, data
  <2> QED BY <2>2, QuietKeeps
<1>15. ASSUME NEW e \in Executors, Plan(e) PROVE WalkInv'
  <2>1. session.run \in Runs BY <1>1, <1>15 DEF Plan, Authorized, SessionRecs
  <2>2. UNCHANGED <<data, revision, pages>> BY <1>15 DEF Plan, storeVars, data
  <2>3. CASE run' = [run EXCEPT ![session.run] = Ended] /\ UNCHANGED plans
    BY <1>3, <2>1, <2>2, <2>3
  <2>4. ASSUME UNCHANGED run, NEW plan, plan.run = session.run,
               plans' = [plans EXCEPT ![e] = plan]
        PROVE  WalkInv'
    <3>1. \A x \in Executors : plans'[x] = plans[x] \/ plans'[x].run \in Runs
      BY <1>1, <2>1, <2>4
    <3>2. Quiet BY <2>2, <2>4, <3>1 DEF Quiet, Lingers
    <3> QED BY <3>2, QuietKeeps
  <2>5. ASSUME UNCHANGED run,
               NEW from \in {<<NoSource, NoSource>>, <<session.after, session.prior>>},
               LET page == PageOf(rows, from[1], BatchLimit)
                   end == IF page = {} THEN from[1] ELSE CHOOSE s \in page : IsLatest(s, page)
               IN  plans' = [plans EXCEPT ![e] =
                       [at |-> "planned", run |-> session.run, rev |-> revision,
                        retain |-> [d \in Sources |->
                           IF d \in page /\ Retained(page, from[2], d) # d
                           THEN Retained(page, from[2], d) ELSE NoSource],
                        after |-> end,
                        prior |-> IF page = {} THEN from[2] ELSE Retained(page, from[2], end),
                        last |-> \A s \in rows : s <= end]]
        PROVE  \E plan : plan.run = session.run /\ plans' = [plans EXCEPT ![e] = plan]
    BY <2>5
  <2> QED BY <1>15, <2>3, <2>4, <2>5 DEF Plan
<1>16. CASE UNCHANGED vars BY <1>2, <1>16 DEF vars, storeVars, cleanupVars, data
<1> QED BY <1>4, <1>5, <1>6, <1>7, <1>8, <1>9, <1>10, <1>11, <1>12, <1>13, <1>14, <1>15, <1>16,
           StartKeeps, PrepareKeeps, ApplyKeeps, SettleKeeps, BatchKeeps
       DEF Next

LEMMA SpecIInv == Spec => [](TypeInv /\ WalkInv)
<1>1. Init => TypeInv /\ WalkInv BY InitTypeInv, InitWalkInv
<1>2. TypeInv /\ WalkInv /\ [Next]_vars => (TypeInv /\ WalkInv)'
  BY NextTypeInv, NextWalkInv DEF WalkInv
<1> QED BY <1>1, <1>2, PTL DEF Spec

(***************************************************************************)
(* The theorems.                                                             *)
(***************************************************************************)
(* Every variable of the promotion, the audits, the session and the batches  *)
(* stays in its range: an audit stops at its last target and its last         *)
(* continuation, and a page or batch never leads outside the sources.         *)
THEOREM TypeCorrect == Spec => []TypeOK
<1>1. TypeInv /\ WalkInv => TypeOK
  BY DEF TypeInv, StoreInv, CleanupTypeOK, TypeOK, RunRecs, PageRecs, SessionRecs, PlanRecs
<1> QED BY <1>1, SpecIInv, PTL

(* Whatever represents a source tells what the source told, whatever imports  *)
(* and batches overlap.                                                       *)
THEOREM EventsTellFacts == Spec => []EventsKeepFacts
<1>1. TypeInv /\ WalkInv => EventsKeepFacts
  <2> SUFFICES ASSUME TypeInv, NEW s \in Sources, NEW r \in rows \cap {s, obs[s]}
               PROVE  fact[r] = fact[s]
    BY DEF EventsKeepFacts, Told, RowsOf
  <2>1. rows \subseteq Sources BY DEF TypeInv, StoreInv, StoreTypeOK
  <2> QED BY <2>1, SourcesKnown DEF TypeInv, StoreInv, FactsKept
<1> QED BY <1>1, SpecIInv, PTL

(* A live audit vouches for the data as they are: no write to the audited     *)
(* tables escapes the revision.                                               *)
THEOREM AuditsAreFenced == Spec => []FenceHolds
<1>1. TypeInv /\ WalkInv => FenceHolds BY DEF WalkInv, Fence
<1> QED BY <1>1, SpecIInv, PTL

(* An audit that can still authorize a batch means clean data, across pages   *)
(* of any size, concurrent steps and the batches it was moved over.           *)
THEOREM AuthorizedAuditsAreClean == Spec => []AuthorizedMeansClean
<1>1. TypeInv /\ WalkInv => AuthorizedMeansClean BY DEF WalkInv
<1> QED BY <1>1, SpecIInv, PTL

\* Of clean data an as-of reader is answered by the latest complete source.
LatestOf(t) == {e \in Sources : IsLatest(e, UpTo(Complete, t))}

LatestAnswers ==
    Clean => \A t \in Sources : AsOf(t) = UNION {{fact[s]} : s \in LatestOf(t)}

LEMMA CleanAnswersLatest == TypeInv => LatestAnswers
<1> SUFFICES ASSUME TypeInv, Clean, NEW t \in Sources
             PROVE  AsOf(t) = UNION {{fact[s]} : s \in LatestOf(t)}
  BY DEF LatestAnswers
<1>1. rows \subseteq Sources /\ FactsKept BY DEF TypeInv, StoreInv, StoreTypeOK
<1>2. ASSUME NEW s \in Complete PROVE Represented(s) /\ Told(s) = {fact[s]}
  <2>1. s \in Sources /\ SourceCount(s) = 1 BY DEF Complete, Clean
  <2>2. s \in rows \/ (obs[s] # NoSource /\ obs[s] \in rows)
    BY <2>1 DEF SourceCount, CountsAlone, Clean
  <2>3. Represented(s) BY <2>2 DEF Represented, RowsOf
  <2>4. \A r \in RowsOf(s) : fact[r] = fact[s]
    BY <1>1, <2>1, SourcesKnown DEF RowsOf, FactsKept
  <2> QED BY <2>3, <2>4 DEF Represented, Told
<1>3. {c \in Complete : Represented(c)} = Complete BY <1>2
<1>4. LatestOf(t) \subseteq Complete BY DEF LatestOf, IsLatest, UpTo
<1>5. \A e \in LatestOf(t) : Told(e) = {fact[e]} BY <1>2, <1>4
<1>6. AsOf(t) = UNION {Told(s) : s \in LatestOf(t)} BY <1>3 DEF AsOf, LatestOf
<1> QED BY <1>5, <1>6

(* A batch changes no as-of answer and leaves every complete source            *)
(* represented.                                                                *)
THEOREM CleanupKeepsAnswers == Spec => CleanupKeepsAsOf
<1>1. ASSUME TypeInv, WalkInv, LatestAnswers, LatestAnswers', [Next]_vars,
             rows' # rows, rows' \subseteq rows
      PROVE  /\ \A t \in Sources : AsOf(t)' = AsOf(t)
             /\ \A s \in Complete : Represented(s)'
  <2>1. PICK e \in Executors : RemovesRows(e)
    <3>1. ASSUME NEW i \in Importers, Import(i) PROVE FALSE
      BY <1>1, <3>1
         DEF Import, ImportReads, Pick, Look, Verify, ImportFails, ImportCut, InsertRow, Observe,
             MarkSource
    <3>2. ASSUME NEW s \in Sources, Capture(s) PROVE FALSE
      BY <1>1, <3>2 DEF Capture, Normalize
    <3>3. ASSUME NEW r \in Runs,
                 \/ RunExpires(r) \/ StartAudit(r) \/ ResumeAudit(r) \/ AuditCostStop(r)
                 \/ BindAudit(r)
          PROVE  FALSE
      BY <1>1, <3>3
         DEF RunExpires, StartAudit, ResumeAudit, AuditCostStop, BindAudit, storeVars, data
    <3>4. ASSUME NEW k \in Steppers,
                 \/ \E r \in Runs : PreparePage(k, r)
                 \/ ApplyPage(k)
                 \/ \E reject \in BOOLEAN : SettlePage(k, reject)
                 \/ StepCut(k)
          PROVE  FALSE
      BY <1>1, <3>4 DEF PreparePage, ApplyPage, SettlePage, StepCut, storeVars, data
    <3>5. ASSUME \/ SessionExpires \/ StartSession \/ ResumeSession
                 \/ \E e \in Executors : Plan(e) \/ Checkpoint(e)
          PROVE  FALSE
      BY <1>1, <3>5
         DEF SessionExpires, StartSession, ResumeSession, Plan, Checkpoint, storeVars, data
    <3>6. rows' # rows => ~ UNCHANGED vars BY DEF vars, storeVars
    <3>7. \E e \in Executors : ExecuteBatch(e)
      BY <1>1, <3>1, <3>2, <3>3, <3>4, <3>5, <3>6 DEF Next
    <3> QED BY <1>1, <3>7, ExecutedBatch DEF data
  <2>2. PICK p \in PlanRecs : p = plans[e] BY <1>1 DEF TypeInv, CleanupTypeOK
  <2>3. /\ \A d \in Removed(p) : Deletable(p, d)
        /\ rows' = rows \ Removed(p) /\ obs' = Rewired(p) /\ sync' = sync /\ fact' = fact
    BY <2>1, <2>2 DEF RemovesRows
  <2>4. Clean
    <3>1. PICK r \in Runs : r = p.run
      BY <1>1, <2>1, <2>2 DEF RemovesRows, WalkInv, Bound
    <3>2. run[r].status = "complete" /\ Live(r)
      BY <2>1, <2>2, <3>1 DEF RemovesRows, Guarded, Live
    <3> QED BY <1>1, <3>2 DEF WalkInv, AuthorizedMeansClean
  <2>5. StoreInv /\ StoreInv'
    <3>1. TypeInv' BY <1>1, NextTypeInv DEF WalkInv
    <3> QED BY <1>1, <3>1 DEF TypeInv
  <2>6. Clean' BY <2>3, <2>4, <2>5, BatchLeavesClean
  <2>7. Complete' = Complete BY <2>3 DEF Complete
  <2>8. \A t \in Sources : LatestOf(t)' = LatestOf(t) BY <2>7 DEF LatestOf
  <2>9. \A t \in Sources : AsOf(t)' = AsOf(t)
    <3> TAKE t \in Sources
    <3>1. AsOf(t) = UNION {{fact[s]} : s \in LatestOf(t)} BY <1>1, <2>4 DEF LatestAnswers
    <3>2. AsOf(t)' = UNION {{fact'[s]} : s \in LatestOf(t)'} BY <1>1, <2>6 DEF LatestAnswers
    <3> QED BY <2>3, <2>8, <3>1, <3>2
  <2>10. ASSUME NEW s \in Complete PROVE Represented(s)'
    <3>1. s \in Sources BY DEF Complete
    <3>2. SourceCount(s)' = 1 BY <2>6, <2>7 DEF Clean
    <3>3. s \in rows' \/ obs'[s] # NoSource BY <3>2 DEF SourceCount, CountsAlone
    <3>4. obs'[s] # NoSource => obs'[s] \in rows' BY <2>6, <3>1 DEF Clean
    <3> QED BY <3>3, <3>4 DEF Represented, RowsOf
  <2> QED BY <2>9, <2>10
<1>2. TypeInv /\ WalkInv /\ LatestAnswers /\ LatestAnswers' /\ [Next]_vars =>
        [rows' # rows /\ rows' \subseteq rows =>
            /\ \A t \in Sources : AsOf(t)' = AsOf(t)
            /\ \A s \in Complete : Represented(s)']_vars
  BY <1>1
<1>3. TypeInv /\ WalkInv => LatestAnswers BY CleanAnswersLatest
<1> QED BY <1>2, <1>3, SpecIInv, PTL DEF Spec, CleanupKeepsAsOf

====
