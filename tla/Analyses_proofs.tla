---------------------------- MODULE Analyses_proofs ----------------------------
(***************************************************************************)
(* Proofs about what is learnt and calculated.                               *)
(*                                                                           *)
(* PostRaceReview, for any rounds, imports, corrections and overlapping      *)
(* reviews.  Two facts carry them: an import registers in the hour it began,  *)
(* so that no run older than the results appears after them; and a review     *)
(* goes on only over verdicts equal to its own, so that the legs of a lineage *)
(* are filled in order by requests that agree.                               *)
(*                                                                           *)
(* Calculations: replays, telemetry, and what is known before a start.  What   *)
(* a question asks for is followed back to the data it was computed from, and  *)
(* of that data something general is proved: for any groups of forecasts, any  *)
(* race and any book.                                                        *)
(***************************************************************************)
EXTENDS Functions, Calculations, PostRaceReview, FiniteSetTheorems, TLAPS

LOCAL INSTANCE FiniteSetsExt

(* Finite sets once more under a name of their own, for what rests on well-founded *)
(* orders: the prover keeps apart the copies of one library that it meets on two   *)
(* ways.                                                                          *)
Finite == INSTANCE FiniteSetTheorems

(***************************************************************************)
(* The inductive invariant.                                                  *)
(***************************************************************************)
PayloadOK(p) ==
    /\ p.round \in Rounds /\ p.sub \in Submissions /\ p.text \in Contents
    /\ p.s1.at \in Hours /\ p.s2.at \in Hours

\* A run carries its own payload, and a submission is one run of its round.
RunsOK ==
    /\ IsFiniteSet(runs)
    /\ \A u \in runs : /\ PayloadOK(u.payload)
                       /\ u.round = u.payload.round /\ u.sub = u.payload.sub
                       /\ u.created \in Hours /\ u.created <= now
    /\ \A u, v \in runs : u.round = v.round /\ u.sub = v.sub => u = v

\* An import in flight began in this hour.
ImportsOK ==
    /\ now \in Hours
    /\ \A e \in exports : e.at \in Hours
    /\ imp = [k \in Importers |-> imp[k]]
    /\ \A k \in Importers : imp[k].phase \in {"checked", "ready"} =>
           PayloadOK(imp[k].payload) /\ imp[k].created = now

\* Results come after the start, which is then among the starts the round had, and the
\* winners of a settled round are history.
ResultsOK ==
    /\ start \in [Rounds -> Hours \ {None}]
    /\ resultAt \in [Rounds -> Hours]
    /\ won \in [Rounds -> [Legs -> SUBSET Horses]]
    /\ history \in [Rounds -> SUBSET [Legs -> Horses]]
    /\ knownStarts = [r \in Rounds |-> knownStarts[r]]
    /\ \A r \in Rounds :
           /\ resultAt[r] <= now
           /\ resultAt[r] # None => start[r] <= resultAt[r] /\ start[r] \in knownStarts[r]
           /\ resultAt[r] = None => won[r] = [l \in Legs |-> {}] /\ history[r] = {}
           /\ Settled(r) => Winners(r) \in history[r]

Lineages ==
    [kind : {"external", "sealed"}, round : Rounds,
     sub : Submissions \cup {u.sub : u \in SealedRuns}]
VerdictRows == [of : Lineages, leg : Legs, winner : Horses, miss : BOOLEAN, learns : BOOLEAN]
RequestRows ==
    [phase : {"review", "link"}, of : Lineages, leg : Legs, learns : BOOLEAN,
     winners : [Legs -> Horses], picks : [Legs -> SUBSET Horses]]

ReviewsOK ==
    /\ rev \in [Reviewers -> {Idle} \cup RequestRows]
    /\ reviews \subseteq VerdictRows
    /\ links \subseteq observed /\ observed \subseteq reviews

TypeInv == RunsOK /\ ImportsOK /\ ResultsOK /\ ReviewsOK

\* The lineages that may teach: the newest of the runs registered before the results,
\* its sources in time too, or where there is none the newest analysis sealed before a
\* start the round had.
RegisteredBefore(r) == {u \in runs : u.round = r /\ u.created < resultAt[r]}

InTime(u) == \A t \in {u.created, u.payload.s1.at, u.payload.s2.at} : t < resultAt[u.round]

Teaches(x) ==
    /\ resultAt[x.round] # None
    /\ \/ /\ RegisteredBefore(x.round) = {}
          /\ x.kind = "sealed"
          /\ \E s \in knownStarts[x.round] : x = SealedOf(SealedAt(x.round, s))
       \/ \E u \in RegisteredBefore(x.round) :
              /\ x = External(u.round, u.sub) /\ InTime(u)
              /\ \A v \in RegisteredBefore(x.round) : v = u \/ Supersedes(u, v)

Teachers == {x \in Lineages : Teaches(x)}

TeachersInv ==
    /\ \A p \in Reviewers : rev[p].phase \in {"review", "link"} /\ rev[p].learns
                             => rev[p].of \in Teachers
    /\ \A p \in Reviewers : rev[p].phase = "link" => rev[p].learns
    /\ \A v \in links : v.of \in Teachers

\* The legs of a lineage are reviewed in order, each once, alike, and with the
\* winners of one outcome.
LineageInv ==
    /\ \A v, w \in reviews : SameLeg(v, w) => v = w
    /\ \A v \in reviews : \A l \in 1 .. v.leg : \E w \in reviews : w.of = v.of /\ w.leg = l
    /\ \A v, w \in reviews : v.of = w.of => v.learns = w.learns
    /\ \A v \in reviews : \E h \in history[v.of.round] :
           \A w \in reviews : w.of = v.of => w.winner = h[w.leg]

\* A request has found or left its own verdict on every leg before the one it is at.
VerdictAt(m, l) ==
    [of |-> m.of, leg |-> l, winner |-> m.winners[l],
     miss |-> m.winners[l] \notin m.picks[l], learns |-> m.learns]

RequestInv ==
    \A p \in Reviewers : rev[p].phase \in {"review", "link"} =>
        /\ rev[p].winners \in history[rev[p].of.round]
        /\ \A l \in Legs : l < rev[p].leg \/ (l = rev[p].leg /\ rev[p].phase = "link")
                           => VerdictAt(rev[p], l) \in reviews

IInv == TypeInv /\ TeachersInv /\ LineageInv /\ RequestInv

Busy(p) == rev[p].phase \in {"review", "link"}

(***************************************************************************)
(* Choices from finite sets.                                                 *)
(***************************************************************************)
LEMMA FiniteSubsets ==
  ASSUME NEW S, IsFiniteSet(S)
  PROVE  Finite!FiniteSubsetsOf(S) = SUBSET S
<1>1. Finite!IsFiniteSet(S) BY DEF IsFiniteSet, Finite!IsFiniteSet
<1> QED BY <1>1, Finite!FS_FiniteSubsetsOfFinite

\* Among subsets of a finite set there is one that contains no other of them.
LEMMA LeastSubset ==
  ASSUME NEW S, IsFiniteSet(S), NEW Some, Some \subseteq SUBSET S, Some # {}
  PROVE  \E X \in Some : \A Y \in Some : Y \subseteq X => Y = X
<1>1. Finite!IsWellFoundedOn(Finite!StrictSubsetOrdering(S), Finite!FiniteSubsetsOf(S))
  BY Finite!FS_StrictSubsetOrderingWellFounded
<1>2. PICK X \in Some : \A Y \in Some : ~ (<<Y, X>> \in Finite!StrictSubsetOrdering(S))
  BY <1>1, FiniteSubsets, Finite!WFMin
<1>3. ASSUME NEW Y \in Some, Y \subseteq X, Y # X PROVE FALSE
  <2>1. <<Y, X>> \in Finite!StrictSubsetOrdering(S) BY <1>3 DEF Finite!StrictSubsetOrdering
  <2> QED BY <1>2, <2>1
<1> QED BY <1>3

\* A nonempty finite set with a total, transitive relation has a first element.
LEMMA FirstExists ==
  ASSUME NEW S, IsFiniteSet(S), S # {}, NEW R,
         \A x, y \in S : x = y \/ <<x, y>> \in R \/ <<y, x>> \in R,
         \A x, y, z \in S : <<x, y>> \in R /\ <<y, z>> \in R => <<x, z>> \in R
  PROVE  \E m \in S : \A y \in S : y = m \/ <<m, y>> \in R
<1> DEFINE HasFirst(X) == \E m \in X : \A y \in X : y = m \/ <<m, y>> \in R
           Bad == {X \in SUBSET S : X # {} /\ ~ HasFirst(X)}
<1>1. SUFFICES ASSUME Bad # {} PROVE FALSE
  <2>1. S \in SUBSET S OBVIOUS
  <2> QED BY <1>1, <2>1
<1>2. Bad \subseteq SUBSET S OBVIOUS
<1> HIDE DEF Bad
<1>3. PICK X \in Bad : \A Y \in Bad : Y \subseteq X => Y = X
  BY <1>1, <1>2, LeastSubset
<1> USE DEF Bad
<1>4. X \subseteq S /\ X # {} /\ ~ HasFirst(X) BY <1>3
<1>5. PICK x \in X : TRUE BY <1>4
<1> DEFINE Y == X \ {x}
<1>6. Y \subseteq S /\ Y # X /\ Y \subseteq X BY <1>4, <1>5
<1>7. Y \notin Bad BY <1>3, <1>6
<1>8. Y = {} \/ HasFirst(Y) BY <1>6, <1>7
<1>9. CASE Y = {} BY <1>4, <1>5, <1>9
<1>10. CASE HasFirst(Y)
  <2>1. PICK m \in Y : \A y \in Y : y = m \/ <<m, y>> \in R BY <1>10
  <2>2. m \in S /\ x \in S /\ m # x BY <2>1, <1>4, <1>5
  <2>3. CASE <<m, x>> \in R BY <1>4, <2>1, <2>3
  <2>4. CASE <<x, m>> \in R
    <3>1. \A y \in X : y = x \/ <<x, y>> \in R BY <1>4, <2>1, <2>2, <2>4
    <3> QED BY <1>4, <1>5, <3>1
  <2> QED BY <2>2, <2>3, <2>4
<1> QED BY <1>8, <1>9, <1>10

\* Of the rounds that are due the earliest is one of them.
LEMMA EarliestIsDue ==
  ASSUME NEW S \in SUBSET Rounds, S # {}
  PROVE  Earliest(S) \in S
<1> DEFINE R == {e \in Rounds \X Rounds : e[1] < e[2]}
<1>1. IsFiniteSet(S) /\ S \subseteq Nat BY ExternalAssumption, FS_Subset
<1>2. /\ \A x, y \in S : x = y \/ <<x, y>> \in R \/ <<y, x>> \in R
      /\ \A x, y, z \in S : <<x, y>> \in R /\ <<y, z>> \in R => <<x, z>> \in R
  BY <1>1
<1> HIDE DEF R
<1>3. PICK m \in S : \A y \in S : y = m \/ <<m, y>> \in R BY <1>1, <1>2, FirstExists
<1>4. \A y \in S : m <= y
  <2> TAKE y \in S
  <2>1. m \in Nat /\ y \in Nat BY <1>1
  <2>2. <<m, y>> \in R => m < y BY DEF R
  <2> QED BY <1>3, <2>1, <2>2
<1> QED BY <1>4 DEF Earliest

\* The latest run of a round is a run of it, newer than the others.
LEMMA LatestIsNewest ==
  ASSUME RunsOK, ImportsOK, NEW r, RunsOf(r) # {}
  PROVE  /\ Latest(r) \in RunsOf(r)
         /\ \A v \in RunsOf(r) : v = Latest(r) \/ Supersedes(Latest(r), v)
<1> DEFINE S == RunsOf(r)
           R == {e \in S \X S : Supersedes(e[1], e[2])}
<1>1. IsFiniteSet(S) BY FS_Subset DEF RunsOf, RunsOK
<1>2. \A u \in S : u.created \in Nat /\ u.sub \in Nat
  <2>1. Hours \subseteq Nat BY ExternalAssumption DEF Hours
  <2> QED BY <2>1, ExternalAssumption DEF RunsOf, RunsOK, PayloadOK
<1>3. \A u, v \in S : u # v => u.sub # v.sub BY DEF RunsOf, RunsOK
<1>4. /\ \A x, y \in S : x = y \/ <<x, y>> \in R \/ <<y, x>> \in R
      /\ \A x, y, z \in S : <<x, y>> \in R /\ <<y, z>> \in R => <<x, z>> \in R
  BY <1>2, <1>3 DEF Supersedes
<1> HIDE DEF R, S
<1>5. PICK m \in S : \A y \in S : y = m \/ <<m, y>> \in R BY <1>1, <1>4, FirstExists DEF S
<1>6. m \in RunsOf(r) /\ \A v \in RunsOf(r) : v = m \/ Supersedes(m, v) BY <1>5 DEF R, S
<1> QED BY <1>6 DEF Latest

\* A lineage of an external run names that run and no other.
LEMMA RunOfIsIt ==
  ASSUME RunsOK, NEW u \in runs
  PROVE  RunOf(External(u.round, u.sub)) = u
BY DEF RunOf, External, RunsOK

\* The newest analysis sealed before a start is one of the round's.
LEMMA SealedNewest ==
  ASSUME NEW r, NEW first, SealedBefore(r, first) # {}
  PROVE  SealedAt(r, first) \in SealedBefore(r, first)
<1> DEFINE S == SealedBefore(r, first)
           R == {e \in S \X S : Supersedes(e[1], e[2])}
<1>1. IsFiniteSet(S) BY ReviewAssumption, FS_Subset DEF SealedBefore
<1>2. \A u \in S : u.created \in Int /\ u.sub \in Nat BY ReviewAssumption DEF SealedBefore
<1>3. \A u, v \in S : u # v => u.sub # v.sub BY ReviewAssumption DEF SealedBefore
<1>4. /\ \A x, y \in S : x = y \/ <<x, y>> \in R \/ <<y, x>> \in R
      /\ \A x, y, z \in S : <<x, y>> \in R /\ <<y, z>> \in R => <<x, z>> \in R
  BY <1>2, <1>3 DEF Supersedes
<1> HIDE DEF R, S
<1>5. PICK m \in S : \A y \in S : y = m \/ <<m, y>> \in R BY <1>1, <1>4, FirstExists DEF S
<1>6. \E u \in S : \A v \in S : v = u \/ Supersedes(u, v) BY <1>5 DEF R
<1> QED BY <1>6 DEF S, SealedAt

\* A lineage of a sealed analysis names that analysis and no other.
LEMMA AnalysisOfIsIt ==
  ASSUME NEW u \in SealedRuns
  PROVE  AnalysisOf(SealedOf(u)) = u
BY ReviewAssumption DEF AnalysisOf, SealedOf

(***************************************************************************)
(* The invariant holds initially.                                            *)
(***************************************************************************)
LEMMA Constants ==
  /\ Hours \subseteq Nat /\ 0 \in Hours /\ None = 0 /\ None \in Hours
  /\ Rounds \subseteq Nat /\ Submissions \subseteq Nat /\ None \notin Submissions
  /\ LastLeg \in Nat /\ 1 \in Legs /\ LastLeg \in Legs /\ Legs \subseteq Nat
  /\ FirstStart \in Hours \ {None}
BY ExternalAssumption DEF Hours, None, Legs

\* A round whose legs have no winner is not settled.
LEMMA UnsettledWithoutWinners ==
  ASSUME NEW r, won[r] = [l \in Legs |-> {}]
  PROVE  ~ Settled(r)
<1>1. Cardinality({}) = 0 BY FS_EmptySet
<1> QED BY <1>1, Constants DEF Settled

LEMMA InitIInv == Init => IInv
<1> SUFFICES ASSUME Init PROVE IInv
  OBVIOUS
<1> USE DEF Init, RunInit
<1>1. RunsOK BY FS_EmptySet DEF RunsOK
<1>2. ImportsOK BY Constants DEF ImportsOK, Idle
<1>3. ResultsOK
  <2>1. \A r \in Rounds : ~ Settled(r) BY UnsettledWithoutWinners
  <2> QED BY <2>1, Constants DEF ResultsOK
<1>4. ReviewsOK BY DEF ReviewsOK
<1>5. TeachersInv BY DEF TeachersInv, Idle
<1>6. LineageInv BY DEF LineageInv
<1>7. RequestInv BY DEF RequestInv, Idle
<1> QED BY <1>1, <1>2, <1>3, <1>4, <1>5, <1>6, <1>7 DEF IInv, TypeInv

(***************************************************************************)
(* What a step of registration does to the runs.                             *)
(***************************************************************************)
\* Runs are only added, in the hour they are created, under a new submission.
AddsRun(m) ==
    /\ PayloadOK(m) /\ Stored(m) = {}
    /\ \E x \in runs' : /\ x.round = m.round /\ x.sub = m.sub /\ x.payload = m /\ x.created = now
                        /\ runs' = runs \cup {x}

RunsGrow == runs' = runs \/ \E k \in Importers : AddsRun(imp[k].payload)

LEMMA RegistrationAddsRuns ==
  ASSUME ImportsOK, RunNext
  PROVE  RunsGrow
<1>1. ASSUME NEW k \in Importers, StoreRun(k) PROVE RunsGrow
  <2>1. PayloadOK(imp[k].payload) /\ imp[k].created = now BY <1>1 DEF StoreRun, ImportsOK
  <2> DEFINE x == NewRun(imp[k])
  <2>2. x.round = imp[k].payload.round /\ x.sub = imp[k].payload.sub
        /\ x.payload = imp[k].payload /\ x.created = now
    BY <2>1 DEF NewRun
  <2>3. CASE Stored(imp[k].payload) = {} /\ runs' = runs \cup {x}
    <3>1. x \in runs' BY <2>3
    <3>2. AddsRun(imp[k].payload) BY <2>1, <2>2, <2>3, <3>1 DEF AddsRun
    <3> QED BY <3>2 DEF RunsGrow
  <2>4. CASE runs' = runs BY <2>4 DEF RunsGrow
  <2> QED BY <1>1, <2>3, <2>4 DEF StoreRun
<1>2. CASE runs' = runs BY <1>2 DEF RunsGrow
<1> QED BY <1>1, <1>2
  DEF RunNext, PassHour, ExportStep1, ExportStep2, Record, ReplanRound, ScratchHorse,
      NormalizeMarket, BeginImport, ReadPrevious, DropImport

\* Registration leaves the reviews alone and the others leave the runs alone.
LEMMA StepsApart ==
  ASSUME Next
  PROVE  \/ RunNext /\ UNCHANGED reviewVars
         \/ UNCHANGED <<now, exports, runs, imp>>
BY DEF Next, StoreResults, CorrectResult, MoveStart, BeginExternal, BeginSealed, ReviewLeg,
       LinkExternal, ObserveSealed, LinkSealed, DropReview, runVars

LEMMA StepAddsRuns ==
  ASSUME ImportsOK, [Next]_vars
  PROVE  RunsGrow
BY RegistrationAddsRuns, StepsApart DEF vars, runVars, RunsGrow

LEMMA NextRegistration ==
  ASSUME RunsOK, ImportsOK, [Next]_vars
  PROVE  RunsOK' /\ ImportsOK' /\ runs \subseteq runs' /\ now <= now'
<1>1. now' \in Hours /\ now <= now'
  <2>1. CASE now' = now BY <2>1, Constants DEF ImportsOK
  <2>2. CASE PassHour
    BY <2>2, ExternalAssumption DEF PassHour, ImportsOK, Hours
  <2> QED BY <2>1, <2>2, StepsApart
    DEF RunNext, ExportStep1, ExportStep2, Record, ReplanRound, ScratchHorse, vars, runVars,
        NormalizeMarket, BeginImport, ReadPrevious, StoreRun, DropImport
<1>2. RunsOK' /\ runs \subseteq runs'
  <2>1. CASE runs' = runs
    <3>1. \A u \in runs : u.created \in Hours /\ u.created <= now'
      BY <1>1, Constants DEF RunsOK, ImportsOK
    <3> QED BY <2>1, <3>1 DEF RunsOK, PayloadOK
  <2>2. ASSUME NEW k \in Importers, AddsRun(imp[k].payload)
        PROVE  RunsOK' /\ runs \subseteq runs'
    <3> DEFINE m == imp[k].payload
    <3>1. PICK x : /\ x.round = m.round /\ x.sub = m.sub /\ x.payload = m /\ x.created = now
                   /\ runs' = runs \cup {x}
      BY <2>2 DEF AddsRun
    <3>2. IsFiniteSet(runs') BY <3>1, FS_AddElement DEF RunsOK
    <3>3. PayloadOK(m) /\ \A u \in runs : ~ (u.round = m.round /\ u.sub = m.sub)
      BY <2>2 DEF AddsRun, Stored, SameVersion
    <3>4. \A u \in runs' : /\ PayloadOK(u.payload)
                           /\ u.round = u.payload.round /\ u.sub = u.payload.sub
                           /\ u.created \in Hours /\ u.created <= now'
      BY <1>1, <3>1, <3>3, Constants DEF RunsOK, ImportsOK
    <3>5. \A u, v \in runs' : u.round = v.round /\ u.sub = v.sub => u = v
      BY <3>1, <3>3 DEF RunsOK
    <3> QED BY <3>1, <3>2, <3>4, <3>5 DEF RunsOK, PayloadOK
  <2> QED BY <2>1, <2>2, StepAddsRuns DEF RunsGrow
<1>3. ImportsOK'
  <2> USE DEF ImportsOK, PayloadOK
  <2>1. CASE UNCHANGED <<now, exports, runs, imp>> BY <1>1, <2>1
  <2>2. CASE PassHour BY <1>1, <2>2 DEF PassHour, Idle
  <2>3. ASSUME NEW r \in Rounds, ExportStep1(r) \/ ExportStep2(r) PROVE ImportsOK'
    BY <1>1, <2>3 DEF ExportStep1, ExportStep2, Record, Step1Export, Step2Export
  <2>4. ASSUME NEW r \in Rounds, ReplanRound(r) \/ ScratchHorse(r) \/ NormalizeMarket(r)
        PROVE  ImportsOK'
    BY <1>1, <2>4 DEF ReplanRound, ScratchHorse, NormalizeMarket
  <2>5. ASSUME NEW k \in Importers, BeginImport(k) PROVE ImportsOK'
    <3>1. \A p \in Payloads : PayloadOK(p) BY DEF Payloads
    <3>2. CASE imp' = imp BY <1>1, <2>5, <3>2 DEF BeginImport
    <3>3. ASSUME NEW p \in Payloads,
                 imp' = [imp EXCEPT ![k] = [phase |-> "checked", payload |-> p,
                                            created |-> now, deadline |-> planned[p.round]]]
          PROVE  ImportsOK'
      BY <1>1, <2>5, <3>1, <3>3 DEF BeginImport
    <3> QED BY <2>5, <3>2, <3>3 DEF BeginImport
  <2>6. ASSUME NEW k \in Importers, ReadPrevious(k) PROVE ImportsOK'
    BY <1>1, <2>6 DEF ReadPrevious
  <2>7. ASSUME NEW k \in Importers, StoreRun(k) \/ DropImport(k) PROVE ImportsOK'
    BY <1>1, <2>7 DEF StoreRun, DropImport, Idle
  <2> QED BY <2>1, <2>2, <2>3, <2>4, <2>5, <2>6, <2>7, StepsApart DEF RunNext, vars, runVars
<1> QED BY <1>1, <1>2, <1>3

(***************************************************************************)
(* Results.                                                                  *)
(***************************************************************************)
\* The winners of a settled round, however they are chosen.
LEMMA WinnersOfSettled ==
  ASSUME NEW w \in [Legs -> SUBSET Horses], \A l \in Legs : Cardinality(w[l]) = 1
  PROVE  /\ [l \in Legs |-> CHOOSE h \in Horses : h \in w[l]] \in [Legs -> Horses]
         /\ [l \in Legs |-> CHOOSE h \in Horses : h \in w[l]]
              = [l \in Legs |-> CHOOSE h \in w[l] : TRUE]
<1>1. ASSUME NEW l \in Legs
      PROVE  \E h \in Horses : w[l] = {h}
  <2>1. w[l] \subseteq Horses /\ IsFiniteSet(w[l]) BY ExternalAssumption, FS_Subset
  <2> QED BY <2>1, FS_Singleton
<1>2. ASSUME NEW l \in Legs
      PROVE  /\ (CHOOSE h \in Horses : h \in w[l]) = (CHOOSE h \in w[l] : TRUE)
             /\ (CHOOSE h \in Horses : h \in w[l]) \in Horses
  <2>1. PICK h \in Horses : w[l] = {h} BY <1>1
  <2> QED BY <2>1
<1> QED BY <1>2

\* A round settled without a change of its winners was settled before.
LEMMA SettledStays ==
  ASSUME NEW r, won'[r] = won[r]
  PROVE  Settled(r)' = Settled(r) /\ Winners(r)' = Winners(r)
BY DEF Settled, Winners

LEMMA NextResults ==
  ASSUME TypeInv, [Next]_vars, now' \in Hours, now <= now'
  PROVE  ResultsOK'
<1> USE Constants
<1>0. ResultsOK /\ now \in Hours BY DEF TypeInv, ImportsOK
<1>00. /\ start \in [Rounds -> Hours \ {None}] /\ resultAt \in [Rounds -> Hours]
       /\ won \in [Rounds -> [Legs -> SUBSET Horses]]
       /\ history \in [Rounds -> SUBSET [Legs -> Horses]]
       /\ knownStarts = [r \in Rounds |-> knownStarts[r]]
  BY <1>0 DEF ResultsOK
<1>1. ASSUME NEW r \in Rounds, StoreResults(r) PROVE ResultsOK'
  <2>1. PICK w \in [Legs -> Horses] :
           /\ won' = [won EXCEPT ![r] = [l \in Legs |-> {w[l]}]]
           /\ history' = [history EXCEPT ![r] = {w}]
    BY <1>1 DEF StoreResults
  <2>2. /\ resultAt' = [resultAt EXCEPT ![r] = now] /\ start' = start
        /\ knownStarts' = [knownStarts EXCEPT ![r] = {start[r]}] /\ now' = now /\ now >= start[r]
    BY <1>1 DEF StoreResults, runVars
  <2>3. /\ start' \in [Rounds -> Hours \ {None}]
        /\ resultAt' \in [Rounds -> Hours]
        /\ won' \in [Rounds -> [Legs -> SUBSET Horses]]
        /\ history' \in [Rounds -> SUBSET [Legs -> Horses]]
    BY <1>00, <2>1, <2>2
  <2>5. knownStarts' = [q \in Rounds |-> knownStarts'[q]] BY <1>00, <2>2
  <2>4. ASSUME NEW q \in Rounds
        PROVE  (/\ resultAt[q] <= now
                /\ resultAt[q] # None => start[q] <= resultAt[q] /\ start[q] \in knownStarts[q]
                /\ resultAt[q] = None => won[q] = [l \in Legs |-> {}] /\ history[q] = {}
                /\ Settled(q) => Winners(q) \in history[q])'
    <3>1. CASE q = r
      <4>1. /\ won'[q] = [l \in Legs |-> {w[l]}] /\ history'[q] = {w} /\ resultAt'[q] = now
            /\ knownStarts'[q] = {start[q]}
        BY <1>0, <2>1, <2>2, <3>1 DEF ResultsOK
      <4>2. \A l \in Legs : (CHOOSE h \in Horses : h \in won'[q][l]) = w[l] BY <4>1
      <4>3. Winners(q)' = w BY <4>2 DEF Winners
      <4>4. now \in Nat /\ start[q] \in Nat /\ start[q] # None BY <1>0 DEF ResultsOK
      <4>5. now # None BY <2>2, <3>1, <4>4
      <4> QED BY <2>2, <3>1, <4>1, <4>3, <4>4, <4>5
    <3>2. CASE q # r
      <4>1. /\ won'[q] = won[q] /\ history'[q] = history[q] /\ resultAt'[q] = resultAt[q]
            /\ knownStarts'[q] = knownStarts[q]
        BY <1>0, <2>1, <2>2, <3>2 DEF ResultsOK
      <4> QED BY <1>0, <2>2, <4>1, SettledStays DEF ResultsOK
    <3> QED BY <3>1, <3>2
  <2> QED BY <2>3, <2>4, <2>5 DEF ResultsOK
<1>2. ASSUME NEW r \in Rounds, CorrectResult(r) PROVE ResultsOK'
  <2>1. PICK w \in [Legs -> SUBSET Horses \ {{}}] : won' = [won EXCEPT ![r] = w]
    BY <1>2 DEF CorrectResult
  <2>2. /\ resultAt' = resultAt /\ start' = start /\ knownStarts' = knownStarts /\ now' = now
        /\ resultAt[r] # None
        /\ history' = [history EXCEPT ![r] =
                         IF \A l \in Legs : Cardinality(won'[r][l]) = 1
                         THEN @ \cup {[l \in Legs |-> CHOOSE h \in won'[r][l] : TRUE]} ELSE @]
    BY <1>2 DEF CorrectResult
  <2>3. won' \in [Rounds -> [Legs -> SUBSET Horses]]
    BY <1>0, <2>1 DEF ResultsOK
  <2>4. Settled(r)' => /\ Winners(r)' \in [Legs -> Horses]
                       /\ Winners(r)' = [l \in Legs |-> CHOOSE h \in won'[r][l] : TRUE]
    <3>1. won'[r] \in [Legs -> SUBSET Horses] BY <2>3
    <3> QED BY <3>1, WinnersOfSettled DEF Settled, Winners
  <2>5. history'[r] = IF Settled(r)' THEN history[r] \cup {Winners(r)'} ELSE history[r]
    BY <1>0, <2>2, <2>4 DEF ResultsOK, Settled
  <2>6. history' \in [Rounds -> SUBSET [Legs -> Horses]]
    <3>1. history'[r] \subseteq [Legs -> Horses] BY <1>00, <2>4, <2>5
    <3>2. history' = [history EXCEPT ![r] = history'[r]] BY <1>00, <2>2
    <3> QED BY <1>00, <3>1, <3>2
  <2>7. ASSUME NEW q \in Rounds
        PROVE  (/\ resultAt[q] <= now
                /\ resultAt[q] # None => start[q] <= resultAt[q] /\ start[q] \in knownStarts[q]
                /\ resultAt[q] = None => won[q] = [l \in Legs |-> {}] /\ history[q] = {}
                /\ Settled(q) => Winners(q) \in history[q])'
    <3>1. CASE q = r BY <1>0, <2>2, <2>5, <3>1 DEF ResultsOK
    <3>2. CASE q # r
      <4>1. won'[q] = won[q] /\ history'[q] = history[q] BY <1>0, <2>1, <2>2, <3>2 DEF ResultsOK
      <4> QED BY <1>0, <2>2, <4>1, SettledStays DEF ResultsOK
    <3> QED BY <3>1, <3>2
  <2> QED BY <1>0, <2>2, <2>3, <2>6, <2>7 DEF ResultsOK
<1>3. ASSUME NEW r \in Rounds, MoveStart(r) PROVE ResultsOK'
  <2>1. PICK t \in Hours \ {None} : /\ resultAt[r] # None => t <= resultAt[r]
                                    /\ start' = [start EXCEPT ![r] = t]
           /\ knownStarts' = [knownStarts EXCEPT ![r] = IF resultAt[r] = None THEN @ ELSE @ \cup {t}]
    BY <1>3 DEF MoveStart
  <2>2. UNCHANGED <<won, resultAt, history, now>> BY <1>3 DEF MoveStart
  <2>3. \A q \in Rounds : Settled(q)' = Settled(q) /\ Winners(q)' = Winners(q)
    BY <2>2, SettledStays
  <2>4. \A q \in Rounds : resultAt[q] # None => start'[q] <= resultAt[q] /\ start'[q] \in knownStarts'[q]
    BY <1>0, <2>1 DEF ResultsOK
  <2> QED BY <1>0, <2>1, <2>2, <2>3, <2>4 DEF ResultsOK
<1>4. CASE UNCHANGED <<start, won, resultAt, history, knownStarts>>
  <2>1. \A q \in Rounds : Settled(q)' = Settled(q) /\ Winners(q)' = Winners(q)
    BY <1>4, SettledStays
  <2>2. \A q \in Rounds : resultAt[q] <= now'
    <3>1. \A q \in Rounds : resultAt[q] \in Nat BY <1>0 DEF ResultsOK
    <3> QED BY <1>0, <3>1 DEF ResultsOK
  <2> QED BY <1>0, <1>4, <2>1, <2>2 DEF ResultsOK
<1> QED BY <1>1, <1>2, <1>3, <1>4
  DEF Next, BeginExternal, BeginSealed, ReviewLeg, LinkExternal, ObserveSealed, LinkSealed,
      DropReview, vars, reviewVars

(***************************************************************************)
(* What a step does to the reviews.                                          *)
(***************************************************************************)
\* A request begins with the winners of a settled round.
Begins(p, x, learns) ==
    /\ x \in Lineages /\ Settled(x.round) /\ PickOf(x) \in [Legs -> SUBSET Horses]
    /\ learns \in BOOLEAN
    /\ rev' = [rev EXCEPT ![p] = Begin(x, learns)]
    /\ UNCHANGED <<start, won, resultAt, history, knownStarts, reviews, observed, links>>

\* A sealed review begins with the newest analysis before the start known now.
BeginsSealed(p, r) ==
    /\ Begins(p, SealedOf(SealedAt(r, start[r])), r \notin References)
    /\ SealedOf(SealedAt(r, start[r])).round = r
    /\ RunsOf(r) = {}

LEMMA BeginExternalTakes ==
  ASSUME TypeInv, NEW p \in Reviewers, BeginExternal(p)
  PROVE  \E u \in runs : /\ Begins(p, External(u.round, u.sub), Learns(u))
                         /\ \A v \in RunsOf(u.round) : v = u \/ Supersedes(u, v)
<1> DEFINE S == ExternalDue
           r == Earliest(S)
           u == Latest(r)
<1>1. r \in S BY EarliestIsDue DEF BeginExternal, ExternalDue
<1>2. RunsOf(r) # {} /\ Settled(r) BY <1>1 DEF ExternalDue
<1>3. u \in RunsOf(r) /\ \A v \in RunsOf(r) : v = u \/ Supersedes(u, v)
  BY <1>2, LatestIsNewest DEF TypeInv
<1>4. rev' = [rev EXCEPT ![p] = Begin(External(u.round, u.sub), Learns(u))]
      /\ UNCHANGED <<start, won, resultAt, history, knownStarts, reviews, observed, links>>
  BY DEF BeginExternal
<1> HIDE DEF u, r, S
<1>5. u \in runs /\ u.round = r BY <1>3 DEF RunsOf
<1> DEFINE x == External(u.round, u.sub)
<1>6. x \in Lineages /\ x.round = r /\ x.kind = "external"
  BY <1>5 DEF TypeInv, RunsOK, PayloadOK, External, Lineages
<1>7. PickOf(x) = Pick[u.payload.text]
  BY <1>5, <1>6, RunOfIsIt DEF TypeInv, PickOf
<1>8. PickOf(x) \in [Legs -> SUBSET Horses]
  BY <1>5, <1>7, ExternalAssumption DEF TypeInv, RunsOK, PayloadOK
<1>9. Learns(u) \in BOOLEAN BY DEF Learns
<1> HIDE DEF x
<1>10. Begins(p, x, Learns(u)) BY <1>2, <1>4, <1>6, <1>8, <1>9 DEF Begins, x
<1> QED BY <1>3, <1>5, <1>10 DEF x

LEMMA BeginSealedTakes ==
  ASSUME TypeInv, NEW p \in Reviewers, BeginSealed(p)
  PROVE  \E r \in Rounds : BeginsSealed(p, r)
<1> DEFINE S == SealedDue
           r == Earliest(S)
           u == SealedAt(r, start[r])
<1>1. r \in S BY EarliestIsDue DEF BeginSealed, SealedDue
<1>2. r \in Rounds /\ RunsOf(r) = {} /\ Settled(r) /\ SealedBefore(r, start[r]) # {}
  BY <1>1 DEF SealedDue, Superseded
<1>3. rev' = [rev EXCEPT ![p] = Begin(SealedOf(u), r \notin References)]
      /\ UNCHANGED <<start, won, resultAt, history, knownStarts, reviews, observed, links>>
  BY DEF BeginSealed
<1>4. u \in SealedRuns /\ u.round = r BY <1>2, SealedNewest DEF SealedBefore
<1> HIDE DEF u, r, S
<1>5. SealedOf(u) \in Lineages /\ SealedOf(u).round = r /\ SealedOf(u).kind = "sealed"
  BY <1>2, <1>4 DEF SealedOf, Lineages
<1>6. PickOf(SealedOf(u)) \in [Legs -> SUBSET Horses]
  BY <1>4, <1>5, AnalysisOfIsIt, ReviewAssumption DEF PickOf
<1>7. Begins(p, SealedOf(u), r \notin References) BY <1>2, <1>3, <1>5, <1>6 DEF Begins
<1>8. SealedOf(u).round = r BY <1>5
<1> QED BY <1>2, <1>7, <1>8 DEF u, BeginsSealed

\* A request that goes on moves to the link of a miss or to its next leg.
GoesOn(p) ==
    \/ rev' = [rev EXCEPT ![p] = Idle]
    \/ /\ rev[p].leg # LastLeg
       /\ rev' = [rev EXCEPT ![p] = [rev[p] EXCEPT !.leg = @ + 1, !.phase = "review"]]

\* The verdict a request has at its leg.
Own(p) == VerdictAt(rev[p], rev[p].leg)

\* A review ends the request, or leaves its verdict stored before it goes on.
Reviews(p) ==
    /\ \/ reviews' = reviews
       \/ reviews' = reviews \cup {Own(p)} /\ ~ \E v \in reviews : SameLeg(v, Own(p))
    /\ \/ rev' = [rev EXCEPT ![p] = Idle]
       \/ /\ Own(p) \in reviews'
          /\ \/ GoesOn(p)
             \/ /\ rev[p].learns
                /\ rev' = [rev EXCEPT ![p] = [rev[p] EXCEPT !.phase = "link"]]

LEMMA BusyRow ==
  ASSUME ReviewsOK, NEW p \in Reviewers
  PROVE  /\ Busy(p) => rev[p] \in RequestRows
         /\ ~ Busy(p) => rev[p] = Idle
<1>1. rev[p] \in {Idle} \cup RequestRows BY DEF ReviewsOK
<1>2. \A m \in RequestRows : m.phase \in {"review", "link"} BY DEF RequestRows
<1>3. Idle.phase = "idle" BY DEF Idle
<1> QED BY <1>1, <1>2, <1>3 DEF Busy

LEMMA VerdictIsIt ==
  ASSUME NEW p \in Reviewers
  PROVE  Verdict(rev[p]) = Own(p) /\ Own(p).learns = rev[p].learns
BY DEF Verdict, VerdictAt, Own

LEMMA ReviewLegReviews ==
  ASSUME ReviewsOK, NEW p \in Reviewers, ReviewLeg(p)
  PROVE  /\ Busy(p) /\ Reviews(p)
         /\ UNCHANGED <<start, won, resultAt, history, knownStarts, observed, links>>
<1> DEFINE w == Own(p)
           S == {v \in reviews : SameLeg(v, w)}
           agreed == \A v \in S : v = w
<1>1. /\ reviews' = IF S = {} THEN reviews \cup {w} ELSE reviews
      /\ rev' = [rev EXCEPT ![p] = IF agreed THEN Reviewed(rev[p]) ELSE Idle]
      /\ Busy(p) /\ UNCHANGED <<start, won, resultAt, history, knownStarts, observed, links>>
  BY VerdictIsIt DEF ReviewLeg, Agrees, Busy, ReviewsOK
<1>2. reviews' = reviews \/ (reviews' = reviews \cup {w} /\ ~ \E v \in reviews : SameLeg(v, w))
  BY <1>1
<1>3. CASE ~ agreed BY <1>1, <1>2, <1>3 DEF Reviews
<1>4. CASE agreed
  <2>1. w \in reviews' BY <1>1, <1>4
  <2>2. rev' = [rev EXCEPT ![p] = Reviewed(rev[p])] BY <1>1, <1>4
  <2>3. CASE Candidate(w)
    <3>1. rev' = [rev EXCEPT ![p] = [rev[p] EXCEPT !.phase = "link"]]
      BY <2>2, <2>3, VerdictIsIt DEF Reviewed
    <3>3. rev[p].learns BY <2>3, VerdictIsIt DEF Candidate
    <3> QED BY <1>1, <1>2, <2>1, <3>1, <3>3 DEF Reviews
  <2>4. CASE ~ Candidate(w)
    <3>1. rev' = [rev EXCEPT ![p] = Onwards(rev[p])] BY <2>2, <2>4, VerdictIsIt DEF Reviewed
    <3>2. GoesOn(p) BY <3>1 DEF Onwards, GoesOn
    <3> QED BY <1>1, <1>2, <2>1, <3>2 DEF Reviews
  <2> QED BY <2>3, <2>4
<1> QED BY <1>1, <1>3, <1>4

\* A link teaches what the request has found.
Links(p) ==
    /\ observed \subseteq observed' /\ observed' \subseteq observed \cup {Own(p)}
    /\ links \subseteq links' /\ links' \subseteq links \cup {Own(p)} /\ links' \subseteq observed'
    /\ rev' = rev \/ GoesOn(p)
    /\ UNCHANGED <<start, won, resultAt, history, knownStarts, reviews>>

LEMMA LinkStepsLink ==
  ASSUME ReviewsOK, NEW p \in Reviewers, LinkExternal(p) \/ ObserveSealed(p) \/ LinkSealed(p)
  PROVE  rev[p].phase = "link" /\ Links(p)
<1> DEFINE w == Own(p)
<1>1. Verdict(rev[p]) = w BY VerdictIsIt
<1>2. links \subseteq observed BY DEF ReviewsOK
<1>3. rev' = [rev EXCEPT ![p] = Onwards(rev[p])] => GoesOn(p) BY DEF Onwards, GoesOn
<1> HIDE DEF w
<1>4. CASE LinkExternal(p) BY <1>1, <1>2, <1>3, <1>4 DEF LinkExternal, Links, w
<1>5. CASE ObserveSealed(p) BY <1>1, <1>2, <1>3, <1>5 DEF ObserveSealed, Links, w
<1>6. CASE LinkSealed(p) BY <1>1, <1>2, <1>3, <1>6 DEF LinkSealed, Links, w
<1> QED BY <1>4, <1>5, <1>6

\* The steps by what they do to the reviews.
Kinds ==
    \/ UNCHANGED <<reviews, observed, links, rev>>
    \/ \E p \in Reviewers :
          \/ \E u \in runs : /\ Begins(p, External(u.round, u.sub), Learns(u))
                             /\ \A v \in RunsOf(u.round) : v = u \/ Supersedes(u, v)
          \/ \E r \in Rounds : BeginsSealed(p, r)
          \/ Busy(p) /\ Reviews(p) /\ UNCHANGED <<observed, links>>
          \/ rev[p].phase = "link" /\ Links(p)
          \/ rev' = [rev EXCEPT ![p] = Idle] /\ UNCHANGED <<reviews, observed, links>>

LEMMA StepKinds ==
  ASSUME TypeInv, [Next]_vars
  PROVE  Kinds
<1> USE DEF TypeInv
<1>1. ASSUME NEW p \in Reviewers, BeginExternal(p) PROVE Kinds
  BY <1>1, BeginExternalTakes DEF Kinds
<1>2. ASSUME NEW p \in Reviewers, BeginSealed(p) PROVE Kinds BY <1>2, BeginSealedTakes DEF Kinds
<1>3. ASSUME NEW p \in Reviewers, ReviewLeg(p) PROVE Kinds BY <1>3, ReviewLegReviews DEF Kinds
<1>4. ASSUME NEW p \in Reviewers, LinkExternal(p) \/ ObserveSealed(p) \/ LinkSealed(p) PROVE Kinds
  BY <1>4, LinkStepsLink DEF Kinds
<1>5. ASSUME NEW p \in Reviewers, DropReview(p) PROVE Kinds BY <1>5 DEF DropReview, Kinds
<1>6. ASSUME UNCHANGED <<reviews, observed, links, rev>> PROVE Kinds BY <1>6 DEF Kinds
<1> QED BY <1>1, <1>2, <1>3, <1>4, <1>5, <1>6
  DEF Next, StoreResults, CorrectResult, MoveStart, vars, reviewVars

(***************************************************************************)
(* Types of the reviews.                                                     *)
(***************************************************************************)
LEMMA BeginRow ==
  ASSUME ResultsOK, NEW p \in Reviewers, NEW x, NEW learns, Begins(p, x, learns)
  PROVE  /\ Begin(x, learns) \in RequestRows
         /\ Begin(x, learns).winners \in history[x.round]
<1>1. x \in Lineages /\ x.round \in Rounds /\ Settled(x.round) BY DEF Begins, Lineages
<1>2. Winners(x.round) \in history[x.round] BY <1>1 DEF ResultsOK
<1>3. Winners(x.round) \in [Legs -> Horses] BY <1>1, <1>2 DEF ResultsOK
<1> QED BY <1>1, <1>2, <1>3, Constants DEF Begin, Begins, RequestRows

LEMMA GoesOnRows ==
  ASSUME ReviewsOK, NEW p \in Reviewers, Busy(p), GoesOn(p)
  PROVE  rev' \in [Reviewers -> {Idle} \cup RequestRows]
<1>1. rev[p] \in RequestRows BY BusyRow
<1>2. CASE rev' = [rev EXCEPT ![p] = Idle] BY <1>2 DEF ReviewsOK
<1>3. CASE rev[p].leg # LastLeg
           /\ rev' = [rev EXCEPT ![p] = [rev[p] EXCEPT !.leg = @ + 1, !.phase = "review"]]
  <2>1. rev[p].leg \in Legs /\ rev[p].leg + 1 \in Legs
    BY <1>1, <1>3, Constants DEF RequestRows, Legs
  <2>2. [rev[p] EXCEPT !.leg = @ + 1, !.phase = "review"] \in RequestRows
    BY <1>1, <2>1 DEF RequestRows
  <2> QED BY <1>3, <2>2 DEF ReviewsOK
<1> QED BY <1>2, <1>3 DEF GoesOn

LEMMA OwnRow ==
  ASSUME ReviewsOK, NEW p \in Reviewers, Busy(p)
  PROVE  Own(p) \in VerdictRows
<1>1. rev[p] \in RequestRows BY BusyRow
<1>2. (rev[p].winners[rev[p].leg] \notin rev[p].picks[rev[p].leg]) \in BOOLEAN OBVIOUS
<1> QED BY <1>1, <1>2 DEF Own, VerdictAt, VerdictRows, RequestRows

LEMMA NextReviews ==
  ASSUME TypeInv, RequestInv, [Next]_vars
  PROVE  ReviewsOK'
<1> USE DEF ReviewsOK
<1>0. ReviewsOK /\ ResultsOK BY DEF TypeInv
<1>1. ASSUME UNCHANGED <<reviews, observed, links, rev>> PROVE ReviewsOK' BY <1>0, <1>1
<1>2. ASSUME NEW p \in Reviewers, NEW x, NEW learns, Begins(p, x, learns) PROVE ReviewsOK'
  <2>1. Begin(x, learns) \in RequestRows BY <1>0, <1>2, BeginRow
  <2> QED BY <1>0, <1>2, <2>1 DEF Begins
<1>3. ASSUME NEW p \in Reviewers, Busy(p), Reviews(p), UNCHANGED <<observed, links>> PROVE ReviewsOK'
  <2>1. Own(p) \in VerdictRows BY <1>0, <1>3, OwnRow
  <2>2. reviews \subseteq reviews' /\ reviews' \subseteq VerdictRows
    BY <1>0, <1>3, <2>1 DEF Reviews
  <2>3. rev[p] \in RequestRows BY <1>0, <1>3, BusyRow
  <2>4. [rev[p] EXCEPT !.phase = "link"] \in RequestRows BY <2>3 DEF RequestRows
  <2>5. rev' \in [Reviewers -> {Idle} \cup RequestRows]
    BY <1>0, <1>3, <2>4, GoesOnRows DEF Reviews
  <2> QED BY <1>0, <1>3, <2>2, <2>5
<1>4. ASSUME NEW p \in Reviewers, rev[p].phase = "link", Links(p) PROVE ReviewsOK'
  <2>1. Busy(p) BY <1>4 DEF Busy
  <2>2. rev' \in [Reviewers -> {Idle} \cup RequestRows]
    BY <1>0, <1>4, <2>1, GoesOnRows DEF Links
  <2>3. Own(p) \in reviews
    <3>1. rev[p].leg \in Legs BY <1>0, <2>1, BusyRow DEF RequestRows
    <3> QED BY <1>4, <3>1 DEF RequestInv, Own
  <2> QED BY <1>0, <1>4, <2>2, <2>3 DEF Links
<1>5. ASSUME NEW p \in Reviewers, rev' = [rev EXCEPT ![p] = Idle], UNCHANGED <<reviews, observed, links>>
      PROVE  ReviewsOK'
  BY <1>0, <1>5
<1> QED BY <1>1, <1>2, <1>3, <1>4, <1>5, StepKinds DEF Kinds, BeginsSealed

LEMMA NextTypeInv == TypeInv /\ RequestInv /\ [Next]_vars => TypeInv'
<1> SUFFICES ASSUME TypeInv, RequestInv, [Next]_vars PROVE TypeInv'
  OBVIOUS
<1>1. RunsOK' /\ ImportsOK' /\ now <= now' BY NextRegistration DEF TypeInv
<1>2. now' \in Hours BY <1>1 DEF ImportsOK
<1>3. ResultsOK' BY <1>1, <1>2, NextResults
<1>4. ReviewsOK' BY NextReviews
<1> QED BY <1>1, <1>3, <1>4 DEF TypeInv

(***************************************************************************)
(* Teaching.                                                                 *)
(***************************************************************************)
\* Once a round has results they keep their hour, and later runs are later.
LEMMA ResultsKeepTheirHour ==
  ASSUME ResultsOK, [Next]_vars, NEW r \in Rounds, resultAt[r] # None
  PROVE  resultAt'[r] = resultAt[r]
<1>1. ASSUME NEW q \in Rounds, StoreResults(q) PROVE resultAt'[r] = resultAt[r]
  BY <1>1 DEF StoreResults, ResultsOK
<1>2. CASE resultAt' = resultAt BY <1>2
<1> QED BY <1>1, <1>2
  DEF Next, CorrectResult, MoveStart, BeginExternal, BeginSealed, ReviewLeg, LinkExternal,
      ObserveSealed, LinkSealed, DropReview, vars, reviewVars

\* The starts a round with results had are only added to.
LEMMA StartsGrow ==
  ASSUME ResultsOK, [Next]_vars, NEW r \in Rounds, resultAt[r] # None
  PROVE  knownStarts[r] \subseteq knownStarts'[r]
<1>1. ASSUME NEW q \in Rounds, StoreResults(q) PROVE knownStarts[r] \subseteq knownStarts'[r]
  BY <1>1 DEF StoreResults, ResultsOK
<1>2. ASSUME NEW q \in Rounds, MoveStart(q) PROVE knownStarts[r] \subseteq knownStarts'[r]
  BY <1>2 DEF MoveStart, ResultsOK
<1>3. CASE knownStarts' = knownStarts BY <1>3
<1> QED BY <1>1, <1>2, <1>3
  DEF Next, CorrectResult, BeginExternal, BeginSealed, ReviewLeg, LinkExternal,
      ObserveSealed, LinkSealed, DropReview, vars, reviewVars

LEMMA TeachesStays ==
  ASSUME TypeInv, [Next]_vars, NEW x, x.round \in Rounds, Teaches(x)
  PROVE  Teaches(x)'
<1> DEFINE r == x.round
<1>1. resultAt[r] # None /\ resultAt'[r] = resultAt[r]
  BY ResultsKeepTheirHour DEF TypeInv, Teaches
<1>2. RegisteredBefore(r)' = RegisteredBefore(r)
  <2>1. now \in Nat /\ resultAt[r] \in Nat /\ resultAt[r] <= now
    BY Constants DEF TypeInv, ImportsOK, ResultsOK
  <2>2. runs \subseteq runs' /\ \A u \in runs' : u \in runs \/ u.created = now
    BY StepAddsRuns DEF TypeInv, RunsGrow, AddsRun
  <2>3. \A u \in runs' : u.created < resultAt[r] => u \in runs BY <2>1, <2>2
  <2> QED BY <1>1, <2>2, <2>3 DEF RegisteredBefore
<1>3. \A u \in RegisteredBefore(r) : InTime(u) => InTime(u)'
  BY <1>1 DEF InTime, RegisteredBefore
<1>4. knownStarts[r] \subseteq knownStarts'[r] BY <1>1, StartsGrow DEF TypeInv
<1> QED BY <1>1, <1>2, <1>3, <1>4 DEF Teaches

\* What begins to learn is the lineage that may teach.
LEMMA ExternalTeaches ==
  ASSUME TypeInv, NEW u \in runs, Settled(u.round), Learns(u),
         \A v \in RunsOf(u.round) : v = u \/ Supersedes(u, v)
  PROVE  Teaches(External(u.round, u.sub))
<1> DEFINE r == u.round
           x == External(u.round, u.sub)
<1>1. r \in Rounds BY DEF TypeInv, RunsOK, PayloadOK
<1>2. resultAt[r] # None BY <1>1, UnsettledWithoutWinners DEF TypeInv, ResultsOK
<1>3. start[r] <= resultAt[r] /\ start[r] \in Nat /\ resultAt[r] \in Nat
  BY <1>1, <1>2, Constants DEF TypeInv, ResultsOK
<1>4. \A t \in {u.created, u.payload.s1.at, u.payload.s2.at} : t \in Nat /\ t < start[r]
  <2>1. \A t \in {u.created, u.payload.s1.at, u.payload.s2.at} : t \in Nat
    BY Constants DEF TypeInv, RunsOK, PayloadOK
  <2>2. \A t \in {u.created, u.payload.s1.at, u.payload.s2.at} : t < start[r]
    BY DEF Learns, Chronological
  <2> QED BY <2>1, <2>2
<1>5. InTime(u) BY <1>3, <1>4 DEF InTime
<1>6. u \in RegisteredBefore(r) BY <1>5 DEF InTime, RegisteredBefore
<1>7. \A v \in RegisteredBefore(r) : v = u \/ Supersedes(u, v) BY DEF RegisteredBefore, RunsOf
<1>8. x.round = r BY DEF External
<1> QED BY <1>2, <1>5, <1>6, <1>7, <1>8 DEF Teaches

LEMMA SealedTeaches ==
  ASSUME TypeInv, NEW r \in Rounds, Settled(r), RunsOf(r) = {},
         SealedOf(SealedAt(r, start[r])).round = r
  PROVE  Teaches(SealedOf(SealedAt(r, start[r])))
<1> DEFINE x == SealedOf(SealedAt(r, start[r]))
<1>1. resultAt[r] # None BY UnsettledWithoutWinners DEF TypeInv, ResultsOK
<1>2. RegisteredBefore(r) = {} BY DEF RegisteredBefore, RunsOf
<1>3. start[r] \in knownStarts[r] BY <1>1 DEF TypeInv, ResultsOK
<1>4. x.kind = "sealed" BY DEF SealedOf
<1>5. \E s \in knownStarts[r] : x = SealedOf(SealedAt(r, s)) BY <1>3
<1>6. x.round = r OBVIOUS
<1> HIDE DEF x
<1>7. Teaches(x) BY <1>1, <1>2, <1>4, <1>5, <1>6 DEF Teaches
<1> QED BY <1>7 DEF x

LEMMA BeginTeaches ==
  ASSUME TypeInv, NEW p \in Reviewers, NEW x, NEW learns, Begins(p, x, learns),
         learns => Teaches(x)
  PROVE  /\ rev' = [rev EXCEPT ![p] = Begin(x, learns)] /\ links' = links
         /\ Begin(x, learns).of = x /\ x.round \in Rounds
         /\ Begin(x, learns).phase = "review"
         /\ Begin(x, learns).learns => Teaches(x)
BY DEF Begins, Begin, Lineages

LEMMA NextTeachers == TypeInv /\ TeachersInv /\ [Next]_vars => TeachersInv'
<1> SUFFICES ASSUME TypeInv, TeachersInv, [Next]_vars PROVE TeachersInv'
  OBVIOUS
<1>0. ReviewsOK BY DEF TypeInv
<1>1. Teachers \subseteq Teachers'
  <2>1. ASSUME NEW x \in Lineages, Teaches(x) PROVE Teaches(x)'
    BY <2>1, TeachesStays DEF Lineages
  <2> QED BY <2>1 DEF Teachers
<1>2. \A q \in Reviewers : Busy(q) => rev[q] \in RequestRows
  BY <1>0, BusyRow
<1>4. \A v \in links : v.of \in Teachers' BY <1>1 DEF TeachersInv
<1>5. \A q \in Reviewers : Busy(q) /\ rev[q].learns => rev[q].of \in Teachers'
  BY <1>1 DEF TeachersInv, Busy
<1>6. ASSUME NEW p \in Reviewers, NEW m, rev' = [rev EXCEPT ![p] = m],
             m.phase \in {"review", "link"} /\ m.learns => m.of \in Teachers',
             m.phase = "link" => m.learns, \A v \in links' : v.of \in Teachers'
      PROVE  TeachersInv'
  <2>1. \A q \in Reviewers : rev'[q] = IF q = p THEN m ELSE rev[q] BY <1>0, <1>6 DEF ReviewsOK
  <2>2. ASSUME NEW q \in Reviewers
        PROVE  /\ rev'[q].phase \in {"review", "link"} /\ rev'[q].learns => rev'[q].of \in Teachers'
               /\ rev'[q].phase = "link" => rev'[q].learns
    <3>1. CASE q = p BY <1>6, <2>1, <3>1
    <3>2. CASE q # p BY <1>5, <2>1, <3>2 DEF Busy, TeachersInv
    <3> QED BY <3>1, <3>2
  <2> QED BY <1>6, <2>2 DEF TeachersInv
<1>7. Idle.phase = "idle" BY DEF Idle
<1>8. ASSUME UNCHANGED <<reviews, observed, links, rev>> PROVE TeachersInv'
  BY <1>4, <1>5, <1>8 DEF TeachersInv, Busy
<1>9. ASSUME NEW p \in Reviewers, NEW x, NEW learns, Begins(p, x, learns), learns => Teaches(x)
      PROVE  TeachersInv'
  <2> DEFINE m == Begin(x, learns)
  <2>1. /\ rev' = [rev EXCEPT ![p] = m] /\ links' = links
        /\ m.of = x /\ x.round \in Rounds /\ m.phase = "review" /\ (m.learns => Teaches(x))
    BY <1>9, BeginTeaches
  <2>5. x \in Lineages BY <1>9 DEF Begins
  <2> HIDE DEF m
  <2>2. m.learns => m.of \in Teachers' BY <1>1, <2>1, <2>5 DEF Teachers
  <2>3. \A v \in links' : v.of \in Teachers' BY <1>4, <2>1
  <2>4. m.phase = "link" => m.learns BY <2>1
  <2> QED BY <1>6, <2>1, <2>2, <2>3, <2>4
<1>10. ASSUME NEW p \in Reviewers, NEW u \in runs, Begins(p, External(u.round, u.sub), Learns(u)),
              \A v \in RunsOf(u.round) : v = u \/ Supersedes(u, v)
       PROVE  TeachersInv'
  <2>1. Settled(u.round) BY <1>10 DEF Begins, External
  <2>2. Learns(u) => Teaches(External(u.round, u.sub)) BY <1>10, <2>1, ExternalTeaches
  <2> QED BY <1>9, <1>10, <2>2
<1>11. ASSUME NEW p \in Reviewers, NEW r \in Rounds, BeginsSealed(p, r)
       PROVE  TeachersInv'
  <2> DEFINE x == SealedOf(SealedAt(r, start[r]))
  <2>1. Begins(p, x, r \notin References) /\ x.round = r /\ RunsOf(r) = {}
    BY <1>11 DEF BeginsSealed
  <2>2. Settled(r) BY <2>1 DEF Begins
  <2>3. Teaches(x) BY <2>1, <2>2, SealedTeaches
  <2> HIDE DEF x
  <2> QED BY <1>9, <2>1, <2>3
<1>12. ASSUME NEW p \in Reviewers, rev' = [rev EXCEPT ![p] = Idle], \A v \in links' : v.of \in Teachers'
       PROVE  TeachersInv'
  BY <1>6, <1>7, <1>12
<1>13. ASSUME NEW p \in Reviewers, Busy(p), GoesOn(p), \A v \in links' : v.of \in Teachers'
       PROVE  TeachersInv'
  <2>1. CASE rev' = [rev EXCEPT ![p] = Idle] BY <1>12, <1>13, <2>1
  <2>2. CASE rev' = [rev EXCEPT ![p] = [rev[p] EXCEPT !.leg = @ + 1, !.phase = "review"]]
    <3> DEFINE m == [rev[p] EXCEPT !.leg = @ + 1, !.phase = "review"]
    <3>1. m.of = rev[p].of /\ m.learns = rev[p].learns /\ m.phase = "review"
      BY <1>2, <1>13 DEF RequestRows
    <3> HIDE DEF m
    <3> QED BY <1>5, <1>6, <1>13, <2>2, <3>1 DEF m
  <2> QED BY <1>13, <2>1, <2>2 DEF GoesOn
<1>14. ASSUME NEW p \in Reviewers, Busy(p), Reviews(p), links' = links PROVE TeachersInv'
  <2>1. \A v \in links' : v.of \in Teachers' BY <1>4, <1>14
  <2>2. CASE rev[p].learns /\ rev' = [rev EXCEPT ![p] = [rev[p] EXCEPT !.phase = "link"]]
    <3> DEFINE m == [rev[p] EXCEPT !.phase = "link"]
    <3>1. m.of = rev[p].of /\ m.learns = rev[p].learns /\ m.phase = "link"
      BY <1>2, <1>14 DEF RequestRows
    <3> HIDE DEF m
    <3> QED BY <1>5, <1>6, <1>14, <2>1, <2>2, <3>1 DEF m
  <2> QED BY <1>12, <1>13, <1>14, <2>1, <2>2 DEF Reviews
<1>15. ASSUME NEW p \in Reviewers, rev[p].phase = "link", Links(p) PROVE TeachersInv'
  <2>1. Busy(p) /\ rev[p].learns BY <1>15 DEF Busy, TeachersInv
  <2>2. rev[p].of \in Teachers' BY <1>5, <2>1
  <2>3. Own(p).of = rev[p].of BY DEF Own, VerdictAt
  <2>4. \A v \in links' : v.of \in Teachers' BY <1>4, <1>15, <2>2, <2>3 DEF Links
  <2>5. CASE rev' = rev BY <1>5, <2>4, <2>5 DEF TeachersInv, Busy
  <2> QED BY <1>13, <1>15, <2>1, <2>4, <2>5 DEF Links
<1> QED BY <1>8, <1>10, <1>11, <1>12, <1>4, <1>14, <1>15, StepKinds DEF Kinds

(***************************************************************************)
(* Coherence.                                                                *)
(***************************************************************************)
LEMMA HistoryGrows ==
  ASSUME ResultsOK, [Next]_vars, NEW r \in Rounds
  PROVE  history[r] \subseteq history'[r]
<1>1. ASSUME NEW q \in Rounds, StoreResults(q) PROVE history[r] \subseteq history'[r]
  BY <1>1 DEF StoreResults, ResultsOK
<1>2. ASSUME NEW q \in Rounds, CorrectResult(q) PROVE history[r] \subseteq history'[r]
  BY <1>2 DEF CorrectResult, ResultsOK
<1>3. CASE history' = history BY <1>3
<1> QED BY <1>1, <1>2, <1>3
  DEF Next, MoveStart, BeginExternal, BeginSealed, ReviewLeg, LinkExternal, ObserveSealed,
      LinkSealed, DropReview, vars, reviewVars

\* Reviews are only added, and each by a request that has agreed so far.
LEMMA ReviewsGrow ==
  ASSUME TypeInv, [Next]_vars
  PROVE  \/ reviews' = reviews
         \/ \E p \in Reviewers : /\ Busy(p) /\ reviews' = reviews \cup {Own(p)}
                                 /\ ~ \E v \in reviews : SameLeg(v, Own(p))
BY StepKinds DEF Kinds, Begins, BeginsSealed, Reviews, Links

\* A verdict on a leg no request has reviewed: the legs before it carry the
\* request's own verdicts, the legs after it none.
LEMMA NewVerdictFits ==
  ASSUME TypeInv, LineageInv, RequestInv, NEW p \in Reviewers, Busy(p),
         ~ \E v \in reviews : SameLeg(v, Own(p))
  PROVE  /\ rev[p] \in RequestRows
         /\ \A l \in Legs : l < rev[p].leg => VerdictAt(rev[p], l) \in reviews
         /\ \A v \in reviews : v.of = rev[p].of =>
                v.leg < rev[p].leg /\ v = VerdictAt(rev[p], v.leg)
<1>1. rev[p] \in RequestRows BY BusyRow DEF TypeInv
<1>2. rev[p].leg \in Legs /\ rev[p].leg \in Nat BY <1>1, Constants DEF RequestRows
<1>3. \A l \in Legs : l < rev[p].leg => VerdictAt(rev[p], l) \in reviews
  BY DEF RequestInv, Busy
<1>4. ASSUME NEW v \in reviews, v.of = rev[p].of
      PROVE  v.leg < rev[p].leg /\ v = VerdictAt(rev[p], v.leg)
  <2>1. v.leg \in Legs /\ v.leg \in Nat BY Constants DEF TypeInv, ReviewsOK, VerdictRows
  <2>2. v.leg < rev[p].leg
    <3>1. SUFFICES ASSUME rev[p].leg <= v.leg PROVE FALSE
      BY <1>2, <2>1
    <3>2. rev[p].leg \in 1 .. v.leg BY <1>2, <2>1, <3>1 DEF Legs
    <3>3. PICK w \in reviews : w.of = v.of /\ w.leg = rev[p].leg BY <3>2 DEF LineageInv
    <3>4. SameLeg(w, Own(p)) BY <1>4, <3>3 DEF SameLeg, Own, VerdictAt
    <3> QED BY <3>3, <3>4
  <2>3. VerdictAt(rev[p], v.leg) \in reviews BY <1>3, <2>1, <2>2
  <2>4. SameLeg(v, VerdictAt(rev[p], v.leg)) BY <1>4 DEF SameLeg, VerdictAt
  <2> QED BY <2>2, <2>3, <2>4 DEF LineageInv
<1> QED BY <1>1, <1>3, <1>4

LEMMA NextLineage == TypeInv /\ LineageInv /\ RequestInv /\ [Next]_vars => LineageInv'
<1> SUFFICES ASSUME TypeInv, LineageInv, RequestInv, [Next]_vars PROVE LineageInv'
  OBVIOUS
<1>0. \A r \in Rounds : history[r] \subseteq history'[r] BY HistoryGrows DEF TypeInv
<1>00. \A v \in reviews : v.of.round \in Rounds
  BY DEF TypeInv, ReviewsOK, VerdictRows, Lineages
<1>1. CASE reviews' = reviews
  <2>1. \A v \in reviews : \E h \in history'[v.of.round] :
           \A w \in reviews : w.of = v.of => w.winner = h[w.leg]
    BY <1>0, <1>00 DEF LineageInv
  <2> QED BY <1>1, <2>1 DEF LineageInv, SameLeg
<1>2. ASSUME NEW p \in Reviewers, Busy(p), reviews' = reviews \cup {Own(p)},
             ~ \E v \in reviews : SameLeg(v, Own(p))
      PROVE  LineageInv'
  <2> DEFINE m == rev[p]
             o == Own(p)
  <2>1. /\ m \in RequestRows
        /\ \A l \in Legs : l < m.leg => VerdictAt(m, l) \in reviews
        /\ \A v \in reviews : v.of = m.of => v.leg < m.leg /\ v = VerdictAt(m, v.leg)
    BY <1>2, NewVerdictFits
  <2>2. o.of = m.of /\ o.leg = m.leg /\ o.learns = m.learns /\ o.winner = m.winners[m.leg]
    BY DEF Own, VerdictAt
  <2>3. m.winners \in history[m.of.round] /\ m.of.round \in Rounds
    BY <1>2, <2>1 DEF RequestInv, Busy, RequestRows, Lineages
  <2>4. m.leg \in Nat /\ m.leg \in Legs BY <2>1, Constants DEF RequestRows
  <2>5. \A v \in reviews : v.leg \in Legs /\ v.leg \in Nat
    BY Constants DEF TypeInv, ReviewsOK, VerdictRows
  <2> HIDE DEF m, o
  <2>6. reviews' = reviews \cup {o} /\ ~ \E v \in reviews : SameLeg(v, o) BY <1>2 DEF o
  <2>7. \A v, w \in reviews' : SameLeg(v, w) => v = w
    BY <2>6 DEF SameLeg, LineageInv
  <2>8. \A v \in reviews' : \A l \in 1 .. v.leg : \E w \in reviews' : w.of = v.of /\ w.leg = l
    <3> TAKE v \in reviews'
    <3> TAKE l \in 1 .. v.leg
    <3>1. CASE v \in reviews BY <2>6, <3>1 DEF LineageInv
    <3>2. CASE v = o
      <4>1. CASE l = m.leg BY <2>2, <2>6, <3>2, <4>1
      <4>2. CASE l # m.leg
        <5>1. l \in Legs /\ l < m.leg BY <2>2, <2>4, <3>2, <4>2, Constants DEF Legs
        <5>2. VerdictAt(m, l) \in reviews BY <2>1, <5>1
        <5>3. VerdictAt(m, l).of = m.of /\ VerdictAt(m, l).leg = l BY DEF VerdictAt
        <5> QED BY <2>2, <2>6, <3>2, <5>2, <5>3
      <4> QED BY <4>1, <4>2
    <3> QED BY <2>6, <3>1, <3>2
  <2>9. \A v \in reviews : v.of = m.of => v.learns = m.learns /\ v.winner = m.winners[v.leg]
    <3> TAKE v \in reviews
    <3>1. VerdictAt(m, v.leg).learns = m.learns /\ VerdictAt(m, v.leg).winner = m.winners[v.leg]
      BY DEF VerdictAt
    <3> QED BY <2>1, <3>1
  <2>10. \A v, w \in reviews' : v.of = w.of => v.learns = w.learns
    BY <2>2, <2>6, <2>9 DEF LineageInv
  <2>11. \A v \in reviews' : \E h \in history'[v.of.round] :
            \A w \in reviews' : w.of = v.of => w.winner = h[w.leg]
    <3> TAKE v \in reviews'
    <3>1. CASE v.of = m.of
      <4>1. m.winners \in history'[v.of.round] BY <1>0, <2>3, <3>1
      <4>2. \A w \in reviews' : w.of = m.of => w.winner = m.winners[w.leg] BY <2>2, <2>6, <2>9
      <4> QED BY <3>1, <4>1, <4>2
    <3>2. CASE v.of # m.of
      <4>1. v \in reviews BY <2>2, <2>6, <3>2
      <4>2. PICK h \in history[v.of.round] : \A w \in reviews : w.of = v.of => w.winner = h[w.leg]
        BY <4>1 DEF LineageInv
      <4>3. h \in history'[v.of.round] BY <1>0, <1>00, <4>1
      <4> QED BY <2>2, <2>6, <3>2, <4>2, <4>3
    <3> QED BY <3>1, <3>2
  <2> QED BY <2>7, <2>8, <2>10, <2>11 DEF LineageInv, SameLeg
<1> QED BY <1>1, <1>2, ReviewsGrow

\* What a request knows of the legs before its own.
Knows(m, S) == \A l \in Legs : l < m.leg \/ (l = m.leg /\ m.phase = "link") => VerdictAt(m, l) \in S

LEMMA NextRequests == TypeInv /\ RequestInv /\ [Next]_vars => RequestInv'
<1> SUFFICES ASSUME TypeInv, RequestInv, [Next]_vars PROVE RequestInv'
  OBVIOUS
<1>0. ReviewsOK /\ ResultsOK BY DEF TypeInv
<1>1. \A r \in Rounds : history[r] \subseteq history'[r] BY <1>0, HistoryGrows
<1>2. reviews \subseteq reviews' BY ReviewsGrow
<1>3. \A q \in Reviewers : Busy(q) => rev[q] \in RequestRows BY <1>0, BusyRow
<1>4. ASSUME NEW q \in Reviewers, Busy(q)
      PROVE  /\ rev[q].winners \in history'[rev[q].of.round]
             /\ Knows(rev[q], reviews')
  <2>1. rev[q].of.round \in Rounds BY <1>3, <1>4 DEF RequestRows, Lineages
  <2>2. rev[q].winners \in history[rev[q].of.round] /\ Knows(rev[q], reviews)
    BY <1>4 DEF RequestInv, Busy, Knows
  <2> QED BY <1>1, <1>2, <2>1, <2>2 DEF Knows
<1>5. ASSUME NEW p \in Reviewers, NEW m, rev' = [rev EXCEPT ![p] = m],
             m.phase \in {"review", "link"} =>
                 m.winners \in history'[m.of.round] /\ Knows(m, reviews')
      PROVE  RequestInv'
  <2>1. \A q \in Reviewers : rev'[q] = IF q = p THEN m ELSE rev[q] BY <1>0, <1>5 DEF ReviewsOK
  <2>2. ASSUME NEW q \in Reviewers, rev'[q].phase \in {"review", "link"}
        PROVE  rev'[q].winners \in history'[rev'[q].of.round] /\ Knows(rev'[q], reviews')
    <3>1. CASE q = p BY <1>5, <2>1, <2>2, <3>1
    <3>2. CASE q # p BY <1>4, <2>1, <2>2, <3>2 DEF Busy
    <3> QED BY <3>1, <3>2
  <2> QED BY <2>2 DEF RequestInv, Knows
<1>6. CASE rev' = rev BY <1>4, <1>6 DEF RequestInv, Knows, Busy
<1>7. ASSUME NEW p \in Reviewers, rev' = [rev EXCEPT ![p] = Idle] PROVE RequestInv'
  <2>1. Idle.phase \notin {"review", "link"} BY DEF Idle
  <2> QED BY <1>5, <1>7, <2>1
<1>8. ASSUME NEW p \in Reviewers, NEW x, NEW learns, Begins(p, x, learns) PROVE RequestInv'
  <2> DEFINE m == Begin(x, learns)
  <2>1. rev' = [rev EXCEPT ![p] = m] /\ history' = history BY <1>8 DEF Begins
  <2>2. m.winners \in history[x.round] BY <1>0, <1>8, BeginRow
  <2>3. m.of = x /\ m.leg = 1 /\ m.phase = "review" BY DEF Begin
  <2> HIDE DEF m
  <2>4. Knows(m, reviews') BY <2>3, Constants DEF Knows, Legs
  <2> QED BY <1>5, <2>1, <2>2, <2>3, <2>4
<1>9. ASSUME NEW p \in Reviewers, Busy(p), Own(p) \in reviews'
      PROVE  GoesOn(p) => RequestInv'
  <2>1. CASE rev' = [rev EXCEPT ![p] = Idle] BY <1>7, <2>1
  <2>2. CASE rev' = [rev EXCEPT ![p] = [rev[p] EXCEPT !.leg = @ + 1, !.phase = "review"]]
    <3> DEFINE m == [rev[p] EXCEPT !.leg = @ + 1, !.phase = "review"]
    <3>1. rev[p] \in RequestRows BY <1>3, <1>9
    <3>2. /\ m.leg = rev[p].leg + 1 /\ m.phase = "review" /\ m.of = rev[p].of
          /\ m.winners = rev[p].winners /\ m.picks = rev[p].picks /\ m.learns = rev[p].learns
      BY <3>1 DEF RequestRows
    <3>3. rev[p].leg \in Nat BY <3>1, Constants DEF RequestRows
    <3> HIDE DEF m
    <3>4. \A l \in Legs : VerdictAt(m, l) = VerdictAt(rev[p], l) BY <3>2 DEF VerdictAt
    <3>5. Knows(m, reviews')
      <4> SUFFICES ASSUME NEW l \in Legs, l < m.leg \/ (l = m.leg /\ m.phase = "link")
                   PROVE  VerdictAt(rev[p], l) \in reviews'
        BY <3>4 DEF Knows
      <4>1. l < rev[p].leg \/ l = rev[p].leg BY <3>2, <3>3, Constants
      <4> QED BY <1>4, <1>9, <4>1 DEF Knows, Own
    <3> QED BY <1>4, <1>5, <1>9, <2>2, <3>2, <3>5 DEF m
  <2> QED BY <2>1, <2>2 DEF GoesOn
<1>10. ASSUME NEW p \in Reviewers, Busy(p), Reviews(p) PROVE RequestInv'
  <2>1. CASE /\ Own(p) \in reviews'
             /\ rev' = [rev EXCEPT ![p] = [rev[p] EXCEPT !.phase = "link"]]
    <3> DEFINE m == [rev[p] EXCEPT !.phase = "link"]
    <3>1. rev[p] \in RequestRows BY <1>3, <1>10
    <3>2. /\ m.leg = rev[p].leg /\ m.phase = "link" /\ m.of = rev[p].of
          /\ m.winners = rev[p].winners /\ m.picks = rev[p].picks /\ m.learns = rev[p].learns
      BY <3>1 DEF RequestRows
    <3> HIDE DEF m
    <3>4. \A l \in Legs : VerdictAt(m, l) = VerdictAt(rev[p], l) BY <3>2 DEF VerdictAt
    <3>5. Knows(m, reviews') BY <1>4, <1>10, <2>1, <3>2, <3>4 DEF Knows, Own
    <3> QED BY <1>4, <1>5, <1>10, <2>1, <3>2, <3>5 DEF m
  <2> QED BY <1>7, <1>9, <1>10, <2>1 DEF Reviews
<1>11. ASSUME NEW p \in Reviewers, rev[p].phase = "link", Links(p) PROVE RequestInv'
  <2>1. Busy(p) BY <1>11 DEF Busy
  <2>2. rev[p].leg \in Legs BY <1>3, <2>1 DEF RequestRows
  <2>3. Own(p) \in reviews' BY <1>4, <1>11, <2>1, <2>2 DEF Knows, Own
  <2> QED BY <1>6, <1>9, <1>11, <2>1, <2>3 DEF Links
<1> QED BY <1>6, <1>7, <1>8, <1>10, <1>11, StepKinds DEF Kinds, BeginsSealed

LEMMA NextIInv == IInv /\ [Next]_vars => IInv'
BY NextTypeInv, NextTeachers, NextLineage, NextRequests DEF IInv

LEMMA SpecIInv == Spec => []IInv
BY InitIInv, NextIInv, PTL DEF Spec

(***************************************************************************)
(* Theorems.                                                                 *)
(***************************************************************************)
\* Types: runs, results, reviews and what requests hold have the shape of the tables,
\* a submission is one run of its round, and a round with results began before them
\* (external-analysis-flow-v1.js, post-race-review-v2.js).
THEOREM TypesAreKept == Spec => []TypeInv
BY SpecIInv, PTL DEF IInv

\* An import answered as stored is stored with exactly that content, also when two
\* imports of one submission race (importExternalAnalysisV1's second look after a
\* failed batch).
THEOREM AnswersAreTrue == Spec => []AnsweredIsStored
<1>1. Init => AnsweredIsStored BY DEF Init, RunInit, AnsweredIsStored
<1>2. IInv /\ AnsweredIsStored /\ [Next]_vars => AnsweredIsStored'
  <2> SUFFICES ASSUME IInv, AnsweredIsStored, [Next]_vars PROVE AnsweredIsStored'
    OBVIOUS
  <2>1. runs \subseteq runs' BY NextRegistration DEF IInv, TypeInv
  <2>2. \A p \in answered : \E u \in runs' : SameVersion(u, p) /\ u.payload = p
    BY <2>1 DEF AnsweredIsStored, Stored
  <2>3. ASSUME NEW p \in answered' PROVE p \in answered \/ \E u \in runs' : SameVersion(u, p) /\ u.payload = p
    <3>1. ASSUME NEW k \in Importers, BeginImport(k)
          PROVE  p \in answered \/ \E u \in runs' : SameVersion(u, p) /\ u.payload = p
      <4>1. CASE answered' = answered BY <2>3, <4>1
      <4>2. ASSUME NEW q \in Payloads, Stored(q) # {}, \A u \in Stored(q) : SameContent(u, q),
                   answered' = answered \cup {q}
            PROVE  p \in answered \/ \E u \in runs' : SameVersion(u, p) /\ u.payload = p
        BY <2>1, <2>3, <4>2 DEF SameContent, Stored
      <4> QED BY <3>1, <4>1, <4>2 DEF BeginImport
    <3>2. ASSUME NEW k \in Importers, StoreRun(k)
          PROVE  p \in answered \/ \E u \in runs' : SameVersion(u, p) /\ u.payload = p
      <4> DEFINE q == imp[k].payload
                 n == NewRun(imp[k])
      <4>1. n.round = q.round /\ n.sub = q.sub /\ n.payload = q BY DEF NewRun
      <4> HIDE DEF n
      <4>2. CASE Stored(q) = {} /\ runs' = runs \cup {n} /\ answered' = answered \cup {q}
        BY <2>3, <4>1, <4>2 DEF SameVersion
      <4>3. CASE Stored(q) # {} /\ \A u \in Stored(q) : Raced(u, q)
        BY <2>1, <2>3, <3>2, <4>3 DEF StoreRun, Raced, SameContent, Stored
      <4>4. CASE answered' = answered BY <2>3, <4>4
      <4> QED BY <3>2, <4>2, <4>3, <4>4 DEF StoreRun, n
    <3>3. CASE answered' = answered BY <2>3, <3>3
    <3> QED BY <3>1, <3>2, <3>3
      DEF Next, RunNext, PassHour, ExportStep1, ExportStep2, Record, ReplanRound, ScratchHorse,
          NormalizeMarket, ReadPrevious, DropImport, StoreResults, CorrectResult, MoveStart,
          BeginExternal, BeginSealed, ReviewLeg, LinkExternal, ObserveSealed, LinkSealed,
          DropReview, vars, runVars
  <2> QED BY <2>2, <2>3 DEF AnsweredIsStored, Stored, SameVersion
<1> QED BY <1>1, <1>2, SpecIInv, PTL DEF Spec

\* Nothing is learned from an analysis registered, or made from sources exported, once
\* results of its round were stored, however the plan and the starts were corrected
\* (chronology check of runNextExternalPostRaceReviewV1).
THEOREM LearningHasNoHindsight == Spec => []NoHindsight
<1>1. IInv => NoHindsight
  <2> SUFFICES ASSUME IInv, NEW v \in links, v.of.kind = "external",
                      NEW t \in {RunOf(v.of).created, RunOf(v.of).payload.s1.at, RunOf(v.of).payload.s2.at}
               PROVE  t < resultAt[RunOf(v.of).round]
    BY DEF NoHindsight
  <2>1. Teaches(v.of) BY DEF IInv, TeachersInv, Teachers
  <2>2. v.of.kind # "sealed" OBVIOUS
  <2>3. PICK u \in runs : v.of = External(u.round, u.sub) /\ InTime(u)
    BY <2>1, <2>2 DEF Teaches, RegisteredBefore
  <2>4. RunOf(v.of) = u BY <2>3, RunOfIsIt DEF IInv, TypeInv
  <2> QED BY <2>3, <2>4 DEF InTime
<1> QED BY <1>1, SpecIInv, PTL

\* A round is learned from through its newest external run registered before the results
\* and nothing else, or where there is none through the analysis sealed last before its
\* start, whatever is imported between two reviews or while one is under way; a second
\* sealed analysis teaches only after the start moved (candidateV3Round).
THEOREM RoundsHaveOneTeacher == Spec => []OneTeacher
<1>1. IInv => OneTeacher
  <2> SUFFICES ASSUME IInv, NEW v \in links, NEW w \in links, v.of.round = w.of.round, v.of # w.of
               PROVE  \E s, t \in knownStarts[v.of.round] :
                          /\ s # t
                          /\ v.of = SealedOf(SealedAt(v.of.round, s))
                          /\ w.of = SealedOf(SealedAt(v.of.round, t))
    BY DEF OneTeacher
  <2> DEFINE r == v.of.round
  <2>1. Teaches(v.of) /\ Teaches(w.of) BY DEF IInv, TeachersInv, Teachers
  <2>2. CASE RegisteredBefore(r) = {}
    <3>1. PICK s \in knownStarts[r] : v.of = SealedOf(SealedAt(r, s)) BY <2>1, <2>2 DEF Teaches
    <3>2. PICK t \in knownStarts[r] : w.of = SealedOf(SealedAt(r, t)) BY <2>1, <2>2 DEF Teaches
    <3>3. s # t BY <3>1, <3>2
    <3> QED BY <3>1, <3>2, <3>3
  <2>3. CASE RegisteredBefore(r) # {}
    <3>1. PICK a \in RegisteredBefore(r) :
             /\ v.of = External(a.round, a.sub)
             /\ \A x \in RegisteredBefore(r) : x = a \/ Supersedes(a, x)
      BY <2>1, <2>3 DEF Teaches
    <3>2. PICK b \in RegisteredBefore(r) :
             /\ w.of = External(b.round, b.sub)
             /\ \A x \in RegisteredBefore(r) : x = b \/ Supersedes(b, x)
      BY <2>1, <2>3 DEF Teaches
    <3>3. a.created \in Nat /\ b.created \in Nat /\ a.sub \in Nat /\ b.sub \in Nat
      BY Constants DEF RegisteredBefore, IInv, TypeInv, RunsOK, PayloadOK
    <3>4. a = b BY <3>1, <3>2, <3>3 DEF Supersedes
    <3> QED BY <3>1, <3>2, <3>4
  <2> QED BY <2>2, <2>3
<1> QED BY <1>1, SpecIInv, PTL

\* As many different legs as a round has are all its legs.
LEMMA AllLegsReviewed ==
  ASSUME TypeInv, LineageInv, NEW x, Complete(x)
  PROVE  \A l \in Legs : \E v \in ReviewsOf(x) : v.leg = l
<1> DEFINE f == [v \in ReviewsOf(x) |-> v.leg]
<1>1. f \in Injection(ReviewsOf(x), Legs)
  <2>1. \A v \in ReviewsOf(x) : v.leg \in Legs BY DEF ReviewsOf, TypeInv, ReviewsOK, VerdictRows
  <2>2. \A v, w \in ReviewsOf(x) : f[v] = f[w] => v = w BY DEF ReviewsOf, LineageInv, SameLeg
  <2> QED BY <2>1, <2>2 DEF Injection, IsInjective
<1>2. IsFiniteSet(Legs) /\ Cardinality(Legs) = LastLeg
  BY FS_Interval, ExternalAssumption DEF Legs
<1> HIDE DEF f
<1>3. f \in Surjection(ReviewsOf(x), Legs) BY <1>1, <1>2, FS_Injection DEF Complete
<1> QED BY <1>3 DEF f, Surjection

\* The reviews of a complete lineage tell one outcome the round really had, and its legs
\* are judged alike, though reviews overlapped, were cut off and the winners corrected
\* (persistLegReview's comparison with what is stored).
THEOREM ReviewsAreCoherent == Spec => []CoherentReview
<1>1. IInv => CoherentReview
  <2> SUFFICES ASSUME IInv PROVE CoherentReview
    OBVIOUS
  <2>1. \A v, w \in reviews : v.of = w.of => v.learns = w.learns BY DEF IInv, LineageInv
  <2>2. ASSUME NEW v \in reviews, Complete(v.of)
        PROVE  [l \in Legs |-> (CHOOSE w \in ReviewsOf(v.of) : w.leg = l).winner]
                 \in history[v.of.round]
    <3>1. PICK h \in history[v.of.round] : \A w \in reviews : w.of = v.of => w.winner = h[w.leg]
      BY DEF IInv, LineageInv
    <3>2. v.of.round \in Rounds BY DEF IInv, TypeInv, ReviewsOK, VerdictRows, Lineages
    <3>3. h \in [Legs -> Horses] BY <3>1, <3>2 DEF IInv, TypeInv, ResultsOK
    <3>4. ASSUME NEW l \in Legs
          PROVE  (CHOOSE w \in ReviewsOf(v.of) : w.leg = l).winner = h[l]
      <4>1. \E w \in ReviewsOf(v.of) : w.leg = l BY <2>2, AllLegsReviewed DEF IInv
      <4> DEFINE c == CHOOSE w \in ReviewsOf(v.of) : w.leg = l
      <4>2. c \in ReviewsOf(v.of) /\ c.leg = l BY <4>1
      <4> HIDE DEF c
      <4>3. c.winner = h[l] BY <3>1, <4>2 DEF ReviewsOf
      <4> QED BY <4>3 DEF c
    <3>5. [l \in Legs |-> (CHOOSE w \in ReviewsOf(v.of) : w.leg = l).winner] = h
      BY <3>3, <3>4
    <3> QED BY <3>1, <3>5
  <2> QED BY <2>1, <2>2 DEF CoherentReview
<1> QED BY <1>1, SpecIInv, PTL

(***************************************************************************)
(* Replays.                                                                  *)
(***************************************************************************)
InSequence(G, H) == \A g \in G, h \in H : g.at < h.at

IsPolicy(p) == p.train \in Nat /\ p.calibration \in Nat /\ p.test \in Nat

AreGroups(groups) == IsFiniteSet(groups) /\ \A g \in groups : g.at \in Int

LEMMA ImageIsFinite ==
  ASSUME NEW S, IsFiniteSet(S), NEW f, DOMAIN f = S
  PROVE  IsFiniteSet({f[x] : x \in S})
<1> DEFINE T == {f[x] : x \in S}
           h == [x \in S |-> f[x]]
<1>1. h \in [S -> T] /\ \A t \in T : \E x \in S : h[x] = t OBVIOUS
<1>2. h \in Surjection(S, T) BY <1>1 DEF Surjection
<1> QED BY <1>2, FS_Surjection

LEMMA TimesAre ==
  ASSUME NEW groups, AreGroups(groups)
  PROVE  /\ IsFiniteSet({g.at : g \in groups})
         /\ Cardinality({g.at : g \in groups}) \in Nat
<1> DEFINE f == [g \in groups |-> g.at]
<1>1. {g.at : g \in groups} = {f[g] : g \in groups} OBVIOUS
<1>2. IsFiniteSet({f[g] : g \in groups}) BY ImageIsFinite DEF AreGroups
<1> QED BY <1>1, <1>2, FS_CardinalityType

\* A later block holds later groups only.
LEMMA BlocksAreOrdered ==
  ASSUME NEW groups, AreGroups(groups),
         NEW i \in DOMAIN Blocks(groups), NEW j \in DOMAIN Blocks(groups), i < j
  PROVE  InSequence(Blocks(groups)[i], Blocks(groups)[j])
<1> DEFINE times == {g.at : g \in groups}
           Below(x) == {t \in times : t < x}
<1>1. SUFFICES ASSUME NEW g \in Blocks(groups)[i], NEW h \in Blocks(groups)[j] PROVE g.at < h.at
  BY DEF InSequence
<1>2. DOMAIN Blocks(groups) = 1 .. Cardinality(times) BY DEF Blocks
<1>3. /\ g \in groups /\ Cardinality(Below(g.at)) = i - 1
      /\ h \in groups /\ Cardinality(Below(h.at)) = j - 1
  BY <1>1 DEF Blocks
<1>4. i \in Int /\ j \in Int /\ g.at \in Int /\ h.at \in Int /\ \A t \in times : t \in Int
  BY <1>2, <1>3, TimesAre DEF AreGroups
<1>5. IsFiniteSet(times) BY TimesAre
<1>6. SUFFICES ASSUME h.at <= g.at PROVE FALSE BY <1>4
<1>7. Below(h.at) \subseteq Below(g.at) BY <1>4, <1>6
<1>8. IsFiniteSet(Below(g.at)) /\ IsFiniteSet(Below(h.at)) BY <1>5, FS_Subset
<1>9. Cardinality(Below(h.at)) <= Cardinality(Below(g.at)) BY <1>7, <1>8, FS_Subset
<1> HIDE DEF times, Below
<1> QED BY <1>3, <1>4, <1>9

LEMMA BlocksAreGroups ==
  ASSUME NEW groups, NEW i \in DOMAIN Blocks(groups)
  PROVE  Blocks(groups)[i] \subseteq groups
BY DEF Blocks

\* What a fold is made of.
LEMMA FoldsAre ==
  ASSUME NEW groups, AreGroups(groups), NEW policy, IsPolicy(policy), NEW f \in Folds(groups, policy)
  PROVE  \E n \in Nat :
           /\ f = [train       |-> Between(Blocks(groups), 0, n),
                   calibration |-> Between(Blocks(groups), n, n + policy.calibration),
                   test        |-> Between(Blocks(groups), n + policy.calibration, n + policy.calibration + policy.test)]
           /\ 1 .. n + policy.calibration + policy.test \subseteq DOMAIN Blocks(groups)
<1> DEFINE blocks == Blocks(groups)
           size == Cardinality({g.at : g \in groups})
           ahead == policy.calibration + policy.test
<1>1. DOMAIN blocks = 1 .. size /\ size \in Nat BY TimesAre DEF Blocks
<1>2. \E s : blocks = [i \in 1 .. size |-> s[i]]
  <2>1. blocks = [i \in 1 .. size |-> blocks[i]] BY DEF Blocks
  <2> QED BY <2>1
<1>3. Len(blocks) = size
  <2>1. blocks \in Seq(SUBSET groups)
    <3>1. \A i \in 1 .. size : blocks[i] \in SUBSET groups BY <1>1, BlocksAreGroups
    <3>2. blocks = [i \in 1 .. size |-> blocks[i]] BY DEF Blocks
    <3> HIDE DEF blocks, size
    <3> QED BY <1>1, <3>1, <3>2
  <2> HIDE DEF blocks, size
  <2> QED BY <1>1, <2>1
<1>4. PICK n \in policy.train .. Len(blocks) - ahead :
        f = [train       |-> Between(blocks, 0, n),
             calibration |-> Between(blocks, n, n + policy.calibration),
             test        |-> Between(blocks, n + policy.calibration, n + ahead)]
  BY DEF Folds
<1>5. n \in Nat /\ n + ahead <= size /\ n + ahead = n + policy.calibration + policy.test
  <2> HIDE DEF blocks, size
  <2> QED BY <1>1, <1>3, <1>4 DEF IsPolicy
<1>6. 1 .. n + policy.calibration + policy.test \subseteq DOMAIN blocks
  <2> HIDE DEF blocks, size
  <2> QED BY <1>1, <1>5 DEF IsPolicy
<1> QED BY <1>4, <1>5, <1>6

\* Whatever a fold tests starts after everything it was calibrated on, and that
\* after everything it was trained on, for any groups and any policy
\* (buildWalkForwardFoldsV1).
THEOREM FoldsAreChronological ==
  ASSUME NEW groups, AreGroups(groups), NEW policy, IsPolicy(policy), NEW f \in Folds(groups, policy)
  PROVE  /\ InSequence(f.train, f.calibration) /\ InSequence(f.calibration, f.test)
         /\ InSequence(f.train, f.test)
         /\ f.train \cup f.calibration \cup f.test \subseteq groups
<1> DEFINE blocks == Blocks(groups)
           c == policy.calibration
           t == policy.test
<1>1. PICK n \in Nat :
        /\ f = [train |-> Between(blocks, 0, n), calibration |-> Between(blocks, n, n + c),
                test |-> Between(blocks, n + c, n + c + t)]
        /\ 1 .. n + c + t \subseteq DOMAIN blocks
  BY FoldsAre
<1>2. c \in Nat /\ t \in Nat BY DEF IsPolicy
<1>3. ASSUME NEW a \in Nat, NEW b \in Nat, NEW d \in Nat, NEW e \in Nat, b <= d, b <= n + c + t, e <= n + c + t
      PROVE  InSequence(Between(blocks, a, b), Between(blocks, d, e))
  <2>1. SUFFICES ASSUME NEW i \in a + 1 .. b, NEW j \in d + 1 .. e
                 PROVE  InSequence(blocks[i], blocks[j])
    BY DEF InSequence, Between
  <2>2. i \in DOMAIN blocks /\ j \in DOMAIN blocks /\ i < j
    <3> HIDE DEF blocks, c, t
    <3> QED BY <1>1, <1>2, <1>3
  <2> QED BY <2>2, BlocksAreOrdered
<1>4. Between(blocks, 0, n) \subseteq groups /\ Between(blocks, n, n + c) \subseteq groups
      /\ Between(blocks, n + c, n + c + t) \subseteq groups
  <2>1. \A i \in 1 .. n + c + t : blocks[i] \subseteq groups BY <1>1, BlocksAreGroups
  <2> HIDE DEF blocks, c, t
  <2>2. 0 + 1 .. n \subseteq 1 .. n + c + t /\ n + 1 .. n + c \subseteq 1 .. n + c + t
        /\ n + c + 1 .. n + c + t \subseteq 1 .. n + c + t
    BY <1>2
  <2> QED BY <2>1, <2>2 DEF Between
<1>5. n <= n /\ n <= n + c /\ n + c <= n + c + t /\ n <= n + c + t /\ n + c \in Nat /\ n + c + t \in Nat /\ n + c <= n + c
  BY <1>2
<1> HIDE DEF blocks, c, t
<1>6. InSequence(Between(blocks, 0, n), Between(blocks, n, n + c)) BY <1>3, <1>5
<1>7. InSequence(Between(blocks, n, n + c), Between(blocks, n + c, n + c + t)) BY <1>3, <1>5
<1>8. InSequence(Between(blocks, 0, n), Between(blocks, n + c, n + c + t)) BY <1>3, <1>5
<1> QED BY <1>1, <1>4, <1>6, <1>7, <1>8

(***************************************************************************)
(* What a replay stores.  Targets have ids of their own, every target is      *)
(* forecast by every variant and over the same field, and a group begins with  *)
(* its earliest target.                                                       *)
(***************************************************************************)
Alike(targets, t) == {u \in targets : u.group = t.group}

AreTargets(targets, variants) ==
    /\ IsFiniteSet(targets) /\ variants # {}
    /\ \A t, u \in targets : t.id = u.id => t = u
    /\ \A t \in targets :
         /\ DOMAIN t.forecasts = variants
         /\ \A v, x \in variants : DOMAIN t.forecasts[v] = DOMAIN t.forecasts[x]
         /\ t.groupAt = Min({u.at : u \in Alike(targets, t)})

\* What the evaluations say of a target.
StoredRow(t) ==
    [id |-> t.id, group |-> t.group, at |-> t.at, winner |-> t.winner,
     field |-> DOMAIN t.forecasts[CHOOSE v \in DOMAIN t.forecasts : TRUE]]

Evaluation(t, v) ==
    [target |-> t.id, group |-> t.group, at |-> t.at, variant |-> v, winner |-> t.winner,
     forecast |-> t.forecasts[v]]

LEMMA EvaluationsAre ==
  ASSUME NEW targets, NEW variants, AreTargets(targets, variants)
  PROVE  /\ \A t \in targets, v \in variants : Evaluation(t, v) \in Evaluations(targets)
         /\ \A x \in Evaluations(targets) : \E t \in targets, v \in variants : x = Evaluation(t, v)
<1> DEFINE Of(t) == {Evaluation(t, v) : v \in DOMAIN t.forecasts}
<1>1. Evaluations(targets) = UNION {Of(t) : t \in targets} BY DEF Evaluations, Evaluation
<1>2. \A t \in targets : Of(t) = {Evaluation(t, v) : v \in variants} BY DEF AreTargets
<1> HIDE DEF Of
<1> QED BY <1>1, <1>2

LEMMA FieldsAre ==
  ASSUME NEW targets, NEW variants, AreTargets(targets, variants), NEW t \in targets, NEW v \in variants
  PROVE  StoredRow(t) = [id |-> t.id, group |-> t.group, at |-> t.at, winner |-> t.winner,
                      field |-> DOMAIN t.forecasts[v]]
<1>1. DOMAIN t.forecasts = variants /\ \A x \in variants : DOMAIN t.forecasts[x] = DOMAIN t.forecasts[v]
  BY DEF AreTargets
<1>2. (CHOOSE x \in DOMAIN t.forecasts : TRUE) \in variants BY <1>1
<1> QED BY <1>1, <1>2 DEF StoredRow

LEMMA TargetsAreStored ==
  ASSUME NEW targets, NEW variants, AreTargets(targets, variants)
  PROVE  TargetsOf(Evaluations(targets)) = {StoredRow(t) : t \in targets}
<1> DEFINE Seen(x) == [id |-> x.target, group |-> x.group, at |-> x.at, winner |-> x.winner, field |-> DOMAIN x.forecast]
<1>1. ASSUME NEW t \in targets, NEW v \in variants PROVE Seen(Evaluation(t, v)) = StoredRow(t)
  BY FieldsAre DEF Evaluation
<1>2. ASSUME NEW x \in Evaluations(targets) PROVE \E t \in targets : Seen(x) = StoredRow(t)
  BY <1>1, EvaluationsAre
<1>3. ASSUME NEW t \in targets PROVE \E x \in Evaluations(targets) : Seen(x) = StoredRow(t)
  <2>1. PICK v \in variants : TRUE BY DEF AreTargets
  <2> QED BY <1>1, <2>1, EvaluationsAre
<1>4. TargetsOf(Evaluations(targets)) = {Seen(x) : x \in Evaluations(targets)} BY DEF TargetsOf
<1> HIDE DEF Seen
<1> QED BY <1>2, <1>3, <1>4

LEMMA EvidenceIsStored ==
  ASSUME NEW targets, NEW variants, AreTargets(targets, variants), NEW named
  PROVE  LET stored == {t \in TargetsOf(Evaluations(targets)) : t.group \notin named}
             evidence == {t \in targets : t.group \notin named}
         IN  /\ Cardinality(stored) = Cardinality(evidence)
             /\ GroupsOf(stored) = {[id |-> t.group, at |-> t.groupAt] : t \in evidence}
<1> DEFINE stored == {t \in TargetsOf(Evaluations(targets)) : t.group \notin named}
           evidence == {t \in targets : t.group \notin named}
           f == [t \in evidence |-> StoredRow(t)]
<1>0. \A t \in targets : StoredRow(t).group = t.group /\ StoredRow(t).at = t.at /\ StoredRow(t).id = t.id BY DEF StoredRow
<1>1. stored = {StoredRow(t) : t \in evidence} BY <1>0, TargetsAreStored
<1>2. IsFiniteSet(evidence) BY FS_Subset DEF AreTargets
<1>3. f \in Bijection(evidence, stored)
  <2>1. f \in [evidence -> stored] BY <1>1
  <2>2. \A t, u \in evidence : f[t] = f[u] => t = u BY <1>0 DEF AreTargets
  <2>3. \A s \in stored : \E t \in evidence : f[t] = s BY <1>1
  <2> QED BY <2>1, <2>2, <2>3 DEF Bijection, Injection, Surjection, IsInjective
<1>4. Cardinality(stored) = Cardinality(evidence)
  BY <1>2, <1>3, FS_Bijection DEF ExistsBijection
<1>5. ASSUME NEW t \in evidence
      PROVE  {u.at : u \in {x \in stored : x.group = t.group}} = {u.at : u \in Alike(targets, t)}
  <2>1. {x \in stored : x.group = t.group} = {StoredRow(u) : u \in Alike(targets, t)}
    <3>1. \A u \in Alike(targets, t) : u \in evidence BY DEF Alike
    <3>2. \A u \in evidence : u \in targets OBVIOUS
    <3> HIDE DEF stored, evidence
    <3>3. ASSUME NEW x \in stored, x.group = t.group PROVE \E u \in Alike(targets, t) : x = StoredRow(u)
      BY <1>0, <1>1, <3>2, <3>3 DEF Alike
    <3>4. ASSUME NEW u \in Alike(targets, t) PROVE StoredRow(u) \in stored /\ StoredRow(u).group = t.group
      BY <1>0, <1>1, <3>1, <3>2, <3>4 DEF Alike
    <3> QED BY <3>3, <3>4
  <2>2. \A u \in Alike(targets, t) : StoredRow(u).at = u.at BY <1>0 DEF Alike
  <2> HIDE DEF stored, evidence
  <2> QED BY <2>1, <2>2
<1>6. ASSUME NEW t \in evidence
      PROVE  [id |-> StoredRow(t).group, at |-> Min({u.at : u \in {x \in stored : x.group = StoredRow(t).group}})]
               = [id |-> t.group, at |-> t.groupAt]
  <2>1. StoredRow(t).group = t.group BY <1>0
  <2>2. t.groupAt = Min({u.at : u \in Alike(targets, t)}) BY DEF AreTargets
  <2> HIDE DEF stored, evidence
  <2> QED BY <1>5, <2>1, <2>2
<1>7. GroupsOf(stored) = {[id |-> t.group, at |-> t.groupAt] : t \in evidence}
  <2> DEFINE Group(s) == [id |-> s.group, at |-> Min({u.at : u \in {x \in stored : x.group = s.group}})]
  <2>1. GroupsOf(stored) = {Group(s) : s \in stored} BY DEF GroupsOf
  <2>2. \A t \in evidence : Group(StoredRow(t)) = [id |-> t.group, at |-> t.groupAt] BY <1>6
  <2> HIDE DEF stored, evidence, Group
  <2> QED BY <1>1, <2>1, <2>2
<1> QED BY <1>4, <1>7

\* A replay of any such targets can be stored exactly when every group it put
\* aside on its own account is also named in the configuration
\* (assertReplayAggregateConsistency).
THEOREM StorableReplays ==
  ASSUME NEW targets, NEW variants, AreTargets(targets, variants), NEW config
  PROVE  Storable(Replay(targets, config), variants) <=> Automatic(targets) \subseteq config.regression
<1> DEFINE result == Replay(targets, config)
           evaluations == Evaluations(targets)
           all == TargetsOf(evaluations)
           regression == config.regression \cup Automatic(targets)
           Outside(named) == {t \in targets : t.group \notin named}
           StoredOutside(named) == {t \in all : t.group \notin named}
           Groups(named) == {[id |-> t.group, at |-> t.groupAt] : t \in Outside(named)}
<1>1. /\ result.evaluations = evaluations
      /\ result.config = config
      /\ result.targets = Cardinality(targets)
      /\ result.evidence = Cardinality(Outside(regression))
      /\ result.folds = Folds(Groups(regression), config.policy)
      /\ result.status = IF result.folds = {} THEN "insufficient_evidence" ELSE "completed"
      /\ result.heldOut = ByVariant(evaluations, Tested(result.folds))
      /\ result.regression = ByVariant(evaluations, regression)
  BY DEF Replay
<1>2. \A named : /\ Cardinality(StoredOutside(named)) = Cardinality(Outside(named))
                 /\ GroupsOf(StoredOutside(named)) = Groups(named)
  BY EvidenceIsStored
<1>3. OneIdentity(evaluations)
  <2>1. \A t, u \in targets : StoredRow(t).id = StoredRow(u).id => t = u BY DEF StoredRow, AreTargets
  <2> QED BY <2>1, TargetsAreStored DEF OneIdentity
<1>4. Cardinality(all) = Cardinality(targets)
  <2>1. StoredOutside({}) = all /\ Outside({}) = targets OBVIOUS
  <2> HIDE DEF StoredOutside, Outside, all
  <2> QED BY <1>2, <2>1
<1>5. \A t \in all : VariantsOf(evaluations, t.id) = variants
  <2>1. SUFFICES ASSUME NEW t \in targets PROVE VariantsOf(evaluations, t.id) = variants
    <3>1. \A u \in targets : StoredRow(u).id = u.id BY DEF StoredRow
    <3> HIDE DEF evaluations
    <3> QED BY <3>1, TargetsAreStored DEF evaluations
  <2>2. ASSUME NEW v \in variants PROVE v \in VariantsOf(evaluations, t.id)
    <3>1. Evaluation(t, v) \in evaluations BY EvaluationsAre
    <3>2. Evaluation(t, v).target = t.id /\ Evaluation(t, v).variant = v BY DEF Evaluation
    <3> HIDE DEF evaluations
    <3> QED BY <3>1, <3>2 DEF VariantsOf
  <2>3. ASSUME NEW v \in VariantsOf(evaluations, t.id) PROVE v \in variants
    <3>1. PICK x \in evaluations : x.variant = v BY <2>3 DEF VariantsOf
    <3>2. PICK u \in targets, y \in variants : x = Evaluation(u, y) BY <3>1, EvaluationsAre
    <3>3. Evaluation(u, y).variant = y BY DEF Evaluation
    <3> QED BY <3>1, <3>2, <3>3
  <2> QED BY <2>2, <2>3
<1>6. Storable(result, variants) <=>
        /\ Cardinality(Outside(regression)) = Cardinality(Outside(config.regression))
        /\ result.folds = Folds(Groups(config.regression), config.policy)
        /\ result.regression = ByVariant(evaluations, config.regression)
  <2>1. Storable(result, variants) <=>
          /\ OneIdentity(result.evaluations)
          /\ result.targets = Cardinality(TargetsOf(result.evaluations))
          /\ result.evidence = Cardinality({t \in TargetsOf(result.evaluations) : t.group \notin result.config.regression})
          /\ result.folds = Folds(GroupsOf({t \in TargetsOf(result.evaluations) : t.group \notin result.config.regression}),
                                  result.config.policy)
          /\ result.status = IF result.folds = {} THEN "insufficient_evidence" ELSE "completed"
          /\ \A t \in TargetsOf(result.evaluations) : VariantsOf(result.evaluations, t.id) = variants
          /\ result.heldOut = ByVariant(result.evaluations, Tested(result.folds))
          /\ result.regression = ByVariant(result.evaluations, result.config.regression)
    <3> HIDE DEF result
    <3> QED BY DEF Storable
  <2>2. {t \in TargetsOf(evaluations) : t.group \notin config.regression} = StoredOutside(config.regression)
    OBVIOUS
  <2> HIDE DEF result, evaluations, Outside, StoredOutside, Groups, regression
  <2> QED BY <1>1, <1>2, <1>3, <1>4, <1>5, <2>1, <2>2
<1>7. ASSUME Automatic(targets) \subseteq config.regression PROVE Storable(result, variants)
  <2>1. regression = config.regression BY <1>7
  <2> HIDE DEF result, evaluations, Outside, Groups, regression
  <2> QED BY <1>1, <1>6, <2>1
<1>8. ASSUME Storable(result, variants) PROVE Automatic(targets) \subseteq config.regression
  <2>1. Outside(regression) \subseteq Outside(config.regression) OBVIOUS
  <2>2. IsFiniteSet(Outside(config.regression)) BY FS_Subset DEF AreTargets
  <2>3. Outside(regression) = Outside(config.regression)
    <3>1. Cardinality(Outside(regression)) = Cardinality(Outside(config.regression)) BY <1>6, <1>8
    <3> HIDE DEF Outside
    <3> QED BY <2>1, <2>2, <3>1, FS_Subset
  <2>4. \A g \in Automatic(targets) : \E t \in targets : t.group = g BY DEF Automatic
  <2> QED BY <2>3, <2>4
<1> QED BY <1>7, <1>8

(***************************************************************************)
(* The replays that are asked for.                                            *)
(***************************************************************************)
LEMMA MinOfTwo ==
  ASSUME NEW a \in Int, NEW b \in Int, a <= b
  PROVE  Min({a, b}) = a
<1>1. \E x \in {a, b} : \A y \in {a, b} : x <= y OBVIOUS
<1>2. Min({a, b}) \in {a, b} /\ \A y \in {a, b} : Min({a, b}) <= y BY <1>1 DEF Min
<1> QED BY <1>2

LEMMA TriedTargetsAre ==
  ASSUME NEW first \in [1 .. 3 -> 1 .. 3], NEW late
  PROVE  AreTargets(TriedTargets(first, late), {"blind", "decision"})
<1> DEFINE targets == TriedTargets(first, late)
           Tried(p) == [id |-> <<p[1], p[2]>>, group |-> p[1], groupAt |-> first[p[1]], at |-> first[p[1]] + p[2],
                        winner |-> 1 + (p[1] % 2), eligible |-> p[1] \notin late,
                        forecasts |-> [blind |-> <<One - 1, 1>>, decision |-> <<p[2], One - p[2]>>]]
           places == (1 .. 3) \X {0, 1}
<1>1. targets = {Tried(p) : p \in places}
  <2>1. targets = {Tried(<<g, l>>) : g \in 1 .. 3, l \in {0, 1}} BY DEF TriedTargets
  <2>2. \A g \in 1 .. 3, l \in {0, 1} : <<g, l>> \in places OBVIOUS
  <2>3. \A p \in places : p[1] \in 1 .. 3 /\ p[2] \in {0, 1} /\ p = <<p[1], p[2]>> OBVIOUS
  <2> HIDE DEF targets, Tried, places
  <2> QED BY <2>1, <2>2, <2>3
<1>2. IsFiniteSet(targets)
  <2>1. IsFiniteSet(places)
    <3>1. {0, 1} = 0 .. 1 OBVIOUS
    <3>2. 0 \in Int /\ 1 \in Int /\ 3 \in Int OBVIOUS
    <3>3. IsFiniteSet(1 .. 3) BY <3>2, FS_Interval
    <3>4. IsFiniteSet(0 .. 1) BY <3>2, FS_Interval
    <3> QED BY <3>1, <3>3, <3>4, FS_Product
  <2> DEFINE f == [p \in places |-> Tried(p)]
  <2>2. IsFiniteSet({f[p] : p \in places})
    <3>1. DOMAIN f = places OBVIOUS
    <3> HIDE DEF f, places
    <3> QED BY <2>1, <3>1, ImageIsFinite
  <2>3. {f[p] : p \in places} = targets BY <1>1
  <2> QED BY <2>2, <2>3
<1>3. \A t, u \in targets : t.id = u.id => t = u
  <2>1. \A p, q \in places : Tried(p).id = Tried(q).id => p = q OBVIOUS
  <2> HIDE DEF Tried, places
  <2> QED BY <1>1, <2>1
<1>4. ASSUME NEW t \in targets
      PROVE  /\ DOMAIN t.forecasts = {"blind", "decision"}
             /\ \A v, x \in {"blind", "decision"} : DOMAIN t.forecasts[v] = DOMAIN t.forecasts[x]
             /\ t.groupAt = Min({u.at : u \in Alike(targets, t)})
  <2>1. PICK p \in places : t = Tried(p) BY <1>1
  <2>2. DOMAIN t.forecasts = {"blind", "decision"} /\ t.group = p[1] /\ t.groupAt = first[p[1]] BY <2>1
  <2>3. DOMAIN t.forecasts["blind"] = 1 .. 2 /\ DOMAIN t.forecasts["decision"] = 1 .. 2
    <3>1. t.forecasts["blind"] = <<One - 1, 1>> /\ t.forecasts["decision"] = <<p[2], One - p[2]>> BY <2>1
    <3> QED BY <3>1
  <2>4. {u.at : u \in Alike(targets, t)} = {first[p[1]], first[p[1]] + 1}
    <3>1. Tried(<<p[1], 0>>) \in Alike(targets, t) /\ Tried(<<p[1], 1>>) \in Alike(targets, t)
      BY <1>1, <2>2 DEF Alike
    <3>2. Tried(<<p[1], 0>>).at = first[p[1]] /\ Tried(<<p[1], 1>>).at = first[p[1]] + 1 OBVIOUS
    <3>3. ASSUME NEW u \in Alike(targets, t) PROVE u.at \in {first[p[1]], first[p[1]] + 1}
      <4>1. PICK q \in places : u = Tried(q) BY <1>1, <3>3 DEF Alike
      <4>2. q[1] = p[1] BY <2>2, <3>3, <4>1 DEF Alike
      <4>3. u.at = first[q[1]] + q[2] BY <4>1
      <4> QED BY <4>2, <4>3
    <3> HIDE DEF targets, Tried, places
    <3> QED BY <3>1, <3>2, <3>3
  <2>5. Min({first[p[1]], first[p[1]] + 1}) = first[p[1]] BY MinOfTwo
  <2> QED BY <2>2, <2>3, <2>4, <2>5
<1> HIDE DEF targets
<1> QED BY <1>2, <1>3, <1>4 DEF AreTargets, targets

LEMMA AskedKinds ==
  ASSUME Ask
  PROVE  /\ question'.of = "replay" => AskReplay
         /\ question'.of = "paces" => AskPaces
         /\ question'.of = "telemetry" => AskTelemetry
         /\ question'.of = "knowledge" => AskKnowledge
         /\ question'.of = "history" => AskHistory
<1>1. AskSystem => question'.of = "system" BY DEF AskSystem
<1>2. AskReplay => question'.of = "replay" BY DEF AskReplay
<1>3. AskKnowledge => question'.of = "knowledge" BY DEF AskKnowledge
<1>4. AskShards => question'.of = "shards" BY DEF AskShards
<1>5. AskHistory => question'.of = "history" BY DEF AskHistory
<1>6. AskTelemetry => question'.of = "telemetry" BY DEF AskTelemetry
<1>7. AskPaces => question'.of = "paces" BY DEF AskPaces
<1>8. AskPages => question'.of = "pages" BY DEF AskPages
<1> QED BY <1>1, <1>2, <1>3, <1>4, <1>5, <1>6, <1>7, <1>8 DEF Ask

\* The replay that a question is about, and the policies it may be asked with.
WellAskedReplay ==
    question.of = "replay" =>
        \E first \in [1 .. 3 -> 1 .. 3], late \in SUBSET {1, 2}, policy \in Policies :
            /\ question.targets = TriedTargets(first, late)
            /\ question.config.policy = policy

LEMMA AskedReplays == QuestionSpec => []WellAskedReplay
<1>1. question = NoQuestion => WellAskedReplay BY DEF WellAskedReplay, NoQuestion
<1>2. WellAskedReplay /\ [question = NoQuestion /\ Ask]_question => WellAskedReplay'
  <2>1. SUFFICES ASSUME WellAskedReplay, question = NoQuestion, Ask PROVE WellAskedReplay'
    BY DEF WellAskedReplay
  <2>2. CASE AskReplay BY <2>2 DEF AskReplay, WellAskedReplay
  <2>3. CASE ~ AskReplay
    <3>1. question'.of # "replay" BY <2>1, <2>3, AskedKinds
    <3> QED BY <3>1 DEF WellAskedReplay
  <2> QED BY <2>2, <2>3
<1> QED BY <1>1, <1>2, PTL DEF QuestionSpec

\* A replay that is asked for can be stored exactly when what it excluded by
\* itself is named (assertReplayAggregateConsistency), for any policies.
THEOREM ReplaysAreStorable == QuestionSpec => []ReplayIsStorable
<1>1. WellAskedReplay => ReplayIsStorable
  <2>1. SUFFICES ASSUME WellAskedReplay, question.of = "replay"
                 PROVE  Storable(Replay(question.targets, question.config), {"blind", "decision"})
                          <=> Automatic(question.targets) \subseteq question.config.regression
    BY DEF ReplayIsStorable
  <2>2. AreTargets(question.targets, {"blind", "decision"}) BY <2>1, TriedTargetsAre DEF WellAskedReplay
  <2> QED BY <2>2, StorableReplays
<1> QED BY <1>1, AskedReplays, PTL

\* In a replay that is asked for, what a fold tests starts after what it was
\* calibrated on, and that after what it was trained on, and nothing that is put
\* aside is in a fold (buildWalkForwardFoldsV1), for any policies of whole numbers.
THEOREM TestedLater == QuestionSpec => []TestedAfterTrained
<1>1. WellAskedReplay => TestedAfterTrained
  <2> DEFINE targets == question.targets
             config == question.config
             regression == config.regression \cup Automatic(targets)
             groups == {[id |-> t.group, at |-> t.groupAt] : t \in {u \in targets : u.group \notin regression}}
  <2>1. SUFFICES ASSUME WellAskedReplay, question.of = "replay", NEW f \in Replay(targets, config).folds
                 PROVE  /\ InSequence(f.train, f.calibration) /\ InSequence(f.calibration, f.test)
                        /\ InSequence(f.train, f.test)
                        /\ \A g \in f.train \cup f.calibration \cup f.test :
                               g.id \notin Automatic(targets) \cup config.regression
    BY DEF TestedAfterTrained, InSequence
  <2>2. PICK first \in [1 .. 3 -> 1 .. 3], late \in SUBSET {1, 2} : targets = TriedTargets(first, late)
    BY <2>1 DEF WellAskedReplay
  <2>3. IsPolicy(config.policy) BY <2>1, CalculationsAssumption DEF WellAskedReplay, IsPolicy
  <2>4. f \in Folds(groups, config.policy) BY <2>1 DEF Replay
  <2>5. AreGroups(groups)
    <3>1. \A t \in targets : t.groupAt \in Int BY <2>2 DEF TriedTargets
    <3>2. IsFiniteSet(targets) BY <2>2, TriedTargetsAre DEF AreTargets
    <3> DEFINE evidence == {u \in targets : u.group \notin regression}
               h == [t \in evidence |-> [id |-> t.group, at |-> t.groupAt]]
    <3>3. IsFiniteSet(evidence) BY <3>2, FS_Subset
    <3>4. DOMAIN h = evidence /\ groups = {h[t] : t \in evidence} OBVIOUS
    <3>5. IsFiniteSet(groups)
      <4> HIDE DEF evidence, h, groups
      <4> QED BY <3>3, <3>4, ImageIsFinite
    <3> QED BY <3>1, <3>5 DEF AreGroups
  <2>6. \A g \in groups : g.id \notin regression OBVIOUS
  <2> HIDE DEF groups
  <2>7. /\ InSequence(f.train, f.calibration) /\ InSequence(f.calibration, f.test)
        /\ InSequence(f.train, f.test) /\ f.train \cup f.calibration \cup f.test \subseteq groups
    BY <2>3, <2>4, <2>5, FoldsAreChronological
  <2> QED BY <2>6, <2>7
<1> QED BY <1>1, AskedReplays, PTL

(***************************************************************************)
(* Paces.                                                                    *)
(***************************************************************************)
IsRace(race) ==
    /\ race.length \in Int
    /\ DOMAIN race.frames \subseteq Int /\ IsFiniteSet(DOMAIN race.frames)
    /\ \A i \in DOMAIN race.frames :
         /\ race.frames[i].at \in Int
         /\ \A n \in DOMAIN race.frames[i].targets : race.frames[i].targets[n].distance \in Int

LEMMA ReadingsKnown ==
  ASSUME NEW race, IsRace(race), NEW n
  PROVE  /\ IsFiniteSet(SeenIn(race, n))
         /\ \A i \in SeenIn(race, n) : i \in Int /\ DistanceAt(race, i, n) \in Int /\ race.frames[i].at \in Int
<1>1. SeenIn(race, n) \subseteq DOMAIN race.frames BY DEF SeenIn, FramesOf
<1>2. \A i \in SeenIn(race, n) : n \in DOMAIN race.frames[i].targets BY DEF SeenIn
<1>3. IsFiniteSet(SeenIn(race, n)) BY <1>1, FS_Subset DEF IsRace
<1> QED BY <1>1, <1>2, <1>3 DEF IsRace, DistanceAt

LEMMA ClosestIsSeen ==
  ASSUME NEW race, IsRace(race), NEW n, SeenIn(race, n) # {}, NEW from \in Int
  PROVE  ClosestReading(race, n, from) \in SeenIn(race, n)
<1> DEFINE S == SeenIn(race, n)
           E(i) == EndpointError(race, i, n, from)
           Closer(i, j) == E(i) < E(j) \/ (E(i) = E(j) /\ i < j)
           R == {p \in S \X S : Closer(p[1], p[2])}
<1>1. \A i \in S : i \in Int /\ E(i) \in Int BY ReadingsKnown DEF EndpointError, Apart
<1>2. \A i, j \in S : <<i, j>> \in R <=> Closer(i, j) OBVIOUS
<1> HIDE DEF E
<1>3. \A i, j \in S : i = j \/ <<i, j>> \in R \/ <<j, i>> \in R
  <2>1. \A i, j \in S : i = j \/ Closer(i, j) \/ Closer(j, i) BY <1>1
  <2> HIDE DEF R, Closer
  <2> QED BY <1>2, <2>1
<1>4. \A i, j, k \in S : <<i, j>> \in R /\ <<j, k>> \in R => <<i, k>> \in R BY <1>1, <1>2
<1>5. IsFiniteSet(S) BY ReadingsKnown
<1>6. \E i \in S : \A j \in S \ {i} : Closer(i, j)
  <2>0. S # {} OBVIOUS
  <2> HIDE DEF R, S
  <2>1. PICK i \in S : \A j \in S : j = i \/ <<i, j>> \in R BY ONLY <1>3, <1>4, <1>5, <2>0, FirstExists
  <2> QED BY <2>1, <1>2
<1>7. ClosestReading(race, n, from) = CHOOSE i \in S : \A j \in S \ {i} : Closer(i, j)
  BY DEF ClosestReading, Least, E
<1> HIDE DEF Closer
<1> QED BY <1>6, <1>7

\* What an interval tells when there is one.
LEMMA IntervalIs ==
  ASSUME NEW race, IsRace(race), NEW n, NEW from \in Int, NEW end \in Int, Interval(race, n, from, end) # Absent
  PROVE  LET first == ClosestReading(race, n, race.length - from)
             last == ClosestReading(race, n, race.length - end)
         IN  /\ first \in SeenIn(race, n) /\ last \in SeenIn(race, n)
             /\ Interval(race, n, from, end) =
                  [elapsed |-> race.frames[last].at - race.frames[first].at,
                   metres |-> DistanceAt(race, first, n) - DistanceAt(race, last, n)]
             /\ DistanceAt(race, first, n) - DistanceAt(race, last, n) > 0
<1> DEFINE first == ClosestReading(race, n, race.length - from)
           last == ClosestReading(race, n, race.length - end)
<1>1. /\ IntervalStatus(race, n, from, end) = "valid"
      /\ Interval(race, n, from, end) = [elapsed |-> Elapsed(race, first, last), metres |-> Measured(race, n, first, last)]
  BY DEF Interval
<1>2. SeenIn(race, n) # {} /\ ~ (Measured(race, n, first, last) <= 0)
  BY <1>1 DEF IntervalStatus
<1>3. race.length - from \in Int /\ race.length - end \in Int BY DEF IsRace
<1>4. first \in SeenIn(race, n) /\ last \in SeenIn(race, n) BY <1>2, <1>3, ClosestIsSeen
<1> HIDE DEF first, last
<1>5. DistanceAt(race, first, n) - DistanceAt(race, last, n) > 0 BY <1>2, <1>4, ReadingsKnown DEF Measured
<1> QED BY <1>1, <1>4, <1>5 DEF Elapsed, Measured, first, last

IsPace(p) == p.elapsed \in Int /\ p.metres \in Int /\ p.metres > 0

LEMMA IntervalIsPace ==
  ASSUME NEW race, IsRace(race), NEW n, NEW from \in Int, NEW end \in Int, Interval(race, n, from, end) # Absent
  PROVE  IsPace(Interval(race, n, from, end))
<1>1. PICK i \in SeenIn(race, n), j \in SeenIn(race, n) :
        /\ Interval(race, n, from, end) =
             [elapsed |-> race.frames[j].at - race.frames[i].at,
              metres |-> DistanceAt(race, i, n) - DistanceAt(race, j, n)]
        /\ DistanceAt(race, i, n) - DistanceAt(race, j, n) > 0
  BY IntervalIs
<1>2. \A k \in {i, j} : DistanceAt(race, k, n) \in Int /\ race.frames[k].at \in Int
  BY ReadingsKnown
<1>3. race.frames[j].at - race.frames[i].at \in Int /\ DistanceAt(race, i, n) - DistanceAt(race, j, n) \in Int
  BY <1>2
<1> QED BY <1>1, <1>3 DEF IsPace

\* Two neighbouring intervals and both together, each taken from its nearest frames
\* and judged on its own, add up where all three are measured (intervalMeasurement).
THEOREM PacesAddUp ==
  ASSUME NEW race, IsRace(race), NEW n, NEW a \in Int, NEW b \in Int, NEW c \in Int,
         Absent \notin {Interval(race, n, a, b), Interval(race, n, b, c), Interval(race, n, a, c)}
  PROVE  /\ Interval(race, n, a, b).elapsed + Interval(race, n, b, c).elapsed = Interval(race, n, a, c).elapsed
         /\ Interval(race, n, a, b).metres + Interval(race, n, b, c).metres = Interval(race, n, a, c).metres
<1> DEFINE x == ClosestReading(race, n, race.length - a)
           y == ClosestReading(race, n, race.length - b)
           z == ClosestReading(race, n, race.length - c)
<1>1. /\ Interval(race, n, a, b) = [elapsed |-> race.frames[y].at - race.frames[x].at,
                                   metres |-> DistanceAt(race, x, n) - DistanceAt(race, y, n)]
      /\ x \in SeenIn(race, n) /\ y \in SeenIn(race, n)
  BY IntervalIs
<1>2. /\ Interval(race, n, b, c) = [elapsed |-> race.frames[z].at - race.frames[y].at,
                                   metres |-> DistanceAt(race, y, n) - DistanceAt(race, z, n)]
      /\ z \in SeenIn(race, n)
  BY IntervalIs
<1>3. Interval(race, n, a, c) = [elapsed |-> race.frames[z].at - race.frames[x].at,
                                metres |-> DistanceAt(race, x, n) - DistanceAt(race, z, n)]
  BY IntervalIs
<1> HIDE DEF x, y, z
<1>4. \A i \in {x, y, z} : DistanceAt(race, i, n) \in Int /\ race.frames[i].at \in Int
  BY <1>1, <1>2, ReadingsKnown
<1> QED BY <1>1, <1>2, <1>3, <1>4

(***************************************************************************)
(* Ranks.                                                                    *)
(***************************************************************************)
LEMMA Scaled ==
  ASSUME NEW x \in Int, NEW y \in Int, NEW k \in Int, k > 0
  PROVE  x <= y <=> x * k <= y * k
OBVIOUS

LEMMA NotSlowerIsTransitive ==
  ASSUME NEW p, IsPace(p), NEW q, IsPace(q), NEW r, IsPace(r), NotSlower(p, q), NotSlower(q, r)
  PROVE  NotSlower(p, r)
<1> DEFINE a == p.elapsed  b == q.elapsed  c == r.elapsed
           x == p.metres   y == q.metres   z == r.metres
<1>1. a \in Int /\ b \in Int /\ c \in Int /\ x \in Int /\ y \in Int /\ z \in Int /\ x > 0 /\ y > 0 /\ z > 0
  BY DEF IsPace
<1>2. a * y <= b * x /\ b * z <= c * y BY DEF NotSlower
<1> HIDE DEF a, b, c, x, y, z
<1>3. (a * y) * z <= (b * x) * z BY <1>1, <1>2, Scaled
<1>4. (b * z) * x <= (c * y) * x BY <1>1, <1>2, Scaled
<1>5. (a * y) * z = (a * z) * y /\ (b * x) * z = (b * z) * x /\ (c * y) * x = (c * x) * y BY <1>1
<1>6. (a * z) * y <= (c * x) * y
  <2>1. (a * z) * y \in Int /\ (b * z) * x \in Int /\ (c * x) * y \in Int BY <1>1
  <2> QED BY <1>3, <1>4, <1>5, <2>1
<1>7. a * z <= c * x
  <2>1. a * z \in Int /\ c * x \in Int BY <1>1
  <2> QED BY <1>1, <1>6, <2>1, Scaled
<1> QED BY <1>7 DEF NotSlower, a, b, c, x, y, z

LEMMA SlowerIsTotal ==
  ASSUME NEW p, IsPace(p), NEW q, IsPace(q)
  PROVE  /\ NotSlower(p, p)
         /\ Slower(p, q) => NotSlower(q, p)
<1>1. p.elapsed * q.metres \in Int /\ q.elapsed * p.metres \in Int /\ p.elapsed * p.metres \in Int BY DEF IsPace
<1> QED BY <1>1 DEF NotSlower, Slower

\* The faster of two entries has the lower rank, and the lower rank the faster entry
\* (addFieldRelativeMetrics).
THEOREM RanksFollowPaces ==
  ASSUME NEW paces, IsFiniteSet(DOMAIN paces), NEW feature,
         \A m \in DOMAIN paces : paces[m][feature] # Absent => IsPace(paces[m][feature]),
         NEW n \in DOMAIN paces, NEW m \in DOMAIN paces,
         paces[n][feature] # Absent, paces[m][feature] # Absent
  PROVE  FieldRank(paces, n, feature) < FieldRank(paces, m, feature)
           <=> Slower(paces[m][feature], paces[n][feature])
<1> DEFINE P(k) == paces[k][feature]
           has == {k \in DOMAIN paces : P(k) # Absent}
           Faster(k) == {l \in has : Slower(P(k), P(l))}
<1>1. FieldRank(paces, n, feature) = 1 + Cardinality(Faster(n)) /\ FieldRank(paces, m, feature) = 1 + Cardinality(Faster(m))
  BY DEF FieldRank
<1>2. \A k : IsFiniteSet(Faster(k)) /\ Cardinality(Faster(k)) \in Nat
  <2>1. \A k : Faster(k) \in SUBSET DOMAIN paces OBVIOUS
  <2> HIDE DEF Faster
  <2> QED BY <2>1, FS_Subset, FS_CardinalityType
<1>3. n \in has /\ m \in has /\ \A k \in has : IsPace(P(k)) OBVIOUS
<1> HIDE DEF P, has
<1>4. ASSUME Slower(P(m), P(n)) PROVE Cardinality(Faster(n)) < Cardinality(Faster(m))
  <2>1. NotSlower(P(n), P(m)) BY <1>3, <1>4, SlowerIsTotal
  <2>2. \A l \in has : Slower(P(n), P(l)) => Slower(P(m), P(l))
    BY <1>3, <2>1, NotSlowerIsTransitive DEF Slower
  <2>3. Faster(n) \subseteq Faster(m) BY <2>2
  <2>4. n \in Faster(m) /\ n \notin Faster(n) BY <1>3, <1>4, SlowerIsTotal DEF Slower
  <2> HIDE DEF Faster
  <2>5. Cardinality(Faster(n)) <= Cardinality(Faster(m)) /\ Cardinality(Faster(m)) # Cardinality(Faster(n))
    BY <1>2, <2>3, <2>4, FS_Subset
  <2> QED BY <1>2, <2>5
<1>5. ASSUME ~ Slower(P(m), P(n)) PROVE Cardinality(Faster(m)) <= Cardinality(Faster(n))
  <2>1. NotSlower(P(m), P(n)) BY <1>5 DEF Slower
  <2>2. \A l \in has : Slower(P(m), P(l)) => Slower(P(n), P(l))
    BY <1>3, <2>1, NotSlowerIsTransitive DEF Slower
  <2>3. Faster(m) \subseteq Faster(n) BY <2>2
  <2> HIDE DEF Faster
  <2> QED BY <1>2, <2>3, FS_Subset
<1> HIDE DEF Faster
<1> QED BY <1>1, <1>2, <1>4, <1>5 DEF P

LEMMA MaxOfTwo ==
  ASSUME NEW a \in Int, NEW b \in Int
  PROVE  Max({a, b}) \in {a, b} /\ Max({a, b}) >= a /\ Max({a, b}) >= b
<1>1. \E x \in {a, b} : \A y \in {a, b} : x >= y OBVIOUS
<1>2. Max({a, b}) \in {a, b} /\ \A y \in {a, b} : Max({a, b}) >= y BY <1>1 DEF Max
<1> QED BY <1>2

LEMMA RaceIsAsked ==
  ASSUME NEW first \in [1 .. 3 -> Stances], NEW second,
         second \in [1 .. 3 -> Stances] \/ \E s \in Stances : second = <<s, s, s>>
  PROVE  IsRace(RaceOf(first, second))
<1> DEFINE race == RaceOf(first, second)
           Mark(k) == 1 + (k + 1) \div 5
           Like(k) == Max({Mark(k) - 1, 1})
           Passing(k) == <<first[Like(k)], second[Like(k)], Behind>>
<1>1. /\ race.length \in Int
      /\ DOMAIN race.frames = 1 .. 18
      /\ \A k \in 1 .. 18 : race.frames[k] = FrameAt(Mark(k), 1 + ((k + 1) % 5), Passing(k))
  BY DEF RaceOf, Metres
<1>2. \A k \in 1 .. 18 : Mark(k) \in 1 .. 4 /\ (1 + ((k + 1) % 5)) \in Int /\ Like(k) \in 1 .. 3
  <2>1. SUFFICES ASSUME NEW k \in 1 .. 18 PROVE Mark(k) \in 1 .. 4 /\ (1 + ((k + 1) % 5)) \in Int /\ Like(k) \in 1 .. 3
    OBVIOUS
  <2>2. Mark(k) \in 1 .. 4 /\ (1 + ((k + 1) % 5)) \in Int OBVIOUS
  <2> HIDE DEF Mark
  <2>3. Mark(k) - 1 \in Int /\ 1 \in Int BY <2>2
  <2>4. Max({Mark(k) - 1, 1}) \in {Mark(k) - 1, 1} /\ Max({Mark(k) - 1, 1}) >= 1 BY ONLY <2>3, MaxOfTwo
  <2>5. Like(k) \in {Mark(k) - 1, 1} /\ Like(k) >= 1 BY <2>4
  <2> HIDE DEF Like
  <2> QED BY <2>2, <2>5
<1> HIDE DEF Mark, Like
<1>3. \A k \in 1 .. 18 : \A n \in 1 .. 3 : Passing(k)[n].gap \in Int
  <2>1. SUFFICES ASSUME NEW k \in 1 .. 18, NEW n \in 1 .. 3 PROVE Passing(k)[n].gap \in Int OBVIOUS
  <2>2. first[Like(k)].gap \in Int BY <1>2, CalculationsAssumption
  <2>3. second[Like(k)].gap \in Int BY <1>2, CalculationsAssumption
  <2>4. Behind.gap \in Int BY DEF Behind, Metres
  <2> QED BY <2>2, <2>3, <2>4
<1> HIDE DEF Passing
<1>4. ASSUME NEW k \in 1 .. 18
      PROVE  /\ race.frames[k].at \in Int
             /\ \A n \in DOMAIN race.frames[k].targets : n \in 1 .. 3 /\ race.frames[k].targets[n].distance \in Int
  <2> DEFINE f == 1 + ((k + 1) % 5)
             mark == Mark(k)
  <2>1. mark \in Int /\ f \in Int BY <1>2
  <2>2. \A n \in 1 .. 3 : Passing(k)[n].gap \in Int BY <1>3
  <2>3. race.frames[k] = FrameAt(mark, f, Passing(k)) BY <1>1
  <2> HIDE DEF f, mark
  <2>4. FrameAt(mark, f, Passing(k)).at \in Int BY <2>1 DEF FrameAt
  <2>5. ASSUME NEW n \in DOMAIN FrameAt(mark, f, Passing(k)).targets
        PROVE  n \in 1 .. 3 /\ FrameAt(mark, f, Passing(k)).targets[n].distance \in Int
    <3>1. /\ n \in 1 .. 3
          /\ FrameAt(mark, f, Passing(k)).targets[n].distance = Metres(100 * (8 - mark)) + 10 * (3 - f) + Passing(k)[n].gap
      BY <2>5 DEF FrameAt
    <3>2. Metres(100 * (8 - mark)) + 10 * (3 - f) \in Int BY <2>1 DEF Metres
    <3>3. Passing(k)[n].gap \in Int BY <2>2, <3>1
    <3> QED BY <3>1, <3>2, <3>3
  <2> QED BY <2>3, <2>4, <2>5
<1>5. IsFiniteSet(1 .. 18)
  <2>1. 1 \in Int /\ 18 \in Int OBVIOUS
  <2> QED BY ONLY <2>1, FS_Interval
<1> HIDE DEF race
<1> QED BY <1>1, <1>4, <1>5 DEF IsRace, race

PacesOfRace(q) ==
    q.of = "paces" =>
        \E first \in [1 .. 3 -> Stances], second \in {<<s, s, s>> : s \in Stances} :
            LET race == RaceOf(first, second)
            IN  /\ q.paces = [n \in 1 .. 3 |-> IntervalFeatures(race, n)]
                /\ q.ranks = [n \in 1 .. 3 |-> FieldRank(q.paces, n, "first100")]
                /\ q.whole = [n \in 1 .. 3 |-> Interval(race, n, 0, Metres(200))]

WellAskedPaces == PacesOfRace(question)

LEMMA AskedPaces == QuestionSpec => []WellAskedPaces
<1>1. question = NoQuestion => WellAskedPaces BY DEF WellAskedPaces, PacesOfRace, NoQuestion
<1>2. WellAskedPaces /\ [question = NoQuestion /\ Ask]_question => WellAskedPaces'
  <2>1. SUFFICES ASSUME WellAskedPaces, question = NoQuestion, Ask PROVE WellAskedPaces'
    BY DEF WellAskedPaces
  <2>2. CASE AskPaces
    <3>1. PICK first \in [1 .. 3 -> Stances], stance \in Stances :
            \E race \in {RaceOf(first, <<stance, stance, stance>>)} :
              \E paces \in {[n \in race.active |-> IntervalFeatures(race, n)]} :
                 question' = [of |-> "paces", paces |-> paces,
                              ranks |-> [n \in race.active |-> FieldRank(paces, n, "first100")],
                              whole |-> [n \in race.active |-> Interval(race, n, 0, Metres(200))]]
      BY <2>2 DEF AskPaces
    <3> DEFINE race == RaceOf(first, <<stance, stance, stance>>)
               paces == [n \in race.active |-> IntervalFeatures(race, n)]
    <3>2. race.active = 1 .. 3 BY DEF RaceOf
    <3> HIDE DEF race
    <3>3. question' = [of |-> "paces", paces |-> paces,
                       ranks |-> [n \in 1 .. 3 |-> FieldRank(paces, n, "first100")],
                       whole |-> [n \in 1 .. 3 |-> Interval(race, n, 0, Metres(200))]]
      BY <3>1, <3>2 DEF race
    <3>4. paces = [n \in 1 .. 3 |-> IntervalFeatures(race, n)] BY <3>2
    <3> HIDE DEF paces
    <3> QED BY <3>3, <3>4 DEF race, WellAskedPaces, PacesOfRace
  <2>3. CASE ~ AskPaces
    <3>1. question'.of # "paces" BY <2>1, <2>3, AskedKinds
    <3> QED BY <3>1 DEF WellAskedPaces, PacesOfRace
  <2> QED BY <2>2, <2>3
<1> QED BY <1>1, <1>2, PTL DEF QuestionSpec

\* In a race that is asked for, the paces of an entry add up and the ranks follow
\* the paces (intervalMeasurement, addFieldRelativeMetrics), however the horses pass.
THEOREM PacesAgreeAlways == QuestionSpec => []PacesAgree
<1>1. WellAskedPaces => PacesAgree
  <2>1. SUFFICES ASSUME WellAskedPaces, question.of = "paces" PROVE PacesAgree BY DEF PacesAgree
  <2>2. PICK first \in [1 .. 3 -> Stances], second \in {<<s, s, s>> : s \in Stances} :
          /\ question.paces = [n \in 1 .. 3 |-> IntervalFeatures(RaceOf(first, second), n)]
          /\ question.ranks = [n \in 1 .. 3 |-> FieldRank(question.paces, n, "first100")]
          /\ question.whole = [n \in 1 .. 3 |-> Interval(RaceOf(first, second), n, 0, Metres(200))]
    BY <2>1 DEF WellAskedPaces, PacesOfRace
  <2> DEFINE race == RaceOf(first, second)
             paces == question.paces
  <2>3. IsRace(race) BY RaceIsAsked
  <2>4. DOMAIN paces = 1 .. 3 /\ IsFiniteSet(DOMAIN paces)
    <3>1. 1 \in Int /\ 3 \in Int OBVIOUS
    <3>2. IsFiniteSet(1 .. 3) BY ONLY <3>1, FS_Interval
    <3> QED BY <2>2, <3>2
  <2> HIDE DEF race
  <2>5. \A n \in 1 .. 3 : /\ paces[n]["first100"] = Interval(race, n, 0, Metres(100))
                          /\ paces[n]["second100"] = Interval(race, n, Metres(100), Metres(200))
    BY <2>2 DEF IntervalFeatures, race
  <2>6. 0 \in Int /\ Metres(100) \in Int /\ Metres(200) \in Int BY DEF Metres
  <2>7. ASSUME NEW n \in 1 .. 3, Absent \notin {paces[n].first100, paces[n].second100, question.whole[n]}
        PROVE  /\ paces[n].first100.elapsed + paces[n].second100.elapsed = question.whole[n].elapsed
               /\ paces[n].first100.metres + paces[n].second100.metres = question.whole[n].metres
    <3>1. question.whole[n] = Interval(race, n, 0, Metres(200)) BY <2>2 DEF race
    <3> QED BY <2>3, <2>5, <2>6, <2>7, <3>1, PacesAddUp
  <2>8. \A n \in DOMAIN paces : paces[n]["first100"] # Absent => IsPace(paces[n]["first100"])
    <3>1. SUFFICES ASSUME NEW n \in 1 .. 3, Interval(race, n, 0, Metres(100)) # Absent
                   PROVE  IsPace(Interval(race, n, 0, Metres(100)))
      BY <2>4, <2>5
    <3> QED BY <2>3, <2>6, <3>1, IntervalIsPace
  <2>9. ASSUME NEW n \in 1 .. 3, NEW m \in 1 .. 3, Absent \notin {paces[n].first100, paces[m].first100}
        PROVE  question.ranks[n] < question.ranks[m] <=> Slower(paces[m].first100, paces[n].first100)
    <3>1. question.ranks[n] = FieldRank(paces, n, "first100") /\ question.ranks[m] = FieldRank(paces, m, "first100")
      BY <2>2
    <3>2. n \in DOMAIN paces /\ m \in DOMAIN paces BY <2>4
    <3> HIDE DEF paces
    <3> QED BY <2>4, <2>8, <2>9, <3>1, <3>2, RanksFollowPaces
  <2> QED BY <2>7, <2>9 DEF PacesAgree
<1> QED BY <1>1, AskedPaces, PTL

(***************************************************************************)
(* Places in the window.                                                     *)
(***************************************************************************)
AreNumbers(S) == IsFiniteSet(S) /\ S \subseteq Int

LEMMA MinIs ==
  ASSUME NEW S, AreNumbers(S), S # {}
  PROVE  Min(S) \in S /\ \A y \in S : Min(S) <= y
<1> DEFINE R == {p \in Int \X Int : p[1] < p[2]}
<1>1. \A x, y \in S : <<x, y>> \in R <=> x < y BY DEF AreNumbers
<1> HIDE DEF R
<1>2. \A x, y \in S : x = y \/ <<x, y>> \in R \/ <<y, x>> \in R
  <2>1. \A x, y \in S : x = y \/ x < y \/ y < x BY DEF AreNumbers
  <2> QED BY <1>1, <2>1
<1>3. \A x, y, z \in S : <<x, y>> \in R /\ <<y, z>> \in R => <<x, z>> \in R
  <2>1. \A x, y, z \in S : x < y /\ y < z => x < z BY DEF AreNumbers
  <2> QED BY <1>1, <2>1
<1>4. IsFiniteSet(S) BY DEF AreNumbers
<1>5. PICK m \in S : \A y \in S : y = m \/ <<m, y>> \in R BY ONLY S # {}, <1>2, <1>3, <1>4, FirstExists
<1>6. \A y \in S : m <= y
  <2>1. \A y \in S : y = m \/ m < y BY <1>1, <1>5
  <2> QED BY <2>1 DEF AreNumbers
<1> QED BY <1>6 DEF Min

LEMMA MaxIs ==
  ASSUME NEW S, AreNumbers(S), S # {}
  PROVE  Max(S) \in S /\ \A y \in S : Max(S) >= y
<1> DEFINE R == {p \in Int \X Int : p[1] > p[2]}
<1>1. \A x, y \in S : <<x, y>> \in R <=> x > y BY DEF AreNumbers
<1> HIDE DEF R
<1>2. \A x, y \in S : x = y \/ <<x, y>> \in R \/ <<y, x>> \in R
  <2>1. \A x, y \in S : x = y \/ x > y \/ y > x BY DEF AreNumbers
  <2> QED BY <1>1, <2>1
<1>3. \A x, y, z \in S : <<x, y>> \in R /\ <<y, z>> \in R => <<x, z>> \in R
  <2>1. \A x, y, z \in S : x > y /\ y > z => x > z BY DEF AreNumbers
  <2> QED BY <1>1, <2>1
<1>4. IsFiniteSet(S) BY DEF AreNumbers
<1>5. PICK m \in S : \A y \in S : y = m \/ <<m, y>> \in R BY ONLY S # {}, <1>2, <1>3, <1>4, FirstExists
<1>6. \A y \in S : m >= y
  <2>1. \A y \in S : y = m \/ m > y BY <1>1, <1>5
  <2> QED BY <2>1 DEF AreNumbers
<1> QED BY <1>6 DEF Max

\* A race whose horses are numbered.
IsField(race) == IsRace(race) /\ AreNumbers(race.active)

LEMMA LeaderIsFirst ==
  ASSUME NEW race, IsField(race), NEW i \in FramesOf(race), InSight(race, i) # {}
  PROVE  /\ LeaderAt(race, i) \in InSight(race, i)
         /\ \A m \in InSight(race, i) \ {LeaderAt(race, i)} : Ahead(race, i, LeaderAt(race, i), m)
         /\ LeaderDistance(race, i) \in Int
<1> DEFINE S == InSight(race, i)
           D(n) == DistanceAt(race, i, n)
           First(n, m) == D(n) < D(m) \/ (D(n) = D(m) /\ n < m)
           R == {p \in S \X S : First(p[1], p[2])}
<1>1. S \subseteq race.active /\ S \subseteq DOMAIN race.frames[i].targets BY DEF InSight
<1>2. AreNumbers(S) BY <1>1, FS_Subset DEF IsField, AreNumbers
<1>3. \A n \in S : n \in Int /\ D(n) \in Int
  BY <1>1, <1>2 DEF AreNumbers, IsField, IsRace, DistanceAt, FramesOf
<1>4. \A n, m \in S : <<n, m>> \in R <=> First(n, m) OBVIOUS
<1> HIDE DEF D, S
<1>5. \A n, m \in S : n = m \/ First(n, m) \/ First(m, n) BY <1>3
<1>6. \A n, m, k \in S : First(n, m) /\ First(m, k) => First(n, k) BY <1>3
<1> HIDE DEF First, R
<1>7. \A n, m \in S : n = m \/ <<n, m>> \in R \/ <<m, n>> \in R BY <1>4, <1>5
<1>8. \A n, m, k \in S : <<n, m>> \in R /\ <<m, k>> \in R => <<n, k>> \in R BY <1>4, <1>6
<1>9. PICK n \in S : \A m \in S : m = n \/ <<n, m>> \in R
  <2>1. IsFiniteSet(S) /\ S # {} BY <1>2 DEF AreNumbers, S
  <2> QED BY <1>7, <1>8, <2>1, FirstExists
<1>10. LeaderAt(race, i) = CHOOSE n_1 \in S : \A m \in S \ {n_1} : First(n_1, m)
  BY DEF LeaderAt, Least, Ahead, S, First, D
<1>11. LeaderAt(race, i) \in S /\ \A m \in S \ {LeaderAt(race, i)} : First(LeaderAt(race, i), m)
  BY <1>4, <1>9, <1>10
<1> QED BY <1>3, <1>11 DEF LeaderDistance, S, D, First, Ahead

IsLeads(leads) == AreNumbers(DOMAIN leads) /\ \A i \in DOMAIN leads : leads[i] \in Int

LEMMA LeadsAre == ASSUME NEW race, IsField(race) PROVE IsLeads(Leads(race))
<1>1. DOMAIN Leads(race) \subseteq DOMAIN race.frames BY DEF Leads, FramesOf
<1>2. AreNumbers(DOMAIN Leads(race)) BY <1>1, FS_Subset DEF AreNumbers, IsField, IsRace
<1>3. \A i \in DOMAIN Leads(race) : Leads(race)[i] \in Int BY LeaderIsFirst DEF Leads, FramesOf
<1> QED BY <1>2, <1>3 DEF IsLeads

LEMMA ProgressIs ==
  ASSUME NEW leads, IsLeads(leads), NEW i \in DOMAIN leads
  PROVE  /\ leads[Min(DOMAIN leads)] \in Int
         /\ Progress(leads, i) \in Int
         /\ Progress(leads, i) \in {0, leads[Min(DOMAIN leads)] - leads[i]}
         /\ Progress(leads, i) >= 0 /\ Progress(leads, i) >= leads[Min(DOMAIN leads)] - leads[i]
<1> DEFINE a == leads[Min(DOMAIN leads)]
<1>1. a \in Int /\ leads[i] \in Int BY MinIs DEF IsLeads
<1> HIDE DEF a
<1>2. a - leads[i] \in Int /\ 0 \in Int BY <1>1
<1>3. /\ Max({0, a - leads[i]}) \in {0, a - leads[i]} /\ Max({0, a - leads[i]}) >= 0
      /\ Max({0, a - leads[i]}) >= a - leads[i]
  BY ONLY <1>2, MaxOfTwo
<1> QED BY <1>1, <1>2, <1>3 DEF Progress, a

LEMMA Joined ==
  ASSUME NEW s \in Seq(Int), NEW t \in Seq(Int), NEW k \in DOMAIN (s \o t)
  PROVE  /\ k \in Int
         /\ \/ k \in 1 .. Len(s) /\ (s \o t)[k] = s[k]
            \/ k - Len(s) \in 1 .. Len(t) /\ (s \o t)[k] = t[k - Len(s)]
<1>1. k \in 1 .. Len(s) + Len(t) /\ Len(s) \in Nat /\ Len(t) \in Nat OBVIOUS
<1>2. CASE k <= Len(s) BY <1>1, <1>2
<1>3. CASE k > Len(s) BY <1>1, <1>3
<1> QED BY <1>1, <1>2, <1>3

\* The marks are a hundred metres apart, but for the finish.
LEMMA MarksAre ==
  ASSUME NEW leads, IsLeads(leads), DOMAIN leads # {}, NEW k \in DOMAIN Marks(leads)
  PROVE  k \in Int /\ Marks(leads)[k] \in {400 * (k - 1), AtFinish}
<1> DEFINE gone == {Progress(leads, i) : i \in DOMAIN leads}
           n == Max(gone) \div Metres(100) + 1
           regular == [j \in 1 .. n |-> Metres(100 * (j - 1))]
           finish == IF HasFinish(leads) THEN <<AtFinish>> ELSE <<>>
<1>1. Max(gone) \in Nat
  <2> DEFINE f == [i \in DOMAIN leads |-> Progress(leads, i)]
  <2>1. gone = {f[i] : i \in DOMAIN leads} OBVIOUS
  <2>2. IsFiniteSet({f[i] : i \in DOMAIN leads})
    <3>1. DOMAIN f = DOMAIN leads OBVIOUS
    <3>2. IsFiniteSet(DOMAIN leads) BY DEF IsLeads, AreNumbers
    <3> HIDE DEF f
    <3> QED BY <3>1, <3>2, ImageIsFinite
  <2>3. \A x \in gone : x \in Int /\ x >= 0 BY ProgressIs
  <2>4. AreNumbers(gone) /\ gone # {} BY <2>1, <2>2, <2>3 DEF AreNumbers
  <2> HIDE DEF gone
  <2> QED BY <2>3, <2>4, MaxIs
<1>2. n \in Nat BY <1>1 DEF Metres
<1>3. Marks(leads) = regular \o finish BY DEF Marks
<1> HIDE DEF n
<1>4. regular \in Seq(Int) /\ Len(regular) = n /\ \A j \in 1 .. n : regular[j] = 400 * (j - 1)
  <2>1. regular \in [1 .. n -> Int] BY <1>2 DEF Metres
  <2>2. \A j \in 1 .. n : regular[j] = 400 * (j - 1) BY <1>2 DEF Metres
  <2> HIDE DEF regular
  <2> QED BY <1>2, <2>1, <2>2
<1>5. finish \in Seq(Int) /\ \A j \in 1 .. Len(finish) : finish[j] = AtFinish
  <2>1. AtFinish \in Int BY DEF AtFinish
  <2>2. CASE HasFinish(leads)
    <3>1. finish = <<AtFinish>> BY <2>2
    <3> QED BY <2>1, <3>1
  <2>3. CASE ~ HasFinish(leads)
    <3>1. finish = <<>> BY <2>3
    <3> QED BY <3>1
  <2> QED BY <2>2, <2>3
<1> HIDE DEF regular, finish
<1>6. k \in DOMAIN (regular \o finish) BY <1>3
<1>7. /\ k \in Int
      /\ \/ k \in 1 .. Len(regular) /\ (regular \o finish)[k] = regular[k]
         \/ k - Len(regular) \in 1 .. Len(finish) /\ (regular \o finish)[k] = finish[k - Len(regular)]
  BY <1>4, <1>5, <1>6, Joined
<1> QED BY <1>3, <1>4, <1>5, <1>7

LEMMA FrameForIs ==
  ASSUME NEW leads, IsLeads(leads), NEW mark, FrameFor(leads, mark) # Absent
  PROVE  /\ FrameFor(leads, mark) \in DOMAIN leads
         /\ IF mark = AtFinish THEN leads[FrameFor(leads, mark)] <= 20
            ELSE Apart(Progress(leads, FrameFor(leads, mark)), mark) <= 100
<1> DEFINE open == IF mark # AtFinish /\ HasFinish(leads) THEN DOMAIN leads \ {Max(DOMAIN leads)} ELSE DOMAIN leads
           error == [i \in open |-> IF mark = AtFinish THEN leads[i] ELSE Apart(Progress(leads, i), mark)]
           best == {i \in open : \A j \in open : error[i] <= error[j]}
           near == {i \in best : error[i] <= (IF mark = AtFinish THEN Metres(5) ELSE Metres(25))}
<1>1. near # {} /\ FrameFor(leads, mark) = Min(near) BY DEF FrameFor
<1>2. open \subseteq DOMAIN leads OBVIOUS
<1>3. near \subseteq open OBVIOUS
<1>4. AreNumbers(near)
  <2> HIDE DEF near, open
  <2> QED BY <1>2, <1>3, FS_Subset DEF IsLeads, AreNumbers
<1>5. Min(near) \in near
  <2> HIDE DEF near
  <2> QED BY <1>1, <1>4, MinIs
<1>6. error[Min(near)] <= (IF mark = AtFinish THEN Metres(5) ELSE Metres(25)) BY <1>5
<1>7. error[Min(near)] = IF mark = AtFinish THEN leads[Min(near)] ELSE Apart(Progress(leads, Min(near)), mark)
  BY <1>3, <1>5
<1> HIDE DEF near, error
<1> QED BY <1>1, <1>2, <1>3, <1>5, <1>6, <1>7 DEF Metres

LEMMA FrameIsThere ==
  ASSUME NEW leads, IsLeads(leads), NEW mark, FrameFor(leads, mark) # Absent
  PROVE  FrameFor(leads, mark) \in DOMAIN leads
BY FrameForIs

\* In a set that is in a strict total order no two have the same rank, and there is
\* one of each.
StrictOrder(S, R) ==
    /\ \A x \in S : <<x, x>> \notin R
    /\ \A x, y \in S : x = y \/ <<x, y>> \in R \/ <<y, x>> \in R
    /\ \A x, y, z \in S : <<x, y>> \in R /\ <<y, z>> \in R => <<x, z>> \in R

LEMMA RanksDiffer ==
  ASSUME NEW S, NEW R, IsFiniteSet(S), StrictOrder(S, R)
  PROVE  LET Rank(x) == Cardinality({y \in S : <<y, x>> \in R})
         IN  /\ \A x \in S : Rank(x) \in Nat
             /\ \A x, y \in S : Rank(x) = Rank(y) => x = y
<1> DEFINE Below(x) == {y \in S : <<y, x>> \in R}
           Rank(x) == Cardinality(Below(x))
<1>1. \A x \in S : Below(x) \subseteq S /\ IsFiniteSet(Below(x)) BY FS_Subset
<1>2. \A x \in S : Rank(x) \in Nat BY <1>1, FS_CardinalityType
<1>3. ASSUME NEW x \in S, NEW y \in S, <<x, y>> \in R PROVE Rank(x) < Rank(y)
  <2>1. Below(x) \subseteq Below(y) /\ x \in Below(y) /\ x \notin Below(x) BY <1>3 DEF StrictOrder
  <2>2. IsFiniteSet(Below(y)) BY <1>1
  <2>3. Rank(x) \in Nat /\ Rank(y) \in Nat BY <1>2
  <2> HIDE DEF Below
  <2>4. Cardinality(Below(x)) <= Cardinality(Below(y)) /\ (Cardinality(Below(x)) = Cardinality(Below(y)) => Below(x) = Below(y))
    BY <2>1, <2>2, FS_Subset
  <2> QED BY <2>1, <2>3, <2>4
<1> HIDE DEF Rank
<1>4. \A x, y \in S : Rank(x) = Rank(y) => x = y
  <2>1. SUFFICES ASSUME NEW x \in S, NEW y \in S, Rank(x) = Rank(y) PROVE x = y OBVIOUS
  <2>2. Rank(x) \in Nat BY <1>2
  <2>3. <<x, y>> \notin R /\ <<y, x>> \notin R BY <1>3, <2>1, <2>2
  <2> QED BY <2>3 DEF StrictOrder
<1> QED BY <1>2, <1>4 DEF Rank

LEMMA RanksAreTaken ==
  ASSUME NEW S, NEW R, IsFiniteSet(S), StrictOrder(S, R)
  PROVE  \A k \in 1 .. Cardinality(S) : \E x \in S : Cardinality({y \in S : <<y, x>> \in R}) = k - 1
<1> DEFINE n == Cardinality(S)
           Below(x) == {y \in S : <<y, x>> \in R}
           Rank(x) == Cardinality(Below(x))
           r == [x \in S |-> Rank(x)]
<1>1. n \in Nat BY FS_CardinalityType
<1>2. \A x \in S : Rank(x) \in Nat BY RanksDiffer
<1>3. \A x, y \in S : Rank(x) = Rank(y) => x = y BY RanksDiffer
<1>4. \A x \in S : Rank(x) < n
  <2>1. SUFFICES ASSUME NEW x \in S PROVE Rank(x) < n OBVIOUS
  <2>2. Below(x) \subseteq S /\ x \notin Below(x) BY <2>1 DEF StrictOrder
  <2>3. Rank(x) \in Nat BY <1>2
  <2> HIDE DEF Below
  <2>4. Cardinality(Below(x)) <= n /\ (Cardinality(Below(x)) = n => Below(x) = S) BY <2>2, FS_Subset
  <2> QED BY <1>1, <2>1, <2>2, <2>3, <2>4
<1> HIDE DEF Rank
<1>5. r \in Injection(S, 0 .. n - 1)
  <2>1. r \in [S -> 0 .. n - 1] BY <1>1, <1>2, <1>4
  <2>2. \A x, y \in S : r[x] = r[y] => x = y BY <1>3
  <2> HIDE DEF r
  <2> QED BY <2>1, <2>2 DEF Injection, IsInjective
<1>6. IsFiniteSet(0 .. n - 1) /\ Cardinality(0 .. n - 1) = n
  <2>1. 0 \in Int /\ n - 1 \in Int BY <1>1
  <2> QED BY <1>1, <2>1, FS_Interval
<1>7. r \in Surjection(S, 0 .. n - 1) BY <1>5, <1>6, FS_Injection
<1>8. \A j \in 0 .. n - 1 : \E x \in S : r[x] = j BY <1>7 DEF Surjection
<1>9. \A k \in 1 .. n : k - 1 \in 0 .. n - 1 BY <1>1
<1> QED BY <1>8, <1>9 DEF Rank

\* What is in order is there, each once.
LEMMA InOrderAre ==
  ASSUME NEW S, AreNumbers(S)
  PROVE  LET s == InOrder(S, <)
         IN  /\ \A k \in DOMAIN s : s[k] \in S
             /\ \A k, l \in DOMAIN s : k # l => s[k] # s[l]
<1> DEFINE s == InOrder(S, <)
           n == Cardinality(S)
           R == {p \in S \X S : p[1] < p[2]}
           Rank(x) == Cardinality({y \in S : y < x})
<1>1. n \in Nat BY FS_CardinalityType DEF AreNumbers
<1>2. StrictOrder(S, R)
  <2>1. \A x, y \in S : <<x, y>> \in R <=> x < y OBVIOUS
  <2>2. \A x \in S : x \in Int BY DEF AreNumbers
  <2> HIDE DEF R
  <2> QED BY <2>1, <2>2 DEF StrictOrder
<1>3. \A x \in S : {y \in S : <<y, x>> \in R} = {y \in S : y < x} OBVIOUS
<1> HIDE DEF R
<1>4. \A k \in 1 .. n : \E x \in S : Cardinality({y \in S : <<y, x>> \in R}) = k - 1
  <2>1. IsFiniteSet(S) BY DEF AreNumbers
  <2> QED BY <1>2, <2>1, RanksAreTaken
<1>5. \A k \in 1 .. n : \E x \in S : Rank(x) = k - 1 BY <1>3, <1>4
<1>6. DOMAIN s = 1 .. n /\ \A k \in 1 .. n : s[k] = CHOOSE x \in S : Rank(x) = k - 1
  BY DEF InOrder, Rank
<1> HIDE DEF s, Rank
<1>7. \A k \in 1 .. n : s[k] \in S /\ Rank(s[k]) = k - 1 BY <1>5, <1>6
<1>8. \A k, l \in 1 .. n : k # l => s[k] # s[l]
  <2>1. \A k, l \in 1 .. n : k - 1 = l - 1 => k = l BY <1>1
  <2> QED BY <1>7, <2>1
<1> QED BY <1>6, <1>7, <1>8 DEF s

\* Every checkpoint is the frame of some mark, each of its own.
LEMMA CheckpointsAre ==
  ASSUME NEW leads, IsLeads(leads)
  PROVE  LET c == Checkpoints(leads)
         IN  /\ \A k \in DOMAIN c : \E j \in DOMAIN Marks(leads) :
                   c[k] = FrameFor(leads, Marks(leads)[j]) /\ c[k] # Absent
             /\ \A k, l \in DOMAIN c : k # l => c[k] # c[l]
<1> DEFINE marks == Marks(leads)
           frame == [k \in DOMAIN marks |-> FrameFor(leads, marks[k])]
           taken == {k \in DOMAIN marks : frame[k] # Absent /\ \A l \in 1 .. k - 1 : frame[l] # frame[k]}
           S == {frame[k] : k \in taken}
<1>1. \A x \in S : \E j \in DOMAIN marks : x = FrameFor(leads, marks[j]) /\ x # Absent OBVIOUS
<1>2. S \subseteq DOMAIN leads
  <2>1. SUFFICES ASSUME NEW j \in DOMAIN marks, FrameFor(leads, marks[j]) # Absent
                 PROVE  FrameFor(leads, marks[j]) \in DOMAIN leads
    BY <1>1
  <2> QED BY <2>1, FrameIsThere
<1>3. AreNumbers(S)
  <2> HIDE DEF S
  <2> QED BY <1>2, FS_Subset DEF AreNumbers, IsLeads
<1>4. Checkpoints(leads) = InOrder(S, <) BY DEF Checkpoints
<1> HIDE DEF S
<1>5. /\ \A k \in DOMAIN Checkpoints(leads) : Checkpoints(leads)[k] \in S
      /\ \A k, l \in DOMAIN Checkpoints(leads) : k # l => Checkpoints(leads)[k] # Checkpoints(leads)[l]
  BY <1>3, <1>4, InOrderAre
<1> QED BY <1>1, <1>5

\* Where the leader is at a checkpoint of the window.
LEMMA WindowIs ==
  ASSUME NEW race, IsField(race), NEW k \in DOMAIN CheckpointRows(race), InWindow(CheckpointRows(race)[k])
  PROVE  LET i == Checkpoints(Leads(race))[k]
         IN  /\ k \in DOMAIN Checkpoints(Leads(race))
             /\ i \in FramesOf(race) /\ InSight(race, i) # {} /\ LeaderDistance(race, i) \in 1600 .. 2400
<1> DEFINE leads == Leads(race)
           at == Checkpoints(leads)
           field == CheckpointRows(race)[k]
           r == WindowLeader(field)
           i == at[k]
<1>1. k \in DOMAIN at /\ field = {CheckpointRow(race, leads, i, n) : n \in InSight(race, i)} BY DEF CheckpointRows
<1>2. r # Absent /\ r.distance \in 1600 .. 2400 BY DEF InWindow, Metres
<1>3. r \in field /\ UsableLongitudinal(r) /\ r.rank = 1
  <2> DEFINE leaders == {q \in field : UsableLongitudinal(q) /\ q.rank = 1 /\ q.gap <= Metres(3) \div 4}
  <2>1. Cardinality(leaders) = 1 /\ r = CHOOSE q \in leaders : TRUE BY <1>2 DEF WindowLeader
  <2>2. leaders # {} BY <2>1, FS_EmptySet
  <2> QED BY <2>1, <2>2
<1>4. PICK n \in InSight(race, i) : r = CheckpointRow(race, leads, i, n) BY <1>1, <1>3
<1>5. i \in FramesOf(race)
  <2>1. IsLeads(leads) BY LeadsAre
  <2>2. \E mark : i = FrameFor(leads, mark) /\ i # Absent BY <1>1, <2>1, CheckpointsAre
  <2>3. i \in DOMAIN leads BY <2>1, <2>2, FrameIsThere
  <2> QED BY <2>3 DEF Leads
<1>6. {m \in InSight(race, i) : m # n /\ Ahead(race, i, m, n)} = {}
  <2> DEFINE before == {m \in InSight(race, i) : m # n /\ Ahead(race, i, m, n)}
             ranked == Percent(Cardinality(InSight(race, i)), Cardinality(race.active)) >= 50 /\ ~Ambiguous(race, i, n)
  <2>1. r.rank = IF ranked THEN 1 + Cardinality(before) ELSE Absent BY <1>4 DEF CheckpointRow
  <2>2. 1 + Cardinality(before) = 1 BY <1>3, <2>1 DEF UsableLongitudinal
  <2>3. before \subseteq race.active BY DEF InSight
  <2>4. IsFiniteSet(before) /\ Cardinality(before) \in Nat
    <3> HIDE DEF before
    <3> QED BY <2>3, FS_Subset, FS_CardinalityType DEF IsField, AreNumbers
  <2> HIDE DEF before
  <2>5. before = {} BY <2>2, <2>4, FS_EmptySet
  <2> QED BY <2>5 DEF before
<1>7. n = LeaderAt(race, i) BY <1>5, <1>6, LeaderIsFirst
<1>8. r.distance = LeaderDistance(race, i) BY <1>4, <1>7 DEF CheckpointRow, LeaderDistance
<1> QED BY <1>1, <1>2, <1>4, <1>5, <1>8

InView(race, k) == k \in DOMAIN CheckpointRows(race) /\ InWindow(CheckpointRows(race)[k])

\* A checkpoint of the window, near the mark it stands for.
Marked(leads, i, j) ==
    /\ i \in DOMAIN leads /\ leads[i] \in 1600 .. 2400
    /\ i = FrameFor(leads, 400 * (j - 1)) /\ Apart(Progress(leads, i), 400 * (j - 1)) <= 100

LEMMA MarkInView ==
  ASSUME NEW race, IsField(race), NEW k, InView(race, k)
  PROVE  /\ k \in DOMAIN Checkpoints(Leads(race))
         /\ \E j \in Int : Marked(Leads(race), Checkpoints(Leads(race))[k], j)
<1> DEFINE leads == Leads(race)
           i == Checkpoints(leads)[k]
<1>1. IsLeads(leads) BY LeadsAre
<1>2. /\ k \in DOMAIN Checkpoints(leads)
      /\ i \in FramesOf(race) /\ InSight(race, i) # {} /\ LeaderDistance(race, i) \in 1600 .. 2400
  BY WindowIs DEF InView
<1>3. i \in DOMAIN leads /\ leads[i] = LeaderDistance(race, i) BY <1>2 DEF Leads
<1>4. PICK j \in DOMAIN Marks(leads) : i = FrameFor(leads, Marks(leads)[j]) /\ i # Absent
  BY <1>1, <1>2, CheckpointsAre
<1> HIDE DEF i, leads
<1>5. IF Marks(leads)[j] = AtFinish THEN leads[i] <= 20 ELSE Apart(Progress(leads, i), Marks(leads)[j]) <= 100
  BY <1>1, <1>4, FrameForIs
<1>6. Marks(leads)[j] # AtFinish
  <2>1. leads[i] \in 1600 .. 2400 BY <1>2, <1>3
  <2>2. ~ (leads[i] <= 20) BY <2>1
  <2> QED BY <1>5, <2>2
<1>7. j \in Int /\ Marks(leads)[j] = 400 * (j - 1) BY <1>1, <1>3, <1>4, <1>6, MarksAre
<1>8. Marked(leads, i, j) BY <1>2, <1>3, <1>4, <1>5, <1>6, <1>7 DEF Marked
<1> QED BY <1>2, <1>7, <1>8 DEF i, leads

LEMMA MarksAreNear ==
  ASSUME NEW leads, IsLeads(leads), NEW f, NEW g, NEW i \in Int, NEW j \in Int,
         Marked(leads, f, i), Marked(leads, g, j)
  PROVE  i - j <= 2
<1> DEFINE from == leads[Min(DOMAIN leads)]
           d == leads[f]  e == leads[g]
           p == Progress(leads, f)  q == Progress(leads, g)
<1>1. /\ from \in Int /\ p \in Int /\ q \in Int /\ p >= 0 /\ q >= 0
      /\ p \in {0, from - d} /\ p >= from - d /\ q \in {0, from - e} /\ q >= from - e
  BY ProgressIs DEF Marked
<1>2. d \in 1600 .. 2400 /\ e \in 1600 .. 2400 BY DEF Marked
<1>3. Apart(p, 400 * (i - 1)) <= 100 /\ Apart(q, 400 * (j - 1)) <= 100 BY DEF Marked
<1> HIDE DEF from, d, e, p, q
<1>4. p - q <= 800 BY <1>1, <1>2
<1>5. 400 * (i - 1) - p <= 100 /\ q - 400 * (j - 1) <= 100 BY <1>1, <1>3 DEF Apart
<1> QED BY <1>1, <1>4, <1>5

\* The window is two hundred metres long: three checkpoints are in it at most.
LEMMA ThreeInView ==
  ASSUME NEW race, IsField(race), NEW a, NEW b, NEW c, NEW d,
         InView(race, a), InView(race, b), InView(race, c), InView(race, d)
  PROVE  a \in {b, c, d} \/ b \in {c, d} \/ c = d
<1> DEFINE leads == Leads(race)
           at == Checkpoints(leads)
           On(k, j) == Marked(leads, at[k], j)
<1>1. IsLeads(leads) BY LeadsAre
<1>2. \A k : InView(race, k) => k \in DOMAIN at /\ \E j \in Int : On(k, j) BY MarkInView
<1>3. \A k, l : \A i, j \in Int : On(k, i) /\ On(l, j) => i - j <= 2
  <2> HIDE DEF leads, at
  <2> QED BY <1>1, MarksAreNear
<1>4. \A k, l : \A i : InView(race, k) /\ InView(race, l) /\ On(k, i) /\ On(l, i) => k = l
  <2>1. \A k, l \in DOMAIN at : k # l => at[k] # at[l] BY <1>1, CheckpointsAre
  <2>2. \A k, l, i : On(k, i) /\ On(l, i) => at[k] = at[l] BY DEF Marked
  <2> HIDE DEF On, at
  <2> QED BY <1>2, <2>1, <2>2
<1> HIDE DEF On
<1>5. PICK i \in Int, j \in Int, k \in Int, l \in Int : On(a, i) /\ On(b, j) /\ On(c, k) /\ On(d, l)
  BY <1>2
<1>6. \A x, y \in {i, j, k, l} : x - y <= 2 BY <1>3, <1>5
<1>7. i \in {j, k, l} \/ j \in {k, l} \/ k = l BY <1>6
<1> QED BY <1>4, <1>5, <1>7

\* At one checkpoint one horse is given the place, with one confidence.
LEMMA OneIsPlaced ==
  ASSUME NEW field, NEW v \in PlacesAt(field), NEW w \in PlacesAt(field), v[2] = w[2], v[2] \in Exclusive
  PROVE  v = w
<1> DEFINE leader == WindowLeader(field)
           others == {r \in field : r.entry # leader.entry /\ UsableLateral(r)}
           inner == {r \in others : Apart(r.side, 0) <= Metres(5) \div 4 /\ r.gap > Metres(3) \div 4}
           pocket == {r \in inner : r = FirstBy(inner) /\ r.gap <= Metres(8)}
           outer == {r \in others : Apart(r.side, 0) \in Metres(3) \div 2 .. Metres(21) \div 4}
           near == {r \in outer : r.gap <= Metres(11) \div 2}
           death == {r \in near : r = FirstBy(near)}
           chain == {r \in outer \ death :
                       \A d \in death : /\ OnSide(r) = OnSide(d)
                                        /\ Apart(Apart(r.side, 0), Apart(d.side, 0)) <= Metres(3) \div 2
                                        /\ r.gap > d.gap}
           next(before, rest) == {r \in rest : /\ r = FirstBy(rest)
                                               /\ \A b \in before : r.gap - b.gap <= Metres(8)}
           second == IF death = {} THEN {} ELSE next(death, chain)
           third == IF second = {} THEN {} ELSE next(second, chain \ second)
           placed == {leader} \cup pocket \cup death \cup second \cup third
           back == {r \in field \ placed : UsableLongitudinal(r) /\ (r.rank >= 4 \/ r.gap > Metres(8))}
<1>1. /\ \A r, q \in pocket : r = q
      /\ \A r, q \in death : r = q
      /\ \A r, q \in second : r = q
      /\ \A r, q \in third : r = q
  <2>1. \A before, rest : \A r, q \in next(before, rest) : r = q OBVIOUS
  <2>2. (\A r, q \in pocket : r = q) /\ (\A r, q \in death : r = q) OBVIOUS
  <2> HIDE DEF death, chain, next
  <2>3. \A r, q \in second : r = q BY <2>1
  <2> DEFINE rest == chain \ second
  <2>4. third = IF second = {} THEN {} ELSE next(second, rest) OBVIOUS
  <2> HIDE DEF second, rest, third
  <2>5. \A r, q \in third : r = q BY <2>1, <2>4
  <2> QED BY <2>2, <2>3, <2>5
<1>2. PlacesAt(field) = {<<leader.entry, "leader", BaseConfidence(leader)>>}
            \cup {<<r.entry, "pocket", LateralConfidence(r)>> : r \in pocket}
            \cup {<<r.entry, "death_seat", LateralConfidence(r)>> : r \in death}
            \cup {<<r.entry, "second_over", LateralConfidence(r)>> : r \in second}
            \cup {<<r.entry, "third_over", LateralConfidence(r)>> : r \in third}
            \cup {<<r.entry, "back", BaseConfidence(r)>> : r \in back}
  BY Zenon DEF PlacesAt
<1> HIDE DEF leader, pocket, death, second, third, back
<1>3. \A x \in PlacesAt(field) :
        \/ x[2] = "leader" /\ x = <<leader.entry, "leader", BaseConfidence(leader)>>
        \/ x[2] = "pocket" /\ \E r \in pocket : x = <<r.entry, "pocket", LateralConfidence(r)>>
        \/ x[2] = "death_seat" /\ \E r \in death : x = <<r.entry, "death_seat", LateralConfidence(r)>>
        \/ x[2] = "second_over" /\ \E r \in second : x = <<r.entry, "second_over", LateralConfidence(r)>>
        \/ x[2] = "third_over" /\ \E r \in third : x = <<r.entry, "third_over", LateralConfidence(r)>>
        \/ x[2] = "back"
  BY <1>2
<1>4. v[2] # "back" BY DEF Exclusive
<1> QED BY <1>1, <1>3, <1>4

\* A vote comes from a checkpoint of the window, and for an exclusive place there is
\* no other vote of it there.
LEMMA VotesAre ==
  ASSUME NEW rows, NEW n, NEW v \in VotesFor(rows, n)
  PROVE  /\ v.checkpoint \in DOMAIN rows /\ InWindow(rows[v.checkpoint])
         /\ \E p \in PlacesAt(rows[v.checkpoint]) :
              /\ p[1] = n
              /\ v = [place |-> p[2], confidence |-> p[3], checkpoint |-> v.checkpoint,
                      distance |-> WindowLeader(rows[v.checkpoint]).distance]
BY DEF VotesFor

LEMMA VotesDiffer ==
  ASSUME NEW rows, NEW n, NEW m, NEW v \in VotesFor(rows, n), NEW w \in VotesFor(rows, m),
         v.place = w.place, v.place \in Exclusive, v.checkpoint = w.checkpoint
  PROVE  n = m /\ v = w
<1>1. PICK p \in PlacesAt(rows[v.checkpoint]) :
        /\ p[1] = n
        /\ v = [place |-> p[2], confidence |-> p[3], checkpoint |-> v.checkpoint,
                distance |-> WindowLeader(rows[v.checkpoint]).distance]
  BY VotesAre
<1>2. PICK q \in PlacesAt(rows[w.checkpoint]) :
        /\ q[1] = m
        /\ w = [place |-> q[2], confidence |-> q[3], checkpoint |-> w.checkpoint,
                distance |-> WindowLeader(rows[w.checkpoint]).distance]
  BY VotesAre
<1>3. v.place = p[2] /\ w.place = q[2] BY <1>1, <1>2
<1>4. p = q BY <1>3, OneIsPlaced
<1> QED BY <1>1, <1>2, <1>4

LEMMA TwoOf ==
  ASSUME NEW S, Cardinality(S) >= 2
  PROVE  \E x, y \in S : x # y
<1>1. SUFFICES ASSUME \A x, y \in S : x = y PROVE FALSE OBVIOUS
<1>2. CASE S = {} BY <1>2, FS_EmptySet
<1>3. CASE S # {}
  <2>1. PICK x \in S : TRUE BY <1>3
  <2>2. S = {x} BY <1>1, <2>1
  <2>3. Cardinality({x}) = 1 BY FS_Singleton
  <2> QED BY <2>2, <2>3
<1> QED BY <1>2, <1>3

\* A place that is given by more than one vote has two votes of its own.
LEMMA PlacedByTwo ==
  ASSUME NEW votes, TripOf(votes) # Absent, TripOf(votes).votes # 1
  PROVE  \E v, w \in votes : v # w /\ v.place = TripOf(votes).place /\ w.place = TripOf(votes).place
<1> DEFINE places == {p \in Favoured(votes) : Selected(votes, p)}
           place == CHOOSE p \in places : TRUE
<1>1. places # {} /\ TripOf(votes).place = place /\ TripOf(votes).votes = Cardinality(votes) BY DEF TripOf
<1>2. Selected(votes, place) BY <1>1
<1> HIDE DEF place
<1>3. Cardinality(ByPlace(votes, place)) >= 2 BY <1>1, <1>2 DEF Selected
<1>4. PICK v \in ByPlace(votes, place), w \in ByPlace(votes, place) : v # w BY <1>3, TwoOf
<1> QED BY <1>1, <1>4 DEF ByPlace

\* Of two horses of one race that are given the same exclusive place, one has a
\* single vote (classifyXlabsTripScenarios), whatever the race: a place has one
\* horse at a checkpoint, and the window is too short for four checkpoints.
THEOREM PlacesAreExclusive ==
  ASSUME NEW race, IsField(race), NEW n, NEW m, n # m,
         TripOf(VotesFor(CheckpointRows(race), n)) # Absent,
         TripOf(VotesFor(CheckpointRows(race), m)) # Absent,
         TripOf(VotesFor(CheckpointRows(race), n)).place = TripOf(VotesFor(CheckpointRows(race), m)).place,
         TripOf(VotesFor(CheckpointRows(race), n)).place \in Exclusive
  PROVE  1 \in {TripOf(VotesFor(CheckpointRows(race), n)).votes, TripOf(VotesFor(CheckpointRows(race), m)).votes}
<1> DEFINE rows == CheckpointRows(race)
           mine == VotesFor(rows, n)
           theirs == VotesFor(rows, m)
           place == TripOf(mine).place
<1>1. SUFFICES ASSUME TripOf(mine).votes # 1, TripOf(theirs).votes # 1 PROVE FALSE OBVIOUS
<1>2. PICK a \in mine, b \in mine : a # b /\ a.place = place /\ b.place = place
  <2> HIDE DEF mine
  <2> QED BY <1>1, PlacedByTwo DEF mine
<1>3. PICK c \in theirs, d \in theirs : c # d /\ c.place = place /\ d.place = place
  <2>1. place = TripOf(theirs).place OBVIOUS
  <2> HIDE DEF theirs, place
  <2> QED BY <1>1, <2>1, PlacedByTwo DEF theirs
<1>4. place \in Exclusive OBVIOUS
<1> HIDE DEF place, rows
<1>5. \A x \in mine \cup theirs : InView(race, x.checkpoint) BY VotesAre DEF InView, rows
<1>6. a.checkpoint # b.checkpoint /\ c.checkpoint # d.checkpoint BY <1>2, <1>3, <1>4, VotesDiffer
<1>7. \A x \in mine, y \in theirs : x.place = place /\ y.place = place => x.checkpoint # y.checkpoint
  BY <1>4, VotesDiffer
<1>8. {a.checkpoint, b.checkpoint} \cap {c.checkpoint, d.checkpoint} = {} BY <1>2, <1>3, <1>7
<1>9. \A x \in {a, b, c, d} : InView(race, x.checkpoint) BY <1>2, <1>3, <1>5
<1> QED BY <1>6, <1>8, <1>9, ThreeInView

VotesOfRace(q) ==
    q.of = "telemetry" =>
        \E first, second \in [1 .. 3 -> Stances] :
            q.votes = [n \in 1 .. 3 |-> VotesFor(CheckpointRows(RaceOf(first, second)), n)]

WellAskedVotes == VotesOfRace(question)

LEMMA AskedVotes == QuestionSpec => []WellAskedVotes
<1>1. question = NoQuestion => WellAskedVotes BY DEF WellAskedVotes, VotesOfRace, NoQuestion
<1>2. WellAskedVotes /\ [question = NoQuestion /\ Ask]_question => WellAskedVotes'
  <2>1. SUFFICES ASSUME WellAskedVotes, question = NoQuestion, Ask PROVE WellAskedVotes'
    BY DEF WellAskedVotes
  <2>2. CASE AskTelemetry
    <3>1. PICK first \in [1 .. 3 -> Stances], second \in [1 .. 3 -> Stances] :
            \E rows \in {CheckpointRows(RaceOf(first, second))} :
               question' = [of |-> "telemetry", rows |-> rows, votes |-> [n \in 1 .. 3 |-> VotesFor(rows, n)]]
      BY <2>2 DEF AskTelemetry
    <3>2. question'.votes = [n \in 1 .. 3 |-> VotesFor(CheckpointRows(RaceOf(first, second)), n)] BY <3>1
    <3> QED BY <3>2 DEF WellAskedVotes, VotesOfRace
  <2>3. CASE ~ AskTelemetry
    <3>1. question'.of # "telemetry" BY <2>1, <2>3, AskedKinds
    <3> QED BY <3>1 DEF WellAskedVotes, VotesOfRace
  <2> QED BY <2>2, <2>3
<1> QED BY <1>1, <1>2, PTL DEF QuestionSpec

\* In a race that is asked for, two horses are given one exclusive place only when
\* one of them has a single vote, however the horses pass.
THEOREM PlacedByVotes == QuestionSpec => []ExclusiveByVotes
<1>1. WellAskedVotes => ExclusiveByVotes
  <2>1. SUFFICES ASSUME WellAskedVotes, question.of = "telemetry",
                        NEW n \in 1 .. 3, NEW m \in 1 .. 3, n # m,
                        TripOf(question.votes[n]) # Absent, TripOf(question.votes[m]) # Absent,
                        TripOf(question.votes[n]).place = TripOf(question.votes[m]).place,
                        TripOf(question.votes[n]).place \in Exclusive
                 PROVE  1 \in {TripOf(question.votes[n]).votes, TripOf(question.votes[m]).votes}
    <3> HIDE DEF WellAskedVotes
    <3> QED BY DEF ExclusiveByVotes
  <2>2. PICK first \in [1 .. 3 -> Stances], second \in [1 .. 3 -> Stances] :
          question.votes = [k \in 1 .. 3 |-> VotesFor(CheckpointRows(RaceOf(first, second)), k)]
    BY <2>1 DEF WellAskedVotes, VotesOfRace
  <2> DEFINE race == RaceOf(first, second)
  <2>3. IsField(race)
    <3>1. IsRace(race) BY RaceIsAsked
    <3>2. race.active = 1 .. 3 BY DEF RaceOf
    <3>3. 1 \in Int /\ 3 \in Int OBVIOUS
    <3>4. IsFiniteSet(1 .. 3) BY ONLY <3>3, FS_Interval
    <3> QED BY <3>1, <3>2, <3>4 DEF IsField, AreNumbers
  <2> HIDE DEF race
  <2>4. question.votes[n] = VotesFor(CheckpointRows(race), n) /\ question.votes[m] = VotesFor(CheckpointRows(race), m)
    BY <2>2 DEF race
  <2> QED BY <2>1, <2>3, <2>4, PlacesAreExclusive
<1> QED BY <1>1, AskedVotes, PTL

(***************************************************************************)
(* No hindsight.  What a book tells of an instant is what was in it at that    *)
(* instant.  Of its starts a result that was not there yet is taken away; all  *)
(* that is asked of such a start is who ran where and when.                    *)
(***************************************************************************)
Lasting == {"entry", "race", "horse", "scratched", "day", "at", "actual", "distance"}

Twin(s, c) == IF s.result = NoValue \/ s.result.seen <= c THEN s ELSE [s EXCEPT !.result = NoValue]

\* A book: starts with ids of their own, on days, and rows stored no earlier than they
\* were made.
IsBook(book) ==
    /\ IsFiniteSet(book.starts)
    /\ \A s \in book.starts : /\ Lasting \cup {"result"} \subseteq DOMAIN s
                              /\ s.day \in Int /\ (s.at = NoValue \/ s.at \in Int)
                              /\ s.entry \in Int /\ NumberOf(s) \in Int
    /\ \A s, q \in book.starts : s.entry = q.entry => s = q
    /\ \A r \in book.telemetry \cup book.snapshots :
           r.observed \in Int /\ r.seen \in Int /\ r.observed <= r.seen

LEMMA TwinLasts ==
  ASSUME NEW book, IsBook(book), NEW c, NEW s \in book.starts
  PROVE  LET t == Twin(s, c)
         IN  /\ t.entry = s.entry /\ t.race = s.race /\ t.horse = s.horse /\ t.scratched = s.scratched
             /\ t.day = s.day /\ t.at = s.at /\ t.actual = s.actual /\ t.distance = s.distance
<1>1. Lasting \cup {"result"} \subseteq DOMAIN s BY DEF IsBook
<1>2. CASE s.result = NoValue \/ s.result.seen <= c BY <1>2 DEF Twin
<1>3. CASE ~ (s.result = NoValue \/ s.result.seen <= c)
  <2>1. Twin(s, c) = [s EXCEPT !.result = NoValue] BY <1>3 DEF Twin
  <2>2. \A f \in Lasting : [s EXCEPT !.result = NoValue][f] = s[f] BY <1>1 DEF Lasting
  <2>3. \A f \in Lasting : Twin(s, c)[f] = s[f] BY <2>1, <2>2
  <2> QED BY <2>3 DEF Lasting
<1> QED BY <1>2, <1>3

\* A result that was seen by then is in both books, and no other one is in the earlier.
LEMMA TwinOfKnown ==
  ASSUME NEW book, IsBook(book), NEW c, NEW s \in book.starts
  PROVE  /\ s.result # NoValue /\ s.result.seen <= c => Twin(s, c) = s
         /\ Twin(s, c).result # NoValue => Twin(s, c) = s /\ s.result.seen <= c
<1>1. CASE s.result = NoValue \/ s.result.seen <= c
  <2>1. Twin(s, c) = s BY <1>1 DEF Twin
  <2> QED BY <1>1, <2>1
<1>2. CASE ~ (s.result = NoValue \/ s.result.seen <= c)
  <2>1. Twin(s, c) = [s EXCEPT !.result = NoValue] BY <1>2 DEF Twin
  <2>2. "result" \in DOMAIN s BY DEF IsBook
  <2>3. Twin(s, c).result = NoValue BY <2>1, <2>2
  <2> QED BY <1>2, <2>3
<1> QED BY <1>1, <1>2

LEMMA StartsAsKnown ==
  ASSUME NEW book, NEW c
  PROVE  AsKnown(book, c).starts = {Twin(s, c) : s \in book.starts}
BY DEF AsKnown, Twin

\* The starts whose result was seen by then are the same in both books.
LEMMA SeenStarts ==
  ASSUME NEW book, IsBook(book), NEW c, NEW s
  PROVE  /\ s \in AsKnown(book, c).starts /\ s.result # NoValue
            <=> s \in book.starts /\ s.result # NoValue /\ s.result.seen <= c
         /\ s \in AsKnown(book, c).starts /\ OfficialBy(s, c) <=> s \in book.starts /\ OfficialBy(s, c)
<1>1. s \in AsKnown(book, c).starts <=> \E q \in book.starts : s = Twin(q, c) BY StartsAsKnown
<1>2. ASSUME s \in AsKnown(book, c).starts, s.result # NoValue
      PROVE  s \in book.starts /\ s.result.seen <= c
  BY <1>1, <1>2, TwinOfKnown
<1>3. ASSUME s \in book.starts, s.result # NoValue, s.result.seen <= c
      PROVE  s \in AsKnown(book, c).starts
  <2>1. s = Twin(s, c) BY <1>3, TwinOfKnown
  <2> QED BY <1>1, <1>3, <2>1
<1> QED BY <1>2, <1>3 DEF OfficialBy

\* As many starts, whatever is asked of what lasts of them.
LEMMA SameNumber ==
  ASSUME NEW book, IsBook(book), NEW c, NEW those \in SUBSET book.starts
  PROVE  Cardinality({Twin(s, c) : s \in those}) = Cardinality(those)
<1> DEFINE T == {Twin(s, c) : s \in those}
           f == [s \in those |-> Twin(s, c)]
<1>1. \A s, q \in those : Twin(s, c) = Twin(q, c) => s = q
  <2>1. SUFFICES ASSUME NEW s \in those, NEW q \in those, Twin(s, c) = Twin(q, c) PROVE s = q OBVIOUS
  <2>2. s.entry = q.entry BY <2>1, TwinLasts
  <2> QED BY <2>2 DEF IsBook
<1>2. IsFiniteSet(those) BY FS_Subset DEF IsBook
<1>3. f \in [those -> T] /\ (\A s, q \in those : f[s] = f[q] => s = q) /\ \A t \in T : \E s \in those : f[s] = t
  BY <1>1
<1> HIDE DEF f
<1>4. f \in Bijection(those, T)
  <2>1. f \in Injection(those, T) BY <1>3 DEF Injection, IsInjective
  <2>2. f \in Surjection(those, T) BY <1>3 DEF Surjection
  <2> QED BY <2>1, <2>2 DEF Bijection
<1> HIDE DEF T
<1>5. Cardinality(those) = Cardinality(T) BY <1>2, <1>4, FS_Bijection DEF ExistsBijection
<1> QED BY <1>5 DEF T

(***************************************************************************)
(* Observations.                                                             *)
(***************************************************************************)
KeptRows(rows, c) == {r \in rows : r.observed <= c /\ r.seen <= c}

LEMMA KnownAsKnown ==
  ASSUME NEW rows, NEW of, NEW c
  PROVE  /\ Known(KeptRows(rows, c), of, c) = Known(rows, of, c)
         /\ NewestOf(KeptRows(rows, c), of, c) = NewestOf(rows, of, c)
<1>1. Known(KeptRows(rows, c), of, c) = Known(rows, of, c) BY DEF Known, KnownObserved, KeptRows
<1> QED BY <1>1 DEF NewestOf

LEMMA BookAsKnown ==
  ASSUME NEW book, NEW c
  PROVE  LET then == AsKnown(book, c)
         IN  /\ then.equipment = KeptRows(book.equipment, c) /\ then.telemetry = KeptRows(book.telemetry, c)
             /\ then.propositions = KeptRows(book.propositions, c) /\ then.points = KeptRows(book.points, c)
             /\ then.intervals = KeptRows(book.intervals, c) /\ then.trajectories = KeptRows(book.trajectories, c)
             /\ then.snapshots = KeptRows(book.snapshots, c)
BY DEF AsKnown, KeptRows

LEMMA ObservationsAsKnown ==
  ASSUME NEW book, NEW c, NEW s
  PROVE  /\ EquipmentOf(AsKnown(book, c), s, c) = EquipmentOf(book, s, c)
         /\ TelemetryOf(AsKnown(book, c), s, c) = TelemetryOf(book, s, c)
         /\ PropositionOf(AsKnown(book, c), s, c) = PropositionOf(book, s, c)
BY BookAsKnown, KnownAsKnown DEF EquipmentOf, TelemetryOf, PropositionOf

LEMMA SnapshotAsKnown ==
  ASSUME NEW book, NEW c, NEW of
  PROVE  Snapshot(AsKnown(book, c), of, c) = Snapshot(book, of, c)
<1>1. Known(AsKnown(book, c).snapshots, of, c) = Known(book.snapshots, of, c) BY BookAsKnown, KnownAsKnown
<1> QED BY <1>1 DEF Snapshot

(***************************************************************************)
(* The history of a start.                                                   *)
(***************************************************************************)
LEMMA SafeAsKnown ==
  ASSUME NEW book, IsBook(book), NEW c, NEW target
  PROVE  Safe(AsKnown(book, c), target, c) = Safe(book, target, c)
<1>1. \A s : s \in AsKnown(book, c).starts /\ OfficialBy(s, c) <=> s \in book.starts /\ OfficialBy(s, c)
  BY SeenStarts
<1> QED BY <1>1 DEF Safe

LEMMA ReasonsAsKnown ==
  ASSUME NEW book, NEW c, NEW target, NEW rows, NEW s
  PROVE  Reasons(AsKnown(book, c), target, c, rows, s) = Reasons(book, target, c, rows, s)
BY ObservationsAsKnown DEF Reasons

LEMMA AggregatesAsKnown ==
  ASSUME NEW book, NEW c, NEW rows
  PROVE  Aggregates(AsKnown(book, c), rows, c) = Aggregates(book, rows, c)
<1>1. {s \in rows : TelemetryOf(AsKnown(book, c), s, c) # NoValue} = {s \in rows : TelemetryOf(book, s, c) # NoValue}
  BY ObservationsAsKnown
<1>2. {s \in rows : EquipmentOf(AsKnown(book, c), s, c) # NoValue} = {s \in rows : EquipmentOf(book, s, c) # NoValue}
  BY ObservationsAsKnown
<1> QED BY <1>1, <1>2 DEF Aggregates

LEMMA HistoryAsKnown ==
  ASSUME NEW book, IsBook(book), NEW target, NEW asOf
  PROVE  LET c == CutoffOf(target, asOf)
         IN  History(AsKnown(book, c), target, asOf) = History(book, target, asOf)
<1> DEFINE c == CutoffOf(target, asOf)
           then == AsKnown(book, c)
           starts == Safe(book, target, c)
           reasons(b) == [s \in starts |-> Reasons(b, target, c, starts, s)]
           Row(b, s) == [start |-> s, reasons |-> reasons(b)[s], rest |-> RestOf(starts, s),
                         equipment |-> EquipmentOf(b, s, c),
                         telemetry |-> TelemetryOf(b, s, c),
                         proposition |-> PropositionOf(b, s, c)]
<1>1. Safe(then, target, c) = starts BY SafeAsKnown
<1>2. reasons(then) = reasons(book) BY ReasonsAsKnown
<1>3. \A s : /\ EquipmentOf(then, s, c) = EquipmentOf(book, s, c)
             /\ TelemetryOf(then, s, c) = TelemetryOf(book, s, c)
             /\ PropositionOf(then, s, c) = PropositionOf(book, s, c)
  BY ObservationsAsKnown
<1>4. Aggregates(then, starts, c) = Aggregates(book, starts, c) BY AggregatesAsKnown
<1>5. \A s : Row(then, s) = Row(book, s) BY <1>2, <1>3
<1> HIDE DEF then, c, starts, Row, reasons
<1>6. /\ {Row(then, s) : s \in starts} = {Row(book, s) : s \in starts}
      /\ {Row(then, s) : s \in Shown(reasons(then))} = {Row(book, s) : s \in Shown(reasons(book))}
  BY <1>2, <1>5
<1>7. \A b : Safe(b, target, c) = starts =>
        History(b, target, asOf) =
          [cutoff |-> c, equipment |-> EquipmentOf(b, target, c), proposition |-> PropositionOf(b, target, c),
           rest |-> TargetRest(starts, c), aggregates |-> Aggregates(b, starts, c),
           rows |-> {Row(b, s) : s \in starts}, shown |-> {Row(b, s) : s \in Shown(reasons(b))}]
  BY DEF History, c, Row, reasons
<1> QED BY <1>1, <1>3, <1>4, <1>6, <1>7 DEF starts, then, c

(***************************************************************************)
(* Features.                                                                 *)
(***************************************************************************)
LEMMA FiguresAsKnown ==
  ASSUME NEW book, NEW c, NEW who
  PROVE  /\ Annual(AsKnown(book, c), who, c) = Annual(book, who, c)
         /\ Life(AsKnown(book, c), who, c) = Life(book, who, c)
BY SnapshotAsKnown DEF Annual, Life

LEMMA PointsAsKnown ==
  ASSUME NEW book, NEW c, NEW horse
  PROVE  StartPoints(AsKnown(book, c), horse, c) = StartPoints(book, horse, c)
BY FiguresAsKnown DEF StartPoints

LEMMA CoverageAsKnown ==
  ASSUME NEW book, IsBook(book), NEW c, NEW horse
  PROVE  OfficialCoverage(AsKnown(book, c), horse, c) = OfficialCoverage(book, horse, c)
<1>1. {s \in AsKnown(book, c).starts : s.horse = horse /\ OfficialBy(s, c)}
        = {s \in book.starts : s.horse = horse /\ OfficialBy(s, c)}
  BY SeenStarts
<1> QED BY <1>1, FiguresAsKnown DEF OfficialCoverage

\* Of the starts of a race the twins run in it, too.
LEMMA OpponentsAsKnown ==
  ASSUME NEW book, IsBook(book), NEW c, NEW target
  PROVE  /\ Opponents(AsKnown(book, c), target) = {Twin(s, c) : s \in Opponents(book, target)}
         /\ Opponents(book, target) \in SUBSET book.starts
BY StartsAsKnown, TwinLasts DEF Opponents

LEMMA ClassAsKnown ==
  ASSUME NEW book, IsBook(book), NEW target, NEW h
  PROVE  ClassContext(AsKnown(book, h.cutoff), target, h) = ClassContext(book, target, h)
<1> DEFINE c == h.cutoff
           then == AsKnown(book, c)
           against(b) == Opponents(b, target)
           points(b) == {<<s.entry, StartPoints(b, s.horse, c)>> : s \in against(b)}
<1>1. against(then) = {Twin(s, c) : s \in against(book)} /\ against(book) \in SUBSET book.starts
  BY OpponentsAsKnown
<1>2. Cardinality(against(then)) = Cardinality(against(book)) BY <1>1, SameNumber
<1>3. \A s \in against(book) : Twin(s, c).entry = s.entry /\ Twin(s, c).horse = s.horse BY <1>1, TwinLasts
<1>4. \A horse : StartPoints(then, horse, c) = StartPoints(book, horse, c) BY PointsAsKnown
<1>5. points(then) = points(book)
  <2>1. points(then) = {<<s.entry, StartPoints(book, s.horse, c)>> : s \in against(then)} BY <1>4
  <2> HIDE DEF against
  <2> QED BY <1>1, <1>3, <2>1
<1>6. {p \in points(then) : p[2] # NoValue} = {p \in points(book) : p[2] # NoValue} BY <1>5
<1> HIDE DEF then, c, points
<1> QED BY <1>2, <1>4, <1>6 DEF ClassContext, points, c, then

LEMMA PerformanceAsKnown ==
  ASSUME NEW book, IsBook(book), NEW target, NEW h
  PROVE  Performance(AsKnown(book, h.cutoff), target, h) = Performance(book, target, h)
<1>1. Capacity(AsKnown(book, h.cutoff), target, h) = Capacity(book, target, h)
  BY SnapshotAsKnown, PointsAsKnown, FiguresAsKnown DEF Capacity
<1> QED BY <1>1, ClassAsKnown DEF Performance

LEMMA TrainerStartsAsKnown ==
  ASSUME NEW book, IsBook(book), NEW c, NEW target
  PROVE  TrainerStarts(AsKnown(book, c), target, c) = TrainerStarts(book, target, c)
<1>1. {s \in AsKnown(book, c).starts : Same(target.trainer, s.trainer) /\ EventOf(s) < c /\ OfficialBy(s, c)}
        = {s \in book.starts : Same(target.trainer, s.trainer) /\ EventOf(s) < c /\ OfficialBy(s, c)}
  BY SeenStarts
<1> QED BY <1>1 DEF TrainerStarts

LEMMA ResponseAsKnown ==
  ASSUME NEW book, IsBook(book), NEW target, NEW h
  PROVE  EquipmentResponse(AsKnown(book, h.cutoff), target, h) = EquipmentResponse(book, target, h)
<1> DEFINE c == h.cutoff
           then == AsKnown(book, c)
           change == ChangeOf(h.equipment)
           usable(b) == {r \in b.equipment : Equipped(r.value) # NoValue}
           others(b) == {s \in TrainerStarts(b, target, c) :
                           /\ s.horse # target.horse
                           /\ Same(change, ChangeOf(NewestOf(usable(b), s.entry, c)))}
<1>1. usable(then) = KeptRows(usable(book), c) BY BookAsKnown DEF KeptRows
<1>2. \A of : NewestOf(usable(then), of, c) = NewestOf(usable(book), of, c) BY <1>1, KnownAsKnown
<1>3. TrainerStarts(then, target, c) = TrainerStarts(book, target, c) BY TrainerStartsAsKnown
<1>4. others(then) = others(book) BY <1>2, <1>3
<1> HIDE DEF others
<1>5. \A b : EquipmentResponse(b, target, h) =
          LET latest == Equipped(h.equipment)
              known == {r \in h.rows : Equipped(r.equipment) # NoValue}
              same == {r \in known : latest # NoValue /\ r.equipment.state = latest.state}
              changed == {r \in known : Same(change, ChangeOf(r.equipment))}
          IN  [now |-> latest,
               same |-> Summary3(Starts(same), same),
               changed |-> Summary3(Starts(changed), changed),
               baseline |-> Summary3(Starts(h.rows \ changed), {}),
               top3 |-> OwnPrior(UpTo(Starts(same), 3), UpTo(Starts(h.rows), 3)),
               wins |-> OwnPrior(UpTo(Starts(same), 1), UpTo(Starts(h.rows), 1)),
               gallops |-> OwnPrior(Values(Starts(same), "gallop"), Values(Starts(h.rows), "gallop")),
               trainer |-> [top3 |-> ContextMetric(UpTo(others(b), 3), Cardinality(others(b))),
                            gallops |-> ContextMetric(Values(others(b), "gallop"), Cardinality(others(b)))]]
  BY DEF EquipmentResponse, others
<1> QED BY <1>4, <1>5

LEMMA PersonsAsKnown ==
  ASSUME NEW book, IsBook(book), NEW target, NEW h
  PROVE  PersonContext(AsKnown(book, h.cutoff), target, h) = PersonContext(book, target, h)
<1> DEFINE c == h.cutoff
           then == AsKnown(book, c)
<1>1. ASSUME NEW role, NEW who PROVE PersonStarts(then, role, who, c) = PersonStarts(book, role, who, c)
  <2>1. {s \in then.starts : Same(who, s[role]) /\ OfficialBy(s, c)}
          = {s \in book.starts : Same(who, s[role]) /\ OfficialBy(s, c)}
    BY SeenStarts
  <2> QED BY <2>1 DEF PersonStarts
<1>2. \A role : Person(then, target, role, c) = Person(book, target, role, c)
  BY <1>1, FiguresAsKnown DEF Person
<1> QED BY <1>2 DEF PersonContext

LEMMA EventsLast ==
  ASSUME NEW book, IsBook(book), NEW c, NEW s \in book.starts
  PROVE  EventOf(Twin(s, c)) = EventOf(s) /\ TargetEvent(Twin(s, c)) = TargetEvent(s)
BY TwinLasts DEF EventOf, TargetEvent

LEMMA PointsDynamicsAsKnown ==
  ASSUME NEW book, IsBook(book), NEW c, NEW target
  PROVE  PointsDynamics(AsKnown(book, c), target, {target} \cup Opponents(AsKnown(book, c), target), c)
           = PointsDynamics(book, target, {target} \cup Opponents(book, target), c)
<1> DEFINE then == AsKnown(book, c)
           rows(horse) == Known(book.points, horse, c)
           latest(horse) == NewestOf(rows(horse), horse, c)
           different == {r \in rows(target.horse) : r.value # latest(target.horse)}
           Ahead2(s) == latest(s.horse) # NoValue /\ latest(s.horse) > latest(target.horse)
           above(b) == {s \in {target} \cup Opponents(b, target) : Ahead2(s)}
           those == {s \in Opponents(book, target) : Ahead2(s)}
           twins == {Twin(s, c) : s \in those}
<1>1. \A horse : Known(then.points, horse, c) = rows(horse) BY BookAsKnown, KnownAsKnown
<1>2. /\ Opponents(then, target) = {Twin(s, c) : s \in Opponents(book, target)}
      /\ Opponents(book, target) \in SUBSET book.starts
  BY OpponentsAsKnown
<1>3. \A s \in Opponents(book, target) : /\ Twin(s, c).horse = s.horse /\ Twin(s, c).entry = s.entry
                                         /\ s.entry # target.entry
  BY <1>2, TwinLasts DEF Opponents
<1> HIDE DEF rows, latest, then
<1>4. {s \in Opponents(then, target) : Ahead2(s)} = twins BY <1>2, <1>3
<1>5. Cardinality(twins) = Cardinality(those) BY <1>2, SameNumber
<1>6. IsFiniteSet(those) /\ IsFiniteSet(twins)
  <2>1. IsFiniteSet(those) BY <1>2, FS_Subset DEF IsBook
  <2> DEFINE f == [s \in those |-> Twin(s, c)]
  <2>2. f \in Surjection(those, twins) BY DEF Surjection
  <2> HIDE DEF f, twins, those
  <2>3. IsFiniteSet(twins) BY <2>1, <2>2, FS_Surjection
  <2> QED BY <2>1, <2>3
<1>7. target \notin those /\ target \notin twins BY <1>3
<1> HIDE DEF Ahead2
<1>8. Cardinality(above(then)) = Cardinality(above(book))
  <2>1. CASE Ahead2(target)
    <3>1. above(then) = twins \cup {target} /\ above(book) = those \cup {target} BY <1>4, <2>1
    <3> HIDE DEF above, twins, those
    <3>2. Cardinality(twins \cup {target}) = Cardinality(twins) + 1 BY <1>6, <1>7, FS_AddElement
    <3>3. Cardinality(those \cup {target}) = Cardinality(those) + 1 BY <1>6, <1>7, FS_AddElement
    <3> QED BY <1>5, <3>1, <3>2, <3>3
  <2>2. CASE ~ Ahead2(target)
    <3>1. above(then) = twins /\ above(book) = those BY <1>4, <2>2
    <3> QED BY <1>5, <3>1
  <2> QED BY <2>1, <2>2
<1> HIDE DEF above
<1>9. ASSUME NEW b, \A horse : Known(b.points, horse, c) = rows(horse)
      PROVE  PointsDynamics(b, target, {target} \cup Opponents(b, target), c) =
               [now |-> latest(target.horse), previous |-> NewestOf(different, target.horse, c),
                observations |-> Cardinality(rows(target.horse)),
                above |-> IF latest(target.horse) = NoValue THEN NoValue ELSE Cardinality(above(b))]
  <2> DEFINE N(s) == NewestOf(Known(b.points, s.horse, c), s.horse, c)
             field == {target} \cup Opponents(b, target)
  <2>1. \A s : N(s) = latest(s.horse) BY <1>9 DEF latest
  <2>2. {r \in Known(b.points, target.horse, c) : r.value # N(target)} = different BY <1>9, <2>1
  <2>3. {s \in field : N(s) # NoValue /\ N(s) > N(target)} = above(b) BY <2>1 DEF above, Ahead2
  <2>4. Known(b.points, target.horse, c) = rows(target.horse) BY <1>9
  <2>5. PointsDynamics(b, target, field, c) =
          [now |-> N(target),
           previous |-> NewestOf({r \in Known(b.points, target.horse, c) : r.value # N(target)}, target.horse, c),
           observations |-> Cardinality(Known(b.points, target.horse, c)),
           above |-> IF N(target) = NoValue THEN NoValue
                     ELSE Cardinality({s \in field : N(s) # NoValue /\ N(s) > N(target)})]
    BY DEF PointsDynamics
  <2> HIDE DEF N, different
  <2> QED BY <2>1, <2>2, <2>3, <2>4, <2>5
<1> QED BY <1>1, <1>8, <1>9 DEF rows, then

LEMMA PositionsAsKnown ==
  ASSUME NEW book, IsBook(book), NEW c, NEW target
  PROVE  PositionEvidence(AsKnown(book, c), target, c) = PositionEvidence(book, target, c)
<1> DEFINE then == AsKnown(book, c)
           past(b) == {s \in b.starts : s.horse = target.horse /\ EventOf(s) < c}
           found(of) == NewestOf(book.trajectories, of, c)
<1>1. \A of : NewestOf(then.trajectories, of, c) = found(of) BY BookAsKnown, KnownAsKnown
<1>2. \A s \in book.starts : /\ Twin(s, c).horse = s.horse /\ Twin(s, c).entry = s.entry
                             /\ EventOf(Twin(s, c)) = EventOf(s)
  BY TwinLasts, EventsLast
<1>3. past(then) = {Twin(s, c) : s \in past(book)} /\ past(book) \subseteq book.starts BY <1>2, StartsAsKnown
<1> HIDE DEF found, past, then
<1>4. {<<s.entry, found(s.entry)>> : s \in past(then)} = {<<s.entry, found(s.entry)>> : s \in past(book)}
  BY <1>2, <1>3
<1>5. \A b : (\A of : NewestOf(b.trajectories, of, c) = found(of)) =>
        PositionEvidence(b, target, c) = {v \in {<<s.entry, found(s.entry)>> : s \in past(b)} : v[2] # NoValue}
  BY DEF PositionEvidence, past
<1>6. \A of : NewestOf(book.trajectories, of, c) = found(of) BY DEF found
<1> QED BY <1>1, <1>4, <1>5, <1>6 DEF then

LEMMA FeaturesAsKnown ==
  ASSUME NEW book, IsBook(book), NEW target, NEW asOf
  PROVE  FeaturesOf(AsKnown(book, CutoffOf(target, asOf)), target, asOf) = FeaturesOf(book, target, asOf)
<1> DEFINE h == History(book, target, asOf)
           c == CutoffOf(target, asOf)
           then == AsKnown(book, c)
<1>1. h.cutoff = c BY DEF History
<1>2. History(then, target, asOf) = h BY HistoryAsKnown
<1> HIDE DEF h
<1>3. /\ OfficialCoverage(then, target.horse, c) = OfficialCoverage(book, target.horse, c)
      /\ Performance(then, target, h) = Performance(book, target, h)
      /\ EquipmentResponse(then, target, h) = EquipmentResponse(book, target, h)
      /\ PersonContext(then, target, h) = PersonContext(book, target, h)
  BY <1>1, CoverageAsKnown, PerformanceAsKnown, ResponseAsKnown, PersonsAsKnown
<1>4. Candidates(then, target, {target} \cup Opponents(then, target), c)
        = Candidates(book, target, {target} \cup Opponents(book, target), c)
  BY PointsDynamicsAsKnown, PositionsAsKnown, ObservationsAsKnown DEF Candidates
<1> HIDE DEF then, c
<1> QED BY <1>1, <1>2, <1>3, <1>4 DEF FeaturesOf, h, then, c

(***************************************************************************)
(* Populations.                                                              *)
(***************************************************************************)
LEMMA RunnersAsKnown ==
  ASSUME NEW book, IsBook(book), NEW c, NEW s
  PROVE  /\ Runners(AsKnown(book, c), s) = {Twin(q, c) : q \in Runners(book, s)}
         /\ Runners(book, s) \in SUBSET book.starts
         /\ Cardinality(Runners(AsKnown(book, c), s)) = Cardinality(Runners(book, s))
<1>1. /\ Runners(AsKnown(book, c), s) = {Twin(q, c) : q \in Runners(book, s)}
      /\ Runners(book, s) \in SUBSET book.starts
  BY StartsAsKnown, TwinLasts DEF Runners
<1> QED BY <1>1, SameNumber

LEMMA ContextAsKnown ==
  ASSUME NEW book, IsBook(book), NEW c
  PROVE  \A s : /\ ContextOf(AsKnown(book, c), s) = ContextOf(book, s)
                /\ \A context, level : Matches(AsKnown(book, c), s, context, level) = Matches(book, s, context, level)
<1>1. \A s : Field(AsKnown(book, c), s) = Field(book, s) BY RunnersAsKnown DEF Field, Runners
<1>2. \A s : ContextOf(AsKnown(book, c), s) = ContextOf(book, s) BY <1>1 DEF ContextOf
<1> QED BY <1>2 DEF Matches

LEMMA DaysAsKnown ==
  ASSUME NEW book, IsBook(book), NEW c
  PROVE  /\ EarlierDays(AsKnown(book, c), c) = EarlierDays(book, c)
         /\ Quarters(AsKnown(book, c), c) = Quarters(book, c)
         /\ Years(AsKnown(book, c), c) = Years(book, c)
<1>1. EarlierDays(AsKnown(book, c), c) = EarlierDays(book, c) BY StartsAsKnown, TwinLasts DEF EarlierDays
<1> QED BY <1>1 DEF Quarters, Years

LEMMA PriorStartsAsKnown ==
  ASSUME NEW book, IsBook(book), NEW c, NEW race
  PROVE  PriorStarts(AsKnown(book, c), race, c) = PriorStarts(book, race, c)
BY SeenStarts DEF PriorStarts

LEMMA TalliesAsKnown ==
  ASSUME NEW book, IsBook(book), NEW c, NEW target
  PROVE  LevelTallies(AsKnown(book, c), target, c) = LevelTallies(book, target, c)
<1> DEFINE then == AsKnown(book, c)
           Like(b, level) == {s \in PriorStarts(b, target.race, c) : Matches(b, s, ContextOf(b, target), level)}
           Shards(b, level) == [q \in Quarters(b, c) |-> Tally({s \in Like(b, level) : QuarterOf(s.day) = q})]
<1>1. \A level : Like(then, level) = Like(book, level)
  <2>1. PriorStarts(then, target.race, c) = PriorStarts(book, target.race, c) BY PriorStartsAsKnown
  <2>2. ContextOf(then, target) = ContextOf(book, target) BY ContextAsKnown
  <2>3. \A s, level : Matches(then, s, ContextOf(book, target), level) = Matches(book, s, ContextOf(book, target), level)
    BY ContextAsKnown
  <2> HIDE DEF then
  <2> QED BY <2>1, <2>2, <2>3
<1>2. Quarters(then, c) = Quarters(book, c) BY DaysAsKnown
<1> HIDE DEF Like, then
<1>3. \A level : Shards(then, level) = Shards(book, level) BY <1>1, <1>2
<1> HIDE DEF Shards
<1>4. \A b : LevelTallies(b, target, c) = [level \in {Levels[i] : i \in DOMAIN Levels} |-> Merged(Shards(b, level))]
  BY DEF LevelTallies, Shards, Like
<1> QED BY <1>3, <1>4 DEF then

LEMMA PriorsAsKnown ==
  ASSUME NEW book, IsBook(book), NEW target, NEW asOf
  PROVE  RacePriors(AsKnown(book, CutoffOf(target, asOf)), target, asOf) = RacePriors(book, target, asOf)
<1> DEFINE c == CutoffOf(target, asOf)
           then == AsKnown(book, c)
           hierarchy == Hierarchy(ContextOf(book, target))
           tallies(b) == [i \in DOMAIN hierarchy |-> LevelTallies(b, target, c)[hierarchy[i]]]
           terms(b, s) == Signature(PropositionOf(b, s, c))
           narrow(b) == {s \in PriorStarts(b, target.race, c) :
                            Matches(b, s, ContextOf(b, target), Head(hierarchy))}
           alike(b) == {s \in narrow(b) : /\ target.type = NoValue \/ s.type = target.type
                                          /\ terms(b, target) = NoValue \/ terms(b, s) = terms(b, target)}
<1>1. ContextOf(then, target) = ContextOf(book, target) BY ContextAsKnown
<1>2. tallies(then) = tallies(book) BY TalliesAsKnown
<1>3. narrow(then) = narrow(book) BY PriorStartsAsKnown, ContextAsKnown
<1>4. \A s : terms(then, s) = terms(book, s) BY ObservationsAsKnown
<1> HIDE DEF terms, narrow, then
<1>5. alike(then) = alike(book) BY <1>3, <1>4
<1> HIDE DEF tallies, alike, c, hierarchy
<1>6. ASSUME NEW b, Hierarchy(ContextOf(b, target)) = hierarchy
      PROVE  RacePriors(b, target, asOf) =
        [outcome |-> RatePriors(Head(tallies(b)), Tail(tallies(b))),
         context |-> IF target.type = NoValue /\ terms(b, target) = NoValue THEN NoValue
                     ELSE RatePriors(Tally(alike(b)), tallies(b)),
         position |-> [key \in {"lane", "tier", "handicap"} |->
                         IF target[key] = NoValue THEN NoValue
                         ELSE RatePriors(Tally({s \in narrow(b) : s[key] = target[key]}), tallies(b))],
         shape |-> ShapePrior(tallies(b))]
  BY <1>6 DEF RacePriors, tallies, alike, narrow, terms, c
<1> QED BY <1>1, <1>2, <1>3, <1>4, <1>5, <1>6 DEF hierarchy, then, c

LEMMA MeasuresAsKnown ==
  ASSUME NEW book, IsBook(book), NEW c
  PROVE  /\ \A s : /\ Measure(AsKnown(book, c), s, c) = Measure(book, s, c)
                   /\ Dimensions(AsKnown(book, c), s) = Dimensions(book, s)
         /\ MeasuredStarts(AsKnown(book, c), c) = MeasuredStarts(book, c)
<1>1. \A s : NewestOf(AsKnown(book, c).intervals, s.entry, c) = NewestOf(book.intervals, s.entry, c)
  BY BookAsKnown, KnownAsKnown
<1>2. \A s : Measure(AsKnown(book, c), s, c) = Measure(book, s, c) BY <1>1, ObservationsAsKnown DEF Measure
<1>3. \A s : Dimensions(AsKnown(book, c), s) = Dimensions(book, s) BY ContextAsKnown DEF Dimensions
<1>4. MeasuredStarts(AsKnown(book, c), c) = MeasuredStarts(book, c) BY SeenStarts DEF MeasuredStarts
<1> QED BY <1>2, <1>3, <1>4

LEMMA PopulationAsKnown ==
  ASSUME NEW book, IsBook(book), NEW c
  PROVE  MergedPopulation(AsKnown(book, c), c) = MergedPopulation(book, c)
<1> DEFINE then == AsKnown(book, c)
           In(b, starts, d) == {s \in starts : d \in Dimensions(b, s)}
           Known1(b, starts, d, m) == {s \in In(b, starts, d) : Measure(b, s, c)[m] # NoValue}
           Buckets(b, starts) == UNION {Dimensions(b, s) : s \in starts}
           Sums(b, starts, d, m) == Total([s \in Known1(b, starts, d, m) |-> Measure(b, s, c)[m]])
           Of(b, year) == {s \in MeasuredStarts(b, c) : YearOf(s.day * DayLength) = year}
<1>1. \A starts : Population(then, starts, c) = Population(book, starts, c)
  <2>1. SUFFICES ASSUME NEW starts PROVE Population(then, starts, c) = Population(book, starts, c) OBVIOUS
  <2> HIDE DEF then
  <2>2. \A s : Measure(then, s, c) = Measure(book, s, c) /\ Dimensions(then, s) = Dimensions(book, s)
    BY MeasuresAsKnown DEF then
  <2>3. Buckets(then, starts) = Buckets(book, starts) BY <2>2
  <2>4. \A d : In(then, starts, d) = In(book, starts, d) BY <2>2
  <2> HIDE DEF In
  <2>5. \A d, m : Known1(then, starts, d, m) = Known1(book, starts, d, m) BY <2>2, <2>4
  <2> HIDE DEF Known1
  <2>6. \A d, m : Sums(then, starts, d, m) = Sums(book, starts, d, m) BY <2>2, <2>5
  <2> HIDE DEF Sums, Buckets
  <2>7. \A b : Population(b, starts, c) =
          [d \in Buckets(b, starts) |->
              [eligible |-> Cardinality(In(b, starts, d)),
               measured |-> [m \in Measures |-> Cardinality(Known1(b, starts, d, m))],
               sum |-> [m \in Measures |-> Sums(b, starts, d, m)]]]
    BY DEF Population, Buckets, In, Known1, Sums
  <2> QED BY <2>3, <2>4, <2>5, <2>6, <2>7
<1>2. Years(then, c) = Years(book, c) BY DaysAsKnown
<1>3. \A year : Of(then, year) = Of(book, year) BY MeasuresAsKnown
<1> HIDE DEF then, Of
<1>4. [y \in Years(then, c) |-> Population(then, Of(then, y), c)]
        = [y \in Years(book, c) |-> Population(book, Of(book, y), c)]
  BY <1>1, <1>2, <1>3
<1>5. \A b : MergedPopulation(b, c) = AddedUp([y \in Years(b, c) |-> Population(b, Of(b, y), c)])
  BY DEF MergedPopulation, Of
<1> QED BY <1>4, <1>5 DEF then

LEMMA ProfileAsKnown ==
  ASSUME NEW book, IsBook(book), NEW c, NEW target, NEW population, NEW measure
  PROVE  Profile(AsKnown(book, c), target, population, measure, c) = Profile(book, target, population, measure, c)
<1> DEFINE then == AsKnown(book, c)
           Value(b, s) == Measure(b, s, c)[measure]
           past(b) == {s \in MeasuredStarts(b, c) : s.horse = target.horse}
           measured(b) == {s \in past(b) : Value(b, s) # NoValue}
           context == ContextOf(book, target)
           relevant(b) == {s \in measured(b) :
                              /\ context.method # NoValue \/ context.distance # NoValue
                              /\ \A part \in {"method", "distance"} : \/ context[part] = NoValue
                                                                      \/ ContextOf(b, s)[part] = context[part]}
           direct(b) == IF relevant(b) # {} THEN relevant(b) ELSE measured(b)
           values(b) == {<<s.entry, Value(b, s)>> : s \in direct(b)}
           around == BucketOf(population, <<"method_distance", <<context.method, context.distance>>>>)
           global == BucketOf(population, <<"overall", 0>>)
           Level(name, b) == [level |-> name, effective |-> b.measured[measure],
                              value |-> IF b.measured[measure] = 0 THEN NoValue
                                        ELSE <<b.sum[measure], b.measured[measure]>>]
           Later(q, s) == TargetEvent(q) > TargetEvent(s) \/ (TargetEvent(q) = TargetEvent(s) /\ q.entry > s.entry)
           recent(b) == {s \in past(b) : Cardinality({q \in past(b) : Later(q, s)}) < ProfileRows}
<1>1. ContextOf(then, target) = context BY ContextAsKnown
<1>2. \A s : Value(then, s) = Value(book, s) BY MeasuresAsKnown
<1>3. past(then) = past(book) BY MeasuresAsKnown
<1>4. \A s : ContextOf(then, s) = ContextOf(book, s) BY ContextAsKnown
<1> HIDE DEF then, Value, past, context
<1>5. measured(then) = measured(book) BY <1>2, <1>3
<1> HIDE DEF measured
<1>6. relevant(then) = relevant(book) BY <1>4, <1>5
<1> HIDE DEF relevant
<1>7. direct(then) = direct(book) BY <1>5, <1>6
<1> HIDE DEF direct
<1>8. values(then) = values(book) BY <1>2, <1>7
<1>9. recent(then) = recent(book) BY <1>3
<1> HIDE DEF values, recent, around, global, Level
<1>10. ASSUME NEW b, ContextOf(b, target) = context
       PROVE  Profile(b, target, population, measure, c) =
         [estimate |-> Backoff(IfAny(values(b)), Cardinality(direct(b)),
                               <<Level("method_distance", around), Level("global", global)>>),
          level |-> EvidenceLevel(Cardinality(measured(b)), Cardinality(relevant(b)), around.measured[measure]),
          completed |-> Cardinality(past(b)), measured |-> Cardinality(measured(b)),
          recent |-> Cardinality(recent(b) \cap measured(b))]
  BY <1>10 DEF Profile, values, direct, relevant, measured, past, Value, recent, around, global, Level
<1> QED BY <1>1, <1>3, <1>5, <1>6, <1>7, <1>8, <1>9, <1>10 DEF then, context

LEMMA EvidenceAsKnown ==
  ASSUME NEW book, IsBook(book), NEW target, NEW asOf
  PROVE  Evidence(AsKnown(book, CutoffOf(target, asOf)), target, asOf) = Evidence(book, target, asOf)
<1> DEFINE c == CutoffOf(target, asOf)
           then == AsKnown(book, c)
<1>1. MergedPopulation(then, c) = MergedPopulation(book, c) BY PopulationAsKnown
<1>2. \A population, m : Profile(then, target, population, m, c) = Profile(book, target, population, m, c)
  BY ProfileAsKnown
<1>3. Dimensions(then, target) = Dimensions(book, target) BY MeasuresAsKnown
<1> HIDE DEF then, c
<1> QED BY <1>1, <1>2, <1>3 DEF Evidence, then, c

\* The newest starts are starts, when their days, numbers and ids are numbers.
LEMMA NewestAreStarts ==
  ASSUME NEW starts, IsFiniteSet(starts), NEW n \in Nat,
         \A s \in starts : s.day \in Int /\ NumberOf(s) \in Int /\ s.entry \in Int,
         \A s, q \in starts : s.entry = q.entry => s = q
  PROVE  \A i \in DOMAIN NewestFirst(starts, n) : NewestFirst(starts, n)[i] \in starts
<1> DEFINE R == {p \in starts \X starts : RunAfter(p[1], p[2])}
           size == Cardinality(starts)
           After(s) == {q \in starts : RunAfter(q, s)}
           newest == NewestFirst(starts, n)
<1>1. StrictOrder(starts, R)
  <2>1. \A s \in starts : ~ RunAfter(s, s) BY DEF RunAfter
  <2>2. \A s, q \in starts : s = q \/ RunAfter(s, q) \/ RunAfter(q, s) BY DEF RunAfter
  <2>3. \A s, q, u \in starts : RunAfter(s, q) /\ RunAfter(q, u) => RunAfter(s, u) BY DEF RunAfter
  <2> QED BY <2>1, <2>2, <2>3 DEF StrictOrder
<1>2. \A s \in starts : {q \in starts : <<q, s>> \in R} = After(s) OBVIOUS
<1> HIDE DEF R
<1>3. \A k \in 1 .. size : \E s \in starts : Cardinality({q \in starts : <<q, s>> \in R}) = k - 1
  BY <1>1, RanksAreTaken
<1>4. \A k \in 1 .. size : \E s \in starts : Cardinality(After(s)) = k - 1 BY <1>2, <1>3
<1>5. \A s \in starts : Cardinality(After(s)) \in Nat BY FS_Subset, FS_CardinalityType
<1> HIDE DEF After
<1>6. \A k \in 1 .. size : \E s \in starts : 1 + Cardinality(After(s)) = k BY <1>4, <1>5
<1>7. size \in Nat BY FS_CardinalityType
<1>8. DOMAIN newest = 1 .. Min({n, size})
      /\ \A i \in DOMAIN newest : newest[i] = CHOOSE s \in starts : 1 + Cardinality(After(s)) = i
  BY DEF NewestFirst, After
<1> HIDE DEF newest
<1>9. Min({n, size}) \in Int /\ Min({n, size}) <= size
  <2>1. \E x \in {n, size} : \A y \in {n, size} : x <= y BY <1>7
  <2>2. Min({n, size}) \in {n, size} /\ \A y \in {n, size} : Min({n, size}) <= y BY <2>1 DEF Min
  <2> QED BY <1>7, <2>2
<1>10. \A i \in DOMAIN newest : i \in 1 .. size BY <1>7, <1>8, <1>9
<1> QED BY <1>6, <1>8, <1>10 DEF newest

(***************************************************************************)
(* Forms.                                                                    *)
(***************************************************************************)
LEMMA LifeAsKnown ==
  ASSUME NEW book, IsBook(book), NEW c \in Int, NEW e \in Int, e <= c, NEW who
  PROVE  Life(AsKnown(book, c), who, e) = Life(book, who, e)
<1>1. \A r \in book.snapshots : r.observed \in Int /\ r.seen \in Int BY DEF IsBook
<1>2. AsKnown(book, c).snapshots = KeptRows(book.snapshots, c) BY BookAsKnown
<1>3. \A of : Known(AsKnown(book, c).snapshots, of, e) = Known(book.snapshots, of, e)
  <2>1. SUFFICES ASSUME NEW of PROVE Known(KeptRows(book.snapshots, c), of, e) = Known(book.snapshots, of, e)
    BY <1>2
  <2>2. \A r \in book.snapshots : r.observed <= e /\ r.seen <= e => r.observed <= c /\ r.seen <= c BY <1>1
  <2> QED BY <2>2 DEF Known, KnownObserved, KeptRows
<1>4. ASSUME NEW of PROVE Snapshot(AsKnown(book, c), of, e) = Snapshot(book, of, e)
  <2>1. Known(AsKnown(book, c).snapshots, of, e) = Known(book.snapshots, of, e) BY <1>3
  <2> QED BY <2>1 DEF Snapshot
<1> QED BY <1>4 DEF Life

\* What started before an instant was over by it.
LEMMA StartedIsOver ==
  ASSUME NEW book, IsBook(book), NEW c \in Int, NEW s \in book.starts, StartedBefore(s, c)
  PROVE  EventOf(s) \in Int /\ EventOf(s) <= c
<1>1. s.day \in Int /\ (s.at = NoValue \/ s.at \in Int) BY DEF IsBook
<1>2. CASE s.at # NoValue BY <1>1, <1>2 DEF EventOf, StartedBefore
<1>3. CASE s.at = NoValue
  <2> DEFINE q == c \div DayLength
  <2>1. DayLength \in Nat /\ DayLength > 0 BY HistoryAssumption
  <2>2. q \in Int /\ q * DayLength <= c BY <2>1
  <2>3. s.day < q BY <1>3 DEF StartedBefore
  <2>4. EventOf(s) = (s.day + 1) * DayLength - 1 BY <1>3 DEF EventOf
  <2> HIDE DEF q
  <2>5. (s.day + 1) * DayLength <= q * DayLength
    <3>1. q - (s.day + 1) \in Nat BY <1>1, <2>2, <2>3
    <3>2. (q - (s.day + 1)) * DayLength >= 0 BY <2>1, <3>1
    <3>3. (q - (s.day + 1)) * DayLength = q * DayLength - (s.day + 1) * DayLength BY <1>1, <2>1, <2>2
    <3>4. q * DayLength \in Int /\ (s.day + 1) * DayLength \in Int BY <1>1, <2>1, <2>2
    <3> QED BY <3>2, <3>3, <3>4
  <2>6. q * DayLength \in Int /\ (s.day + 1) * DayLength \in Int BY <1>1, <2>1, <2>2
  <2> QED BY <2>2, <2>4, <2>5, <2>6
<1> QED BY <1>2, <1>3

LEMMA StoredAsKnown ==
  ASSUME NEW book, IsBook(book), NEW c \in Int, NEW s \in book.starts
  PROVE  StoredTelemetry(AsKnown(book, c), Twin(s, c), c) = StoredTelemetry(book, s, c)
<1> DEFINE stored(b, of) == {r \in b.telemetry : r.of = of /\ r.seen <= c /\ r.value # NoValue}
<1>1. Twin(s, c).entry = s.entry BY TwinLasts
<1>2. \A r \in book.telemetry : r.observed \in Int /\ r.seen \in Int /\ r.observed <= r.seen BY DEF IsBook
<1>3. \A r \in book.telemetry : r.seen <= c => r.observed <= c BY <1>2
<1>4. stored(AsKnown(book, c), s.entry) = stored(book, s.entry) BY <1>3, BookAsKnown DEF KeptRows
<1> HIDE DEF stored
<1> DEFINE Last(those) == {r \in those : ~ \E t \in those : t.seen > r.seen \/ (t.seen = r.seen /\ t.id > r.id)}
<1>5. \A b, q : StoredTelemetry(b, q, c) = Last(stored(b, q.entry)) BY DEF StoredTelemetry, stored
<1> HIDE DEF Last
<1> QED BY <1>1, <1>4, <1>5

LEMMA FieldMeasuresAsKnown ==
  ASSUME NEW book, IsBook(book), NEW c \in Int, NEW field \in SUBSET book.starts, NEW measure
  PROVE  MeasuresOf(AsKnown(book, c), {Twin(s, c) : s \in field}, c, measure) = MeasuresOf(book, field, c, measure)
<1> DEFINE then == AsKnown(book, c)
           M(b, s) == {<<s.entry, r.value[measure]>> :
                          r \in {x \in StoredTelemetry(b, s, c) : measure \in DOMAIN x.value}}
           twins == {Twin(s, c) : s \in field}
<1>1. \A s \in field : M(then, Twin(s, c)) = M(book, s)
  <2>1. SUFFICES ASSUME NEW s \in field PROVE M(then, Twin(s, c)) = M(book, s) OBVIOUS
  <2>2. StoredTelemetry(then, Twin(s, c), c) = StoredTelemetry(book, s, c) BY StoredAsKnown
  <2>3. Twin(s, c).entry = s.entry BY TwinLasts
  <2> HIDE DEF then
  <2> QED BY <2>2, <2>3
<1>2. \A b, those : MeasuresOf(b, those, c, measure) = UNION {M(b, s) : s \in those} BY DEF MeasuresOf
<1> HIDE DEF M, then
<1>3. {M(then, t) : t \in twins} = {M(book, s) : s \in field} BY <1>1
<1> QED BY <1>2, <1>3 DEF then

LEMMA ExtraAsKnown ==
  ASSUME NEW book, IsBook(book), NEW c \in Int, NEW field \in SUBSET book.starts
  PROVE  ExtraShares(AsKnown(book, c), {Twin(s, c) : s \in field}, c) = ExtraShares(book, field, c)
<1> DEFINE then == AsKnown(book, c)
           Extra(b, s) == IF MeasuresOf(b, {s}, c, "extra") = {} THEN {<<s.entry, 0>>}
                          ELSE MeasuresOf(b, {s}, c, "extra")
           Share(b, s) == {<<s.entry, (1000 * v[2]) \div DistanceOf(s)>> : v \in Extra(b, s)}
           Long(s) == DistanceOf(s) # NoValue /\ DistanceOf(s) > 0
           twins == {Twin(s, c) : s \in field}
<1>1. \A s \in field : /\ Twin(s, c).entry = s.entry /\ DistanceOf(Twin(s, c)) = DistanceOf(s)
                       /\ Long(Twin(s, c)) = Long(s)
  BY TwinLasts DEF DistanceOf
<1>2. \A s \in field : Extra(then, Twin(s, c)) = Extra(book, s)
  <2>1. SUFFICES ASSUME NEW s \in field PROVE Extra(then, Twin(s, c)) = Extra(book, s) OBVIOUS
  <2>2. {s} \in SUBSET book.starts /\ {Twin(q, c) : q \in {s}} = {Twin(s, c)} OBVIOUS
  <2>3. MeasuresOf(then, {Twin(q, c) : q \in {s}}, c, "extra") = MeasuresOf(book, {s}, c, "extra")
    BY <2>2, FieldMeasuresAsKnown
  <2>4. MeasuresOf(then, {Twin(s, c)}, c, "extra") = MeasuresOf(book, {s}, c, "extra") BY <2>2, <2>3
  <2> HIDE DEF then
  <2> QED BY <1>1, <2>4
<1> HIDE DEF Extra, then
<1>3. \A s \in field : Share(then, Twin(s, c)) = Share(book, s) BY <1>1, <1>2
<1>4. \A b, those : ExtraShares(b, those, c) = UNION {Share(b, s) : s \in {q \in those : Long(q)}}
  BY DEF ExtraShares, Share, Extra, Long
<1> HIDE DEF Share, Long
<1>5. {Share(then, t) : t \in {q \in twins : Long(q)}} = {Share(book, s) : s \in {q \in field : Long(q)}}
  BY <1>1, <1>3
<1> QED BY <1>4, <1>5 DEF then

LEMMA TimesAsKnown ==
  ASSUME NEW book, IsBook(book), NEW c \in Int, NEW field \in SUBSET book.starts
  PROVE  OfficialTimes({Twin(s, c) : s \in field}, c) = OfficialTimes(field, c)
<1>1. c # NoValue BY HistoryAssumption
<1>2. {t \in {Twin(s, c) : s \in field} : SeenResult(t, c)} = {s \in field : SeenResult(s, c)}
  BY <1>1, TwinOfKnown DEF SeenResult
<1> QED BY <1>2 DEF OfficialTimes

LEMMA ChallengeAsKnown ==
  ASSUME NEW book, IsBook(book), NEW c \in Int, NEW s \in book.starts,
         EventOf(s) \in Int, EventOf(s) <= c, NEW of
  PROVE  Challenge(AsKnown(book, c), s, of) = Challenge(book, s, of)
<1> DEFINE then == AsKnown(book, c)
           Won(b, horse) == IF Life(b, <<"horse", horse>>, EventOf(s)) = NoValue THEN NoValue
                            ELSE Life(b, <<"horse", horse>>, EventOf(s))[of]
           others(b) == {<<q.entry, Won(b, q.horse)>> : q \in {x \in Runners(b, s) : x.horse # s.horse}}
<1>1. \A horse : Won(then, horse) = Won(book, horse) BY LifeAsKnown
<1>2. Runners(then, s) = {Twin(q, c) : q \in Runners(book, s)} /\ Runners(book, s) \in SUBSET book.starts
  BY RunnersAsKnown
<1>3. \A q \in Runners(book, s) : Twin(q, c).entry = q.entry /\ Twin(q, c).horse = q.horse BY <1>2, TwinLasts
<1> HIDE DEF Won, then
<1>4. others(then) = others(book) BY <1>1, <1>2, <1>3
<1>5. \A b : Challenge(b, s, of) = ChallengeScore(Median({v \in others(b) : v[2] # NoValue}), Won(b, s.horse))
  BY DEF Challenge, others, Won
<1> HIDE DEF others
<1> QED BY <1>1, <1>4, <1>5 DEF then

LEMMA ScoresAsKnown ==
  ASSUME NEW book, IsBook(book), NEW c \in Int, NEW s \in book.starts, StartedBefore(s, c)
  PROVE  StartScores(AsKnown(book, c), s, c, c) = StartScores(book, s, c, c)
<1> DEFINE then == AsKnown(book, c)
           field(b) == Runners(b, s)
<1>1. EventOf(s) \in Int /\ EventOf(s) <= c BY StartedIsOver
<1>2. /\ field(then) = {Twin(q, c) : q \in field(book)} /\ field(book) \in SUBSET book.starts
      /\ Cardinality(field(then)) = Cardinality(field(book))
  BY RunnersAsKnown
<1>3. \A of : Challenge(then, s, of) = Challenge(book, s, of) BY <1>1, ChallengeAsKnown
<1>4. ExtraShares(then, field(then), c) = ExtraShares(book, field(book), c) BY <1>2, ExtraAsKnown
<1>5. OfficialTimes(field(then), c) = OfficialTimes(field(book), c) BY <1>2, TimesAsKnown
<1>6. MeasuresOf(then, field(then), c, "last400") = MeasuresOf(book, field(book), c, "last400")
  BY <1>2, FieldMeasuresAsKnown
<1> DEFINE Speed(values) == Percentile(s.entry, values, TRUE)
           difficulty(b) == Weighted(<<<<PrizeScore(s.prize), 55>>, <<TierScore(s.tier), 15>>,
                                       <<Challenge(b, s, "points"), 20>>, <<Challenge(b, s, "earnings"), 10>>>>)
           speed(b) == Weighted(<<<<Speed(OfficialTimes(field(b), c)), 50>>,
                                  <<Speed(MeasuresOf(b, field(b), c, "last400")), 50>>>>)
<1>7. difficulty(then) = difficulty(book) BY <1>3
<1>8. speed(then) = speed(book) BY <1>5, <1>6
<1>9. \A b : StartScores(b, s, c, c) =
              [result |-> ResultScore(s, Cardinality(field(b))), difficulty |-> difficulty(b),
               work |-> Percentile(s.entry, ExtraShares(b, field(b), c), FALSE), speed |-> speed(b)]
  BY DEF StartScores
<1> HIDE DEF then, field, difficulty, speed
<1> QED BY <1>2, <1>4, <1>7, <1>8, <1>9 DEF then

LEMMA FormStartsAsKnown ==
  ASSUME NEW book, IsBook(book), NEW c \in Int, NEW f, NEW horse
  PROVE  /\ FormStarts(AsKnown(book, c), f, horse, c) = FormStarts(book, f, horse, c)
         /\ \A s \in FormStarts(book, f, horse, c) : s \in book.starts /\ StartedBefore(s, c)
<1>1. c # NoValue BY HistoryAssumption
<1>2. \A s : /\ s \in AsKnown(book, c).starts /\ s.result # NoValue /\ SeenResult(s, c)
                <=> s \in book.starts /\ s.result # NoValue /\ SeenResult(s, c)
  BY <1>1, SeenStarts DEF SeenResult
<1>3. \A b, s : s \in FormStarts(b, f, horse, c) <=>
                  /\ s \in b.starts /\ s.result # NoValue /\ SeenResult(s, c)
                  /\ ~ s.scratched /\ (Placing(s) # NoValue \/ HasFact(s, "disqualified", TRUE))
                  /\ s.horse = horse /\ InYear(f, s) /\ StartFits(f, "horse", f.year, s) /\ StartedBefore(s, c)
  BY <1>1 DEF FormStarts, FormEligible, Counted
<1>4. \A s : s \in FormStarts(AsKnown(book, c), f, horse, c) <=> s \in FormStarts(book, f, horse, c)
  BY <1>2, <1>3
<1> QED BY <1>3, <1>4 DEF FormStarts

LEMMA FormAsKnown ==
  ASSUME NEW book, IsBook(book), NEW c \in Int, NEW f, NEW horse
  PROVE  HorseForm(AsKnown(book, c), f, horse, c) = HorseForm(book, f, horse, c)
<1> DEFINE then == AsKnown(book, c)
           starts == FormStarts(book, f, horse, c)
           newest == NewestFirst(starts, Len(HorseWeights))
<1>1. c # NoValue BY HistoryAssumption
<1>2. FormStarts(then, f, horse, c) = starts /\ \A s \in starts : s \in book.starts /\ StartedBefore(s, c)
  BY FormStartsAsKnown
<1> HIDE DEF starts, then
<1>3. \A i \in DOMAIN newest : newest[i] \in starts
  <2>1. Len(HorseWeights) \in Nat BY StatisticsAssumption
  <2>2. IsFiniteSet(starts) BY <1>2, FS_Subset DEF IsBook
  <2>3. /\ \A s \in starts : s.day \in Int /\ NumberOf(s) \in Int /\ s.entry \in Int
        /\ \A s, q \in starts : s.entry = q.entry => s = q
    BY <1>2 DEF IsBook
  <2> QED BY <2>1, <2>2, <2>3, NewestAreStarts
<1> HIDE DEF newest
<1>4. \A s \in starts : StartScores(then, s, c, c) = StartScores(book, s, c, c) BY <1>2, ScoresAsKnown DEF then
<1>5. [i \in DOMAIN newest |-> StartScores(then, newest[i], c, c)]
        = [i \in DOMAIN newest |-> StartScores(book, newest[i], c, c)]
  BY <1>3, <1>4
<1>6. ASSUME NEW b, FormStarts(b, f, horse, c) = starts
      PROVE  HorseForm(b, f, horse, c) = HorseIndex([i \in DOMAIN newest |-> StartScores(b, newest[i], c, c)])
  BY <1>1, <1>6 DEF HorseForm, newest
<1> QED BY <1>2, <1>5, <1>6 DEF starts, then

LEMMA LegFormsAsKnown ==
  ASSUME NEW book, IsBook(book), NEW c \in Int, NEW target
  PROVE  LegForms(AsKnown(book, c), Runners(AsKnown(book, c), target), c)
           = LegForms(book, Runners(book, target), c)
<1> DEFINE then == AsKnown(book, c)
           field == Runners(book, target)
           twins == {Twin(s, c) : s \in field}
           FormOf(s) == HorseForm(book, AllFilters(c \div DayLength), s.horse, c)
           Over(those, s) == {q \in those : FormOf(q).score # NoValue /\ FormOf(q).score > FormOf(s).score}
           Row(those, s) == [entry |-> s.entry, score |-> FormOf(s).score, used |-> FormOf(s).used,
                             rank |-> IF FormOf(s).score = NoValue THEN NoValue
                                      ELSE 1 + Cardinality(Over(those, s))]
<1>1. Runners(then, target) = twins /\ field \in SUBSET book.starts BY RunnersAsKnown
<1>2. \A f, horse : HorseForm(then, f, horse, c) = HorseForm(book, f, horse, c) BY FormAsKnown
<1>3. \A s \in field : Twin(s, c).horse = s.horse /\ Twin(s, c).entry = s.entry BY <1>1, TwinLasts
<1>4. \A s \in field : FormOf(Twin(s, c)) = FormOf(s) BY <1>3
<1> HIDE DEF field, then, FormOf
<1>5. \A s \in field : Over(twins, Twin(s, c)) = {Twin(q, c) : q \in Over(field, s)} BY <1>4
<1>6. \A s \in field : Cardinality(Over(twins, Twin(s, c))) = Cardinality(Over(field, s))
  <2>1. SUFFICES ASSUME NEW s \in field PROVE Cardinality(Over(twins, Twin(s, c))) = Cardinality(Over(field, s))
    OBVIOUS
  <2>2. Over(field, s) \in SUBSET book.starts BY <1>1
  <2> HIDE DEF Over
  <2> QED BY <1>5, <2>2, SameNumber
<1> HIDE DEF Over
<1>7. \A s \in field : Row(twins, Twin(s, c)) = Row(field, s) BY <1>3, <1>4, <1>6
<1> HIDE DEF Row
<1>8. {Row(twins, t) : t \in twins} = {Row(field, s) : s \in field} BY <1>7
<1>9. ASSUME NEW b, NEW those, \A s : HorseForm(b, AllFilters(c \div DayLength), s.horse, c) = FormOf(s)
      PROVE  LegForms(b, those, c) = {Row(those, s) : s \in those}
  <2> DEFINE form == [s \in those |-> HorseForm(b, AllFilters(c \div DayLength), s.horse, c)]
             rank(s) == IF form[s].score = NoValue THEN NoValue
                        ELSE 1 + Cardinality({q \in those : form[q].score # NoValue /\ form[q].score > form[s].score})
             row(s) == [entry |-> s.entry, score |-> form[s].score, used |-> form[s].used, rank |-> rank(s)]
  <2>1. \A s \in those : form[s] = FormOf(s) BY <1>9
  <2>2. LegForms(b, those, c) = {row(s) : s \in those} BY DEF LegForms
  <2> HIDE DEF form
  <2>3. \A s \in those : {q \in those : form[q].score # NoValue /\ form[q].score > form[s].score} = Over(those, s)
    BY <2>1 DEF Over
  <2>4. \A s \in those : rank(s) = IF FormOf(s).score = NoValue THEN NoValue ELSE 1 + Cardinality(Over(those, s))
    BY <2>1, <2>3
  <2> HIDE DEF rank
  <2>5. \A s \in those : row(s) = Row(those, s) BY <2>1, <2>4 DEF Row
  <2> HIDE DEF row
  <2> QED BY <2>2, <2>5
<1>10. LegForms(then, twins, c) = {Row(twins, s) : s \in twins} BY <1>2, <1>9 DEF FormOf
<1>11. LegForms(book, field, c) = {Row(field, s) : s \in field} BY <1>9 DEF FormOf
<1> QED BY <1>1, <1>8, <1>10, <1>11 DEF field, then

(***************************************************************************)
(* What was not known yet changes nothing.                                    *)
(***************************************************************************)
\* Whatever a book holds: what was made, stored or decided after the cutoff of a start
\* changes none of its features, priors and evidence, and none of the forms of its race
\* (performance-features-v3.js, race-priors-v1.js, xlabs-evidence-profiles-v1.js,
\* analysis-form-snapshot-v1.js).
THEOREM NothingIsForeseen ==
  ASSUME NEW book, IsBook(book), NEW target, NEW asOf, CutoffOf(target, asOf) \in Int
  PROVE  LET c == CutoffOf(target, asOf)
             then == AsKnown(book, c)
         IN  /\ FeaturesOf(then, target, asOf) = FeaturesOf(book, target, asOf)
             /\ RacePriors(then, target, asOf) = RacePriors(book, target, asOf)
             /\ Evidence(then, target, asOf) = Evidence(book, target, asOf)
             /\ LegForms(then, Runners(then, target), c) = LegForms(book, Runners(book, target), c)
BY FeaturesAsKnown, PriorsAsKnown, EvidenceAsKnown, LegFormsAsKnown

LEMMA StartIs ==
  ASSUME NEW entry, NEW race, NEW horse, NEW day, NEW at, NEW result
  PROVE  LET s == Start(entry, race, horse, day, at, result)
         IN  /\ Lasting \cup {"result"} \subseteq DOMAIN s
             /\ s.entry = entry /\ s.day = day /\ s.at = at /\ s.number = race
BY DEF Start, Lasting

\* The books that are asked about are books.
LEMMA KnowledgeIsBook ==
  ASSUME NEW late, NEW delay \in {0, 1}, NEW seen, NEW hourKnown \in BOOLEAN
  PROVE  /\ TargetEvent(LastStart(hourKnown)) \in Int
         /\ IsBook(KnowledgeBook(late, delay, seen, hourKnown))
<1> DEFINE target == LastStart(hourKnown)
           cutoff == TargetEvent(target)
           book == KnowledgeBook(late, delay, seen, hourKnown)
           s1 == Start(4, 9, 2, LastDay, NoValue, NoValue)
           s2 == Start(1, 1, 1, 0, 1, Ran(2, 1))
           s3 == Start(2, 2, 1, 1, NoValue, Ran(cutoff + seen, 3))
           s4 == Start(5, 2, 2, 1, NoValue, Ran(cutoff + seen, 1))
<1>1. LastDay \in Int /\ DayLength \in Int BY CalculationsAssumption, HistoryAssumption
<1>2. target.day = LastDay /\ (target.at = NoValue \/ target.at \in Int)
      /\ target.entry = 3 /\ target.number = 9 /\ Lasting \cup {"result"} \subseteq DOMAIN target
  BY <1>1, StartIs DEF LastStart
<1>3. cutoff \in Int BY <1>1, <1>2 DEF TargetEvent
<1>4. ASSUME NEW kind
      PROVE  \A r \in Observations(kind, late, cutoff, delay) :
                r.observed \in Int /\ r.seen \in Int /\ r.observed <= r.seen
  BY <1>3 DEF Observations
<1>5. /\ book.starts = {target, s1, s2, s3, s4}
      /\ book.telemetry = Observations("telemetry", late, cutoff, delay)
      /\ book.snapshots = Observations("snapshots", late, cutoff, delay)
  BY DEF KnowledgeBook, RowKinds
<1>6. /\ s1.entry = 4 /\ s2.entry = 1 /\ s3.entry = 2 /\ s4.entry = 5
      /\ s1.number = 9 /\ s2.number = 1 /\ s3.number = 2 /\ s4.number = 2
      /\ s1.day = LastDay /\ s2.day = 0 /\ s3.day = 1 /\ s4.day = 1
      /\ s1.at = NoValue /\ s2.at = 1 /\ s3.at = NoValue /\ s4.at = NoValue
      /\ Lasting \cup {"result"} \subseteq DOMAIN s1 /\ Lasting \cup {"result"} \subseteq DOMAIN s2
      /\ Lasting \cup {"result"} \subseteq DOMAIN s3 /\ Lasting \cup {"result"} \subseteq DOMAIN s4
  BY StartIs
<1> HIDE DEF book, target, cutoff, s1, s2, s3, s4
<1>7. IsFiniteSet(book.starts)
  <2>1. IsFiniteSet({target}) /\ IsFiniteSet({s1}) /\ IsFiniteSet({s2}) /\ IsFiniteSet({s3}) /\ IsFiniteSet({s4})
    BY FS_Singleton
  <2>2. IsFiniteSet({target} \cup {s1}) BY <2>1, FS_Union
  <2>3. IsFiniteSet(({target} \cup {s1}) \cup {s2}) BY <2>1, <2>2, FS_Union
  <2>4. IsFiniteSet((({target} \cup {s1}) \cup {s2}) \cup {s3}) BY <2>1, <2>3, FS_Union
  <2>5. IsFiniteSet(((({target} \cup {s1}) \cup {s2}) \cup {s3}) \cup {s4}) BY <2>1, <2>4, FS_Union
  <2>6. {target, s1, s2, s3, s4} = ((({target} \cup {s1}) \cup {s2}) \cup {s3}) \cup {s4} OBVIOUS
  <2> QED BY <1>5, <2>5, <2>6
<1>8. \A s \in book.starts : /\ Lasting \cup {"result"} \subseteq DOMAIN s
                             /\ s.day \in Int /\ (s.at = NoValue \/ s.at \in Int)
                             /\ s.entry \in Int /\ s.number \in Int
  BY <1>1, <1>2, <1>5, <1>6
<1>9. \A s \in book.starts : NumberOf(s) \in Int BY <1>8 DEF NumberOf
<1>10. \A s, q \in book.starts : s.entry = q.entry => s = q BY <1>2, <1>5, <1>6
<1>11. \A r \in book.telemetry \cup book.snapshots : r.observed \in Int /\ r.seen \in Int /\ r.observed <= r.seen
  BY <1>4, <1>5
<1> QED BY <1>3, <1>7, <1>8, <1>9, <1>10, <1>11 DEF IsBook, book, cutoff, target

\* The book that a question is about.
WellAskedKnowledge ==
    question.of = "knowledge" =>
        IsBook(question.book) /\ CutoffOf(question.target, question.asOf) \in Int

LEMMA AskedKnowledge == QuestionSpec => []WellAskedKnowledge
<1>1. question = NoQuestion => WellAskedKnowledge BY DEF WellAskedKnowledge, NoQuestion
<1>2. WellAskedKnowledge /\ [question = NoQuestion /\ Ask]_question => WellAskedKnowledge'
  <2>1. SUFFICES ASSUME WellAskedKnowledge, question = NoQuestion, Ask PROVE WellAskedKnowledge'
    BY DEF WellAskedKnowledge
  <2>2. CASE AskKnowledge
    <3>1. PICK late \in {{kind} : kind \in RowKinds} \cup {{}, RowKinds}, delay \in {0, 1}, seen \in {-1, 0, 1},
               hourKnown \in BOOLEAN, early \in BOOLEAN :
            question' = [of |-> "knowledge", book |-> KnowledgeBook(late, delay, seen, hourKnown),
                         target |-> LastStart(hourKnown),
                         asOf |-> TargetEvent(LastStart(hourKnown)) + (IF early THEN -1 ELSE 1)]
      BY <2>2 DEF AskKnowledge
    <3> DEFINE event == TargetEvent(LastStart(hourKnown))
               asOf == event + (IF early THEN -1 ELSE 1)
    <3>2. event \in Int /\ IsBook(KnowledgeBook(late, delay, seen, hourKnown)) BY KnowledgeIsBook
    <3>3. CutoffOf(LastStart(hourKnown), asOf) \in Int
      <4>1. asOf \in Int BY <3>2
      <4>2. CutoffOf(LastStart(hourKnown), asOf) = Min({event, asOf}) BY DEF CutoffOf
      <4> HIDE DEF event, asOf
      <4>3. CASE event <= asOf BY <3>2, <4>1, <4>2, <4>3, MinOfTwo
      <4>4. CASE asOf <= event
        <5>1. {event, asOf} = {asOf, event} OBVIOUS
        <5> QED BY <3>2, <4>1, <4>2, <4>4, <5>1, MinOfTwo
      <4> QED BY <3>2, <4>1, <4>3, <4>4
    <3> QED BY <3>1, <3>2, <3>3 DEF WellAskedKnowledge
  <2>3. CASE ~ AskKnowledge
    <3>1. question'.of # "knowledge" BY <2>1, <2>3, AskedKinds
    <3> QED BY <3>1 DEF WellAskedKnowledge
  <2> QED BY <2>2, <2>3
<1> QED BY <1>1, <1>2, PTL DEF QuestionSpec

\* In the books that are asked about, late rows and late results change nothing that is
\* built for a start (relevant-history-v1.js and what is built on it).
THEOREM NothingLateCounts == QuestionSpec => []FutureChangesNothing
<1>1. WellAskedKnowledge => FutureChangesNothing
  <2>1. SUFFICES ASSUME WellAskedKnowledge, question.of = "knowledge" PROVE FutureChangesNothing
    BY DEF FutureChangesNothing
  <2>2. IsBook(question.book) /\ CutoffOf(question.target, question.asOf) \in Int BY <2>1 DEF WellAskedKnowledge
  <2> QED BY <2>2, NothingIsForeseen DEF FutureChangesNothing
<1> QED BY <1>1, AskedKnowledge, PTL

(***************************************************************************)
(* The starts that are shown of a history.                                   *)
(***************************************************************************)
\* What holds of nothing and is handed on holds all the way.
LEMMA Upwards ==
  ASSUME NEW n \in Nat, NEW P, 0 \in P, \A i \in 1 .. n : i - 1 \in P => i \in P
  PROVE  \A i \in 0 .. n : i \in P
<1> DEFINE not == {i \in 0 .. n : i \notin P}
<1>1. SUFFICES ASSUME not # {} PROVE FALSE OBVIOUS
<1>2. AreNumbers(not)
  <2>1. 0 \in Int /\ n \in Int OBVIOUS
  <2>2. IsFiniteSet(0 .. n) BY ONLY <2>1, FS_Interval
  <2>3. not \subseteq 0 .. n OBVIOUS
  <2> HIDE DEF not
  <2>4. IsFiniteSet(not) BY <2>2, <2>3, FS_Subset
  <2> QED BY <2>3, <2>4 DEF AreNumbers
<1> HIDE DEF not
<1>3. PICK m \in not : \A i \in not : m <= i BY <1>1, <1>2, MinIs
<1>4. m \in 0 .. n /\ m \notin P BY <1>3 DEF not
<1>5. m # 0 BY <1>4
<1>6. m \in 1 .. n /\ m - 1 \in 0 .. n BY <1>4, <1>5
<1>7. m - 1 \notin not BY <1>3, <1>6
<1>8. m - 1 \in P BY <1>6, <1>7 DEF not
<1> QED BY <1>4, <1>6, <1>8

LEMMA GrowthExists ==
  ASSUME NEW reasons, NEW pools, Len(pools) \in Nat
  PROVE  \E f : /\ f = [i \in 0 .. Len(pools) |->
                         IF i = 0 THEN NewestRows(DOMAIN reasons, RecentRows)
                         ELSE WithBest(f[i - 1], pools[i], reasons)]
                /\ GrownBy(reasons, pools) = f[Len(pools)]
<1> DEFINE n == Len(pools)
           newest == NewestRows(DOMAIN reasons, RecentRows)
           Step(f, i) == IF i = 0 THEN newest ELSE WithBest(f[i - 1], pools[i], reasons)
           GrownTo(f, m) == f = [i \in 0 .. m |-> Step(f, i)]
           P == {m \in 0 .. n : \E f : GrownTo(f, m)}
<1>1. n \in Nat OBVIOUS
<1>2. 0 \in P
  <2>1. GrownTo([i \in 0 .. 0 |-> newest], 0) OBVIOUS
  <2> HIDE DEF GrownTo
  <2> QED BY <1>1, <2>1
<1>3. ASSUME NEW m \in 1 .. n, m - 1 \in P PROVE m \in P
  <2>1. PICK f : GrownTo(f, m - 1) BY <1>3
  <2> DEFINE g == [i \in 0 .. m |-> IF i = m THEN Step(f, m) ELSE f[i]]
  <2>2. \A i \in 0 .. m : i = m \/ i \in 0 .. m - 1 OBVIOUS
  <2>3. \A i \in 0 .. m - 1 : g[i] = f[i] /\ f[i] = Step(f, i) BY <2>1
  <2>4. \A i \in 1 .. m : i - 1 \in 0 .. m - 1 /\ i # 0 OBVIOUS
  <2>5. \A i \in 1 .. m : Step(g, i) = Step(f, i) BY <2>3, <2>4
  <2>6. Step(g, 0) = Step(f, 0) OBVIOUS
  <2>7. \A i \in 0 .. m : i = 0 \/ i \in 1 .. m OBVIOUS
  <2>8. \A i \in 0 .. m : Step(g, i) = Step(f, i) BY <2>5, <2>6, <2>7
  <2>9. g[m] = Step(f, m) OBVIOUS
  <2>10. g = [i \in 0 .. m |-> g[i]] OBVIOUS
  <2> HIDE DEF g, Step
  <2>11. \A i \in 0 .. m : g[i] = Step(g, i) BY <2>2, <2>3, <2>8, <2>9
  <2>12. GrownTo(g, m) BY <2>10, <2>11
  <2> HIDE DEF GrownTo
  <2> QED BY <2>12
<1> HIDE DEF P
<1>4. n \in P
  <2>1. n \in 0 .. n BY <1>1
  <2> HIDE DEF n
  <2> QED BY <1>1, <1>2, <1>3, <2>1, Upwards
<1> DEFINE shown == CHOOSE f : GrownTo(f, n)
<1>5. GrownTo(shown, n)
  <2>1. \E f : GrownTo(f, n) BY <1>4 DEF P
  <2> HIDE DEF GrownTo
  <2> QED BY <2>1
<1>6. GrownBy(reasons, pools) = shown[n] BY DEF GrownBy
<1> HIDE DEF shown
<1> QED BY <1>5, <1>6

\* Starts in the order of events and then of ids.
Datable(rows) ==
    /\ IsFiniteSet(rows)
    /\ \A s \in rows : EventOf(s) \in Int /\ s.race \in Int /\ s.entry \in Int
    /\ \A s, q \in rows : s.entry = q.entry => s = q

LEMMA NewerIsOrder ==
  ASSUME NEW rows, Datable(rows)
  PROVE  /\ \A a \in rows : ~ Newer(a, a)
         /\ \A a, b \in rows : a = b \/ Newer(a, b) \/ Newer(b, a)
         /\ \A a, b, c \in rows : Newer(a, b) /\ Newer(b, c) => Newer(a, c)
<1>1. \A a \in rows : EventOf(a) \in Int /\ a.race \in Int /\ a.entry \in Int BY DEF Datable
<1>2. \A a, b \in rows : a = b \/ a.entry < b.entry \/ b.entry < a.entry
  <2>1. \A a, b \in rows : a.entry = b.entry \/ a.entry < b.entry \/ b.entry < a.entry BY <1>1
  <2> QED BY <2>1 DEF Datable
<1>3. \A a \in rows : ~ Newer(a, a) BY <1>1 DEF Newer
<1>4. \A a, b \in rows : a = b \/ Newer(a, b) \/ Newer(b, a) BY <1>1, <1>2 DEF Newer
<1>5. \A a, b, c \in rows : Newer(a, b) /\ Newer(b, c) => Newer(a, c) BY <1>1 DEF Newer
<1> QED BY <1>3, <1>4, <1>5

\* The newest are no more than were asked for.
LEMMA NewestAreFew ==
  ASSUME NEW rows, Datable(rows), NEW n \in Nat
  PROVE  /\ NewestRows(rows, n) \subseteq rows
         /\ IsFiniteSet(NewestRows(rows, n))
         /\ Cardinality(NewestRows(rows, n)) <= n
<1> DEFINE R == {p \in rows \X rows : Newer(p[1], p[2])}
           newest == NewestRows(rows, n)
           Rank(s) == Cardinality({q \in rows : Newer(q, s)})
           rank == [s \in newest |-> Rank(s)]
<1>1. \A a, b \in rows : <<a, b>> \in R <=> Newer(a, b) OBVIOUS
<1>2. \A s \in rows : {q \in rows : <<q, s>> \in R} = {q \in rows : Newer(q, s)} BY <1>1
<1> HIDE DEF R
<1>3. IsFiniteSet(rows) BY DEF Datable
<1>4. StrictOrder(rows, R) BY <1>1, NewerIsOrder DEF StrictOrder
<1>5. newest \subseteq rows /\ \A s \in newest : Rank(s) < n BY DEF NewestRows
<1>6. \A s \in rows : Rank(s) \in Nat BY <1>2, <1>3, <1>4, RanksDiffer
<1>7. \A s, q \in rows : Rank(s) = Rank(q) => s = q
  <2>1. \A s, q \in rows : Cardinality({p \in rows : <<p, s>> \in R}) = Cardinality({p \in rows : <<p, q>> \in R}) => s = q
    BY <1>3, <1>4, RanksDiffer
  <2> QED BY <1>2, <2>1
<1>8. IsFiniteSet(newest) BY <1>3, <1>5, FS_Subset
<1> HIDE DEF Rank, newest
<1>9. rank \in Injection(newest, 0 .. n - 1)
  <2>1. rank \in [newest -> 0 .. n - 1] BY <1>5, <1>6
  <2>2. \A s, q \in newest : rank[s] = rank[q] => s = q BY <1>5, <1>7
  <2> HIDE DEF rank
  <2> QED BY <2>1, <2>2 DEF Injection, IsInjective
<1>10. IsFiniteSet(0 .. n - 1) /\ Cardinality(0 .. n - 1) = n
  <2>1. 0 \in Int /\ n - 1 \in Int OBVIOUS
  <2> QED BY <2>1, FS_Interval
<1>11. Cardinality(newest) <= Cardinality(0 .. n - 1) BY <1>9, <1>10, FS_Injection
<1> QED BY <1>5, <1>8, <1>10, <1>11 DEF newest

\* A strict order of finitely many has a first.
LEMMA FirstOfOrder ==
  ASSUME NEW S, NEW R, IsFiniteSet(S), StrictOrder(S, R), S # {}
  PROVE  \E x \in S : ~ \E y \in S : <<y, x>> \in R
<1>1. Cardinality(S) \in Nat /\ Cardinality(S) # 0 BY FS_CardinalityType, FS_EmptySet
<1>2. 1 \in 1 .. Cardinality(S) BY <1>1
<1>3. PICK x \in S : Cardinality({y \in S : <<y, x>> \in R}) = 1 - 1 BY <1>2, RanksAreTaken
<1>4. Cardinality({y \in S : <<y, x>> \in R}) = 0 BY <1>3
<1>5. IsFiniteSet({y \in S : <<y, x>> \in R}) BY FS_Subset
<1>6. {y \in S : <<y, x>> \in R} = {} BY <1>4, <1>5, FS_EmptySet
<1> QED BY <1>6

\* Starts with the reasons they would be shown for.
ReasonNames == {ReasonOrder[i] : i \in DOMAIN ReasonOrder}
Annotated(reasons) ==
    /\ Datable(DOMAIN reasons)
    /\ \A s \in DOMAIN reasons : reasons[s] \subseteq ReasonNames \cup {"recent"}

LEMMA ReasonNamesAre ==
  /\ Len(ReasonOrder) = 9 /\ DOMAIN ReasonOrder = 1 .. 9
  /\ \A i, j \in 1 .. 9 : ReasonOrder[i] = ReasonOrder[j] => i = j
  /\ \A i \in 1 .. 9 : ReasonOrder[i] # "recent"
  /\ IsFiniteSet(ReasonNames)
<1>1. Len(ReasonOrder) = 9 /\ DOMAIN ReasonOrder = 1 .. 9 BY DEF ReasonOrder
<1>2. \A i \in 1 .. 9 : i = 1 \/ i = 2 \/ i = 3 \/ i = 4 \/ i = 5 \/ i = 6 \/ i = 7 \/ i = 8 \/ i = 9 OBVIOUS
<1>3. /\ ReasonOrder[1] = "same_start_method" /\ ReasonOrder[2] = "similar_distance"
      /\ ReasonOrder[3] = "same_track_context" /\ ReasonOrder[4] = "similar_proposition"
      /\ ReasonOrder[5] = "same_equipment" /\ ReasonOrder[6] = "same_driver"
      /\ ReasonOrder[7] = "xlabs_representative" /\ ReasonOrder[8] = "rest_comparable"
      /\ ReasonOrder[9] = "error_pattern"
  BY DEF ReasonOrder
<1>4. \A i, j \in 1 .. 9 : ReasonOrder[i] = ReasonOrder[j] => i = j BY <1>2, <1>3
<1>5. \A i \in 1 .. 9 : ReasonOrder[i] # "recent" BY <1>2, <1>3
<1>6. IsFiniteSet(1 .. 9)
  <2>1. 1 \in Int /\ 9 \in Int OBVIOUS
  <2> QED BY ONLY <2>1, FS_Interval
<1>7. ReasonOrder \in Surjection(1 .. 9, ReasonNames)
  <2>1. ReasonOrder = [i \in 1 .. 9 |-> ReasonOrder[i]] BY <1>1 DEF ReasonOrder
  <2>2. \A i \in 1 .. 9 : ReasonOrder[i] \in ReasonNames BY <1>1 DEF ReasonNames
  <2>3. ReasonOrder \in [1 .. 9 -> ReasonNames] BY <2>1, <2>2
  <2>4. \A r \in ReasonNames : \E i \in 1 .. 9 : ReasonOrder[i] = r BY <1>1 DEF ReasonNames
  <2> QED BY <2>3, <2>4 DEF Surjection
<1>8. IsFiniteSet(ReasonNames) BY <1>6, <1>7, FS_Surjection
<1> QED BY <1>1, <1>4, <1>5, <1>8

\* The best of what is left is one of it.
LEMMA WithBestIs ==
  ASSUME NEW reasons, Annotated(reasons), NEW pool, pool \subseteq DOMAIN reasons, NEW shown
  PROVE  /\ \/ WithBest(shown, pool, reasons) = shown
            \/ /\ ~ Cardinality(shown) >= MaxRows
               /\ \E s \in pool \ shown : WithBest(shown, pool, reasons) = shown \cup {s}
         /\ ~ Cardinality(shown) >= MaxRows /\ pool # {} => \E s \in pool : s \in WithBest(shown, pool, reasons)
<1> DEFINE left == pool \ shown
           Weight(s) == Cardinality(reasons[s])
           Better(a, b) == \/ Weight(a) > Weight(b)
                           \/ Weight(a) = Weight(b) /\ Newer(a, b)
           R == {p \in left \X left : Better(p[1], p[2])}
           best == CHOOSE s \in left : ~ \E q \in left : Better(q, s)
<1>1. CASE Cardinality(shown) >= MaxRows \/ left = {}
  BY <1>1 DEF WithBest
<1>2. CASE ~ (Cardinality(shown) >= MaxRows \/ left = {})
  <2>1. WithBest(shown, pool, reasons) = shown \cup {best} BY <1>2 DEF WithBest
  <2>2. IsFiniteSet(left)
    <3>1. left \subseteq DOMAIN reasons OBVIOUS
    <3> HIDE DEF left
    <3> QED BY <3>1, FS_Subset DEF Annotated, Datable
  <2>3. \A s \in left : Weight(s) \in Nat
    <3>1. SUFFICES ASSUME NEW s \in left PROVE Weight(s) \in Nat OBVIOUS
    <3>2. reasons[s] \subseteq ReasonNames \cup {"recent"} BY DEF Annotated
    <3>3. IsFiniteSet(ReasonNames \cup {"recent"}) BY ReasonNamesAre, FS_Singleton, FS_Union
    <3>4. IsFiniteSet(reasons[s]) BY <3>2, <3>3, FS_Subset
    <3> QED BY <3>4, FS_CardinalityType
  <2> HIDE DEF Weight
  <2>4. left \subseteq DOMAIN reasons OBVIOUS
  <2>5. \A a, b \in left : <<a, b>> \in R <=> Better(a, b) OBVIOUS
  <2> HIDE DEF R
  <2>6. StrictOrder(left, R)
    <3>1. /\ \A a \in left : ~ Newer(a, a)
          /\ \A a, b \in left : a = b \/ Newer(a, b) \/ Newer(b, a)
          /\ \A a, b, c \in left : Newer(a, b) /\ Newer(b, c) => Newer(a, c)
      BY <2>4, NewerIsOrder DEF Annotated
    <3> HIDE DEF left
    <3>2. \A a \in left : ~ Better(a, a) BY <2>3, <3>1
    <3>3. \A a, b \in left : a = b \/ Better(a, b) \/ Better(b, a) BY <2>3, <3>1
    <3>4. \A a, b, c \in left : Better(a, b) /\ Better(b, c) => Better(a, c) BY <2>3, <3>1
    <3> HIDE DEF Better
    <3> QED BY <2>5, <3>2, <3>3, <3>4 DEF StrictOrder
  <2> HIDE DEF Better, left
  <2>7. \E s \in left : ~ \E q \in left : <<q, s>> \in R BY <1>2, <2>2, <2>6, FirstOfOrder
  <2>8. \E s \in left : ~ \E q \in left : Better(q, s) BY <2>5, <2>7
  <2>9. best \in left BY <2>8
  <2> HIDE DEF best
  <2>10. best \in pool \ shown BY <2>9 DEF left
  <2> QED BY <1>2, <2>1, <2>10
<1> QED BY <1>1, <1>2

\* What is shown grows from the newest, and never beyond what fits.
IsGrowth(reasons, pools, f) ==
    /\ Len(pools) \in Nat /\ \A i \in 1 .. Len(pools) : pools[i] \subseteq DOMAIN reasons
    /\ f = [i \in 0 .. Len(pools) |-> IF i = 0 THEN NewestRows(DOMAIN reasons, RecentRows)
                                       ELSE WithBest(f[i - 1], pools[i], reasons)]

LEMMA GrowthIs ==
  ASSUME NEW reasons, Annotated(reasons), NEW pools, NEW f, IsGrowth(reasons, pools, f)
  PROVE  /\ \A i \in 0 .. Len(pools) : /\ f[i] \subseteq DOMAIN reasons /\ IsFiniteSet(f[i])
                                       /\ f[0] \subseteq f[i] /\ Cardinality(f[i]) <= MaxRows
         /\ \A i \in 1 .. Len(pools) : f[i - 1] \subseteq f[i]
         /\ \A i \in 0 .. Len(pools) : f[i] \subseteq f[Len(pools)]
<1> DEFINE n == Len(pools)
           rows == DOMAIN reasons
           Among(S) == S \subseteq rows /\ f[0] \subseteq S /\ Cardinality(S) <= MaxRows
           P == {i \in 0 .. n : Among(f[i])}
<1>1. n \in Nat /\ 0 \in 0 .. n BY DEF IsGrowth
<1>2. RecentRows \in Nat /\ MaxRows \in Nat /\ RecentRows <= MaxRows BY HistoryAssumption
<1>3. IsFiniteSet(rows) BY DEF Annotated, Datable
<1>4. \A i \in 1 .. n : i \in 0 .. n /\ i # 0 /\ i - 1 \in 0 .. n BY <1>1
<1>5. f[0] = NewestRows(rows, RecentRows) BY <1>1 DEF IsGrowth
<1>6. \A i \in 1 .. n : f[i] = WithBest(f[i - 1], pools[i], reasons) BY <1>4 DEF IsGrowth
<1>7. \A i \in 1 .. n : \/ f[i] = f[i - 1]
                        \/ /\ ~ Cardinality(f[i - 1]) >= MaxRows
                           /\ \E s \in rows \ f[i - 1] : f[i] = f[i - 1] \cup {s}
  <2>1. SUFFICES ASSUME NEW i \in 1 .. n
                 PROVE  \/ f[i] = f[i - 1]
                        \/ /\ ~ Cardinality(f[i - 1]) >= MaxRows
                           /\ \E s \in rows \ f[i - 1] : f[i] = f[i - 1] \cup {s}
    OBVIOUS
  <2> DEFINE pool == pools[i]
             shown == f[i - 1]
             grown == f[i]
  <2>2. pool \subseteq DOMAIN reasons BY DEF IsGrowth
  <2>3. grown = WithBest(shown, pool, reasons) BY <1>6
  <2> HIDE DEF pool, shown, grown
  <2>4. grown = shown \/ \E s \in pool \ shown : grown = shown \cup {s}
    BY ONLY <2>2, <2>3, Annotated(reasons), WithBestIs
  <2>5. grown = shown \/ ~ Cardinality(shown) >= MaxRows BY ONLY <2>2, <2>3, Annotated(reasons), WithBestIs
  <2> QED BY <2>2, <2>4, <2>5 DEF shown, grown
<1>8. \A i \in 1 .. n : f[i - 1] \subseteq f[i] BY <1>7
<1>9. Among(f[0])
  <2>1. Cardinality(f[0]) <= RecentRows /\ f[0] \subseteq rows /\ IsFiniteSet(f[0])
    BY <1>2, <1>5, NewestAreFew DEF Annotated
  <2>2. Cardinality(f[0]) \in Nat BY <2>1, FS_CardinalityType
  <2> QED BY <1>2, <2>1, <2>2
<1>10. \A i \in 0 .. n : i \in P
  <2>1. 0 \in P BY <1>1, <1>9
  <2>2. ASSUME NEW i \in 1 .. n, i - 1 \in P PROVE i \in P
    <3>1. Among(f[i - 1]) /\ i \in 0 .. n BY <1>4, <2>2
    <3>2. CASE f[i] = f[i - 1] BY <3>1, <3>2
    <3>3. CASE f[i] # f[i - 1]
      <4>1. PICK s \in rows \ f[i - 1] : f[i] = f[i - 1] \cup {s} BY <1>7, <3>3
      <4>2. ~ Cardinality(f[i - 1]) >= MaxRows BY <1>7, <3>3
      <4>3. IsFiniteSet(f[i - 1]) BY <1>3, <3>1, FS_Subset
      <4>4. Cardinality(f[i - 1] \cup {s}) = Cardinality(f[i - 1]) + 1 /\ Cardinality(f[i - 1]) \in Nat
        BY <4>1, <4>3, FS_AddElement, FS_CardinalityType
      <4>5. Cardinality(f[i]) <= MaxRows BY <1>2, <4>1, <4>2, <4>4
      <4> QED BY <3>1, <4>1, <4>5
    <3> QED BY <3>2, <3>3
  <2> HIDE DEF P, n
  <2> QED BY <1>1, <2>1, <2>2, Upwards
<1>11. \A i \in 0 .. n : f[i] \subseteq rows /\ IsFiniteSet(f[i]) /\ f[0] \subseteq f[i] /\ Cardinality(f[i]) <= MaxRows
  <2>1. \A i \in 0 .. n : Among(f[i]) BY <1>10
  <2> QED BY <1>3, <2>1, FS_Subset
<1>12. ASSUME NEW i \in 0 .. n PROVE f[i] \subseteq f[n]
  <2> DEFINE Q == {k \in 0 .. n : k < i \/ f[i] \subseteq f[k]}
  <2>1. 0 \in Q BY <1>1
  <2>2. \A k \in 1 .. n : k - 1 \in Q => k \in Q
    <3>1. SUFFICES ASSUME NEW k \in 1 .. n, k - 1 \in Q PROVE k \in Q OBVIOUS
    <3>2. CASE k - 1 < i
      <4>1. k < i \/ k = i BY <3>2
      <4> QED BY <1>4, <4>1
    <3>3. CASE f[i] \subseteq f[k - 1] BY <1>4, <1>8, <3>3
    <3> QED BY <3>1, <3>2, <3>3
  <2> HIDE DEF Q
  <2>3. \A k \in 0 .. n : k \in Q BY <1>1, <2>1, <2>2, Upwards
  <2>4. n \in Q /\ ~ n < i BY <1>1, <2>3
  <2> QED BY <2>4 DEF Q
<1> QED BY <1>8, <1>11, <1>12

\* While there is room for each, every reason that a start is shown for is represented.
Wanted(reasons) == (UNION {reasons[s] : s \in DOMAIN reasons}) \ {"recent"}

LEMMA WantedAre ==
  ASSUME NEW reasons, Annotated(reasons)
  PROVE  /\ \A r : r \in Wanted(reasons) <=> r # "recent" /\ \E s \in DOMAIN reasons : r \in reasons[s]
         /\ Wanted(reasons) \subseteq ReasonNames
<1> DEFINE rows == DOMAIN reasons
<1>1. \A r : r \in UNION {reasons[s] : s \in rows} <=> \E s \in rows : r \in reasons[s] OBVIOUS
<1>2. \A r : r \in Wanted(reasons) <=> r # "recent" /\ \E s \in rows : r \in reasons[s] BY <1>1 DEF Wanted
<1>3. \A s \in rows : \A r \in reasons[s] : r \in ReasonNames \/ r = "recent"
  <2>1. \A s \in rows : reasons[s] \subseteq ReasonNames \cup {"recent"} BY DEF Annotated
  <2> HIDE DEF rows
  <2> QED BY ONLY <2>1
<1>4. \A r \in Wanted(reasons) : r \in ReasonNames BY <1>2, <1>3
<1> QED BY <1>2, <1>4

LEMMA RepresentedIn ==
  ASSUME NEW reasons, Annotated(reasons), NEW pools, NEW f, IsGrowth(reasons, pools, f),
         Len(pools) >= 9, \A i \in 1 .. 9 : pools[i] = {s \in DOMAIN reasons : ReasonOrder[i] \in reasons[s]},
         RecentRows + Cardinality(Wanted(reasons)) <= MaxRows, NEW r \in Wanted(reasons)
  PROVE  \E s \in f[Len(pools)] : r \in reasons[s]
<1> DEFINE n == Len(pools)
           rows == DOMAIN reasons
           wanted == Wanted(reasons)
           Done(i) == {q \in wanted : \E k \in 1 .. i : q = ReasonOrder[k]}
           P == {i \in 0 .. 9 : Cardinality(f[i]) <= RecentRows + Cardinality(Done(i))}
<1>1. n \in Nat /\ n >= 9 BY DEF IsGrowth
<1>2. RecentRows \in Nat /\ MaxRows \in Nat BY HistoryAssumption
<1>3. \A i \in 1 .. 9 : i \in 1 .. n /\ i \in 0 .. n /\ i - 1 \in 0 .. n /\ i # 0 BY <1>1
<1>4. wanted \subseteq ReasonNames BY WantedAre
<1>5. IsFiniteSet(wanted) BY <1>4, ReasonNamesAre, FS_Subset
<1>6. \A i \in 0 .. 9 : IsFiniteSet(Done(i)) /\ Cardinality(Done(i)) \in Nat
  <2>1. \A i \in 0 .. 9 : Done(i) \subseteq wanted OBVIOUS
  <2> HIDE DEF Done, wanted
  <2> QED BY <1>5, <2>1, FS_Subset, FS_CardinalityType
<1>7. \A i \in 0 .. n : IsFiniteSet(f[i]) /\ Cardinality(f[i]) \in Nat BY GrowthIs, FS_CardinalityType
<1>8. ASSUME NEW i \in 1 .. 9
      PROVE  /\ f[i] = f[i - 1] \/ \E s \in pools[i] \ f[i - 1] : f[i] = f[i - 1] \cup {s}
             /\ ~ Cardinality(f[i - 1]) >= MaxRows /\ pools[i] # {} => \E s \in pools[i] : s \in f[i]
  <2>1. i \in 1 .. n /\ i \in 0 .. n /\ i # 0 BY <1>3
  <2>2. pools[i] \subseteq DOMAIN reasons BY <2>1 DEF IsGrowth
  <2>3. f[i] = WithBest(f[i - 1], pools[i], reasons) BY <2>1 DEF IsGrowth
  <2> DEFINE pool == pools[i]
             shown == f[i - 1]
             grown == f[i]
  <2> HIDE DEF n, pool, shown, grown
  <2>4. pool \subseteq DOMAIN reasons /\ grown = WithBest(shown, pool, reasons) BY <2>2, <2>3 DEF pool, shown, grown
  <2>5. grown = shown \/ \E s \in pool \ shown : grown = shown \cup {s} BY ONLY <2>4, Annotated(reasons), WithBestIs
  <2>6. ~ Cardinality(shown) >= MaxRows /\ pool # {} => \E s \in pool : s \in grown
    BY ONLY <2>4, Annotated(reasons), WithBestIs
  <2> QED BY <2>5, <2>6 DEF pool, shown, grown
<1>9. ASSUME NEW i \in 1 .. 9
      PROVE  /\ ReasonOrder[i] \notin Done(i - 1)
             /\ ReasonOrder[i] \in wanted => Done(i) = Done(i - 1) \cup {ReasonOrder[i]}
             /\ ReasonOrder[i] \notin wanted => Done(i) = Done(i - 1) /\ pools[i] = {}
  <2>1. \A k \in 1 .. i - 1 : k \in 1 .. 9 /\ k # i OBVIOUS
  <2>2. \A k \in 1 .. i : k = i \/ k \in 1 .. i - 1 OBVIOUS
  <2>3. \A k \in 1 .. i - 1 : k \in 1 .. i OBVIOUS
  <2>4. ReasonOrder[i] \notin Done(i - 1) BY <2>1, ReasonNamesAre
  <2>5. i \in 1 .. i OBVIOUS
  <2>6. ReasonOrder[i] \notin wanted => pools[i] = {} BY ReasonNamesAre, WantedAre
  <2> HIDE DEF wanted
  <2>7. \A q : (\E k \in 1 .. i : q = ReasonOrder[k])
                  <=> q = ReasonOrder[i] \/ \E k \in 1 .. i - 1 : q = ReasonOrder[k]
    BY <2>2, <2>3, <2>5
  <2>8. \A q : q \in Done(i) <=> q \in Done(i - 1) \/ (q = ReasonOrder[i] /\ q \in wanted) BY <2>7
  <2> HIDE DEF Done
  <2>9. ReasonOrder[i] \in wanted => Done(i) = Done(i - 1) \cup {ReasonOrder[i]} BY <2>8
  <2>10. ReasonOrder[i] \notin wanted => Done(i) = Done(i - 1) BY <2>8
  <2> QED BY <2>4, <2>6, <2>9, <2>10
<1>10. 0 \in P
  <2>1. f[0] = NewestRows(rows, RecentRows)
    <3>1. 0 \in 0 .. n BY <1>1
    <3> QED BY <3>1 DEF IsGrowth
  <2>2. Cardinality(f[0]) <= RecentRows BY <1>2, <2>1, NewestAreFew DEF Annotated
  <2>3. 0 \in 0 .. 9 /\ 0 \in 0 .. n BY <1>1
  <2>4. Cardinality(f[0]) \in Nat /\ Cardinality(Done(0)) \in Nat BY <1>6, <1>7, <2>3
  <2> HIDE DEF Done
  <2> QED BY <1>2, <2>2, <2>3, <2>4
<1>11. ASSUME NEW i \in 1 .. 9, i - 1 \in P PROVE i \in P
  <2> DEFINE before == Cardinality(f[i - 1])
             done == Cardinality(Done(i - 1))
  <2>1. i \in 0 .. 9 /\ i - 1 \in 0 .. 9 /\ i - 1 \in 0 .. n BY <1>3
  <2>2. before <= RecentRows + done /\ before \in Nat /\ done \in Nat BY <1>6, <1>7, <1>11, <2>1
  <2>3. IsFiniteSet(Done(i - 1)) /\ IsFiniteSet(f[i - 1]) BY <1>6, <1>7, <2>1
  <2>4. CASE f[i] = f[i - 1]
    <3>1. Cardinality(Done(i)) >= done
      <4>1. CASE ReasonOrder[i] \in wanted
        <5>1. Done(i) = Done(i - 1) \cup {ReasonOrder[i]} /\ ReasonOrder[i] \notin Done(i - 1) BY <1>9, <4>1
        <5> HIDE DEF Done
        <5>2. Cardinality(Done(i)) = done + 1 BY <2>3, <5>1, FS_AddElement
        <5> QED BY <2>2, <5>2
      <4>2. CASE ReasonOrder[i] \notin wanted
        <5>1. Done(i) = Done(i - 1) BY <1>9, <4>2
        <5> HIDE DEF Done
        <5> QED BY <2>2, <5>1
      <4> QED BY <4>1, <4>2
    <3>2. Cardinality(Done(i)) \in Nat /\ Cardinality(f[i]) = before BY <1>6, <2>1, <2>4
    <3> HIDE DEF Done, before, done
    <3> QED BY <1>2, <2>1, <2>2, <3>1, <3>2
  <2>5. CASE f[i] # f[i - 1]
    <3>1. PICK s \in pools[i] \ f[i - 1] : f[i] = f[i - 1] \cup {s} BY <1>8, <2>5
    <3>2. ReasonOrder[i] \in wanted BY <1>9, <3>1
    <3>3. Done(i) = Done(i - 1) \cup {ReasonOrder[i]} /\ ReasonOrder[i] \notin Done(i - 1) BY <1>9, <3>2
    <3> HIDE DEF Done, wanted
    <3>4. Cardinality(Done(i)) = done + 1 BY <2>3, <3>3, FS_AddElement
    <3>5. Cardinality(f[i]) = before + 1 BY <2>3, <3>1, FS_AddElement
    <3> QED BY <1>2, <2>1, <2>2, <3>4, <3>5
  <2> QED BY <2>4, <2>5
<1> HIDE DEF P
<1>12. \A i \in 0 .. 9 : i \in P
  <2>1. 9 \in Nat OBVIOUS
  <2> QED BY <1>10, <1>11, <2>1, Upwards
<1>13. PICK i \in 1 .. 9 : r = ReasonOrder[i]
  <2>1. r \in {ReasonOrder[i] : i \in DOMAIN ReasonOrder} BY <1>4 DEF ReasonNames
  <2>2. DOMAIN ReasonOrder = 1 .. 9 BY ReasonNamesAre
  <2> QED BY ONLY <2>1, <2>2
<1>14. pools[i] # {} BY <1>13, WantedAre
<1>15. Cardinality(f[i - 1]) < MaxRows
  <2>1. i - 1 \in 0 .. 9 /\ i - 1 \in 0 .. n BY <1>3
  <2>2. Cardinality(f[i - 1]) <= RecentRows + Cardinality(Done(i - 1)) BY <1>12, <2>1 DEF P
  <2>3. Done(i - 1) \subseteq wanted /\ r \notin Done(i - 1) /\ r \in wanted
    <3>1. ReasonOrder[i] \notin Done(i - 1) BY <1>9
    <3>2. Done(i - 1) \subseteq wanted OBVIOUS
    <3> HIDE DEF Done
    <3> QED BY <1>13, <3>1, <3>2
  <2>4. Cardinality(Done(i - 1)) \in Nat /\ Cardinality(f[i - 1]) \in Nat BY <1>6, <1>7, <2>1
  <2> HIDE DEF Done, wanted
  <2>5. Cardinality(Done(i - 1)) <= Cardinality(wanted) /\ (Cardinality(Done(i - 1)) = Cardinality(wanted) => Done(i - 1) = wanted)
    BY <1>5, <2>3, FS_Subset
  <2>6. Cardinality(wanted) \in Nat BY <1>5, FS_CardinalityType
  <2>7. Cardinality(Done(i - 1)) < Cardinality(wanted) BY <2>3, <2>4, <2>5, <2>6
  <2>8. RecentRows + Cardinality(wanted) <= MaxRows BY DEF wanted
  <2> QED BY <1>2, <2>2, <2>4, <2>6, <2>7, <2>8
<1>16. \E s \in f[i] : r \in reasons[s]
  <2>1. \A s \in pools[i] : r \in reasons[s] BY <1>13
  <2>2. i - 1 \in 0 .. n BY <1>3
  <2>3. ~ Cardinality(f[i - 1]) >= MaxRows BY <1>2, <1>7, <1>15, <2>2
  <2> QED BY <1>8, <1>14, <2>1, <2>3
<1>17. f[i] \subseteq f[n] BY <1>3, GrowthIs
<1> QED BY <1>16, <1>17

LEMMA Chained ==
  ASSUME NEW S, NEW s \in Seq(S), NEW t \in Seq(S)
  PROVE  /\ s \o t \in Seq(S) /\ Len(s \o t) = Len(s) + Len(t)
         /\ \A i \in 1 .. Len(s) : (s \o t)[i] = s[i]
OBVIOUS

LEMMA ShownIs ==
  ASSUME NEW reasons, Annotated(reasons)
  PROVE  /\ Shown(reasons) \subseteq DOMAIN reasons /\ IsFiniteSet(Shown(reasons))
         /\ Cardinality(Shown(reasons)) <= MaxRows
         /\ NewestRows(DOMAIN reasons, RecentRows) \subseteq Shown(reasons)
         /\ RecentRows + Cardinality(Wanted(reasons)) <= MaxRows =>
              \A r \in Wanted(reasons) : \E s \in Shown(reasons) : r \in reasons[s]
<1> DEFINE pools == PerReason(reasons) \o Filling(reasons)
           rows == DOMAIN reasons
           n == Len(pools)
<1>1. MaxRows \in Nat BY HistoryAssumption
<1>2. PerReason(reasons) \in Seq(SUBSET rows) /\ Len(PerReason(reasons)) = 9
  <2>1. PerReason(reasons) = [i \in 1 .. 9 |-> {s \in rows : ReasonOrder[i] \in reasons[s]}]
    BY ReasonNamesAre DEF PerReason
  <2>2. \A i \in 1 .. 9 : {s \in rows : ReasonOrder[i] \in reasons[s]} \in SUBSET rows OBVIOUS
  <2> QED BY <2>1, <2>2
<1>3. Filling(reasons) \in Seq(SUBSET rows) /\ Len(Filling(reasons)) = MaxRows
  BY <1>1 DEF Filling
<1>4. /\ pools \in Seq(SUBSET rows) /\ n = 9 + MaxRows
      /\ \A i \in 1 .. 9 : pools[i] = PerReason(reasons)[i]
  <2> DEFINE some == SUBSET rows
             first == PerReason(reasons)
             then == Filling(reasons)
  <2>1. first \in Seq(some) /\ then \in Seq(some) /\ Len(first) = 9 /\ Len(then) = MaxRows BY <1>2, <1>3
  <2> HIDE DEF some, first, then
  <2>2. /\ first \o then \in Seq(some) /\ Len(first \o then) = Len(first) + Len(then)
        /\ \A i \in 1 .. Len(first) : (first \o then)[i] = first[i]
    BY ONLY <2>1, Chained
  <2>3. Len(first \o then) = 9 + MaxRows /\ \A i \in 1 .. 9 : (first \o then)[i] = first[i] BY ONLY <2>1, <2>2
  <2> QED BY ONLY <2>2, <2>3 DEF some, first, then
<1>5. \A i \in 1 .. 9 : pools[i] = {s \in rows : ReasonOrder[i] \in reasons[s]}
  <2>1. \A i \in 1 .. 9 : pools[i] = PerReason(reasons)[i] BY <1>4
  <2>2. \A i \in 1 .. 9 : PerReason(reasons)[i] = {s \in rows : ReasonOrder[i] \in reasons[s]}
    BY ReasonNamesAre DEF PerReason
  <2> QED BY <2>1, <2>2
<1>6. Shown(reasons) = GrownBy(reasons, pools) BY DEF Shown
<1> HIDE DEF pools
<1>7. n \in Nat /\ n >= 9 /\ \A i \in 1 .. n : pools[i] \subseteq rows BY <1>1, <1>4
<1>8. PICK f : /\ f = [i \in 0 .. n |-> IF i = 0 THEN NewestRows(rows, RecentRows)
                                        ELSE WithBest(f[i - 1], pools[i], reasons)]
               /\ Shown(reasons) = f[n]
  BY <1>6, <1>7, GrowthExists
<1>9. IsGrowth(reasons, pools, f) BY <1>7, <1>8 DEF IsGrowth
<1>10. 0 \in 0 .. n /\ n \in 0 .. n BY <1>7
<1>11. f[0] = NewestRows(rows, RecentRows) BY <1>8, <1>10
<1>12. /\ f[n] \subseteq rows /\ IsFiniteSet(f[n]) /\ f[0] \subseteq f[n] /\ Cardinality(f[n]) <= MaxRows
  BY <1>9, <1>10, GrowthIs
<1>13. ASSUME RecentRows + Cardinality(Wanted(reasons)) <= MaxRows, NEW r \in Wanted(reasons)
       PROVE  \E s \in f[n] : r \in reasons[s]
  BY <1>5, <1>7, <1>9, <1>13, RepresentedIn
<1> QED BY <1>8, <1>11, <1>12, <1>13

\* A history shows what fits, the newest and, while there is room, a row for every
\* reason (selectRelevant), whatever is in the book.
THEOREM ReasonsAreShown ==
  ASSUME NEW book, Datable(book.starts), NEW target, NEW asOf
  PROVE  LET h == History(book, target, asOf)
             reasons == (UNION {r.reasons : r \in h.rows}) \ {"recent"}
         IN  /\ Cardinality(h.shown) <= MaxRows
             /\ {r \in h.rows : "recent" \in r.reasons} \subseteq h.shown
             /\ RecentRows + Cardinality(reasons) <= MaxRows =>
                  \A reason \in reasons : \E r \in h.shown : reason \in r.reasons
<1> DEFINE cutoff == CutoffOf(target, asOf)
           starts == Safe(book, target, cutoff)
           reasons == [s \in starts |-> Reasons(book, target, cutoff, starts, s)]
           Row(s) == [start |-> s, reasons |-> reasons[s], rest |-> RestOf(starts, s),
                      equipment |-> EquipmentOf(book, s, cutoff),
                      telemetry |-> TelemetryOf(book, s, cutoff),
                      proposition |-> PropositionOf(book, s, cutoff)]
           h == History(book, target, asOf)
<1>1. h.rows = {Row(s) : s \in starts} /\ h.shown = {Row(s) : s \in Shown(reasons)} BY DEF History
<1>2. Datable(starts)
  <2>1. starts \subseteq book.starts BY DEF Safe
  <2> HIDE DEF starts
  <2>2. IsFiniteSet(starts) BY <2>1, FS_Subset DEF Datable
  <2> QED BY <2>1, <2>2 DEF Datable
<1>3. \A s \in starts : /\ reasons[s] \subseteq ReasonNames \cup {"recent"}
                        /\ "recent" \in reasons[s] <=> s \in NewestRows(starts, RecentRows)
  <2>1. SUFFICES ASSUME NEW s \in starts
                 PROVE  /\ reasons[s] \subseteq ReasonNames \cup {"recent"}
                        /\ "recent" \in reasons[s] <=> s \in NewestRows(starts, RecentRows)
    OBVIOUS
  <2>2. reasons[s] = Reasons(book, target, cutoff, starts, s) OBVIOUS
  <2> HIDE DEF reasons, starts, cutoff
  <2>3. reasons[s] \subseteq {"recent", "same_start_method", "similar_distance", "same_track_context",
                              "similar_proposition", "same_equipment", "same_driver", "xlabs_representative",
                              "rest_comparable", "error_pattern"}
    BY <2>2 DEF Reasons
  <2>4. \A i \in 1 .. 9 : ReasonOrder[i] \in ReasonNames BY ReasonNamesAre DEF ReasonNames
  <2>5. {"same_start_method", "similar_distance", "same_track_context", "similar_proposition", "same_equipment",
         "same_driver", "xlabs_representative", "rest_comparable", "error_pattern"} \subseteq ReasonNames
    BY <2>4 DEF ReasonOrder
  <2>6. "recent" \in reasons[s] <=> s \in NewestRows(starts, RecentRows) BY <2>2 DEF Reasons
  <2> QED BY <2>3, <2>5, <2>6
<1>4. DOMAIN reasons = starts OBVIOUS
<1>5. \A s : Row(s).reasons = reasons[s] OBVIOUS
<1> HIDE DEF reasons, starts, Row, h
<1>6. Annotated(reasons) BY <1>2, <1>3, <1>4 DEF Annotated
<1>7. \A q : q \in UNION {r.reasons : r \in h.rows} <=> \E s \in starts : q \in reasons[s]
  <2>1. \A q : (\E r \in h.rows : q \in r.reasons) <=> \E s \in starts : q \in reasons[s] BY <1>1, <1>5
  <2>2. \A q : q \in UNION {r.reasons : r \in h.rows} <=> \E r \in h.rows : q \in r.reasons OBVIOUS
  <2> QED BY <2>1, <2>2
<1>8. (UNION {r.reasons : r \in h.rows}) \ {"recent"} = Wanted(reasons) BY <1>4, <1>6, <1>7, WantedAre
<1>9. Cardinality(h.shown) <= MaxRows
  <2> DEFINE shown == Shown(reasons)
             row == [s \in shown |-> Row(s)]
  <2>1. IsFiniteSet(shown) /\ Cardinality(shown) <= MaxRows BY <1>6, ShownIs
  <2>2. row \in Surjection(shown, h.shown)
    <3>1. \A s \in shown : row[s] \in h.shown BY <1>1
    <3>2. \A r \in h.shown : \E s \in shown : row[s] = r BY <1>1
    <3>3. row = [s \in shown |-> row[s]] OBVIOUS
    <3> HIDE DEF row, shown
    <3>4. row \in [shown -> h.shown] BY <3>1, <3>3
    <3> QED BY <3>2, <3>4 DEF Surjection
  <2> HIDE DEF row, shown
  <2>3. IsFiniteSet(h.shown) /\ Cardinality(h.shown) <= Cardinality(shown) BY <2>1, <2>2, FS_Surjection
  <2>4. Cardinality(h.shown) \in Nat /\ Cardinality(shown) \in Nat BY <2>1, <2>3, FS_CardinalityType
  <2>5. MaxRows \in Nat BY HistoryAssumption
  <2> QED BY <2>1, <2>3, <2>4, <2>5
<1>10. {r \in h.rows : "recent" \in r.reasons} \subseteq h.shown
  <2>1. SUFFICES ASSUME NEW r \in h.rows, "recent" \in r.reasons PROVE r \in h.shown OBVIOUS
  <2>2. PICK s \in starts : r = Row(s) BY <1>1
  <2>3. s \in NewestRows(starts, RecentRows) BY <1>3, <1>5, <2>1, <2>2
  <2>4. s \in Shown(reasons) BY <1>4, <1>6, <2>3, ShownIs
  <2> QED BY <1>1, <2>2, <2>4
<1>11. ASSUME RecentRows + Cardinality(Wanted(reasons)) <= MaxRows, NEW reason \in Wanted(reasons)
       PROVE  \E r \in h.shown : reason \in r.reasons
  <2>1. PICK s \in Shown(reasons) : reason \in reasons[s] BY <1>6, <1>11, ShownIs
  <2>2. Row(s) \in h.shown /\ reason \in Row(s).reasons BY <1>1, <1>5, <2>1
  <2> QED BY <2>2
<1> QED BY <1>8, <1>9, <1>10, <1>11 DEF h

\* The history that a question is about.
WellAskedHistory == question.of = "history" => Datable(question.book.starts)

LEMMA PastStartIs ==
  ASSUME NEW e \in Int, NEW trait
  PROVE  LET s == PastStart(e, trait)
         IN  s.entry = e /\ s.race = e /\ s.day = e * e /\ s.at = NoValue
BY DEF PastStart, Start

LEMMA HistoryIsDatable ==
  ASSUME NEW traits
  PROVE  Datable({Start(9, 9, 1, 90, NoValue, NoValue)} \cup {PastStart(e, traits[e]) : e \in 1 .. 5})
<1> DEFINE target == Start(9, 9, 1, 90, NoValue, NoValue)
           past == [e \in 1 .. 5 |-> PastStart(e, traits[e])]
           ran == {past[e] : e \in 1 .. 5}
<1>1. target.entry = 9 /\ target.race = 9 /\ target.day = 90 /\ target.at = NoValue BY DEF Start
<1>2. \A e \in 1 .. 5 : past[e].entry = e /\ past[e].race = e /\ past[e].day = e * e /\ past[e].at = NoValue
  <2>1. \A e \in 1 .. 5 : e \in Int /\ past[e] = PastStart(e, traits[e]) OBVIOUS
  <2> HIDE DEF past
  <2> QED BY <2>1, PastStartIs
<1>3. ran = {PastStart(e, traits[e]) : e \in 1 .. 5} OBVIOUS
<1> HIDE DEF target, past
<1>4. DayLength \in Int BY HistoryAssumption
<1>5. \A s \in {target} \cup ran : EventOf(s) \in Int /\ s.race \in Int /\ s.entry \in Int
  <2>1. \A s \in {target} \cup ran : s.at = NoValue /\ s.day \in Int /\ s.race \in Int /\ s.entry \in Int
    BY <1>1, <1>2
  <2> HIDE DEF ran
  <2> QED BY <1>4, <2>1 DEF EventOf
<1>6. \A s, q \in {target} \cup ran : s.entry = q.entry => s = q
  BY <1>1, <1>2
<1>7. IsFiniteSet({target} \cup ran)
  <2>1. 1 \in Int /\ 5 \in Int OBVIOUS
  <2>2. IsFiniteSet(1 .. 5) BY ONLY <2>1, FS_Interval
  <2>3. DOMAIN past = 1 .. 5 BY DEF past
  <2>4. IsFiniteSet({past[e] : e \in 1 .. 5}) BY ONLY <2>2, <2>3, ImageIsFinite
  <2>5. IsFiniteSet(ran) BY <2>4
  <2> HIDE DEF ran
  <2> QED BY <2>5, FS_Singleton, FS_Union
<1> QED BY <1>3, <1>5, <1>6, <1>7 DEF Datable, target

LEMMA AskedHistory == QuestionSpec => []WellAskedHistory
<1>1. question = NoQuestion => WellAskedHistory BY DEF WellAskedHistory, NoQuestion
<1>2. WellAskedHistory /\ [question = NoQuestion /\ Ask]_question => WellAskedHistory'
  <2>1. SUFFICES ASSUME WellAskedHistory, question = NoQuestion, Ask PROVE WellAskedHistory'
    BY DEF WellAskedHistory
  <2>2. CASE AskHistory
    <3>1. PICK traits \in [1 .. 5 -> Traits] :
            question' = [of |-> "history",
                         book |-> OnlyStarts({Start(9, 9, 1, 90, NoValue, NoValue)}
                                                \cup {PastStart(e, traits[e]) : e \in 1 .. 5})]
      BY <2>2 DEF AskHistory
    <3>2. \A starts : OnlyStarts(starts).starts = starts BY DEF OnlyStarts
    <3>3. Datable(question'.book.starts) BY <3>1, <3>2, HistoryIsDatable
    <3> QED BY <3>3 DEF WellAskedHistory
  <2>3. CASE ~ AskHistory
    <3>1. question'.of # "history" BY <2>1, <2>3, AskedKinds
    <3> QED BY <3>1 DEF WellAskedHistory
  <2> QED BY <2>2, <2>3
<1> QED BY <1>1, <1>2, PTL DEF QuestionSpec

\* Among the histories that are asked about none shows too much, leaves out one of the
\* newest, or has no row for a reason there is room for (selectRelevant).
THEOREM ReasonsAreRepresented == QuestionSpec => []ReasonsRepresented
<1>1. WellAskedHistory => ReasonsRepresented
  <2>1. SUFFICES ASSUME WellAskedHistory, question.of = "history" PROVE ReasonsRepresented
    BY DEF ReasonsRepresented
  <2>2. Datable(question.book.starts) BY <2>1 DEF WellAskedHistory
  <2> QED BY <2>2, ReasonsAreShown DEF ReasonsRepresented
<1> QED BY <1>1, AskedHistory, PTL
=============================================================================
