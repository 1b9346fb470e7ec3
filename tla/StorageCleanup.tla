----------------------------- MODULE StorageCleanup -----------------------------
(***************************************************************************)
(* Cleanup of duplicate snapshot rows: the paged integrity audit             *)
(* (storage-cleanup-audit.js), the bounded session (storage-cleanup-         *)
(* session.js) and the batch executor (storage-cleanup-executor.js), beside  *)
(* the promotion of SnapshotStore.  Every write to the audited tables moves  *)
(* the dataset revision on while a live audit rests on it (the triggers of   *)
(* migrations 0057 and 0067), so that an audit can tell it went stale.       *)
(***************************************************************************)
EXTENDS SnapshotStore

CONSTANTS
    Runs,             \* audit runs that may be started
    NoRun,
    Steppers,         \* overlapping audit step requests
    Executors,        \* overlapping execute requests
    PageSize,         \* rows of an audit page (5000)
    BatchLimit,       \* rows scanned by a cleanup batch (25)
    MaxContinuations  \* continuations of a run and of a session (48)

ASSUME CleanupAssumption ==
    /\ NoRun \notin Runs
    /\ {PageSize, BatchLimit, MaxContinuations} \subseteq Nat \ {0}

VARIABLES
    revision,  \* storage_cleanup_dataset_revision
    run,       \* audit runs with their progress
    pages,     \* the page each step request has in hand
    session,   \* the cleanup session of this source
    plans      \* the batch each execute request has in hand

auditVars == <<run, pages>>
cleanupVars == <<revision, run, pages, session, plans>>
vars == <<storeVars, cleanupVars>>

Targets == <<"direct", "observed", "compare", "observations">>
(* A run that failed, went stale, expired or ran out of continuations, and a *)
(* session that completed, expired or ran out, have ended: the code keeps    *)
(* them apart in its answers only.                                           *)
Statuses == {"none", "running", "complete", "ended"}

(* "seen" is history: the data the run vouches for.                          *)
NewRun == [status |-> "none", rev |-> 0, expired |-> FALSE, conts |-> 0,
           target |-> 1, after |-> NoSource, version |-> 0, pending |-> FALSE,
           bad |-> FALSE, counts |-> [s \in Sources |-> 0], seen |-> <<>>]

(* Progress is never read again once a run has its verdict.                  *)
Ended == [NewRun EXCEPT !.status = "ended"]

Passed(c) == [NewRun EXCEPT !.status = "complete", !.rev = c.rev, !.expired = c.expired, !.seen = c.seen]

NoPage == [at |-> "idle", run |-> NoRun, rev |-> 0, target |-> 1, after |-> NoSource,
           version |-> 0, next |-> NoSource, last |-> FALSE, bad |-> FALSE]

NewSession == [status |-> "none", conts |-> 0, expired |-> FALSE, run |-> NoRun, rev |-> 0,
               after |-> NoSource, prior |-> NoSource]

EndedSession == [NewSession EXCEPT !.status = "ended"]

NoPlan == [at |-> "idle", run |-> NoRun, rev |-> 0, retain |-> [s \in Sources |-> NoSource],
           after |-> NoSource, prior |-> NoSource, last |-> FALSE]

Audited == (SUBSET Sources) \X [Sources -> Refs] \X [Sources -> {"none", "complete", "failed"}]

TypeOK ==
    /\ StoreTypeOK
    /\ revision \in Nat
    /\ run \in [Runs -> [status: Statuses, rev: Nat, expired: BOOLEAN, conts: 0..MaxContinuations,
                         target: 1..5, after: Refs, version: Nat, pending: BOOLEAN,
                         bad: BOOLEAN, counts: [Sources -> Nat], seen: Audited \cup {<<>>}]]
    /\ pages \in [Steppers -> [at: {"idle", "prepared", "applied"}, run: Runs \cup {NoRun}, rev: Nat,
                               target: 1..5, after: Refs, version: Nat, next: Refs,
                               last: BOOLEAN, bad: BOOLEAN]]
    /\ session \in [status: Statuses, conts: 0..MaxContinuations, expired: BOOLEAN,
                    run: Runs \cup {NoRun}, rev: Nat, after: Refs, prior: Refs]
    /\ plans \in [Executors -> [at: {"idle", "planned", "done"}, run: Runs \cup {NoRun}, rev: Nat,
                                retain: [Sources -> Refs], after: Refs, prior: Refs, last: BOOLEAN]]

Init ==
    /\ StoreInit
    /\ revision = 0
    /\ run = [r \in Runs |-> NewRun]
    /\ pages = [k \in Steppers |-> NoPage]
    /\ session = NewSession
    /\ plans = [e \in Executors |-> NoPlan]

-----------------------------------------------------------------------------
(* The fence.                                                                *)

Live(r) ==
    /\ run[r].status \in {"running", "complete"}
    /\ ~ run[r].expired
    /\ run[r].rev = revision

(* What a write to an audited table makes of the revision.                   *)
Fenced == IF \E r \in Runs : Live(r) THEN revision + 1 ELSE revision

(* Time runs out for a run, or for the session.                              *)
RunExpires(r) ==
    /\ run[r].status \in {"running", "complete"} /\ ~ run[r].expired
    /\ mishaps < MaxMishaps
    /\ mishaps' = mishaps + 1
    /\ run' = [run EXCEPT ![r].expired = TRUE]
    /\ UNCHANGED <<fact, normalized, data, imports, revision, pages, session, plans>>

SessionExpires ==
    /\ session.status = "running" /\ ~ session.expired
    /\ mishaps < MaxMishaps
    /\ mishaps' = mishaps + 1
    /\ session' = [session EXCEPT !.expired = TRUE]
    /\ UNCHANGED <<fact, normalized, data, imports, revision, run, pages, plans>>

\* Mutant: only the source states are fenced (the triggers of 0057 alone).
ImportFencedBySync(i) ==
    \/ /\ ImportReads(i) \/ InsertRow(i) \/ Observe(i)
       /\ UNCHANGED cleanupVars
    \/ /\ MarkSource(i)
       /\ revision' = Fenced
       /\ UNCHANGED <<run, pages, session, plans>>

(* The promotion goes on meanwhile: an ignored insert fires no trigger.      *)
Import(i) ==
    \/ /\ ImportReads(i)
       /\ UNCHANGED cleanupVars
    \/ /\ InsertRow(i) \/ Observe(i)
       /\ revision' = IF <<rows, obs>>' = <<rows, obs>> THEN revision ELSE Fenced
       /\ UNCHANGED <<run, pages, session, plans>>
    \/ /\ MarkSource(i)
       /\ revision' = Fenced
       /\ UNCHANGED <<run, pages, session, plans>>

Capture(s) ==
    /\ Normalize(s)
    /\ revision' = Fenced
    /\ UNCHANGED <<run, pages, session, plans>>

-----------------------------------------------------------------------------
(* The audit.                                                                *)

StartAudit(r) ==
    /\ run[r].status = "none"
    /\ \A o \in Runs : ~ (run[o].status = "running" /\ run[o].rev = revision)
    /\ run' = [run EXCEPT ![r] = [NewRun EXCEPT !.status = "running", !.rev = revision, !.conts = 1,
                                                 !.seen = data]]
    /\ UNCHANGED <<storeVars, revision, pages, session, plans>>

\* Mutant: the limit on continuations is off by one.
ResumeOnceMore(r) ==
    /\ run[r].status = "running" /\ ~ run[r].expired /\ run[r].rev = revision
    /\ run' = [run EXCEPT ![r] = IF run[r].conts > MaxContinuations THEN Ended
                                 ELSE [run[r] EXCEPT !.conts = @ + 1]]
    /\ UNCHANGED <<storeVars, revision, pages, session, plans>>

ResumeAudit(r) ==
    /\ run[r].status \in {"running", "complete"}
    /\ \/ /\ run[r].expired \/ run[r].rev # revision
          /\ run' = [run EXCEPT ![r] = Ended]
       \/ /\ run[r].status = "running" /\ ~ run[r].expired /\ run[r].rev = revision
          /\ run' = [run EXCEPT ![r] = IF run[r].conts >= MaxContinuations THEN Ended
                                       ELSE [run[r] EXCEPT !.conts = @ + 1]]
    /\ UNCHANGED <<storeVars, revision, pages, session, plans>>

(* A cost verdict against the start, or against the read of a page.          *)
AuditCostStop(r) ==
    /\ run[r].status = "running"
    /\ mishaps < MaxMishaps
    /\ mishaps' = mishaps + 1
    /\ run' = [run EXCEPT ![r] = Ended]
    /\ UNCHANGED <<fact, normalized, data, imports, revision, pages, session, plans>>

(* What a target walks through, in order of the source.                      *)
Items(target) ==
    CASE Targets[target] = "direct" -> rows
      [] Targets[target] = "observed" -> {s \in Sources : obs[s] # NoSource}
      [] Targets[target] = "compare" -> Complete
      [] Targets[target] = "observations" -> {s \in Sources : obs[s] # NoSource}

(* The first n elements after a cursor.                                      *)
PageOf(S, after, n) ==
    {s \in S : s > after /\ Cardinality({o \in S : after < o /\ o < s}) < n}

Anomaly(target, counts, s) ==
    \/ Targets[target] = "compare" /\ counts[s] # 1
    \/ Targets[target] = "observations" /\ obs[s] \notin rows

PreparePage(k, r) ==
    LET c == run[r]
        page == PageOf(Items(c.target), c.after, PageSize)
    IN  /\ pages[k].at = "idle"
        /\ c.status = "running"
        /\ \/ /\ c.expired \/ c.rev # revision
              /\ run' = [run EXCEPT ![r] = Ended]
              /\ UNCHANGED pages
           \/ /\ ~ c.expired /\ c.rev = revision /\ c.pending
              /\ run' = [run EXCEPT ![r] = Ended]
              /\ UNCHANGED pages
           \/ /\ ~ c.expired /\ c.rev = revision /\ ~ c.pending
              /\ pages' = [pages EXCEPT ![k] =
                    [at |-> "prepared", run |-> r, rev |-> c.rev, target |-> c.target,
                     after |-> c.after, version |-> c.version,
                     next |-> IF page = {} THEN NoSource ELSE CHOOSE s \in page : IsLatest(s, page),
                     last |-> Cardinality(page) < PageSize,
                     bad |-> \E s \in page : Anomaly(c.target, c.counts, s)]]
              /\ UNCHANGED run
        /\ UNCHANGED <<storeVars, revision, session, plans>>

(* What a page adds to the representation counts of the sources in its range. *)
Counted(p, s) ==
    /\ p.after < s /\ s <= p.next
    /\ \/ Targets[p.target] = "direct" /\ s \in rows
       \/ Targets[p.target] = "observed" /\ CountsAlone(s)

(* One batch: the page, the counts of its range and the progress.  A page    *)
(* that another step got ahead of is dropped; one the data got ahead of      *)
(* makes the run stale.                                                      *)
ApplyPage(k) ==
    LET p == pages[k]
        c == run[p.run]
        fits == /\ c.status = "running" /\ c.rev = revision /\ ~ c.pending
                /\ c.version = p.version
        overtaken == /\ c.status = "running" /\ c.rev = p.rev
                     /\ c.version > p.version \/ c.pending
    IN  /\ p.at = "prepared"
        /\ \/ /\ fits
              /\ run' = [run EXCEPT ![p.run] =
                    [c EXCEPT !.target = IF p.last THEN @ + 1 ELSE @,
                              !.after = IF p.last THEN NoSource ELSE p.next,
                              !.version = @ + 1,
                              !.pending = TRUE,
                              !.bad = @ \/ p.bad,
                              !.counts = [s \in Sources |-> @[s] + IF Counted(p, s) THEN 1 ELSE 0]]]
              /\ pages' = [pages EXCEPT ![k].at = "applied"]
           \/ /\ ~ fits
              /\ run' = IF ~ overtaken /\ revision # p.rev /\ c.status \in {"running", "complete"}
                        THEN [run EXCEPT ![p.run] = Ended] ELSE run
              /\ pages' = [pages EXCEPT ![k] = NoPage]
        /\ UNCHANGED <<storeVars, revision, session, plans>>

(* The verdict of a page after its cost is known: accepted, and then perhaps *)
(* the verdict of the run, or rejected.  A late page is rejected too.        *)
SettlePage(k, reject) ==
    LET p == pages[k]
        c == run[p.run]
        accepted == ~ reject /\ c.status = "running" /\ c.rev = revision
    IN  /\ p.at = "applied"
        /\ pages' = [pages EXCEPT ![k] = NoPage]
        /\ run' = [run EXCEPT ![p.run] =
                CASE accepted /\ c.target <= 4 -> [c EXCEPT !.pending = FALSE]
                  [] accepted /\ c.target = 5 -> IF c.bad THEN Ended ELSE Passed(c)
                  [] reject /\ c.status = "running" -> Ended
                  [] ~ accepted /\ ~ reject /\ c.rev # revision /\ c.status \in {"running", "complete"} ->
                        Ended
                  [] OTHER -> c]
        /\ UNCHANGED <<storeVars, revision, session, plans>>

StepCut(k) ==
    /\ pages[k].at # "idle"
    /\ mishaps < MaxMishaps
    /\ mishaps' = mishaps + 1
    /\ pages' = [pages EXCEPT ![k] = NoPage]
    /\ UNCHANGED <<fact, normalized, data, imports, revision, run, session, plans>>

-----------------------------------------------------------------------------
(* The session.                                                              *)

(* The next session of this source; an earlier one has ended.                *)
StartSession ==
    /\ session.status # "running" \/ session.expired \/ session.conts >= MaxContinuations
    /\ session' = [NewSession EXCEPT !.status = "running", !.conts = 1]
    /\ UNCHANGED <<storeVars, revision, run, pages, plans>>

ResumeSession ==
    /\ session.status = "running"
    /\ session' = IF session.expired \/ session.conts >= MaxContinuations
                  THEN EndedSession ELSE [session EXCEPT !.conts = @ + 1]
    /\ UNCHANGED <<storeVars, revision, run, pages, plans>>

BindAudit(r) ==
    /\ session.status = "running" /\ ~ session.expired
    /\ \/ /\ \/ run[r].status \in {"running", "complete"} /\ run[r].expired
             \/ run[r].status = "complete" /\ run[r].rev # revision
          /\ run' = [run EXCEPT ![r] = Ended]
          /\ UNCHANGED session
       \/ /\ run[r].status = "complete" /\ ~ run[r].expired /\ run[r].rev = revision
          /\ session' = [session EXCEPT !.run = r, !.rev = revision]
          /\ UNCHANGED run
    /\ UNCHANGED <<storeVars, revision, pages, plans>>

(* The client stores how far it got.                                         *)
Checkpoint(e) ==
    /\ plans[e].at = "done"
    /\ plans' = [plans EXCEPT ![e] = NoPlan]
    /\ session' =
        CASE session.status = "running" /\ (session.expired \/ plans[e].last) -> EndedSession
          [] session.status = "running" /\ ~ session.expired /\ ~ plans[e].last ->
                [session EXCEPT !.after = plans[e].after, !.prior = plans[e].prior]
          [] OTHER -> session
    /\ UNCHANGED <<storeVars, revision, run, pages>>

-----------------------------------------------------------------------------
(* The executor.                                                             *)

(* The row kept of the run of equal facts that ends in d: the earliest one   *)
(* such that every scanned row from there on is of a complete source and     *)
(* tells the same.  The row kept before the page is taken from the cursor.   *)
Retained(page, prior, d) ==
    LET same(x) == sync[x] = "complete" /\ fact[x] = fact[d]
        heads == {e \in page \cup ({prior} \ {NoSource}) :
                    /\ e <= d /\ fact[e] = fact[d] /\ (e = prior \/ same(e))
                    /\ \A x \in page : e < x /\ x <= d => same(x)}
    IN  IF sync[d] # "complete" THEN NoSource ELSE CHOOSE e \in heads : \A o \in heads : e <= o

Authorized ==
    /\ session.status = "running" /\ ~ session.expired
    /\ session.run # NoRun
    /\ run[session.run].status = "complete"

(* The request is authorized and plans its batch, from the first row or from *)
(* the checkpoint of the session, which may be older than the audit.         *)
Plan(e) ==
    /\ plans[e].at = "idle"
    /\ Authorized
    /\ \/ /\ run[session.run].expired \/ session.rev # revision
          /\ run' = [run EXCEPT ![session.run] = Ended]
          /\ UNCHANGED plans
       \/ /\ ~ run[session.run].expired /\ session.rev = revision
          /\ \E from \in {<<NoSource, NoSource>>, <<session.after, session.prior>>} :
                LET page == PageOf(rows, from[1], BatchLimit)
                    end == IF page = {} THEN from[1] ELSE CHOOSE s \in page : IsLatest(s, page)
                IN  plans' = [plans EXCEPT ![e] =
                        [at |-> "planned", run |-> session.run, rev |-> revision,
                         retain |-> [d \in Sources |->
                            IF d \in page /\ Retained(page, from[2], d) # d
                            THEN Retained(page, from[2], d) ELSE NoSource],
                         after |-> end,
                         prior |-> IF page = {} THEN from[2] ELSE Retained(page, from[2], end),
                         last |-> \A s \in rows : s <= end]]
          /\ UNCHANGED run
    /\ UNCHANGED <<storeVars, revision, pages, session>>

Removed(p) == {d \in Sources : p.retain[d] # NoSource}

\* Mutant: sources from before observations existed get none.
RewiredExisting(p) ==
    [s \in Sources |-> IF obs[s] \in Removed(p) THEN p.retain[obs[s]] ELSE obs[s]]

(* Observations for the removed rows' own sources, then for all that         *)
(* referred to a removed row.                                                *)
Rewired(p) ==
    [s \in Sources |->
        IF obs[s] = NoSource THEN p.retain[s]
        ELSE IF obs[s] \in Removed(p) THEN p.retain[obs[s]] ELSE obs[s]]

(* The conditions of the DELETE.                                             *)
Deletable(p, d) ==
    LET keep == p.retain[d]
    IN  /\ d \in rows /\ sync[d] = "complete"
        /\ keep \in rows /\ sync[keep] = "complete"
        /\ fact[keep] = fact[d] /\ keep < d
        /\ \A b \in rows : keep < b /\ b < d /\ sync[b] = "complete" => fact[b] = fact[d]
        /\ \A s \in Sources : Rewired(p)[s] # d

Guarded(p) ==
    /\ session.status = "running" /\ ~ session.expired
    /\ session.run = p.run /\ session.rev = p.rev
    /\ run[p.run].status = "complete" /\ ~ run[p.run].expired
    /\ run[p.run].rev = p.rev /\ revision = p.rev

(* One guarded batch.  A row the DELETE spares breaks the CHECK on the       *)
(* number of changes and undoes the batch.  The audit is moved on to the     *)
(* revision the batch itself produced.                                       *)
ExecuteBatch(e) ==
    LET p == plans[e]
    IN  /\ p.at = "planned"
        /\ \/ /\ Removed(p) # {}
              /\ Guarded(p)
              /\ \A d \in Removed(p) : Deletable(p, d)
              /\ rows' = rows \ Removed(p)
              /\ obs' = Rewired(p)
              /\ revision' = Fenced
              /\ run' = [run EXCEPT ![p.run].rev = revision', ![p.run].seen = <<rows', obs', sync>>]
              /\ session' = [session EXCEPT !.rev = revision']
              /\ plans' = [plans EXCEPT ![e].at = "done"]
           \/ /\ Removed(p) = {}
              /\ plans' = [plans EXCEPT ![e].at = "done"]
              /\ UNCHANGED <<rows, obs, revision, run, session>>
           \/ /\ Removed(p) # {}
              /\ ~ (Guarded(p) /\ \A d \in Removed(p) : Deletable(p, d))
              /\ plans' = [plans EXCEPT ![e] = NoPlan]
              /\ UNCHANGED <<rows, obs, revision, run, session>>
        /\ UNCHANGED <<fact, normalized, sync, imports, mishaps, pages>>

Next ==
    \/ \E s \in Sources : Capture(s)
    \/ \E i \in Importers : Import(i)
    \/ \E r \in Runs : \/ RunExpires(r) \/ StartAudit(r) \/ ResumeAudit(r) \/ AuditCostStop(r)
                       \/ BindAudit(r)
    \/ \E k \in Steppers : \/ \E r \in Runs : PreparePage(k, r)
                           \/ ApplyPage(k)
                           \/ \E reject \in BOOLEAN : SettlePage(k, reject)
                           \/ StepCut(k)
    \/ SessionExpires \/ StartSession \/ ResumeSession
    \/ \E e \in Executors : Plan(e) \/ ExecuteBatch(e) \/ Checkpoint(e)

Spec == Init /\ [][Next]_vars

-----------------------------------------------------------------------------
(* A live audit vouches for the rows, observations and source states as they *)
(* are now: whatever wrote to them since it started has moved the revision   *)
(* on, and no later step of the audit, of a session or of a batch brings a   *)
(* revision back.                                                            *)
FenceHolds == \A r \in Runs : Live(r) => run[r].seen = data

(* Every complete source is represented once, and no observation refers to a *)
(* row that is gone.                                                         *)
Clean ==
    /\ \A s \in Complete : SourceCount(s) = 1
    /\ \A s \in Sources : obs[s] # NoSource => obs[s] \in rows

(* An audit that can still authorize a batch (complete, unexpired and at the *)
(* current revision) means clean data, across its pages, concurrent steps,   *)
(* pages cut off before their verdict, and the batches it was moved over.    *)
AuthorizedMeansClean ==
    \A r \in Runs : run[r].status = "complete" /\ Live(r) => Clean

(* A batch never changes what any cutoff is answered, and leaves every       *)
(* complete source represented.                                              *)
CleanupKeepsAsOf ==
    [][rows' # rows /\ rows' \subseteq rows =>
        /\ \A t \in Sources : AsOf(t)' = AsOf(t)
        /\ \A s \in Complete : Represented(s)']_vars

(* A snapshot source is represented by its row or by an observation of the   *)
(* retained row (DECISIONS.md, cleanup, point 7).                            *)
CompleteRepresented == \A s \in Complete : Represented(s)
=============================================================================
