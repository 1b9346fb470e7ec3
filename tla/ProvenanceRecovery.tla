--------------------------- MODULE ProvenanceRecovery ---------------------------
(***************************************************************************)
(* Recovery of source representations an earlier cleanup destroyed          *)
(* (storage-historical-recovery-run.js and the modules it calls): an         *)
(* inventory of complete sources with fewer representations than facts, a    *)
(* verified backup, the restoration of source-owned rows one guarded batch   *)
(* at a time, and an independent count audit.                                *)
(*                                                                           *)
(* Requests overlap, are cut off and are repeated.  While a run is active    *)
(* every write to the tables it rests on moves the epoch (the triggers of    *)
(* migration 0068), and a run accepts only writes at the epoch it expects.   *)
(***************************************************************************)
EXTENDS Naturals, FiniteSets

CONSTANTS
    LastFamily,    \* number of snapshot families (4), walked in order
    Sources,       \* complete official sources, in the order of their ids
    Cells,         \* <<family, source, scope>>: the facts the sources tell
    Fact,          \* what is told in each cell
    Starts,        \* <<direct, observed>>: the representations found at first
    Runs, NoRun,
    Requests,      \* overlapping requests
    ApplyPage,     \* facts restored by a request (4)
    AuditPageSize, \* sources of a page of the count audit (25)
    MaxDisturbances, \* bound on writes by others, changes of originals, deployments
    MaxCuts        \* bound on requests that are cut off

NoSource == 0
Families == 1 .. LastFamily
Items == Families \X Sources

(* The sum of the values of f: how many things there are, f[i] for every i.  *)
SumOf(f) == Cardinality(UNION {{i} \X (1 .. f[i]) : i \in DOMAIN f})

CellsOf(f, s) == {c \in Cells : c[1] = f /\ c[2] = s}

ASSUME RecoveryAssumption ==
    /\ LastFamily \in Nat \ {0}
    /\ Sources \subseteq Nat \ {0} /\ IsFiniteSet(Sources)
    /\ IsFiniteSet(Cells)
    /\ \A c \in Cells : c[1] \in Families /\ c[2] \in Sources
    /\ \A st \in Starts : st[1] \subseteq Cells /\ st[2] \subseteq Cells
    /\ NoRun \notin Runs
    /\ {ApplyPage, AuditPageSize} \subseteq Nat \ {0}
    /\ {MaxDisturbances, MaxCuts} \subseteq Nat

VARIABLES
    direct,    \* cells with a row of their own source
    observed,  \* cells with an observation of another row
    sound,     \* sources whose original verifies against its hash
    epoch,     \* historical_recovery_epoch
    run,       \* historical_recovery_runs
    receipt,   \* historical_recovery_receipts
    added,     \* history: the rows each run inserted
    requests,  \* the step each request has in hand
    disturbances, \* writes by others, changes of originals and deployments so far
    cuts       \* requests cut off so far

tables == <<direct, observed, sound>>
recoveryVars == <<tables, epoch, run, receipt, added, requests, disturbances, cuts>>

ActivePhases == {"inventory", "ready", "applying", "verify_pending"}
Phases == ActivePhases \cup {"none", "complete", "complete_with_quarantine", "paused"}

(* "current" tells that the deployed Worker is the one that started the run. *)
NewRun == [phase |-> "none", current |-> FALSE, expected |-> 0, family |-> 1, after |-> NoSource,
           missing |-> 0, ready |-> 0, quarantined |-> 0, restored |-> 0,
           backup |-> "none", postMissing |-> 0, postExcess |-> 0]

NoReceipt == [status |-> "none", missing |-> 0, candidates |-> 0, restored |-> 0]

(* What a request has read of its run, and the restorations it still has to  *)
(* make: "whole" tells that they are all there were.                         *)
Seen(c) == [phase |-> c.phase, expected |-> c.expected, family |-> c.family, after |-> c.after,
            postMissing |-> c.postMissing, postExcess |-> c.postExcess]

NoRequest == [at |-> "idle", run |-> NoRun, seen |-> Seen(NewRun), item |-> <<>>, held |-> NoReceipt,
              todo |-> {}, inserted |-> 0, whole |-> FALSE]

RecoveryTypeOK ==
    /\ direct \subseteq Cells /\ observed \subseteq Cells /\ sound \subseteq Sources
    /\ epoch \in Nat
    /\ run \in [Runs -> [phase: Phases, current: BOOLEAN, expected: Nat,
                         family: 1 .. LastFamily + 1, after: Sources \cup {NoSource},
                         missing: Nat, ready: Nat, quarantined: Nat, restored: Nat,
                         backup: {"none", "started", "verified"}, postMissing: Nat, postExcess: Nat]]
    /\ receipt \in [Runs -> [Items -> [status: {"none", "ready", "quarantined", "applied"},
                                       missing: Nat, candidates: Nat, restored: Nat]]]
    /\ added \in [Runs -> SUBSET Cells]
    /\ \A k \in Requests :
        /\ requests[k].at \in {"idle", "inventory", "execute", "audit", "prepare", "apply"}
        /\ requests[k].at # "idle" => requests[k].run \in Runs
        /\ requests[k].at \in {"prepare", "apply"} => requests[k].item \in Items
        /\ requests[k].todo \subseteq Cells
    /\ disturbances \in 0 .. MaxDisturbances /\ cuts \in 0 .. MaxCuts

RecoveryInit ==
    /\ \E st \in Starts : direct = st[1] /\ observed = st[2]
    /\ sound \in {Sources} \cup {Sources \ {s} : s \in Sources}
    /\ epoch = 0
    /\ run = [r \in Runs |-> NewRun]
    /\ receipt = [r \in Runs |-> [i \in Items |-> NoReceipt]]
    /\ added = [r \in Runs |-> {}]
    /\ requests = [k \in Requests |-> NoRequest]
    /\ disturbances = 0 /\ cuts = 0

-----------------------------------------------------------------------------
(* Counting and evidence.                                                    *)

Active(r) == run[r].phase \in ActivePhases

SomeActive == \E r \in Runs : Active(r)

Expected(f, s) == Cardinality(CellsOf(f, s))

Actual(f, s) == Cardinality(CellsOf(f, s) \cap direct) + Cardinality(CellsOf(f, s) \cap observed)

Shortfall(f, s) == IF Actual(f, s) < Expected(f, s) THEN Expected(f, s) - Actual(f, s) ELSE 0

Excess(f, s) == IF Actual(f, s) > Expected(f, s) THEN Actual(f, s) - Expected(f, s) ELSE 0

Missing(c) == c \notin direct /\ c \notin observed

(* The rows of the scope owned by earlier sources, and the latest of them.   *)
Earlier(c) == {p \in direct : p[1] = c[1] /\ p[3] = c[3] /\ p[2] < c[2]}

Predecessor(c) == {p \in Earlier(c) : \A o \in Earlier(c) : o[2] <= p[2]}

(* A missing fact may be restored when its own original and that of its      *)
(* predecessor verify and tell the same.                                     *)
Restorable(c) ==
    /\ c[2] \in sound
    /\ \E p \in Predecessor(c) : Fact[p] = Fact[c] /\ p[2] \in sound

Candidates(f, s) ==
    {c \in CellsOf(f, s) : Shortfall(f, s) > 0 /\ Missing(c) /\ Restorable(c)}

(* Sources of a family with fewer representations than facts.                *)
Deficient(f, after) == {s \in Sources : s > after /\ Shortfall(f, s) > 0}

-----------------------------------------------------------------------------
(* The rest of the system.                                                   *)

(* A write to a fenced table: a representation appears or goes, or only a    *)
(* source record or an identity is touched.                                  *)
OtherWrite ==
    /\ disturbances < MaxDisturbances
    /\ disturbances' = disturbances + 1
    /\ \/ \E c \in Cells : direct' = direct \cup {c} /\ UNCHANGED observed
       \/ \E c \in Cells : direct' = direct \ {c} /\ UNCHANGED observed
       \/ \E c \in Cells : observed' = observed \cup {c} /\ UNCHANGED direct
       \/ UNCHANGED <<direct, observed>>
    /\ epoch' = IF SomeActive THEN epoch + 1 ELSE epoch
    /\ UNCHANGED <<sound, run, receipt, added, requests, cuts>>

(* A stored original is lost, unreadable for a while, or back: no table      *)
(* changes.                                                                  *)
OriginalChanges(s) ==
    /\ disturbances < MaxDisturbances
    /\ disturbances' = disturbances + 1
    /\ sound' = IF s \in sound THEN sound \ {s} ELSE sound \cup {s}
    /\ UNCHANGED <<direct, observed, epoch, run, receipt, added, requests, cuts>>

Deploy ==
    /\ disturbances < MaxDisturbances
    /\ disturbances' = disturbances + 1
    /\ run' = [r \in Runs |-> [run[r] EXCEPT !.current = FALSE]]
    /\ UNCHANGED <<tables, epoch, receipt, added, requests, cuts>>

-----------------------------------------------------------------------------
(* Starting.                                                                 *)

Stale(r) == Active(r) /\ (~ run[r].current \/ run[r].expected # epoch)

\* Mutant: a run of an older deployment is not retired but left active.
StartBeside(r, old) ==
    /\ run[r].phase = "none"
    /\ old \in {NoRun} \cup {o \in Runs : run[o].phase # "none"}
    /\ \A o \in Runs : Active(o) => ~ run[o].current
    /\ run' = [run EXCEPT ![r] = [NewRun EXCEPT !.phase = "inventory", !.current = TRUE, !.expected = epoch]]
    /\ UNCHANGED <<tables, epoch, receipt, added, requests, disturbances, cuts>>

(* One batch: stale runs are paused (only the named one, when one is named), *)
(* and a fresh run is admitted when none is left active, the epoch is still  *)
(* the one read, and a named run was really retired.                         *)
Start(r, old) ==
    LET retired == {o \in Runs : Stale(o) /\ (old # NoRun => o = old)}
        paused == [o \in Runs |-> IF o \in retired THEN [run[o] EXCEPT !.phase = "paused"] ELSE run[o]]
        admits == /\ \A o \in Runs : Active(o) => o \in retired
                  /\ old # NoRun => Cardinality(retired) = 1
    IN  /\ run[r].phase = "none"
        /\ old \in {NoRun} \cup {o \in Runs : run[o].phase # "none"}
        /\ \/ /\ admits
              /\ run' = [paused EXCEPT ![r] =
                    [NewRun EXCEPT !.phase = "inventory", !.current = TRUE, !.expected = epoch]]
           \/ /\ ~ admits \/ epoch > 0   \* the epoch read may be an earlier one
              /\ run' = paused
        /\ UNCHANGED <<tables, epoch, receipt, added, requests, disturbances, cuts>>

-----------------------------------------------------------------------------
(* Requests.                                                                 *)

Serves(kind) ==
    CASE kind = "inventory" -> {"inventory"}
      [] kind = "execute" -> {"ready", "applying"}
      [] kind = "audit" -> {"verify_pending"}

(* The run is read; an execution also needs its backup verified.             *)
Load(k, r, kind) ==
    /\ requests[k].at = "idle"
    /\ run[r].current
    /\ run[r].phase \in Serves(kind)
    /\ kind = "execute" => run[r].backup = "verified"
    /\ requests' = [requests EXCEPT ![k] = [NoRequest EXCEPT !.at = kind, !.run = r, !.seen = Seen(run[r])]]
    /\ UNCHANGED <<tables, epoch, run, receipt, added, disturbances, cuts>>

(* The request ends: it fails, loses its permission, or is cut off.          *)
CutOff(k) ==
    /\ requests[k].at # "idle"
    /\ cuts < MaxCuts
    /\ cuts' = cuts + 1
    /\ requests' = [requests EXCEPT ![k] = NoRequest]
    /\ UNCHANGED <<tables, epoch, run, receipt, added, disturbances>>

Done(k) == requests' = [requests EXCEPT ![k] = NoRequest]

MarkPaused(r) == run' = IF Active(r) THEN [run EXCEPT ![r].phase = "paused"] ELSE run

\* Mutant: the checkpoint does not look at the epoch of the data.
GuardedAnyEpoch(k, phase) ==
    LET r == requests[k].run
    IN  /\ run[r].phase = phase
        /\ run[r].expected = requests[k].seen.expected

(* The guards of a checkpoint: the run is as the request read it, and at the *)
(* epoch of the data.                                                        *)
Guarded(k, phase) ==
    LET r == requests[k].run
    IN  /\ run[r].phase = phase
        /\ run[r].expected = requests[k].seen.expected
        /\ epoch = requests[k].seen.expected

SameCursor(k) ==
    LET r == requests[k].run
    IN  run[r].family = requests[k].seen.family /\ run[r].after = requests[k].seen.after

FirstSource(S) == CHOOSE s \in S : \A o \in S : s <= o

\* Mutant: the inventory looks for one family more.
LastTurnLate(f) == f > LastFamily

LastTurn(f) == f = LastFamily

(* One source of the inventory, the next one with a shortfall, or the next   *)
(* family.                                                                   *)
InventoryStep(k) ==
    LET q == requests[k]
        r == q.run
        f == q.seen.family
        deficient == Deficient(f, q.seen.after)
        s == FirstSource(deficient)
        short == Shortfall(f, s)
        ready == IF Cardinality(Candidates(f, s)) <= short THEN Cardinality(Candidates(f, s)) ELSE 0
    IN  /\ q.at = "inventory"
        /\ Done(k)
        /\ \/ /\ epoch # q.seen.expected
              /\ MarkPaused(r)
              /\ UNCHANGED receipt
           \/ /\ Guarded(k, "inventory") /\ SameCursor(k)
              /\ deficient = {}
              /\ run' = [run EXCEPT ![r].family = @ + 1, ![r].after = NoSource,
                            ![r].phase = IF LastTurn(f) THEN "ready" ELSE @]
              /\ UNCHANGED receipt
           \/ /\ Guarded(k, "inventory") /\ SameCursor(k)
              /\ deficient # {}
              /\ receipt' = [receipt EXCEPT ![r][<<f, s>>] =
                    [status |-> IF ready > 0 THEN "ready" ELSE "quarantined",
                     missing |-> short, candidates |-> ready, restored |-> 0]]
              /\ run' = [run EXCEPT ![r].after = s, ![r].missing = @ + short,
                            ![r].ready = @ + ready, ![r].quarantined = @ + (short - ready)]
           \/ /\ epoch = q.seen.expected
              /\ ~ (Guarded(k, "inventory") /\ SameCursor(k))
              /\ UNCHANGED <<run, receipt>>
        /\ UNCHANGED <<tables, epoch, added, disturbances, cuts>>

(* Exporting the database: started, then polled until the stored copy has    *)
(* the announced length.                                                     *)
Backup(r) ==
    /\ run[r].current
    /\ run[r].phase = "ready" /\ run[r].expected = epoch
    /\ run[r].backup # "verified"
    /\ run' = [run EXCEPT ![r].backup = IF @ = "none" THEN "started" ELSE "verified"]
    /\ UNCHANGED <<tables, epoch, receipt, added, requests, disturbances, cuts>>

-----------------------------------------------------------------------------
(* Execution.                                                                *)

Pending(r) == {i \in Items : receipt[r][i].status = "ready"}

FirstItem(S) == CHOOSE i \in S : \A o \in S : i[1] < o[1] \/ (i[1] = o[1] /\ i[2] <= o[2])

(* The epoch is checked, a ready run begins to apply, and the first receipt  *)
(* that is still open is taken; without one the count audit begins.          *)
Enter(k) ==
    LET q == requests[k]
        r == q.run
    IN  /\ q.at = "execute"
        /\ \/ /\ epoch # q.seen.expected
              /\ MarkPaused(r)
              /\ Done(k)
           \/ /\ Guarded(k, "ready") \/ (q.seen.phase = "applying" /\ Guarded(k, "applying"))
              /\ Pending(r) # {}
              /\ run' = [run EXCEPT ![r].phase = "applying"]
              /\ requests' = [requests EXCEPT ![k].at = "prepare", ![k].item = FirstItem(Pending(r)),
                                              ![k].held = receipt[r][FirstItem(Pending(r))]]
           \/ /\ Guarded(k, "ready") \/ (q.seen.phase = "applying" /\ Guarded(k, "applying"))
              /\ Pending(r) = {}
              /\ run' = [run EXCEPT ![r].phase = "verify_pending", ![r].family = 1, ![r].after = NoSource]
              /\ Done(k)
           \/ /\ epoch = q.seen.expected
              /\ ~ Guarded(k, "ready") /\ ~ (q.seen.phase = "applying" /\ Guarded(k, "applying"))
              /\ Done(k)
              /\ UNCHANGED run
        /\ UNCHANGED <<tables, epoch, receipt, added, disturbances, cuts>>

Close(r, i, status) == receipt' = [receipt EXCEPT ![r][i].status = status]

\* Mutant: what the receipt has restored already is quarantined with the rest.
LeftIsAll(held) == held.candidates

Left(held) == IF held.restored < held.candidates THEN held.candidates - held.restored ELSE 0

(* The live evidence decides: the receipt has drifted, was already restored  *)
(* by a request that ended before closing it, must be quarantined, or is     *)
(* restored a page at a time.  Quarantining closes the receipt first; the    *)
(* counters follow in the same batch only while the run is applying.         *)
Prepare(k) ==
    LET q == requests[k]
        r == q.run
        f == q.item[1]
        s == q.item[2]
        found == Candidates(f, s)
        drifted == \/ epoch # q.seen.expected
                   \/ Shortfall(f, s) > q.held.missing
                   \/ Cardinality(found) > q.held.candidates
        finished == /\ Actual(f, s) = Expected(f, s) /\ found = {}
                    /\ q.held.restored = q.held.candidates
        unproved == s \notin sound \/ Shortfall(f, s) = 0
        left == Left(q.held)
        open == receipt[r][q.item].status = "ready"
    IN  /\ q.at = "prepare"
        /\ \/ /\ drifted
              /\ MarkPaused(r)
              /\ Done(k)
              /\ UNCHANGED receipt
           \/ /\ ~ drifted /\ finished /\ open
              /\ Close(r, q.item, "applied")
              /\ Done(k)
              /\ UNCHANGED run
           \/ /\ ~ drifted /\ ~ finished /\ unproved
              /\ open
              /\ Close(r, q.item, "quarantined")
              /\ run' = IF Guarded(k, "applying") /\ run[r].ready >= left
                        THEN [run EXCEPT ![r].ready = @ - left, ![r].quarantined = @ + left] ELSE run
              /\ Done(k)
           \/ /\ ~ drifted /\ ~ finished /\ ~ unproved
              /\ \E page \in SUBSET found :
                    /\ Cardinality(page) = IF Cardinality(found) < ApplyPage THEN Cardinality(found) ELSE ApplyPage
                    /\ requests' = [requests EXCEPT ![k].at = "apply", ![k].todo = page,
                                        ![k].whole = (Cardinality(found) <= ApplyPage)]
              /\ UNCHANGED <<run, receipt>>
           \/ /\ ~ drifted
              /\ finished \/ unproved
              /\ ~ open
              /\ Done(k)
              /\ UNCHANGED <<run, receipt>>
        /\ UNCHANGED <<tables, epoch, added, disturbances, cuts>>

(* The epoch this request has reached by its own insertions.                 *)
Reached(k) == requests[k].seen.expected + requests[k].inserted

\* Mutant: the batch does not look at the epoch or at the earlier row.
AdmitsAnyEpoch(k, c) ==
    LET r == requests[k].run
    IN  /\ run[r].phase = "applying"
        /\ receipt[r][requests[k].item].status = "ready"
        /\ c \notin observed

(* The conditions of the guarded INSERT.                                     *)
Admits(k, c) ==
    LET r == requests[k].run
    IN  /\ run[r].phase = "applying"
        /\ run[r].expected = Reached(k) /\ epoch = Reached(k)
        /\ receipt[r][requests[k].item].status = "ready"
        /\ c \notin observed
        /\ \E p \in direct : p[1] = c[1] /\ p[3] = c[3] /\ p[2] < c[2] /\ Fact[p] = Fact[c]

(* One batch: the row, the progress of the run at the epoch the row produces, *)
(* and the progress of the receipt.  A row already there is reused.           *)
Restore(k, c) ==
    LET q == requests[k]
        r == q.run
    IN  /\ q.at = "apply"
        /\ c \in q.todo
        /\ \/ /\ c \in direct
              /\ requests' = [requests EXCEPT ![k].todo = @ \ {c}]
              /\ UNCHANGED <<direct, epoch, run, receipt, added>>
           \/ /\ c \notin direct /\ Admits(k, c)
              /\ direct' = direct \cup {c}
              /\ epoch' = epoch + 1
              /\ run' = [run EXCEPT ![r].expected = @ + 1, ![r].restored = @ + 1]
              /\ receipt' = [receipt EXCEPT ![r][q.item].restored = @ + 1]
              /\ added' = [added EXCEPT ![r] = @ \cup {c}]
              /\ requests' = [requests EXCEPT ![k].todo = @ \ {c}, ![k].inserted = @ + 1]
           \/ /\ c \notin direct /\ ~ Admits(k, c)
              /\ Done(k)
              /\ UNCHANGED <<direct, epoch, run, receipt, added>>
        /\ UNCHANGED <<observed, sound, disturbances, cuts>>

(* After the last page of a receipt nothing may be left to restore.          *)
Finish(k) ==
    LET q == requests[k]
        r == q.run
        proved == epoch = Reached(k) /\ Candidates(q.item[1], q.item[2]) = {}
    IN  /\ q.at = "apply" /\ q.todo = {}
        /\ Done(k)
        /\ \/ /\ ~ q.whole
              /\ UNCHANGED <<run, receipt>>
           \/ /\ q.whole /\ ~ proved
              /\ MarkPaused(r)
              /\ UNCHANGED receipt
           \/ /\ q.whole /\ proved /\ receipt[r][q.item].status = "ready"
              /\ Close(r, q.item, "applied")
              /\ UNCHANGED run
           \/ /\ q.whole /\ proved /\ receipt[r][q.item].status # "ready"
              /\ UNCHANGED <<run, receipt>>
        /\ UNCHANGED <<tables, epoch, added, disturbances, cuts>>

-----------------------------------------------------------------------------
(* The count audit.                                                          *)

NextSources(after) ==
    {s \in Sources : s > after /\ Cardinality({o \in Sources : after < o /\ o < s}) < AuditPageSize}

AuditStep(k) ==
    LET q == requests[k]
        r == q.run
        f == q.seen.family
        page == NextSources(q.seen.after)
        missing == q.seen.postMissing + SumOf([i \in {f} \X page |-> Shortfall(i[1], i[2])])
        excess == q.seen.postExcess + SumOf([i \in {f} \X page |-> Excess(i[1], i[2])])
        last == page = {} /\ f = LastFamily
    IN  /\ q.at = "audit"
        /\ Done(k)
        /\ \/ /\ epoch # q.seen.expected
              /\ MarkPaused(r)
           \/ /\ Guarded(k, "verify_pending") /\ SameCursor(k)
              /\ run' = [run EXCEPT
                    ![r].phase = IF ~ last THEN @
                                 ELSE IF missing = 0 /\ excess = 0 THEN "complete"
                                 ELSE "complete_with_quarantine",
                    ![r].family = IF page = {} THEN @ + 1 ELSE @,
                    ![r].after = IF page = {} THEN NoSource ELSE CHOOSE s \in page : \A o \in page : o <= s,
                    ![r].postMissing = missing,
                    ![r].postExcess = excess]
           \/ /\ epoch = q.seen.expected
              /\ ~ (Guarded(k, "verify_pending") /\ SameCursor(k))
              /\ UNCHANGED run
        /\ UNCHANGED <<tables, epoch, receipt, added, disturbances, cuts>>

-----------------------------------------------------------------------------
RecoveryStep(k) ==
    \/ InventoryStep(k)
    \/ Enter(k)
    \/ Prepare(k)
    \/ \E c \in Cells : Restore(k, c)
    \/ Finish(k)
    \/ AuditStep(k)

RecoveryNext ==
    \/ OtherWrite
    \/ \E s \in Sources : OriginalChanges(s)
    \/ Deploy
    \/ \E r \in Runs, old \in Runs \cup {NoRun} : Start(r, old)
    \/ \E r \in Runs : Backup(r)
    \/ \E k \in Requests : \/ \E r \in Runs, kind \in {"inventory", "execute", "audit"} : Load(k, r, kind)
                           \/ CutOff(k)
                           \/ RecoveryStep(k)

RecoverySpec == RecoveryInit /\ [][RecoveryNext]_recoveryVars

-----------------------------------------------------------------------------
(* Properties.                                                               *)

Total(r, field) == SumOf([i \in Items |-> receipt[r][i][field]])

(* What a receipt still counts as ready.                                     *)
Kept(p) ==
    IF p.status = "quarantined" /\ p.restored < p.candidates THEN p.restored ELSE p.candidates

(* The counters of a run agree with its receipts and with what it inserted,  *)
(* whatever requests overlapped or were cut off: nothing missing is lost     *)
(* from the account, and, until the run is paused, a quarantined receipt     *)
(* counts as ready only for what it had restored.                            *)
Accounted ==
    \A r \in Runs :
        /\ run[r].missing = Total(r, "missing")
        /\ run[r].ready + run[r].quarantined = run[r].missing
        /\ run[r].phase # "paused" =>
             run[r].ready = SumOf([i \in Items |-> Kept(receipt[r][i])])
        /\ run[r].restored = Total(r, "restored")
        /\ run[r].restored = Cardinality(added[r])

(* At most one run is active, so that a write of one run is never taken for  *)
(* its own by another.                                                       *)
OneActive == \A r, o \in Runs : Active(r) /\ Active(o) => r = o

(* A run that ends its count audit, over many pages and beside writes of     *)
(* other jobs, has counted what the tables hold at that moment.              *)
AuditTellsTruth ==
    [][\A r \in Runs : run[r].phase = "verify_pending"
                       /\ run'[r].phase \in {"complete", "complete_with_quarantine"} =>
        /\ run'[r].postMissing = SumOf([i \in Items |-> Shortfall(i[1], i[2])])
        /\ run'[r].postExcess = SumOf([i \in Items |-> Excess(i[1], i[2])])]_recoveryVars

(* A restoration never represents a fact twice, and its row tells what the   *)
(* nearest earlier row told.                                                 *)
RestoresOnce ==
    [][added' # added => \A c \in direct' \ direct :
            c \notin observed /\ \E p \in Predecessor(c) : Fact[p] = Fact[c]]_recoveryVars

(* No receipt restores more than it had planned.                             *)
RestoresAsPlanned ==
    \A r \in Runs : \A i \in Items : receipt[r][i].restored <= receipt[r][i].candidates

(* The counters follow the receipts in a run that is paused, too.            *)
PausedIsAccounted ==
    \A r \in Runs : run[r].phase = "paused" =>
        run[r].ready = SumOf([i \in Items |-> Kept(receipt[r][i])])

(* If exact source proof is insufficient, quarantine (DECISIONS.md, Single-  *)
(* build historical provenance recovery, 6): a receipt counted as applied    *)
(* restored all it had planned.                                              *)
AppliedIsRestored ==
    \A r \in Runs : \A i \in Items :
        receipt[r][i].status = "applied" => receipt[r][i].restored = receipt[r][i].candidates
=============================================================================
