--------------------------- MODULE StatisticsBackfill ---------------------------
(***************************************************************************)
(* The statistics data backfill (statistics-data-backfill-v1.js): a step      *)
(* leases one due V85/V86 round, audits what is stored about it, repairs the  *)
(* closing market from the archived final game and replays Horse Form where   *)
(* they are missing, and writes what it found, its retry state and the time   *)
(* of the next check into the round's row.                                   *)
(*                                                                           *)
(* Steps are requested by an operator, for the round that is due or for one   *)
(* by name; they overlap, are cut off, and outlive their lease.              *)
(*                                                                           *)
(* Times in a row are kept relative to now: t is the number of ticks until it *)
(* comes.  A request keeps its times relative to the moment it began, which   *)
(* is the only moment it knows.  A tick outlasts a lease (4 min).             *)
(***************************************************************************)
EXTENDS Integers, FiniteSets

CONSTANTS
    Rounds,         \* past rounds with a registered system and eight legs, numbered
    Entries,        \* race entries of a round
    Priced,         \* the entries for which the archived final game has a market
    Lineages,       \* where the Form of a system comes from: [ref, verdict, covers]
    First,          \* the lineage of the system first registered
    Workers,        \* overlapping step requests
    Recheck, Reaudit, RetryBase, RetryCap,   \* 15 min, 24 h, 5 min, 6 h
    MaxFormRetries, MaxAuditRetries,                \* 4 and 4
    MaxCount,                     \* counts above it behave like it
    MaxAge,                       \* bound: ticks a request may take
    None,                         \* no value
    MaxChanges, MaxMishaps        \* bounds: changes of the facts; cuts, failed audits, overruns

\* covers: the active entries the replay at the lineage's own as-of time can rank.
ASSUME StatisticsAssumption ==
    /\ Rounds \subseteq Nat /\ IsFiniteSet(Rounds) /\ IsFiniteSet(Entries)
    /\ Priced \subseteq Entries
    /\ Lineages \subseteq [ref : Nat, verdict : {"audited", "invalid", "missing"},
                           covers : SUBSET Entries]
    /\ First \in Lineages
    /\ {Recheck, Reaudit, RetryBase, RetryCap} \subseteq Nat \ {0}
    /\ MaxFormRetries \in Nat \ {0} /\ MaxAuditRetries \in Nat \ {0}
    /\ MaxAge \in Nat /\ Recheck <= Reaudit /\ RetryCap <= Reaudit
    /\ MaxCount \in Nat /\ MaxCount >= MaxFormRetries /\ MaxCount >= MaxAuditRetries
    /\ RetryBase * 2 ^ (MaxCount - 1) >= RetryCap

\* NULL is neither a lease, the class of a failure nor the fingerprint of an input.
ASSUME NoneAssumption ==
    None \notin Workers \cup {"transient", "other", "terminal"}
                \cup (Lineages \X Nat \X Nat) \cup (BOOLEAN \X Nat \X Nat \X Nat)

VARIABLES
    \* the facts other jobs store
    results,     \* winners: "pending", "complete" or "ambiguous"
    final,       \* whether the final game result is stored
    known,       \* stored race entries
    active,      \* those not scratched
    version,     \* the latest change of an entry (updated_at)
    lineage,     \* of the primary system
    \* what the backfill stores
    market,      \* entries with a closing row of the final game
    snapshots,   \* analysis_entry_form_snapshots: <<ref, entry>>
    row,         \* statistics_data_backfill_rounds, or NoRow
    w,           \* what each request holds
    changes, mishaps   \* counted for the bounds

facts == <<results, final, known, active, version, lineage>>
vars == <<facts, market, snapshots, row, w, changes, mishaps>>

Idle == [pc |-> "idle"]
Smaller(a, b) == IF a <= b THEN a ELSE b

\* The delay before retry number n, doubled each time up to the cap.
RetryDelayUncapped(n) == RetryBase * 2 ^ (n - 1)
RetryDelay(n) == Smaller(RetryCap, RetryBase * 2 ^ (n - 1))
OneMore(n) == Smaller(n + 1, MaxCount)

(***************************************************************************)
(* The audit: what is stored, the state of each metric, and the fingerprints  *)
(* of the inputs of the two repairs.                                         *)
(***************************************************************************)
FormInput(a) == <<a.lineage, Cardinality(a.active), Cardinality(a.formed)>>
MarketInputByCounts(a) == <<a.final, Cardinality(a.active), Cardinality(a.closing), 0>>
MarketInput(a) == <<a.final, Cardinality(a.active), Cardinality(a.closing), a.version>>

Audit(r) ==
    [results |-> results[r], final |-> final[r], active |-> active[r],
     version |-> version[r], lineage |-> lineage[r],
     closing |-> IF final[r] THEN market[r] \cap active[r] ELSE {},
     formed |-> {e \in active[r] : <<lineage[r].ref, e>> \in snapshots[r]}]

MarketFound(a) ==
    CASE ~ a.final -> "pending"
      [] a.final /\ a.active = {} -> "unavailable"
      [] a.final /\ a.active # {} /\ a.closing = a.active -> "complete"
      [] OTHER -> "pending"

FormFound(a) ==
    CASE a.lineage.verdict = "audited" /\ a.active # {} /\ a.formed = a.active -> "complete"
      [] a.lineage.verdict = "invalid" -> "manual_review"
      [] a.lineage.verdict = "missing" -> "unavailable"
      [] OTHER -> "pending"

ResultFound(a) == IF a.results = "ambiguous" THEN "unavailable" ELSE a.results

(***************************************************************************)
(* The control of a repair: the retry state is carried over while its input   *)
(* is the one recorded, and starts afresh when the input has changed.        *)
(***************************************************************************)
Fresh == [status |-> "pending", input |-> None, terminal |-> None,
          retries |-> 0, retryAt |-> None]

Control(old, input, found) ==
    LET kept == IF old.input = input THEN old ELSE Fresh
    IN  CASE found = "pending" /\ kept.terminal = input ->
               [kept EXCEPT !.status = "manual_review", !.retryAt = None]
          [] found = "pending" /\ kept.terminal # input ->
               [kept EXCEPT !.status = "pending", !.input = input]
          [] OTHER -> [Fresh EXCEPT !.status = found, !.input = input]

\* A Form decided by its lineage alone is terminal for that lineage.
FormControl(old, a) ==
    LET c == Control(old, FormInput(a), FormFound(a))
    IN  IF c.status \in {"unavailable", "manual_review"}
        THEN [c EXCEPT !.terminal = FormInput(a)] ELSE c

MarketControl(old, a) == Control(old, MarketInput(a), MarketFound(a))

Blocked(c) == c.retryAt # None /\ c.retryAt > 0

Terminal(c) == [c EXCEPT !.status = "manual_review", !.terminal = c.input,
                         !.retries = 0, !.retryAt = None]
Retry(c) == [c EXCEPT !.status = "pending", !.retries = OneMore(@),
                      !.retryAt = RetryDelay(OneMore(c.retries))]

\* A generic failure of the replay is given up after MaxFormRetries attempts.
FailForm(c, class) ==
    IF class = "other" /\ c.retries + 1 >= MaxFormRetries THEN Terminal(c) ELSE Retry(c)

(***************************************************************************)
(* What the row says after a step.                                           *)
(***************************************************************************)
Metrics(a, form, mk) ==
    {ResultFound(a), IF a.final THEN "complete" ELSE "pending", form.status, mk.status}

RetryTimes(form, mk) ==
    {c.retryAt : c \in {d \in {form, mk} : d.status = "pending" /\ d.retryAt # None}}

WorkState(a, form, mk) ==
    LET found == Metrics(a, form, mk)
    IN  CASE RetryTimes(form, mk) # {} -> "retryable"
          [] RetryTimes(form, mk) = {} /\ "pending" \in found -> "waiting"
          [] "pending" \notin found /\ (a.results = "ambiguous" \/ "manual_review" \in found)
               -> "manual_review"
          [] found = {"complete"} -> "complete"
          [] OTHER -> "complete_with_gaps"

NextCheck(a, form, mk) ==
    CASE RetryTimes(form, mk) # {} ->
           CHOOSE t \in RetryTimes(form, mk) : \A u \in RetryTimes(form, mk) : t <= u
      [] WorkState(a, form, mk) = "waiting" -> Recheck
      [] OTHER -> Reaudit

\* From a request's moment to now; a time past stays past.
Since(t, age) == IF t = None THEN None ELSE IF t < age THEN 0 ELSE t - age
ToRow(c, age) == [c EXCEPT !.retryAt = Since(@, age)]

\* What a row shows of the facts.
Shown(r) == [results |-> results[r], final |-> final[r], active |-> active[r]]
ShownBy(a) == [results |-> a.results, final |-> a.final, active |-> a.active]

NoRow == [work |-> "none"]
NewRow ==
    [work |-> "waiting", next |-> 0, token |-> None, live |-> FALSE, audits |-> 0,
     form |-> Fresh, market |-> Fresh, shown |-> None]

Init ==
    /\ results = [r \in Rounds |-> "pending"]
    /\ known \in [Rounds -> SUBSET Entries] /\ active = known
    /\ final \in [Rounds -> BOOLEAN]
    /\ version = [r \in Rounds |-> 0]
    /\ lineage = [r \in Rounds |-> First]
    /\ market \in [Rounds -> SUBSET Priced]
    /\ \A r \in Rounds : /\ market[r] \subseteq known[r] /\ (~ final[r] => market[r] = {})
                         /\ active[r] # {}
    /\ snapshots = [r \in Rounds |-> {}]
    /\ row = [r \in Rounds |-> NoRow]
    /\ w = [k \in Workers |-> Idle]
    /\ changes = 0 /\ mishaps = 0

Stored == {r \in Rounds : row[r] # NoRow}

(***************************************************************************)
(* A step.  Every request first queues the eligible rounds it does not know.  *)
(***************************************************************************)
Queued == [r \in Rounds |-> IF row[r] = NoRow THEN NewRow ELSE row[r]]

LeaseFree(q) == ~ q.live
Rank(q) == CASE q.work = "retryable" -> 0 [] q.work = "waiting" -> 1 [] OTHER -> 2

Due == {r \in Rounds : Queued[r].next <= 0 /\ LeaseFree(Queued[r])}

\* The order of two due rounds.
Before(q, r) ==
    \/ Rank(Queued[q]) < Rank(Queued[r])
    \/ /\ Rank(Queued[q]) = Rank(Queued[r])
       /\ \/ Queued[q].next < Queued[r].next
          \/ Queued[q].next = Queued[r].next /\ q < r

\* The lease is taken, and the row is read under it.  A request that another one
\* overtakes between choosing a round and leasing it is like one for a named round.
Begin(k, r) ==
    /\ w[k] = Idle /\ LeaseFree(Queued[r])
    /\ row' = [Queued EXCEPT ![r].token = k, ![r].live = TRUE]
    /\ w' = [w EXCEPT ![k] = [pc |-> "audit", round |-> r, age |-> 0,
                              old |-> Queued[r].form, oldMarket |-> Queued[r].market]]
    /\ UNCHANGED <<facts, market, snapshots, changes, mishaps>>

BeginNext(k) == \E r \in Due : /\ \A q \in Due \ {r} : Before(r, q)
                               /\ Begin(k, r)
BeginNamed(k) == \E r \in Rounds : Begin(k, r)

HoldsUnfenced(k) == TRUE
Holds(k) == row[w[k].round].token = k

\* The Form is looked at after the market, always from the row as it was read.
Proceed(m, a, mk) ==
    LET f == FormControl(m.old, a)
    IN  [pc |-> IF FormFound(a) = "pending" /\ f.status = "pending" /\ ~ Blocked(f)
                THEN "replay" ELSE "persist",
         round |-> m.round, age |-> m.age, old |-> m.old,
         audit |-> a, mk |-> mk, form |-> f, class |-> None]

FirstAudit(k) ==
    LET a == Audit(w[k].round)
        mk == MarketControl(w[k].oldMarket, a)
    IN  /\ w[k].pc = "audit"
        /\ w' = [w EXCEPT ![k] =
                   IF /\ a.final /\ MarketFound(a) = "pending"
                      /\ mk.status = "pending" /\ ~ Blocked(mk)
                   THEN [pc |-> "repair", round |-> @.round, age |-> @.age, old |-> @.old,
                         oldMarket |-> @.oldMarket, audit |-> a, mk |-> mk]
                   ELSE Proceed(@, a, mk)]
        /\ UNCHANGED <<facts, market, snapshots, row, changes, mishaps>>

\* The repair writes row after row and refuses an archived start it cannot match.
RepairMarket(k) ==
    LET r == w[k].round
        missing == (Priced \cap known[r]) \ market[r]
    IN  /\ w[k].pc = "repair"
        /\ \E S \in SUBSET missing :
             /\ market' = [market EXCEPT ![r] = @ \cup S]
             /\ \/ w' = [w EXCEPT ![k] = Proceed(@, @.audit, Retry(@.mk))]
                \/ /\ ~ (Priced \subseteq known[r])
                   /\ w' = [w EXCEPT ![k] = Proceed(@, @.audit, Terminal(@.mk))]
                \/ S = missing /\ Priced \subseteq known[r] /\ w' = [w EXCEPT ![k].pc = "repaired"]
        /\ UNCHANGED <<facts, snapshots, row, changes, mishaps>>

\* A repair that ran through is audited again; what it left open it cannot close.
AfterRepair(k) ==
    LET a == Audit(w[k].round)
        mk == MarketControl(w[k].oldMarket, a)
    IN  /\ w[k].pc = "repaired"
        /\ w' = [w EXCEPT ![k] =
                   Proceed(@, a, IF MarketFound(a) = "complete" THEN mk ELSE Terminal(mk))]
        /\ UNCHANGED <<facts, market, snapshots, row, changes, mishaps>>

\* The replay inserts snapshots in groups and fails before, between or after them;
\* a pack that no longer comes out the same, or has no entries, is terminal.
ReplayForm(k) ==
    LET r == w[k].round
        ref == w[k].audit.lineage.ref
        missing == {<<ref, e>> : e \in w[k].audit.lineage.covers \cap active[r]} \ snapshots[r]
        Fails(class, f) == w' = [w EXCEPT ![k].pc = "persist", ![k].class = class, ![k].form = f]
    IN  /\ w[k].pc = "replay"
        /\ \E S \in SUBSET missing :
             /\ snapshots' = [snapshots EXCEPT ![r] = @ \cup S]
             /\ \/ \E class \in {"transient", "other"} : Fails(class, FailForm(w[k].form, class))
                \/ S = {} /\ Fails("terminal", Terminal(w[k].form))
                \/ S = missing /\ w' = [w EXCEPT ![k].pc = "replayed"]
        /\ UNCHANGED <<facts, market, row, changes, mishaps>>

AfterReplay(k) ==
    LET a == Audit(w[k].round)
    IN  /\ w[k].pc = "replayed"
        /\ w' = [w EXCEPT ![k].pc = "persist", ![k].audit = a, ![k].form = FormControl(w[k].old, a)]
        /\ UNCHANGED <<facts, market, snapshots, row, changes, mishaps>>

\* One fenced update; a lost lease ends the step without a trace.
Recorded(k) ==
    LET m == w[k]
    IN  [work |-> WorkState(m.audit, m.form, m.mk),
         next |-> Since(NextCheck(m.audit, m.form, m.mk), m.age),
         token |-> None, live |-> FALSE, audits |-> 0,
         form |-> ToRow(m.form, m.age), market |-> ToRow(m.mk, m.age), shown |-> ShownBy(m.audit)]

Persist(k) ==
    /\ w[k].pc = "persist"
    /\ row' = IF Holds(k) THEN [row EXCEPT ![w[k].round] = Recorded(k)] ELSE row
    /\ w' = [w EXCEPT ![k] = Idle]
    /\ UNCHANGED <<facts, market, snapshots, changes, mishaps>>

\* The audit itself, or the final write, fails: recorded under the same fence.
FailAudit(k) ==
    LET r == w[k].round
        n == OneMore(row[r].audits)
    IN  /\ w[k].pc \in {"audit", "persist"}
        /\ mishaps < MaxMishaps /\ mishaps' = mishaps + 1
        /\ \E ineligible \in BOOLEAN :
             LET ends == ineligible \/ n >= MaxAuditRetries
             IN  row' = IF ~ Holds(k) THEN row ELSE
                    [row EXCEPT ![r].work = IF ends THEN "manual_review" ELSE "retryable",
                                ![r].audits = n,
                                ![r].next = Since(IF ends THEN Reaudit ELSE RetryDelay(n), w[k].age),
                                ![r].token = None, ![r].live = FALSE]
        /\ w' = [w EXCEPT ![k] = Idle]
        /\ UNCHANGED <<facts, market, snapshots, changes>>

Cut(k) ==
    /\ w[k] # Idle
    /\ mishaps < MaxMishaps /\ mishaps' = mishaps + 1
    /\ w' = [w EXCEPT ![k] = Idle]
    /\ UNCHANGED <<facts, market, snapshots, row, changes>>

(***************************************************************************)
(* The facts, as the other jobs change them.                                 *)
(***************************************************************************)
Change == changes < MaxChanges /\ changes' = changes + 1

StoreWinners(r) ==
    /\ Change
    /\ \E v \in {"complete", "ambiguous"} \ {results[r]} : results' = [results EXCEPT ![r] = v]
    /\ UNCHANGED <<final, known, active, version, lineage, market, snapshots, row, w, mishaps>>

\* Settlement stores the closing market of the final game first.
StoreFinal(r) ==
    /\ Change
    /\ ~ final[r] /\ Priced \subseteq known[r]
    /\ final' = [final EXCEPT ![r] = TRUE]
    /\ market' = [market EXCEPT ![r] = Priced]
    /\ UNCHANGED <<results, known, active, version, lineage, snapshots, row, w, mishaps>>

\* An entry is stored, scratched, or no longer scratched.
ChangeEntry(r) ==
    /\ Change
    /\ \E e \in Entries :
         /\ known' = [known EXCEPT ![r] = @ \cup {e}]
         /\ active' = [active EXCEPT ![r] = IF e \in @ THEN @ \ {e} ELSE @ \cup {e}]
    /\ version' = [version EXCEPT ![r] = @ + 1]
    /\ UNCHANGED <<results, final, lineage, market, snapshots, row, w, mishaps>>

\* A newer external run becomes the primary system; its export froze the Form.
RegisterSystem(r) ==
    /\ Change
    /\ \E l \in Lineages \ {lineage[r]} :
         /\ lineage' = [lineage EXCEPT ![r] = l]
         /\ snapshots' = [snapshots EXCEPT ![r] = @ \cup {<<l.ref, e>> : e \in l.covers \cap active[r]}]
    /\ UNCHANGED <<results, final, known, active, version, market, row, w, mishaps>>

NearerControl(c) == [c EXCEPT !.retryAt = Since(@, 1)]

PassTime ==
    /\ \A k \in Workers : w[k] # Idle => w[k].age < MaxAge
    /\ IF \E k \in Workers : w[k] # Idle
       THEN mishaps < MaxMishaps /\ mishaps' = mishaps + 1 ELSE UNCHANGED mishaps
    /\ row' = [r \in Rounds |-> IF row[r] = NoRow THEN NoRow ELSE
                 [row[r] EXCEPT !.next = Since(@, 1),
                                !.live = FALSE,
                                !.form = NearerControl(@), !.market = NearerControl(@)]]
    /\ w' = [k \in Workers |-> IF w[k] = Idle THEN Idle ELSE [w[k] EXCEPT !.age = @ + 1]]
    /\ UNCHANGED <<facts, market, snapshots, changes>>

Step(k) ==
    \/ FirstAudit(k) \/ RepairMarket(k) \/ AfterRepair(k)
    \/ ReplayForm(k) \/ AfterReplay(k) \/ Persist(k)

Next ==
    \/ \E k \in Workers : BeginNext(k) \/ BeginNamed(k) \/ Step(k) \/ FailAudit(k) \/ Cut(k)
    \/ \E r \in Rounds : StoreWinners(r) \/ StoreFinal(r) \/ ChangeEntry(r) \/ RegisterSystem(r)
    \/ PassTime

Spec == Init /\ [][Next]_vars

(***************************************************************************)
(* Properties                                                                *)
(***************************************************************************)
Statuses == {"pending", "complete", "unavailable", "manual_review"}

\* Types of the row; a retry is never further away than the cap.
TypeOK ==
    \A r \in Stored :
        /\ row[r].work \in {"waiting", "retryable", "manual_review", "complete", "complete_with_gaps"}
        /\ row[r].next \in 0 .. Reaudit /\ row[r].token \in Workers \cup {None}
        /\ row[r].audits \in 0 .. MaxCount
        /\ \A c \in {row[r].form, row[r].market} :
               c.status \in Statuses /\ c.retries \in 0 .. MaxCount
                   /\ c.retryAt \in 0 .. RetryCap \cup {None}

\* A terminal decision of Form or closing market stands while its input is the one
\* decided on (DECISIONS: unchanged terminal input is not replayed), and a generic
\* failure of one input counts or decides: overlapping requests, expired leases and
\* failed audits never forget or overwrite it, and the holder of the lease never
\* replays what is decided.
Stands(c, d) ==
    c.terminal # None /\ d.terminal # c.terminal =>
        d.input # c.terminal \/ d.status \in {"complete", "unavailable"}

Counts(c, d) == d.input = c.input => d.status = "manual_review" \/ d.retries > c.retries

DecisionsStand ==
    [][/\ \A r \in Stored : /\ Stands(row[r].form, row'[r].form)
                            /\ Stands(row[r].market, row'[r].market)
       /\ \A k \in Workers : LET c == row[w[k].round].form IN
              /\ ReplayForm(k) /\ Holds(k) => w[k].form.input # c.terminal
              /\ Persist(k) /\ Holds(k) /\ w[k].class = "other" =>
                     Counts(c, row'[w[k].round].form)]_vars

\* A closing market that the row gives up is one the archived game cannot close:
\* as long as the recorded input is the current one, an active entry has no price
\* or an archived start no entry - although the input was read before the repair,
\* entries come and go meanwhile, and a repair that failed left rows behind.
GivenUpRightly ==
    \A r \in Stored :
        row[r].market.terminal = MarketInput(Audit(r)) /\ MarketFound(Audit(r)) = "pending"
            => ~ (active[r] \subseteq Priced /\ Priced \subseteq known[r])

\* DECISIONS: retries are delayed, no hot-looping.  A step never leaves a row that is
\* due at once.
RetriesAreDelayed ==
    [][\A k \in Workers : Persist(k) /\ Holds(k) /\ w[k].age = 0 =>
           row'[w[k].round].next > 0]_vars
=================================================================================
