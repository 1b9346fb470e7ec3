----------------------------- MODULE SnapshotStore -----------------------------
(***************************************************************************)
(* Official horse and person snapshots of one partition (one entity and     *)
(* scope of one family) as import/official-snapshots.js keeps them.  Every   *)
(* captured source tells one fact of the partition.  A source that changes   *)
(* the fact owns a snapshot row; a source that repeats the latest earlier    *)
(* row is kept as an observation of that row.  As-of readers see both, each  *)
(* at the time its own source was fetched.                                   *)
(*                                                                           *)
(* Sources are named by the time they were fetched, so a source may be       *)
(* normalized, and imported, after a later one.  A row is named by the       *)
(* source that owns it (its id is derived from the entity and the source).   *)
(***************************************************************************)
EXTENDS Naturals, FiniteSets

CONSTANTS
    Sources,     \* captured official sources, by the time they were fetched
    Legacy,      \* those imported before observations existed
    Facts,       \* the values a source may tell
    Importers,   \* overlapping invocations of the promotion
    MaxMishaps   \* bound on invocations that are cut off

NoSource == 0
Refs == Sources \cup {NoSource}

ASSUME SourcesAssumption ==
    /\ Sources \subseteq Nat \ {0}
    /\ IsFiniteSet(Sources)
    /\ Legacy \subseteq Sources
    /\ MaxMishaps \in Nat

VARIABLES
    fact,       \* what each source tells
    normalized, \* sources whose capture has been normalized
    rows,       \* owners of the snapshot rows
    obs,        \* the row the observation of a source refers to
    sync,       \* official_snapshot_source_sync of each source
    imports,    \* each invocation: the source it works on and how far it is
    mishaps     \* invocations cut off so far

data == <<rows, obs, sync>>
storeVars == <<fact, normalized, rows, obs, sync, imports, mishaps>>

Idle == [at |-> "idle", source |-> NoSource, target |-> NoSource]

Steps == {"idle", "look", "insert", "observe", "verify", "complete", "failed"}

StoreTypeOK ==
    /\ fact \in [Sources -> Facts]
    /\ normalized \in SUBSET Sources
    /\ rows \in SUBSET Sources
    /\ obs \in [Sources -> Refs]
    /\ sync \in [Sources -> {"none", "complete", "failed"}]
    /\ imports \in [Importers -> [at: Steps, source: Refs, target: Refs]]
    /\ \A i \in Importers : imports[i].at # "idle" => imports[i].source \in Sources
    /\ \A i \in Importers : imports[i].at \in {"insert", "observe"} => imports[i].target \in Sources
    /\ mishaps \in 0..MaxMishaps

(* Legacy sources own a row each, equal facts or not, and no observation.    *)
StoreInit ==
    /\ fact \in [Sources -> Facts]
    /\ normalized = Legacy
    /\ rows = Legacy
    /\ obs = [s \in Sources |-> NoSource]
    /\ sync = [s \in Sources |-> IF s \in Legacy THEN "complete" ELSE "none"]
    /\ imports = [i \in Importers |-> Idle]
    /\ mishaps = 0

-----------------------------------------------------------------------------
(* Reading.                                                                  *)

IsLatest(s, S) == s \in S /\ \A o \in S : o <= s

UpTo(S, t) == {s \in S : s <= t}

(* The rows that represent a source, and what they tell of it.               *)
RowsOf(s) == rows \cap {s, obs[s]}

Represented(s) == RowsOf(s) # {}

Told(s) == {fact[r] : r \in RowsOf(s)}

Complete == {s \in Sources : sync[s] = "complete"}

(* What the as-of readers answer for a cutoff: the latest event at or before *)
(* it whose own source is complete.                                          *)
AsOf(t) ==
    UNION {Told(s) : s \in {e \in Sources :
        IsLatest(e, UpTo({c \in Complete : Represented(c)}, t))}}

(* An observation that points back at the row its own source owns is not     *)
(* counted a second time.                                                    *)
CountsAlone(s) == obs[s] # NoSource /\ ~ (obs[s] = s /\ s \in rows)

SourceCount(s) ==
    (IF s \in rows THEN 1 ELSE 0) + (IF CountsAlone(s) THEN 1 ELSE 0)

-----------------------------------------------------------------------------
(* One invocation of the promotion.                                          *)

Normalize(s) ==
    /\ s \notin normalized
    /\ normalized' = normalized \cup {s}
    /\ UNCHANGED <<fact, rows, obs, sync, imports, mishaps>>

Pick(i) ==
    /\ imports[i].at = "idle"
    /\ \E s \in normalized :
        /\ sync[s] = "none"
        /\ \A o \in normalized : sync[o] = "none" => s <= o
        /\ imports' = [imports EXCEPT ![i] = [at |-> "look", source |-> s, target |-> NoSource]]
    /\ UNCHANGED <<fact, normalized, rows, obs, sync, mishaps>>

\* Mutant: the latest row is reused whatever it tells.
LookTrustsLatest(i) ==
    LET s == imports[i].source
        previous == {r \in rows : IsLatest(r, UpTo(rows, s))}
    IN  /\ imports[i].at = "look"
        /\ \/ /\ previous = {}
              /\ imports' = [imports EXCEPT ![i].at = "insert", ![i].target = s]
           \/ \E r \in previous :
                imports' = [imports EXCEPT ![i].at = "observe", ![i].target = r]
        /\ UNCHANGED <<fact, normalized, rows, obs, sync, mishaps>>

(* The latest row at or before the source, complete or not, is reused when   *)
(* it tells the same.                                                        *)
Look(i) ==
    LET s == imports[i].source
        previous == {r \in rows : IsLatest(r, UpTo(rows, s)) /\ fact[r] = fact[s]}
    IN  /\ imports[i].at = "look"
        /\ \/ /\ previous = {}
              /\ imports' = [imports EXCEPT ![i].at = "insert", ![i].target = s]
           \/ \E r \in previous :
                imports' = [imports EXCEPT ![i].at = "observe", ![i].target = r]
        /\ UNCHANGED <<fact, normalized, rows, obs, sync, mishaps>>

InsertRow(i) ==
    /\ imports[i].at = "insert"
    /\ rows' = rows \cup {imports[i].source}
    /\ imports' = [imports EXCEPT ![i].at = "observe"]
    /\ UNCHANGED <<fact, normalized, obs, sync, mishaps>>

(* INSERT OR IGNORE; an ignored insert must find the very observation.       *)
Observe(i) ==
    LET s == imports[i].source
        target == imports[i].target
    IN  /\ imports[i].at = "observe"
        /\ obs' = IF obs[s] = NoSource THEN [obs EXCEPT ![s] = target] ELSE obs
        /\ imports' = [imports EXCEPT ![i].at = IF obs'[s] = target THEN "verify" ELSE "failed"]
        /\ UNCHANGED <<fact, normalized, rows, sync, mishaps>>

Verify(i) ==
    /\ imports[i].at = "verify"
    /\ imports' = [imports EXCEPT ![i].at =
                        IF SourceCount(imports[i].source) = 1 THEN "complete" ELSE "failed"]
    /\ UNCHANGED <<fact, normalized, rows, obs, sync, mishaps>>

MarkSource(i) ==
    /\ imports[i].at \in {"complete", "failed"}
    /\ sync' = [sync EXCEPT ![imports[i].source] = imports[i].at]
    /\ imports' = [imports EXCEPT ![i] = Idle]
    /\ UNCHANGED <<fact, normalized, rows, obs, mishaps>>

(* A refused read or write inside the try marks the source failed.           *)
ImportFails(i) ==
    /\ imports[i].at \in {"look", "insert", "observe", "verify"}
    /\ mishaps < MaxMishaps
    /\ mishaps' = mishaps + 1
    /\ imports' = [imports EXCEPT ![i].at = "failed"]
    /\ UNCHANGED <<fact, normalized, rows, obs, sync>>

(* The invocation ends without reaching its catch.                           *)
ImportCut(i) ==
    /\ imports[i].at # "idle"
    /\ mishaps < MaxMishaps
    /\ mishaps' = mishaps + 1
    /\ imports' = [imports EXCEPT ![i] = Idle]
    /\ UNCHANGED <<fact, normalized, rows, obs, sync>>

(* Steps that write nothing the cleanup fences.                              *)
ImportReads(i) == Pick(i) \/ Look(i) \/ Verify(i) \/ ImportFails(i) \/ ImportCut(i)

-----------------------------------------------------------------------------
(* Whatever represents a source tells what the source itself told: a later   *)
(* import, a rewired observation or a removed row never makes an as-of       *)
(* answer carry another source's value.                                      *)
EventsKeepFacts == \A s \in Sources : Told(s) \subseteq {fact[s]}
=============================================================================
