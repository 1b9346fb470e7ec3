---------------------------- MODULE RoundClosing ----------------------------
(***************************************************************************)
(* What the settlement of saved rounds promises, without batches, leases,  *)
(* budgets, retries or single results: the payout of a round is stored     *)
(* after a moment at which every leg had one winner, and over a complete   *)
(* closing market; the round is closed over its payout and the X-Labs job  *)
(* of its date; and what is closed stays closed.  A round that a person    *)
(* has to look at waits for that person; one closed before payouts were    *)
(* kept may be opened again, until it has one.                             *)
(***************************************************************************)
CONSTANT Rounds

VARIABLES
    stage,    \* round -> "open", "review" or "closed"
    decided,  \* rounds that, at some moment, had one winner in every leg
    market,   \* rounds with a complete closing market
    payout,   \* rounds whose final result is stored
    queued    \* rounds whose date has had its X-Labs job queued

closingVars == <<stage, decided, market, payout, queued>>

\* The rounds closed in earlier days have their winners and nothing else.
ClosingInit ==
    /\ stage \in [Rounds -> {"open", "closed"}]
    /\ decided = {r \in Rounds : stage[r] = "closed"}
    /\ market = {} /\ payout = {} /\ queued = {}

\* The last leg of a round gets its one winner, in whatever stage the round is;
\* a later correction does not undo the moment.
Decide(r) ==
    /\ decided' = decided \union {r}
    /\ UNCHANGED <<stage, market, payout, queued>>

Repair(r) ==
    /\ r \in decided
    /\ market' = market \union {r}
    /\ UNCHANGED <<stage, decided, payout, queued>>

StorePayout(r) ==
    /\ r \in decided /\ r \in market
    /\ payout' = payout \union {r}
    /\ UNCHANGED <<stage, decided, market, queued>>

Queue(r) ==
    /\ r \in payout
    /\ queued' = queued \union {r}
    /\ UNCHANGED <<stage, decided, market, payout>>

Close(r) ==
    /\ stage[r] = "open" /\ r \in payout /\ r \in queued
    /\ stage' = [stage EXCEPT ![r] = "closed"]
    /\ UNCHANGED <<decided, market, payout, queued>>

\* A result nobody can tell, or one that came too late for its batch.
Review(r) ==
    /\ stage[r] = "open"
    /\ stage' = [stage EXCEPT ![r] = "review"]
    /\ UNCHANGED <<decided, market, payout, queued>>

\* The rounds closed without a payout are opened again together.
Reopen(S) ==
    /\ \A r \in S : stage[r] = "closed" /\ r \notin payout
    /\ stage' = [r \in Rounds |-> IF r \in S THEN "open" ELSE stage[r]]
    /\ UNCHANGED <<decided, market, payout, queued>>

ClosingNext ==
    \/ \E r \in Rounds : \/ Decide(r) \/ Repair(r) \/ StorePayout(r) \/ Queue(r)
                         \/ Close(r) \/ Review(r)
    \/ \E S \in SUBSET Rounds : Reopen(S)

ClosingSpec == ClosingInit /\ [][ClosingNext]_closingVars
=============================================================================
