----------------------------- MODULE DayImport -----------------------------
(***************************************************************************)
(* What the import of one race day promises, without leases, invocations,  *)
(* checkpoints or time: the day is listed once, its races become handled   *)
(* one at a time and stay handled, and it is reported completed only when  *)
(* nothing that was listed is missing.  OfficialBackfill implements it for *)
(* one-day jobs (DayRefinement), the only ones the schedule runs.          *)
(***************************************************************************)
EXTENDS Integers

CONSTANTS MaxRaces,  \* bound: races on one day
          Unlisted   \* the day's calendar has not been archived

VARIABLES
    phase,    \* "absent", "running", "failed" or "completed"
    listed,   \* number of races of the day, or Unlisted
    handled   \* positions of the races that are handled

dayVars == <<phase, listed, handled>>

DayInit == phase = "absent" /\ listed = Unlisted /\ handled = {}

\* An operator or the schedule starts the day, or resumes it after a failure.
Begin == /\ phase \in {"absent", "failed"}
         /\ phase' = "running"
         /\ UNCHANGED <<listed, handled>>

List == /\ listed = Unlisted
        /\ listed' \in 0..MaxRaces
        /\ UNCHANGED <<phase, handled>>

\* A race is handled at any time, also by an invocation that comes late.
Handle == /\ \E i \in 0..MaxRaces : handled' = handled \union {i}
          /\ UNCHANGED <<phase, listed>>

Stop == /\ phase = "running"
        /\ phase' = "failed"
        /\ UNCHANGED <<listed, handled>>

Complete == /\ phase = "running"
            /\ listed # Unlisted
            /\ \A i \in 0..MaxRaces : i < listed => i \in handled
            /\ phase' = "completed"
            /\ UNCHANGED <<listed, handled>>

DayNext == Begin \/ List \/ Handle \/ Stop \/ Complete

DaySpec == DayInit /\ [][DayNext]_dayVars
=============================================================================
