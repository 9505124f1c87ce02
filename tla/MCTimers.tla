----------------------------- MODULE MCTimers ------------------------------
(***************************************************************************)
(* Small instances of Timers: one timer that reloads and one that does not.*)
(***************************************************************************)
EXTENDS Timers

CONSTANTS periodic, once

Timers == {periodic, once}
Periodic == {periodic}
Periods == [t \in Timers |-> IF t = periodic THEN 1 ELSE 3]
\* Only periodic is given another period or deleted.
Changes == [t \in Timers |-> IF t = periodic THEN {2} ELSE {}]
=============================================================================
