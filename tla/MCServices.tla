---------------------------- MODULE MCServices -----------------------------
(***************************************************************************)
(* Small instances of the services above the scheduler.  They have no      *)
(* state in common: a behaviour is one of a single service, chosen at the  *)
(* start, and the others stay in their initial state.                      *)
(***************************************************************************)
EXTENDS Timers, EventGroups, Heap4, Waits

CONSTANTS periodic, once, m1, m2, m3, visitor

Timers == {periodic, once}
Periodic == {periodic}
Periods == [t \in Timers |-> IF t = periodic THEN 1 ELSE 3]
\* Only periodic is given another period or deleted.
Changes == [t \in Timers |-> IF t = periodic THEN {2} ELSE {}]

Members == {m1, m2, m3}
OwnBits == [m \in Members |-> CASE m = m1 -> {0} [] m = m2 -> {1} [] m = m3 -> {2}]

VARIABLE service

ServicesInit ==
    /\ service \in {"timers", "event group", "heap", "waits"}
    /\ Init /\ GroupInit /\ HeapInit /\ WaitInit
    /\ service # "waits" => instant = 0 /\ xTimeIncrement = 1

ServicesNext ==
    \/ service = "timers" /\ Next /\ UNCHANGED <<groupVars, heapVars, waitVars, service>>
    \/ service = "event group" /\ GroupNext /\ UNCHANGED <<vars, heapVars, waitVars, service>>
    \/ service = "heap" /\ HeapNext /\ UNCHANGED <<vars, groupVars, waitVars, service>>
    \/ service = "waits" /\ WaitNext /\ UNCHANGED <<vars, groupVars, heapVars, service>>

(* The timer task has the highest priority and runs whenever it can; a     *)
(* member of the event group that can run runs, and calls again.           *)
ServicesSpec ==
    /\ ServicesInit /\ [][ServicesNext]_<<vars, groupVars, heapVars, waitVars, service>>
    /\ WF_vars(service = "timers" /\ prvTimerTask)
    /\ \A m \in Member : WF_groupVars(service = "event group" /\ GroupTaskStep(m))

(* RoundsInStep, of the behaviours that are those of the event group.      *)
GroupRoundsInStep ==
    (service = "event group" /\ AllFinished(0)) ~> (AllFinished(1) \/ deleted)
=============================================================================
