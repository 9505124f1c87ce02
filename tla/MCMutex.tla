------------------------------ MODULE MCMutex ------------------------------
(***************************************************************************)
(* A small instance of Mutex: the idle task and three others.              *)
(***************************************************************************)
EXTENDS Mutex

CONSTANTS idle, low, middle, high, m1, m2

Tasks == {idle, low, middle, high}
Mutexes == {m1, m2}
Priorities == [t \in Tasks |-> CASE t = idle -> 0 [] t = low -> 1 [] t = middle -> 2 [] t = high -> 3]

\* Only low is raised to the priority of middle and lowered again.
LowChanges == [t \in Tasks |-> IF t = low THEN {1, 2} ELSE {}]
NoChanges == [t \in Tasks |-> {}]

(* Time limits of all tasks together with changes of priority are more     *)
(* than a liveness check can go through in minutes.  In one behaviour any  *)
(* wait may have a limit and no priority is set, in another one priorities *)
(* are set and only high waits with a limit.                               *)
VARIABLE uses

MutexInit == Init /\ uses \in {"limits", "priorities"}

MutexNext ==
    /\ Next /\ UNCHANGED uses
    /\ uses = "limits" \/ \A t \in Task \ {high} : wait'[t] = "limited" => pc'[t] = "delay"
    /\ uses = "priorities" \/ UNCHANGED uxBasePriority

MutexSpec == MutexInit /\ [][MutexNext]_<<vars, uses>> /\ Fairness
=============================================================================
