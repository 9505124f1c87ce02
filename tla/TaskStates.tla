----------------------------- MODULE TaskStates -----------------------------
(***************************************************************************)
(* What the scheduler promises of each task, with no lists and no          *)
(* absolute times: the states of the task diagram, the ticks a sleeping    *)
(* task has left, whether it waits for an event, and who runs.  Module     *)
(* Tasks implements this specification.                                    *)
(***************************************************************************)
EXTENDS Integers

CONSTANTS Task, Idle, MaxSleep,
          Initial      \* the tasks there are when the scheduler starts

VARIABLES state,       \* "none", "ready", "asleep", "suspended", "deleted"
          left,        \* ticks until a sleeping task times out, 0 for the others
          event,       \* the event it waits for: "none", "waiting", "posted"
          running

absVars == <<state, left, event, running>>

AbsInit ==
    /\ state = [t \in Task |-> IF t \in Initial THEN "ready" ELSE "none"]
    /\ left = [t \in Task |-> 0]
    /\ event = [t \in Task |-> "none"]
    /\ running \in Initial

\* Task t is now in state s, with nothing left to wait for.
Becomes(t, s) ==
    /\ state' = [state EXCEPT ![t] = s]
    /\ left' = [left EXCEPT ![t] = 0]
    /\ event' = [event EXCEPT ![t] = "none"]

\* Only the running task blocks, and it says for how long.
Sleep(t, n, e) ==
    /\ t = running /\ state[t] = "ready" /\ t # Idle
    /\ state' = [state EXCEPT ![t] = "asleep"]
    /\ left' = [left EXCEPT ![t] = n]
    /\ event' = [event EXCEPT ![t] = e]

\* Without a time limit it is suspended until the event.
WaitForever(t) ==
    /\ t = running /\ state[t] = "ready" /\ t # Idle
    /\ state' = [state EXCEPT ![t] = "suspended"]
    /\ event' = [event EXCEPT ![t] = "waiting"]
    /\ UNCHANGED left

\* The event may be posted, or the task resumed, while the scheduler is suspended:
\* it becomes ready later.
Posted(t) ==
    /\ event[t] = "waiting" \/ (state[t] = "suspended" /\ event[t] = "none")
    /\ event' = [event EXCEPT ![t] = "posted"]
    /\ UNCHANGED <<state, left>>

\* It wakes for its event or when its time has come, and for nothing else.
WakeUp(t) ==
    /\ state[t] \in {"asleep", "suspended"}
    /\ event[t] # "none" \/ (state[t] = "asleep" /\ left[t] = 0)
    /\ Becomes(t, "ready")

Resume(t) == state[t] = "suspended" /\ event[t] = "none" /\ Becomes(t, "ready")

Suspend(t) ==
    /\ state[t] \in {"ready", "asleep", "suspended"} /\ t # Idle
    /\ Becomes(t, "suspended")

Delete(t) ==
    /\ state[t] \in {"ready", "asleep", "suspended"} /\ t # Idle
    /\ Becomes(t, IF t = running THEN "deleted" ELSE "none")

Free(t) == state[t] = "deleted" /\ t # running /\ Becomes(t, "none")

Create(t) == state[t] = "none" /\ Becomes(t, "ready")

\* One tick is counted.  Nobody oversleeps: whoever has no tick left woke before.
CountTick ==
    /\ \A t \in Task : state[t] = "asleep" => left[t] > 0
    /\ left' = [t \in Task |-> IF state[t] = "asleep" THEN left[t] - 1 ELSE left[t]]
    /\ UNCHANGED <<state, event>>

Change(t) ==
    \/ \E n \in 1 .. MaxSleep, e \in {"none", "waiting"} : Sleep(t, n, e)
    \/ WaitForever(t) \/ Posted(t) \/ WakeUp(t) \/ Resume(t) \/ Suspend(t) \/ Delete(t)
    \/ Free(t) \/ Create(t)

\* Whoever is switched in is ready.
Switch == running' = running \/ state'[running'] = "ready"

AbsNext ==
    /\ \/ CountTick
       \/ \E t \in Task : Change(t)
       \/ UNCHANGED <<state, left, event>>
    /\ Switch

AbsSpec == AbsInit /\ [][AbsNext]_absVars
=============================================================================
