------------------------------- MODULE Mutex -------------------------------
(***************************************************************************)
(* The mutexes of queue.c, the priority inheritance of tasks.c and the     *)
(* task switches between the tasks that use them.                          *)
(*                                                                         *)
(* A mutex is a queue of length one with nothing in it: its message is     *)
(* there exactly when pxMutexHolder is NULL, both change in one critical   *)
(* section, and nobody waits to send.  Interrupt handlers do not use       *)
(* mutexes, so what a task does from vTaskSuspendAll to xTaskResumeAll     *)
(* is one step here: nobody else can see the mutex meanwhile.              *)
(*                                                                         *)
(* Which task runs is exact: a switch happens where the code yields and    *)
(* at a tick, and nowhere else.  Among ready tasks of the same priority    *)
(* any may be switched in.  Time is abstract, as in Queue.                 *)
(*                                                                         *)
(* A task takes a mutex it does not hold, gives one it holds, and is not   *)
(* deleted meanwhile.                                                      *)
(*                                                                         *)
(* WaitWithoutInheriting and the like are faulty forms of the operators    *)
(* after them, to see that a property notices.                             *)
(***************************************************************************)
EXTENDS Lists, FiniteSets

CONSTANTS Task, Idle, NoTask,
          Mutex,
          MaxPriorities,    \* configMAX_PRIORITIES
          InitialPriority,  \* [Task -> Priority]
          NewPriorities,    \* [Task -> the priorities vTaskPrioritySet gives it]
          Limits            \* the time limits of xSemaphoreTake

Priority == 0 .. MaxPriorities - 1
AppTask == Task \ {Idle}

ASSUME MutexAssumption ==
    /\ IsFiniteSet(Task) /\ Idle \in Task /\ NoTask \notin Task
    /\ IsFiniteSet(Mutex)
    /\ MaxPriorities \in Nat \ {0}
    /\ InitialPriority \in [Task -> Priority] /\ InitialPriority[Idle] = 0
    /\ NewPriorities \in [Task -> SUBSET Priority] /\ NewPriorities[Idle] = {}
    /\ Limits \subseteq {"none", "limited", "forever"}

\* "out": in its own code.  "look", "block", "recheck": in xQueueGenericReceive.
\* "delay": in vTaskDelay.
PC == {"out", "look", "block", "recheck", "delay"}

VARIABLES
    pxCurrentTCB,
    uxPriority, uxBasePriority,  \* [Task -> Priority]: with and without inheritance
    uxMutexesHeld,               \* [Task -> number]
    eventValue,                  \* [Task -> xItemValue of xEventListItem]
    pxMutexHolder,               \* [Mutex -> task or NoTask]
    xTasksWaitingToReceive,      \* [Mutex -> sequence of tasks]
    blocked,                     \* [Task -> BOOLEAN]: not in a ready list
    pc,
    target,                      \* [Task -> the mutexes of its call]: one or none
    wait,                        \* [Task -> its time limit], "expired" once it has passed
    changed,                     \* history: a base priority was set while some task had to
                                 \* do with a mutex, and one still has
    missed                       \* history: a mutex was given without a switch to the most
                                 \* urgent task, and some task has to do with a mutex since

priorityVars == <<uxPriority, uxBasePriority, eventValue>>
mutexVars == <<pxMutexHolder, uxMutexesHeld, xTasksWaitingToReceive>>
callVars == <<pc, target, wait>>
historyVars == <<changed, missed>>
vars == <<pxCurrentTCB, priorityVars, mutexVars, blocked, callVars, historyVars>>

At(t, where) == pxCurrentTCB = t /\ pc[t] = where
Goto(t, where) == pc' = [pc EXCEPT ![t] = where] /\ UNCHANGED <<target, wait>>

Enter(t, where, mutexes, limit) ==
    /\ pc' = [pc EXCEPT ![t] = where]
    /\ target' = [target EXCEPT ![t] = mutexes]
    /\ wait' = [wait EXCEPT ![t] = limit]

Return(t) == Enter(t, "out", {}, "none")

Held(t) == {m \in Mutex : pxMutexHolder[m] = t}
Involved(t) == Held(t) # {} \/ target[t] # {}
SomeInvolved == \E t \in Task : Involved(t)
KeepHistory == changed' = (changed /\ SomeInvolved') /\ missed' = (missed /\ SomeInvolved')

\* The value of an event list item: the most urgent first.
Urgency(priority) == MaxPriorities - priority
-----------------------------------------------------------------------------
(* Task switches.                                                          *)

MostUrgent == {t \in Task : ~blocked[t] /\ \A u \in Task : ~blocked[u] => uxPriority[u] <= uxPriority[t]}

\* The processor is never left to a task while a more urgent one is ready: "a context
\* switch should occur when the last mutex is returned whether a task is waiting on it
\* or not" (tasks.c:3844).
RunningIsMostUrgent == pxCurrentTCB \in MostUrgent

\* vTaskSwitchContext, at the end of the step, when the code yields.
Switch(yields) ==
    IF yields THEN pxCurrentTCB' \in MostUrgent' ELSE UNCHANGED pxCurrentTCB

\* More than one task is ready at the priority of the one that runs.
Sharing == \E t \in Task \ {pxCurrentTCB} : ~blocked[t] /\ uxPriority[t] = uxPriority[pxCurrentTCB]
-----------------------------------------------------------------------------
(* xSemaphoreTake.                                                         *)

Take(t, m, limit) ==
    /\ At(t, "out") /\ t # Idle
    /\ pxMutexHolder[m] # t
    /\ Enter(t, "look", {m}, limit)
    /\ UNCHANGED <<pxCurrentTCB, priorityVars, mutexVars, blocked, historyVars>>

\* The critical section at the top of the loop.
TakeNow(t, m) ==
    /\ At(t, "look") /\ m \in target[t] /\ pxMutexHolder[m] = NoTask
    /\ pxMutexHolder' = [pxMutexHolder EXCEPT ![m] = t]
    /\ uxMutexesHeld' = [uxMutexesHeld EXCEPT ![t] = @ + 1]
    /\ Return(t)
    /\ UNCHANGED <<pxCurrentTCB, priorityVars, xTasksWaitingToReceive, blocked, historyVars>>

NotNow(t, m) ==
    /\ At(t, "look") /\ m \in target[t] /\ pxMutexHolder[m] # NoTask
    /\ IF wait[t] = "none" THEN Return(t) ELSE Goto(t, "block")
    /\ UNCHANGED <<pxCurrentTCB, priorityVars, mutexVars, blocked>>
    /\ KeepHistory

\* With the scheduler suspended: the mutex was given meanwhile, or the time has passed.
DoNotWait(t, m) ==
    /\ At(t, "block") /\ m \in target[t]
    /\ \/ wait[t] = "expired" /\ Goto(t, "recheck")
       \/ wait[t] # "expired" /\ pxMutexHolder[m] = NoTask /\ Goto(t, "look")
    /\ UNCHANGED <<pxCurrentTCB, priorityVars, mutexVars, blocked, historyVars>>

\* vTaskPriorityInherit: wherever h is, its priority and its event item are raised.
vTaskPriorityInherit(h, t) ==
    IF uxPriority[h] < uxPriority[t]
    THEN /\ uxPriority' = [uxPriority EXCEPT ![h] = uxPriority[t]]
         /\ eventValue' = [eventValue EXCEPT ![h] = Urgency(uxPriority[t])]
    ELSE UNCHANGED <<uxPriority, eventValue>>

Place(t, m) ==
    /\ At(t, "block") /\ m \in target[t]
    /\ wait[t] # "expired" /\ pxMutexHolder[m] # NoTask
    /\ xTasksWaitingToReceive' = [xTasksWaitingToReceive EXCEPT ![m] = InsertSorted(@, eventValue, t)]
    /\ blocked' = [blocked EXCEPT ![t] = TRUE]
    /\ Goto(t, "look")
    /\ UNCHANGED <<uxBasePriority, pxMutexHolder, uxMutexesHeld, historyVars>>

\* vTaskPlaceOnEventList, xTaskResumeAll, portYIELD_WITHIN_API.
WaitWithoutInheriting(t, m) ==
    Place(t, m) /\ UNCHANGED <<uxPriority, eventValue>> /\ Switch(TRUE)

Wait(t, m) == Place(t, m) /\ vTaskPriorityInherit(pxMutexHolder[m], t) /\ Switch(TRUE)

Recheck(t, m) ==
    /\ At(t, "recheck") /\ m \in target[t]
    /\ IF pxMutexHolder[m] # NoTask THEN Return(t) ELSE Goto(t, "look")
    /\ UNCHANGED <<pxCurrentTCB, priorityVars, mutexVars, blocked>>
    /\ KeepHistory
-----------------------------------------------------------------------------
(* xSemaphoreGive.                                                         *)

\* xTaskPriorityDisinherit returns to the base priority with the last mutex.
DisinheritsAlways(t) == uxPriority[t] # uxBasePriority[t]
DisinheritsLate(t) == uxPriority[t] # uxBasePriority[t] /\ uxMutexesHeld[t] = 0
Disinherits(t) == uxPriority[t] # uxBasePriority[t] /\ uxMutexesHeld[t] = 1

DisinheritUncounted(t) == UNCHANGED <<priorityVars, uxMutexesHeld>>

xTaskPriorityDisinherit(t) ==
    /\ uxMutexesHeld' = [uxMutexesHeld EXCEPT ![t] = @ - 1]
    /\ IF Disinherits(t)
       THEN /\ uxPriority' = [uxPriority EXCEPT ![t] = uxBasePriority[t]]
            /\ eventValue' = [eventValue EXCEPT ![t] = Urgency(uxBasePriority[t])]
       ELSE UNCHANGED <<uxPriority, eventValue>>
    /\ UNCHANGED uxBasePriority

\* The mutex goes to nobody: the first waiter is made ready to try again.  With a
\* waiter only its priority decides on the yield, not what xTaskPriorityDisinherit says.
Give(t, m) ==
    LET waiters == xTasksWaitingToReceive[m]
        first == Head(waiters)
    IN  /\ At(t, "out") /\ pxMutexHolder[m] = t
        /\ xTaskPriorityDisinherit(t)
        /\ pxMutexHolder' = [pxMutexHolder EXCEPT ![m] = NoTask]
        /\ \/ /\ waiters # <<>>
              /\ xTasksWaitingToReceive' = [xTasksWaitingToReceive EXCEPT ![m] = Tail(@)]
              /\ blocked' = [blocked EXCEPT ![first] = FALSE]
              /\ Switch(uxPriority'[first] > uxPriority'[t])
           \/ /\ waiters = <<>>
              /\ UNCHANGED <<xTasksWaitingToReceive, blocked>>
              /\ Switch(Disinherits(t))
        /\ UNCHANGED callVars
        /\ changed' = (changed /\ SomeInvolved')
        /\ missed' = ((missed \/ ~RunningIsMostUrgent') /\ SomeInvolved')
-----------------------------------------------------------------------------
(* The other calls, and the tick.                                          *)

vTaskDelay(t) ==
    /\ At(t, "out") /\ t # Idle
    /\ Enter(t, "delay", {}, "limited")
    /\ blocked' = [blocked EXCEPT ![t] = TRUE]
    /\ UNCHANGED <<priorityVars, mutexVars, historyVars>>
    /\ Switch(TRUE)

\* vTaskPrioritySet leaves an inherited priority alone, and changes an event item
\* where it stands.
SetsPriority(u) == uxBasePriority[u] = uxPriority[u]

vTaskPrioritySet(t, u, p) ==
    /\ At(t, "out") /\ t # Idle /\ p # uxBasePriority[u]
    /\ uxPriority' = IF SetsPriority(u) THEN [uxPriority EXCEPT ![u] = p] ELSE uxPriority
    /\ uxBasePriority' = [uxBasePriority EXCEPT ![u] = p]
    /\ eventValue' = [eventValue EXCEPT ![u] = Urgency(p)]
    /\ changed' = (changed \/ SomeInvolved)
    /\ UNCHANGED missed
    /\ UNCHANGED <<mutexVars, blocked, callVars>>
    /\ Switch(IF p > uxBasePriority[u] THEN u # t /\ p >= uxPriority[t] ELSE u = t)

\* A tick at which the time of u comes.  A task that is switched out, not blocked, sees
\* it later.
TimePasses(u) ==
    /\ wait[u] = "limited"
    /\ IF pc[u] = "delay" THEN Return(u) ELSE Enter(u, pc[u], target[u], "expired")
    /\ blocked' = [blocked EXCEPT ![u] = FALSE]
    /\ xTasksWaitingToReceive' = [m \in Mutex |-> Without(xTasksWaitingToReceive[m], u)]
    /\ UNCHANGED <<priorityVars, pxMutexHolder, uxMutexesHeld, historyVars>>
    /\ Switch(Sharing \/ (blocked[u] /\ uxPriority[u] >= uxPriority[pxCurrentTCB]))

\* A tick at which nothing is due.
TimeSlice ==
    /\ Sharing
    /\ UNCHANGED <<priorityVars, mutexVars, blocked, callVars, historyVars>>
    /\ Switch(TRUE)
-----------------------------------------------------------------------------
Init ==
    /\ uxPriority = InitialPriority /\ uxBasePriority = InitialPriority
    /\ uxMutexesHeld = [t \in Task |-> 0]
    /\ eventValue = [t \in Task |-> Urgency(InitialPriority[t])]
    /\ pxMutexHolder = [m \in Mutex |-> NoTask]
    /\ xTasksWaitingToReceive = [m \in Mutex |-> <<>>]
    /\ blocked = [t \in Task |-> FALSE]
    /\ pc = [t \in Task |-> "out"]
    /\ target = [t \in Task |-> {}]
    /\ wait = [t \in Task |-> "none"]
    /\ changed = FALSE /\ missed = FALSE
    /\ pxCurrentTCB \in MostUrgent

\* A task goes on in the call it is in.
Proceed(t) ==
    \E m \in Mutex : TakeNow(t, m) \/ NotNow(t, m) \/ DoNotWait(t, m) \/ Wait(t, m) \/ Recheck(t, m)

Next ==
    \/ \E t \in Task : Proceed(t) \/ vTaskDelay(t) \/ TimePasses(t)
    \/ \E t \in Task, m \in Mutex : Give(t, m) \/ \E limit \in Limits : Take(t, m, limit)
    \/ \E t, u \in Task : \E p \in NewPriorities[u] : vTaskPrioritySet(t, u, p)
    \/ TimeSlice

Spec == Init /\ [][Next]_vars

\* A task that can run again and again goes on in its call or gives a mutex back, and
\* time passes.
Fairness ==
    \A t \in AppTask :
        SF_vars(Proceed(t) \/ \E m \in Mutex : Give(t, m)) /\ WF_vars(TimePasses(t))

FairSpec == Spec /\ Fairness
-----------------------------------------------------------------------------
TypeOK ==
    /\ pxCurrentTCB \in Task
    /\ uxPriority \in [Task -> Priority] /\ uxBasePriority \in [Task -> Priority]
    /\ uxMutexesHeld \in [Task -> 0 .. Cardinality(Mutex)]
    /\ eventValue \in [Task -> 1 .. MaxPriorities]
    /\ pxMutexHolder \in [Mutex -> AppTask \cup {NoTask}]
    /\ xTasksWaitingToReceive \in [Mutex -> Seq(AppTask)]
    /\ blocked \in [Task -> BOOLEAN] /\ ~blocked[Idle]
    /\ pc \in [Task -> PC]
    /\ target \in [Task -> SUBSET Mutex]
    /\ wait \in [Task -> {"none", "limited", "forever", "expired"}]
    /\ changed \in BOOLEAN /\ missed \in BOOLEAN

\* A holder is no less urgent than the tasks that wait for it, by their own priorities:
\* the priority a waiter inherits while it waits is not passed on.  A vTaskPrioritySet
\* breaks it, and so does a task that goes on after xSemaphoreGive although a more urgent
\* one is ready: it may take again a mutex that others wait for, and inherits nothing.
HolderInherits ==
    \A m \in Mutex : \A i \in DOMAIN xTasksWaitingToReceive[m] :
        LET h == pxMutexHolder[m]
            w == xTasksWaitingToReceive[m][i]
        IN  h # NoTask /\ ~changed /\ ~missed => uxPriority[h] >= uxBasePriority[w]

\* Whatever was inherited, and whether or not the wait for it timed out, is gone with
\* the last mutex, in whatever order they are given and whatever vTaskPrioritySet did.
RaisedOnlyWhileHolding ==
    \A t \in Task :
        /\ uxMutexesHeld[t] = Cardinality(Held(t))
        /\ uxMutexesHeld[t] = 0 =>
             uxPriority[t] = uxBasePriority[t] /\ eventValue[t] = Urgency(uxBasePriority[t])

\* No task has to do with two mutexes.
OneAtATime == \A t \in Task : Cardinality(Held(t) \cup target[t]) <= 1

\* The task above all others waits without a time limit.
TopWaits ==
    \E t \in AppTask :
        /\ \A u \in Task \ {t} : uxBasePriority[u] < uxBasePriority[t]
        /\ wait[t] = "forever"

\* No unbounded priority inversion: the most urgent task gets the mutex it waits for,
\* although a task between it and the holder may never block, where mutexes are held
\* one at a time, no priority is set meanwhile and no switch is missed.
MostUrgentServed ==
    <>[](OneAtATime /\ ~changed /\ RunningIsMostUrgent) => (TopWaits ~> ~TopWaits)
=============================================================================
