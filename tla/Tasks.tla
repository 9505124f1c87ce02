------------------------------- MODULE Tasks -------------------------------
(***************************************************************************)
(* The scheduler of FreeRTOS v9 (tasks.c) as the N200 port runs it.        *)
(*                                                                         *)
(* One processor runs either the task pxCurrentTCB or the tick interrupt.  *)
(* pc[t] is where the code of task t stands between two points at which    *)
(* something else may run: an interrupt may come between any two steps     *)
(* while interrupts are enabled (uxCriticalNesting = 0), and another task  *)
(* may run after a yield.  A critical section is one step, except that     *)
(* xTaskResumeAll and xTaskIncrementTick take one step per list item they  *)
(* move and one per tick they replay.                                      *)
(*                                                                         *)
(* portYIELD is an ECALL that switches at once, also inside a critical     *)
(* section, and neither uxCriticalNesting nor the ECLIC threshold is part  *)
(* of the context it saves (port.c, portasm.S): the task that is switched  *)
(* in runs with the nesting of the one that yielded.                       *)
(*                                                                         *)
(* Priorities are base priorities: inheritance belongs to the mutexes.     *)
(*                                                                         *)
(* An operator whose name says what is wrong with it (BeginTickNoSwitch)   *)
(* is a faulty form of the one after it, to see that a property notices.   *)
(***************************************************************************)
EXTENDS Lists, FiniteSets

CONSTANTS Task,              \* every task there can be, prvIdleTask included
          Idle,              \* the idle task, of priority 0
          NoTask,
          MaxPriorities,     \* configMAX_PRIORITIES
          InitialReady,      \* [Priority -> sequence of tasks]: the ready lists that the
                             \* xTaskCreate calls before vTaskStartScheduler leave
          TickModulus,       \* the width of TickType_t: 2^32 in the code
          MaxPendedTicks,    \* bound: ticks that arrive in one scheduler suspension
          MaxSuspendNesting, \* bound: nested vTaskSuspendAll calls
          MaxLeak,           \* bound: uxCriticalNesting when a task inside a critical
                             \* section is deleted, which leaves it raised for good
          Calls              \* the groups of API calls the application makes

Priority == 0 .. MaxPriorities - 1
Tick == 0 .. TickModulus - 1
portMAX_DELAY == TickModulus - 1
AppTask == Task \ {Idle}

CallGroups == {"delay", "event", "suspend", "priority", "create", "delete",
               "suspendAll", "yield"}

ASSUME TasksAssumption ==
    /\ NoTask \notin Task
    /\ MaxPriorities \in Nat \ {0}
    /\ InitialReady \in [Priority -> Seq(Task)]
    /\ \A p, q \in Priority : \A i \in DOMAIN InitialReady[p], j \in DOMAIN InitialReady[q] :
         InitialReady[p][i] = InitialReady[q][j] => p = q /\ i = j
    /\ \E i \in DOMAIN InitialReady[0] : InitialReady[0][i] = Idle
    /\ TickModulus \in Nat \ {0, 1}
    /\ MaxPendedTicks \in Nat /\ MaxSuspendNesting \in Nat \ {0}
    /\ MaxLeak \in Nat
    /\ Calls \subseteq CallGroups

\* Where a task stands.  "run": in its own code, ready to call the API.
\* "block": a blocking call made vTaskSuspendAll, nothing is blocked yet.
\* "resumeAll": about to call xTaskResumeAll.  "drain", "drained", "replay",
\* "leave": inside xTaskResumeAll.  "newTCB", "insert", "compare": inside
\* xTaskCreate.  "reset": inside vTaskSuspend.  "freed": inside vTaskDelete, after
\* prvDeleteTCB.  "clean": prvIdleTask found a task to clean up.  "freeStack",
\* "freeTCB": about to call vPortFree.  "yield": about to call
\* portYIELD_WITHIN_API.  "exit": about to leave a critical section in which it
\* yielded.  "none": no such task.
PC == {"none", "run", "block", "resumeAll", "drain", "drained", "replay", "leave",
       "newTCB", "insert", "compare", "reset", "freed", "clean", "freeStack", "freeTCB",
       "yield", "exit"}

VARIABLES
    pxReadyTasksLists, \* [Priority -> list with a pxIndex]
    delayed,           \* pxDelayedTaskList
    overflow,          \* pxOverflowDelayedTaskList
    pending,           \* xPendingReadyList (event items)
    suspended,         \* xSuspendedTaskList; its order is never read
    terminating,       \* xTasksWaitingTermination
    waiting,           \* one event list, such as the xTasksWaitingToReceive of a queue
    uxPriority,        \* [Task -> Priority]
    wake,              \* [Task -> Tick], xItemValue of xStateListItem
    pxCurrentTCB,
    uxTopReadyPriority,
    uxSchedulerSuspended,
    xTickCount,
    xNextTaskUnblockTime,
    uxPendedTicks,
    xYieldPending,
    uxDeletedTasksWaitingCleanUp,
    uxCriticalNesting,
    pc,
    ret,               \* [Task -> where the call under way returns to]
    created,           \* [Task -> the task its xTaskCreate made, while "compare"]
    inTick,            \* where xTaskIncrementTick stands: "no", "unblock", "slice"
    xSwitchRequired,   \* its local variable
    replayed,          \* uxPendedCounts of xTaskResumeAll
    elapsed            \* history: the ticks the timer delivered, modulo TickModulus

readyVars == <<pxReadyTasksLists, uxTopReadyPriority>>
blockedLists == <<delayed, overflow, suspended>>
eventLists == <<pending, waiting>>
deletionVars == <<terminating, uxDeletedTasksWaitingCleanUp>>
taskVars == <<uxPriority, wake, created>>
switchVars == <<pxCurrentTCB, xYieldPending>>
control == <<pc, ret>>
tickVars == <<xTickCount, uxPendedTicks, inTick, xSwitchRequired, replayed, elapsed>>
vars == <<readyVars, blockedLists, eventLists, deletionVars, taskVars, switchVars,
          control, tickVars, uxSchedulerSuspended, uxCriticalNesting,
          xNextTaskUnblockTime>>

\* t runs, its code stands at `where`, and no interrupt handler is running.
At(t, where) == t = pxCurrentTCB /\ pc[t] = where /\ inTick = "no"

Live(u) == pc[u] # "none" /\ ~Contains(terminating, u)

Goto(t, where) == pc' = [pc EXCEPT ![t] = where] /\ UNCHANGED ret
Call(t, where, back) == pc' = [pc EXCEPT ![t] = where] /\ ret' = [ret EXCEPT ![t] = back]
Return(t) == pc' = [pc EXCEPT ![t] = ret[t]] /\ ret' = [ret EXCEPT ![t] = "run"]
-----------------------------------------------------------------------------
(* The ready lists, and vTaskSwitchContext.                                *)

\* uxListRemove of the state item of u, when it is in a ready list.
NotReady(u) == [p \in Priority |-> Unlink(pxReadyTasksLists[p], u)]

\* prvAddTaskToReadyList, after the state item left the list it was in.
ReadyAtOldPriority(u, p) == [NotReady(u) EXCEPT ![uxPriority[u]] = InsertEnd(@, u)]
ReadyAt(u, p) == [NotReady(u) EXCEPT ![p] = InsertEnd(@, u)]
Record(p) == IF p > uxTopReadyPriority THEN p ELSE uxTopReadyPriority

\* The rest of moving u to the ready state: its state item leaves its old list.
LeaveBlocked(u) ==
    /\ delayed' = Without(delayed, u)
    /\ overflow' = Without(overflow, u)
    /\ suspended' = suspended \ {u}

LeaveOnlyPending(u) ==
    /\ pending' = Without(pending, u)
    /\ UNCHANGED waiting

LeaveEventLists(u) ==
    /\ pending' = Without(pending, u)
    /\ waiting' = Without(waiting, u)

\* The loop of taskSELECT_HIGHEST_PRIORITY_TASK.
HighestReady(lists, top) == Max({p \in 0 .. top : lists[p].items # <<>>})

\* No switch: the lists take their new value and the task goes on.
GoOn(lists, top) ==
    /\ pxReadyTasksLists' = lists
    /\ uxTopReadyPriority' = top
    /\ UNCHANGED pxCurrentTCB

\* vTaskSwitchContext, on the ready lists and the top priority its caller leaves.
SwitchContext(lists, top) ==
    \/ /\ uxSchedulerSuspended # 0
       /\ xYieldPending' = TRUE
       /\ GoOn(lists, top)
    \/ /\ uxSchedulerSuspended = 0
       /\ xYieldPending' = FALSE
       /\ LET p == HighestReady(lists, top)
          IN  /\ pxReadyTasksLists' = [lists EXCEPT ![p] = Advance(@)]
              /\ pxCurrentTCB' = lists[p].items[NextIndex(lists[p])]
              /\ uxTopReadyPriority' = p

\* The end of a critical section that yields, or not, before it is left.  The
\* task that yields leaves it only when it runs again ("exit").
EndCriticalNoYield(t, lists, top, yields) ==
    /\ GoOn(lists, top)
    /\ UNCHANGED <<xYieldPending, uxCriticalNesting, control>>

EndCriticalEarlyExit(t, lists, top, yields) ==
    /\ IF yields THEN SwitchContext(lists, top) /\ Call(t, "exit", "run")
       ELSE GoOn(lists, top) /\ UNCHANGED <<xYieldPending, control>>
    /\ UNCHANGED uxCriticalNesting

EndCritical(t, lists, top, yields) ==
    \/ /\ yields
       /\ SwitchContext(lists, top)
       /\ uxCriticalNesting' = uxCriticalNesting + 1
       /\ Call(t, "exit", "run")
    \/ /\ ~yields
       /\ GoOn(lists, top)
       /\ UNCHANGED <<xYieldPending, uxCriticalNesting, control>>

ExitCritical(t) ==
    /\ At(t, "exit")
    /\ uxCriticalNesting > 0
    /\ uxCriticalNesting' = uxCriticalNesting - 1
    /\ Return(t)
    /\ UNCHANGED <<readyVars, blockedLists, eventLists, deletionVars, taskVars, switchVars,
                   tickVars, uxSchedulerSuspended, xNextTaskUnblockTime>>

\* portYIELD_WITHIN_API at the end of a blocking call, outside critical sections.
YieldWithinAPI(t) ==
    /\ At(t, "yield")
    /\ SwitchContext(pxReadyTasksLists, uxTopReadyPriority)
    /\ Goto(t, "run")
    /\ UNCHANGED <<blockedLists, eventLists, deletionVars, taskVars, tickVars,
                   uxSchedulerSuspended, uxCriticalNesting, xNextTaskUnblockTime>>

\* taskYIELD, which is also vTaskDelay(0).
TaskYield(t) ==
    /\ At(t, "run") /\ t # Idle /\ "yield" \in Calls
    /\ SwitchContext(pxReadyTasksLists, uxTopReadyPriority)
    /\ UNCHANGED <<blockedLists, eventLists, deletionVars, taskVars, tickVars, control,
                   uxSchedulerSuspended, uxCriticalNesting, xNextTaskUnblockTime>>
-----------------------------------------------------------------------------
(* The tick.                                                               *)

\* The head of the delayed list is the next task to wake.
NextUnblockNever(list) == portMAX_DELAY
NextUnblock(list) == IF list = <<>> THEN portMAX_DELAY ELSE wake[Head(list)]

\* xTaskIncrementTick up to its loop.
BeginTickNoSwitch ==
    /\ xTickCount' = (xTickCount + 1) % TickModulus
    /\ inTick' = IF xTickCount' >= xNextTaskUnblockTime THEN "unblock" ELSE "slice"
    /\ xSwitchRequired' = FALSE
    /\ UNCHANGED <<delayed, overflow, xNextTaskUnblockTime>>

BeginTick ==
    LET now == (xTickCount + 1) % TickModulus
    IN  /\ xTickCount' = now
        /\ IF now = 0
           THEN /\ delayed' = overflow /\ overflow' = delayed
                /\ xNextTaskUnblockTime' = NextUnblock(overflow)
           ELSE UNCHANGED <<delayed, overflow, xNextTaskUnblockTime>>
        /\ inTick' = IF now >= xNextTaskUnblockTime' THEN "unblock" ELSE "slice"
        /\ xSwitchRequired' = FALSE

\* The timer interrupt: eclic_mtip_handler, vPortSysTickHandler.
TickInterrupt ==
    /\ uxCriticalNesting = 0 /\ inTick = "no"
    /\ elapsed' = (elapsed + 1) % TickModulus
    /\ \/ /\ uxSchedulerSuspended = 0
          /\ BeginTick
          /\ UNCHANGED uxPendedTicks
       \/ /\ uxSchedulerSuspended # 0
          /\ uxPendedTicks < MaxPendedTicks
          /\ uxPendedTicks' = uxPendedTicks + 1
          /\ UNCHANGED <<xTickCount, delayed, overflow, xNextTaskUnblockTime, inTick,
                         xSwitchRequired>>
    /\ UNCHANGED <<readyVars, suspended, eventLists, deletionVars, taskVars, switchVars,
                   control, replayed, uxSchedulerSuspended, uxCriticalNesting>>

\* The time of the first delayed task has come.
DueLate == delayed # <<>> /\ xTickCount > wake[Head(delayed)]
Due == delayed # <<>> /\ xTickCount >= wake[Head(delayed)]

\* One turn of the loop of xTaskIncrementTick.
TickUnblock ==
    /\ inTick = "unblock"
    /\ \/ /\ ~Due
          /\ xNextTaskUnblockTime' = NextUnblock(delayed)
          /\ inTick' = "slice"
          /\ UNCHANGED <<readyVars, blockedLists, eventLists, xSwitchRequired>>
       \/ /\ Due
          /\ LET u == Head(delayed)
             IN  /\ LeaveBlocked(u)
                 /\ LeaveEventLists(u)
                 /\ pxReadyTasksLists' = ReadyAt(u, uxPriority[u])
                 /\ uxTopReadyPriority' = Record(uxPriority[u])
                 /\ xSwitchRequired' =
                      (xSwitchRequired \/ uxPriority[u] >= uxPriority[pxCurrentTCB])
          /\ UNCHANGED <<xNextTaskUnblockTime, inTick>>
    /\ UNCHANGED <<deletionVars, taskVars, switchVars, control, xTickCount, uxPendedTicks,
                   replayed, elapsed, uxSchedulerSuspended, uxCriticalNesting>>

\* Another task is ready at the priority of the running one: time slicing.
NeverSharing == FALSE
Sharing == Len(pxReadyTasksLists[uxPriority[pxCurrentTCB]].items) > 1

\* The end of xTaskIncrementTick and what its caller does with the result: the
\* interrupt handler yields, xTaskResumeAll notes it and replays the next tick.
TickSlice ==
    LET required == xSwitchRequired \/ Sharing \/ xYieldPending
    IN  /\ inTick = "slice"
        /\ inTick' = "no"
        /\ xSwitchRequired' = FALSE
        /\ \/ /\ pc[pxCurrentTCB] # "replay" /\ required
              /\ SwitchContext(pxReadyTasksLists, uxTopReadyPriority)
              /\ UNCHANGED <<control, uxPendedTicks>>
           \/ /\ pc[pxCurrentTCB] # "replay" /\ ~required
              /\ UNCHANGED <<readyVars, switchVars, control, uxPendedTicks>>
           \/ /\ pc[pxCurrentTCB] = "replay"
              /\ xYieldPending' = required
              /\ IF replayed = 0
                 THEN uxPendedTicks' = 0 /\ Goto(pxCurrentTCB, "leave")
                 ELSE UNCHANGED <<uxPendedTicks, control>>
              /\ UNCHANGED <<readyVars, pxCurrentTCB>>
        /\ UNCHANGED <<blockedLists, eventLists, deletionVars, taskVars, xTickCount,
                       replayed, elapsed, uxSchedulerSuspended, uxCriticalNesting,
                       xNextTaskUnblockTime>>
-----------------------------------------------------------------------------
(* xTaskResumeAll.  Its critical section takes several steps: uxCriticalNesting *)
(* is raised over them, and no interrupt comes.                                 *)

EnterResumeAll(t) ==
    /\ At(t, "resumeAll")
    /\ uxSchedulerSuspended > 0
    /\ uxSchedulerSuspended' = uxSchedulerSuspended - 1
    /\ \/ /\ uxSchedulerSuspended = 1
          /\ uxCriticalNesting' = uxCriticalNesting + 1
          /\ Goto(t, "drain")
       \/ /\ uxSchedulerSuspended > 1
          /\ Return(t)
          /\ UNCHANGED uxCriticalNesting
    /\ UNCHANGED <<readyVars, blockedLists, eventLists, deletionVars, taskVars, switchVars,
                   tickVars, xNextTaskUnblockTime>>

\* Both items of the task leave their lists, before it is added to a ready list.
Drain(t) ==
    /\ At(t, "drain") \/ At(t, "drained")
    /\ pending # <<>>
    /\ LET u == Head(pending)
       IN  /\ LeaveEventLists(u)
           /\ LeaveBlocked(u)
           /\ GoOn(ReadyAt(u, uxPriority[u]), Record(uxPriority[u]))
           /\ xYieldPending' = (xYieldPending \/ uxPriority[u] >= uxPriority[t])
    /\ Goto(t, "drained")
    /\ UNCHANGED <<deletionVars, taskVars, tickVars, uxSchedulerSuspended,
                   uxCriticalNesting, xNextTaskUnblockTime>>

\* The loop stops when nobody is left to move, and the ticks are replayed if there
\* are any.
DrainedOnce == TRUE
Drained == pending = <<>>
ReplayAlways == "replay"
AfterDrain == IF uxPendedTicks > 0 THEN "replay" ELSE "leave"

DrainEnd(t) ==
    /\ At(t, "drain") \/ At(t, "drained")
    /\ Drained
    /\ xNextTaskUnblockTime' = IF pc[t] = "drained" THEN NextUnblock(delayed)
                               ELSE xNextTaskUnblockTime
    /\ replayed' = uxPendedTicks
    /\ Goto(t, AfterDrain)
    /\ UNCHANGED <<readyVars, blockedLists, eventLists, deletionVars, taskVars, switchVars,
                   xTickCount, uxPendedTicks, inTick, xSwitchRequired, elapsed,
                   uxSchedulerSuspended, uxCriticalNesting>>

\* One turn of the do-while loop: xTaskIncrementTick for a tick that was pended.
ReplayTickUncounted(t) ==
    /\ At(t, "replay")
    /\ BeginTick
    /\ UNCHANGED <<readyVars, suspended, eventLists, deletionVars, taskVars, switchVars,
                   control, uxPendedTicks, replayed, elapsed, uxSchedulerSuspended,
                   uxCriticalNesting>>

ReplayTick(t) ==
    /\ At(t, "replay")
    /\ BeginTick
    /\ replayed' = replayed - 1
    /\ UNCHANGED <<readyVars, suspended, eventLists, deletionVars, taskVars, switchVars,
                   control, uxPendedTicks, elapsed, uxSchedulerSuspended, uxCriticalNesting>>

\* A call that yielded here does not yield again (xAlreadyYielded).
LeaveResumeAll(t) ==
    /\ At(t, "leave")
    /\ \/ /\ xYieldPending
          /\ SwitchContext(pxReadyTasksLists, uxTopReadyPriority)
          /\ Call(t, "exit", IF ret[t] = "yield" THEN "run" ELSE ret[t])
          /\ UNCHANGED uxCriticalNesting
       \/ /\ ~xYieldPending
          /\ uxCriticalNesting' = uxCriticalNesting - 1
          /\ Return(t)
          /\ UNCHANGED <<readyVars, switchVars>>
    /\ UNCHANGED <<blockedLists, eventLists, deletionVars, taskVars, tickVars,
                   uxSchedulerSuspended, xNextTaskUnblockTime>>

\* vTaskSuspendAll, at the start of a call of the kernel that continues at
\* `where`, or that goes to xTaskResumeAll and returns to `back`.
SuspendAllThen(t, where, back) ==
    /\ uxSchedulerSuspended' = uxSchedulerSuspended + 1
    /\ Call(t, where, back)
    /\ UNCHANGED <<readyVars, blockedLists, eventLists, deletionVars, taskVars, switchVars,
                   tickVars, uxCriticalNesting, xNextTaskUnblockTime>>

\* The application calls vTaskSuspendAll and xTaskResumeAll.
vTaskSuspendAll(t) ==
    /\ At(t, "run") /\ t # Idle /\ "suspendAll" \in Calls
    /\ uxSchedulerSuspended < MaxSuspendNesting
    /\ SuspendAllThen(t, "run", "run")

xTaskResumeAll(t) ==
    /\ At(t, "run") /\ t # Idle /\ uxSchedulerSuspended > 0
    /\ Goto(t, "resumeAll")
    /\ UNCHANGED <<readyVars, blockedLists, eventLists, deletionVars, taskVars, switchVars,
                   tickVars, uxSchedulerSuspended, uxCriticalNesting, xNextTaskUnblockTime>>
-----------------------------------------------------------------------------
(* Blocking.                                                               *)

\* A task that holds the scheduler suspended must not block: configASSERT.
BlockingCall(t) ==
    /\ At(t, "run") /\ t # Idle /\ uxSchedulerSuspended = 0
    /\ {"delay", "event"} \cap Calls # {}
    /\ SuspendAllThen(t, "block", "yield")

\* prvAddCurrentTaskToDelayedList.
AddCurrentToDelayedList(t, ticks, canBlockIndefinitely) ==
    /\ pxReadyTasksLists' = NotReady(t)
    /\ IF ticks = portMAX_DELAY /\ canBlockIndefinitely
       THEN /\ suspended' = suspended \cup {t}
            /\ UNCHANGED <<delayed, overflow, wake, xNextTaskUnblockTime>>
       ELSE /\ wake' = [wake EXCEPT ![t] = (xTickCount + ticks) % TickModulus]
            /\ IF wake'[t] < xTickCount
               THEN /\ overflow' = InsertSorted(overflow, wake', t)
                    /\ UNCHANGED <<delayed, xNextTaskUnblockTime>>
               ELSE /\ delayed' = InsertSorted(delayed, wake', t)
                    /\ xNextTaskUnblockTime' = Min({wake'[t], xNextTaskUnblockTime})
                    /\ UNCHANGED overflow
            /\ UNCHANGED suspended

Blocked(t) ==
    /\ Goto(t, "resumeAll")
    /\ UNCHANGED <<uxTopReadyPriority, pending, deletionVars, uxPriority, created, switchVars,
                   tickVars, uxSchedulerSuspended, uxCriticalNesting>>

\* vTaskDelay.
vTaskDelay(t, ticks) ==
    /\ At(t, "block") /\ "delay" \in Calls
    /\ AddCurrentToDelayedList(t, ticks, FALSE)
    /\ Blocked(t)
    /\ UNCHANGED waiting

\* xItemValue of xEventListItem: the highest priority comes first.
EventValue == [u \in Task |-> MaxPriorities - uxPriority[u]]

\* vTaskPlaceOnEventList.  Interrupt handlers leave the list alone during the walk
\* of vListInsert (its queue is locked), so that it is one step.
vTaskPlaceOnEventList(t, ticks) ==
    /\ At(t, "block") /\ "event" \in Calls
    /\ waiting' = InsertSorted(waiting, EventValue, t)
    /\ AddCurrentToDelayedList(t, ticks, TRUE)
    /\ Blocked(t)

\* xTaskRemoveFromEventList, the part of its callers that moves the task it wakes.
\* While the scheduler is suspended the event item is all that may be touched.
Woken == Head(waiting)

xTaskRemoveFromEventList ==
    \/ /\ uxSchedulerSuspended = 0
       /\ LeaveEventLists(Woken)
       /\ LeaveBlocked(Woken)
    \/ /\ uxSchedulerSuspended # 0
       /\ waiting' = Tail(waiting)
       /\ pending' = Append(pending, Woken)
       /\ UNCHANGED blockedLists

ListsAfterWake == IF uxSchedulerSuspended = 0 THEN ReadyAt(Woken, uxPriority[Woken])
                  ELSE pxReadyTasksLists
TopAfterWake == IF uxSchedulerSuspended = 0 THEN Record(uxPriority[Woken])
                ELSE uxTopReadyPriority

\* A task posts the event in a critical section, as xQueueGenericSend does.
Post(t) ==
    /\ At(t, "run") /\ t # Idle /\ "event" \in Calls
    /\ waiting # <<>>
    /\ xTaskRemoveFromEventList
    /\ EndCritical(t, ListsAfterWake, TopAfterWake, uxPriority[Woken] > uxPriority[t])
    /\ UNCHANGED <<deletionVars, taskVars, tickVars, uxSchedulerSuspended,
                   xNextTaskUnblockTime>>

\* An interrupt handler posts it, as xQueueSendFromISR does.  The handler may yield
\* when it woke a task of a higher priority, or leave that to xYieldPending.
PostFromISR ==
    /\ uxCriticalNesting = 0 /\ inTick = "no" /\ "event" \in Calls
    /\ waiting # <<>>
    /\ xTaskRemoveFromEventList
    /\ \/ /\ uxPriority[Woken] > uxPriority[pxCurrentTCB]
          /\ SwitchContext(ListsAfterWake, TopAfterWake)
       \/ /\ xYieldPending' = (xYieldPending \/ uxPriority[Woken] > uxPriority[pxCurrentTCB])
          /\ GoOn(ListsAfterWake, TopAfterWake)
    /\ UNCHANGED <<deletionVars, taskVars, control, tickVars, uxSchedulerSuspended,
                   uxCriticalNesting, xNextTaskUnblockTime>>
-----------------------------------------------------------------------------
(* Suspending, resuming and priorities.  The idle task and the tasks that  *)
(* deleted themselves are nobody's argument.                               *)

Target(t, u) == Live(u) /\ u # Idle /\ At(t, "run") /\ t # Idle

\* A task that suspends itself must not hold the scheduler suspended: configASSERT.
vTaskSuspend(t, u) ==
    /\ Target(t, u) /\ "suspend" \in Calls
    /\ u = t => uxSchedulerSuspended = 0
    /\ pxReadyTasksLists' = NotReady(u)
    /\ delayed' = Without(delayed, u)
    /\ overflow' = Without(overflow, u)
    /\ suspended' = suspended \cup {u}
    /\ LeaveEventLists(u)
    /\ Call(t, "reset", IF u = t THEN "yield" ELSE "run")
    /\ UNCHANGED <<uxTopReadyPriority, deletionVars, taskVars, switchVars, tickVars,
                   uxSchedulerSuspended, uxCriticalNesting, xNextTaskUnblockTime>>

\* Its second critical section: prvResetNextTaskUnblockTime.
AfterSuspend(t) ==
    /\ At(t, "reset")
    /\ xNextTaskUnblockTime' = NextUnblock(delayed)
    /\ Return(t)
    /\ UNCHANGED <<readyVars, blockedLists, eventLists, deletionVars, taskVars, switchVars,
                   tickVars, uxSchedulerSuspended, uxCriticalNesting>>

\* prvTaskIsTaskSuspended.
SuspendedOrPending(u) == u \in suspended /\ ~Contains(waiting, u)
SuspendedOrWaiting(u) == u \in suspended /\ ~Contains(pending, u)
TaskIsSuspended(u) ==
    u \in suspended /\ ~Contains(pending, u) /\ ~Contains(waiting, u)

vTaskResume(t, u) ==
    /\ Target(t, u) /\ u # t /\ "suspend" \in Calls
    /\ TaskIsSuspended(u)
    /\ LeaveBlocked(u)
    /\ EndCritical(t, ReadyAt(u, uxPriority[u]), Record(uxPriority[u]),
                   uxPriority[u] >= uxPriority[t])
    /\ UNCHANGED <<eventLists, deletionVars, taskVars, tickVars, uxSchedulerSuspended,
                   xNextTaskUnblockTime>>

\* The handler yields when xTaskResumeFromISR returns pdTRUE, as its documentation asks.
xTaskResumeFromISR(u) ==
    /\ uxCriticalNesting = 0 /\ inTick = "no" /\ "suspend" \in Calls
    /\ Live(u) /\ TaskIsSuspended(u)
    /\ \/ /\ uxSchedulerSuspended = 0
          /\ LeaveBlocked(u)
          /\ LET lists == ReadyAt(u, uxPriority[u])
                 top == Record(uxPriority[u])
             IN  \/ /\ uxPriority[u] >= uxPriority[pxCurrentTCB]
                    /\ SwitchContext(lists, top)
                 \/ /\ uxPriority[u] < uxPriority[pxCurrentTCB]
                    /\ GoOn(lists, top)
                    /\ UNCHANGED xYieldPending
          /\ UNCHANGED pending
       \/ /\ uxSchedulerSuspended # 0
          /\ pending' = Append(pending, u)
          /\ UNCHANGED <<readyVars, blockedLists, switchVars>>
    /\ UNCHANGED <<waiting, deletionVars, taskVars, control, tickVars, uxSchedulerSuspended,
                   uxCriticalNesting, xNextTaskUnblockTime>>

\* The priority of the event item changes where it stands: the list is not sorted anew.
vTaskPrioritySet(t, u, p) ==
    /\ Target(t, u) /\ "priority" \in Calls
    /\ p # uxPriority[u]
    /\ uxPriority' = [uxPriority EXCEPT ![u] = p]
    /\ LET ready == Contains(pxReadyTasksLists[uxPriority[u]].items, u)
           yields == IF p > uxPriority[u] THEN u # t /\ p >= uxPriority[t] ELSE u = t
       IN  EndCritical(t, IF ready THEN ReadyAt(u, p) ELSE pxReadyTasksLists,
                       IF ready THEN Record(p) ELSE uxTopReadyPriority, yields)
    /\ UNCHANGED <<blockedLists, eventLists, deletionVars, wake, created, tickVars,
                   uxSchedulerSuspended, xNextTaskUnblockTime>>
-----------------------------------------------------------------------------
(* Creating and deleting tasks.                                            *)

\* xTaskCreate: pvPortMalloc, for the stack and for the TCB, suspends the scheduler.
xTaskCreate(t) ==
    /\ At(t, "run") /\ t # Idle /\ "create" \in Calls
    /\ SuspendAllThen(t, "resumeAll", "newTCB")

\* The stack was allocated.
AllocateTCB(t) ==
    /\ At(t, "newTCB")
    /\ SuspendAllThen(t, "resumeAll", "insert")

AllocateFails(t) ==
    /\ \/ /\ At(t, "newTCB")
          /\ Goto(t, "run")
          /\ UNCHANGED uxSchedulerSuspended
       \/ /\ At(t, "insert")        \* vPortFree of the stack
          /\ uxSchedulerSuspended' = uxSchedulerSuspended + 1
          /\ Call(t, "resumeAll", "run")
    /\ UNCHANGED <<readyVars, blockedLists, eventLists, deletionVars, taskVars, switchVars,
                   tickVars, uxCriticalNesting, xNextTaskUnblockTime>>

\* prvInitialiseNewTask, and the critical section of prvAddNewTaskToReadyList.
AddNewTask(t, u, p) ==
    /\ At(t, "insert")
    /\ pc[u] = "none"
    /\ uxPriority' = [uxPriority EXCEPT ![u] = p]
    /\ GoOn(ReadyAt(u, p), Record(p))
    /\ pc' = [pc EXCEPT ![u] = "run", ![t] = "compare"]
    /\ created' = [created EXCEPT ![t] = u]
    /\ UNCHANGED <<blockedLists, eventLists, deletionVars, wake, ret, xYieldPending, tickVars,
                   uxSchedulerSuspended, uxCriticalNesting, xNextTaskUnblockTime>>

\* Outside the critical section its priority is read from the new TCB, which may
\* have been deleted by then: the memory holds anything.
Compare(t) ==
    /\ At(t, "compare")
    /\ created' = [created EXCEPT ![t] = NoTask]
    /\ \E higher \in BOOLEAN :
         /\ pc[created[t]] # "none" =>
               higher = (uxPriority[t] < uxPriority[created[t]])
         /\ Goto(t, IF higher THEN "yield" ELSE "run")
    /\ UNCHANGED <<readyVars, blockedLists, eventLists, deletionVars, uxPriority, wake,
                   switchVars, tickVars, uxSchedulerSuspended, uxCriticalNesting,
                   xNextTaskUnblockTime>>

\* vTaskDelete of another task.  prvDeleteTCB calls vPortFree, thus xTaskResumeAll,
\* inside the critical section, where only a pending yield has an effect.
vTaskDelete(t, u) ==
    /\ Target(t, u) /\ u # t /\ "delete" \in Calls
    /\ pc[u] = "exit" => uxCriticalNesting <= MaxLeak
    /\ delayed' = Without(delayed, u)
    /\ overflow' = Without(overflow, u)
    /\ suspended' = suspended \ {u}
    /\ LeaveEventLists(u)
    /\ created' = [created EXCEPT ![u] = NoTask]
    /\ \/ /\ uxSchedulerSuspended = 0 /\ xYieldPending
          /\ SwitchContext(NotReady(u), uxTopReadyPriority)
          /\ uxCriticalNesting' = uxCriticalNesting + 2
          /\ pc' = [pc EXCEPT ![u] = "none", ![t] = "exit"]
          /\ ret' = [ret EXCEPT ![u] = "run", ![t] = "freed"]
          /\ UNCHANGED xNextTaskUnblockTime
       \/ /\ uxSchedulerSuspended # 0 \/ ~xYieldPending
          /\ GoOn(NotReady(u), uxTopReadyPriority)
          /\ pc' = [pc EXCEPT ![u] = "none"]
          /\ ret' = [ret EXCEPT ![u] = "run"]
          /\ xNextTaskUnblockTime' = NextUnblock(delayed')
          /\ UNCHANGED <<xYieldPending, uxCriticalNesting>>
    /\ UNCHANGED <<deletionVars, uxPriority, wake, tickVars, uxSchedulerSuspended>>

\* The end of that critical section, when it yielded.
AfterDelete(t) ==
    /\ At(t, "freed")
    /\ uxCriticalNesting > 0
    /\ xNextTaskUnblockTime' = NextUnblock(delayed)
    /\ uxCriticalNesting' = uxCriticalNesting - 1
    /\ Goto(t, "run")
    /\ UNCHANGED <<readyVars, blockedLists, eventLists, deletionVars, taskVars, switchVars,
                   tickVars, uxSchedulerSuspended>>

\* vTaskDelete(NULL), not while holding the scheduler suspended: configASSERT.
DeleteSelf(t) ==
    /\ At(t, "run") /\ t # Idle /\ "delete" \in Calls
    /\ uxSchedulerSuspended = 0
    /\ pxReadyTasksLists' = NotReady(t)
    /\ LeaveEventLists(t)
    /\ terminating' = Append(terminating, t)
    /\ uxDeletedTasksWaitingCleanUp' = uxDeletedTasksWaitingCleanUp + 1
    /\ Goto(t, "yield")
    /\ UNCHANGED <<uxTopReadyPriority, blockedLists, taskVars, switchVars, tickVars,
                   uxSchedulerSuspended, uxCriticalNesting, xNextTaskUnblockTime>>
-----------------------------------------------------------------------------
(* prvIdleTask, with prvCheckTasksWaitingTermination.                      *)

IdleLoop == At(Idle, "run") /\ uxDeletedTasksWaitingCleanUp = 0 /\ UNCHANGED vars

\* The emptiness of xTasksWaitingTermination is read with the scheduler suspended.
IdleCheck ==
    /\ At(Idle, "run") /\ uxDeletedTasksWaitingCleanUp > 0
    /\ SuspendAllThen(Idle, "resumeAll", IF terminating = <<>> THEN "run" ELSE "clean")

\* The critical section that takes one task, which prvDeleteTCB then frees.
IdleClean ==
    /\ At(Idle, "clean")
    /\ terminating # <<>>
    /\ terminating' = Tail(terminating)
    /\ uxDeletedTasksWaitingCleanUp' = uxDeletedTasksWaitingCleanUp - 1
    /\ LET u == Head(terminating)
       IN  /\ pc' = [pc EXCEPT ![u] = "none", ![Idle] = "freeStack"]
           /\ ret' = [ret EXCEPT ![u] = "run"]
           /\ created' = [created EXCEPT ![u] = NoTask]
    /\ UNCHANGED <<readyVars, blockedLists, eventLists, uxPriority, wake, switchVars, tickVars,
                   uxSchedulerSuspended, uxCriticalNesting, xNextTaskUnblockTime>>

\* vPortFree of the stack, and of the TCB.
IdleFree ==
    \/ At(Idle, "freeStack") /\ SuspendAllThen(Idle, "resumeAll", "freeTCB")
    \/ At(Idle, "freeTCB") /\ SuspendAllThen(Idle, "resumeAll", "run")
-----------------------------------------------------------------------------
Created(u) == \E p \in Priority : \E i \in DOMAIN InitialReady[p] : InitialReady[p][i] = u

\* The scheduler starts on the task pxCurrentTCB stands for: the last one created
\* among those of the highest priority.
Init ==
    /\ pxReadyTasksLists = [p \in Priority |-> [items |-> InitialReady[p], index |-> 0]]
    /\ delayed = <<>> /\ overflow = <<>> /\ pending = <<>> /\ waiting = <<>>
    /\ suspended = {}
    /\ terminating = <<>> /\ uxDeletedTasksWaitingCleanUp = 0
    /\ uxPriority = [u \in Task |->
                       IF Created(u) THEN CHOOSE p \in Priority : Contains(InitialReady[p], u)
                       ELSE 0]
    /\ wake = [u \in Task |-> 0]
    /\ created = [u \in Task |-> NoTask]
    /\ uxTopReadyPriority = Max({p \in Priority : InitialReady[p] # <<>>})
    /\ pxCurrentTCB = Last(InitialReady[uxTopReadyPriority])
    /\ uxSchedulerSuspended = 0
    /\ uxCriticalNesting = 0
    /\ xTickCount = 0
    /\ xNextTaskUnblockTime = portMAX_DELAY
    /\ uxPendedTicks = 0 /\ replayed = 0 /\ elapsed = 0
    /\ xYieldPending = FALSE
    /\ inTick = "no" /\ xSwitchRequired = FALSE
    /\ pc = [u \in Task |-> IF Created(u) THEN "run" ELSE "none"]
    /\ ret = [u \in Task |-> "run"]

\* What a task does inside the kernel, once it is there.
Proceed(t) ==
    \/ ExitCritical(t) \/ YieldWithinAPI(t)
    \/ EnterResumeAll(t) \/ Drain(t) \/ DrainEnd(t) \/ ReplayTick(t) \/ LeaveResumeAll(t)
    \/ \E n \in 1 .. portMAX_DELAY : vTaskDelay(t, n) \/ vTaskPlaceOnEventList(t, n)
    \/ AfterSuspend(t) \/ AfterDelete(t)
    \/ AllocateTCB(t) \/ AllocateFails(t) \/ Compare(t)
    \/ \E u \in AppTask, p \in Priority : AddNewTask(t, u, p)

\* The calls of the application.
CallAPI(t) ==
    \/ TaskYield(t) \/ vTaskSuspendAll(t) \/ BlockingCall(t) \/ Post(t)
    \/ xTaskCreate(t) \/ DeleteSelf(t)
    \/ \E u \in AppTask : vTaskSuspend(t, u) \/ vTaskResume(t, u) \/ vTaskDelete(t, u)
    \/ \E u \in AppTask, p \in Priority : vTaskPrioritySet(t, u, p)

IdleTask == IdleLoop \/ IdleCheck \/ IdleClean \/ IdleFree

InTick == TickUnblock \/ TickSlice

Next ==
    \/ \E t \in Task : Proceed(t) \/ CallAPI(t) \/ xTaskResumeAll(t)
    \/ IdleTask
    \/ TickInterrupt \/ InTick
    \/ PostFromISR \/ \E u \in AppTask : xTaskResumeFromISR(u)

Spec == Init /\ [][Next]_vars

\* The tick handler ends, the timer leaves the tasks time to execute the kernel code
\* they are in, and its interrupt, once raised, stays pending until it is taken: hence
\* strong fairness.  Nothing is assumed of the calls of the application and of the
\* other interrupts.
FairSpec ==
    /\ Spec
    /\ WF_vars(InTick)
    /\ SF_vars((\E t \in Task : Proceed(t)) \/ IdleTask)
    /\ SF_vars(TickInterrupt)
-----------------------------------------------------------------------------
TypeOK ==
    /\ pxReadyTasksLists \in [Priority -> [items : Seq(Task), index : Nat]]
    /\ \A p \in Priority : IsList(pxReadyTasksLists[p], Task)
    /\ delayed \in Seq(Task) /\ overflow \in Seq(Task)
    /\ pending \in Seq(Task) /\ waiting \in Seq(Task)
    /\ suspended \in SUBSET Task
    /\ terminating \in Seq(Task) /\ uxDeletedTasksWaitingCleanUp \in Nat
    /\ uxPriority \in [Task -> Priority]
    /\ wake \in [Task -> Tick]
    /\ created \in [Task -> Task \cup {NoTask}]
    /\ pxCurrentTCB \in Task
    /\ uxTopReadyPriority \in Priority
    /\ uxSchedulerSuspended \in Nat
    /\ uxCriticalNesting \in Nat
    /\ xTickCount \in Tick /\ elapsed \in Tick
    /\ xNextTaskUnblockTime \in Tick
    /\ uxPendedTicks \in Nat /\ replayed \in Nat
    /\ xYieldPending \in BOOLEAN /\ xSwitchRequired \in BOOLEAN
    /\ inTick \in {"no", "unblock", "slice"}
    /\ pc \in [Task -> PC] /\ ret \in [Task -> PC]

\* The tasks whose state list item is in the ready lists, in each of the other lists.
InReadyLists == UNION {ToSet(pxReadyTasksLists[p].items) : p \in Priority}
StateItems == <<InReadyLists, ToSet(delayed), ToSet(overflow), ToSet(terminating), suspended>>
EventItems == <<ToSet(pending), ToSet(waiting)>>
Existing == {u \in Task : pc[u] # "none"}

\* The state list item of every task is in exactly one list, once, and its event list
\* item in at most one: no wake-up, suspension or deletion, from a task, an
\* interrupt or the tick, loses a task or leaves it in two lists.
ItemsInOneList ==
    /\ \A p \in Priority : IsInjective(pxReadyTasksLists[p].items)
    /\ IsInjective(delayed) /\ IsInjective(overflow) /\ IsInjective(terminating)
    /\ IsInjective(pending) /\ IsInjective(waiting)
    /\ \A p, q \in Priority : p # q =>
         ToSet(pxReadyTasksLists[p].items) \cap ToSet(pxReadyTasksLists[q].items) = {}
    /\ \A i, j \in 1 .. 5 : i # j => StateItems[i] \cap StateItems[j] = {}
    /\ UNION {StateItems[i] : i \in 1 .. 5} = Existing
    /\ EventItems[1] \cap EventItems[2] = {}
    /\ EventItems[1] \cup EventItems[2] \subseteq Existing

\* A ready task is in the list of its own priority, and vTaskSwitchContext, which
\* starts to look at uxTopReadyPriority, misses none.
ReadyByPriority ==
    \A p \in Priority : \A i \in DOMAIN pxReadyTasksLists[p].items :
        /\ uxPriority[pxReadyTasksLists[p].items[i]] = p
        /\ p <= uxTopReadyPriority

\* While a task executes its own code, no interrupt is being handled and the scheduler is
\* not suspended, no ready task has a higher priority, unless a yield is pending.
\* tasks.c yields, or notes that it must, wherever that could change.
RunningIsHighest ==
    (pc[pxCurrentTCB] = "run" /\ inTick = "no" /\ uxSchedulerSuspended = 0) =>
        /\ Contains(pxReadyTasksLists[uxPriority[pxCurrentTCB]].items, pxCurrentTCB)
        /\ xYieldPending \/ \A p \in Priority :
             p > uxPriority[pxCurrentTCB] => pxReadyTasksLists[p].items = <<>>

Sorted(seq, value) ==
    \A i, j \in DOMAIN seq : i < j => value[seq[i]] <= value[seq[j]]

\* A task that waits for a time is on the right side of the wrap of xTickCount: in
\* the delayed list its time is still to come (it has come for those the tick is
\* about to move), in the overflow list it comes after the next wrap.  So
\* nobody sleeps a whole turn of the counter too long.
WakeTimesAhead ==
    /\ Sorted(delayed, wake) /\ Sorted(overflow, wake)
    /\ \A i \in DOMAIN delayed :
         IF inTick = "unblock" THEN wake[delayed[i]] >= xTickCount
         ELSE wake[delayed[i]] > xTickCount
    /\ \A i \in DOMAIN overflow : wake[overflow[i]] < xTickCount

\* xNextTaskUnblockTime, for which xTaskIncrementTick skips its loop, is never
\* later than the time of the first delayed task.
UnblockTimeNotLate == delayed # <<>> => xNextTaskUnblockTime <= wake[Head(delayed)]

\* Every tick the timer delivered is counted or still to be replayed: none is lost
\* or counted twice while the scheduler is suspended and resumed.
TicksConserved ==
    elapsed = (xTickCount + (IF pc[pxCurrentTCB] = "replay" \/ inTick # "no" THEN replayed
                             ELSE uxPendedTicks)) % TickModulus

\* Tasks woken while the scheduler is suspended wait in the pending list for
\* xTaskResumeAll and no longer: none is left there asleep.
PendingIsTransient ==
    pending # <<>> => uxSchedulerSuspended > 0 \/ pc[pxCurrentTCB] \in {"drain", "drained"}

\* The configASSERTs of tasks.c and port.c: the delayed list is empty when the
\* tick count wraps, xTaskResumeAll finds the scheduler suspended, a task that
\* suspended or deleted itself yields with the scheduler running, a critical
\* section that is left was entered, and a task to run is found.  And what
\* prvCheckTasksWaitingTermination trusts: the count of deleted tasks, which it reads
\* first, agrees with their list, and the list that it found not empty still is not
\* when it takes a task from it in another critical section.
AssertionsHold ==
    /\ xTickCount = TickModulus - 1 /\ inTick = "no" => delayed = <<>>
    /\ pc[pxCurrentTCB] = "resumeAll" => uxSchedulerSuspended > 0
    /\ pc[pxCurrentTCB] = "yield"
         /\ (pxCurrentTCB \in suspended \/ Contains(terminating, pxCurrentTCB))
         => uxSchedulerSuspended = 0
    /\ pc[pxCurrentTCB] \in {"exit", "freed", "leave"} => uxCriticalNesting > 0
    /\ \E p \in Priority : p <= uxTopReadyPriority /\ pxReadyTasksLists[p].items # <<>>
    /\ uxDeletedTasksWaitingCleanUp = Len(terminating)
    /\ pc[Idle] = "clean" => terminating # <<>>

\* The task that an event wakes is the most urgent of those that wait for it, as
\* vTaskPlaceOnEventList intends when it inserts them in order of priority.  It holds
\* while no priority changes.
MostUrgentFirst ==
    \A i \in DOMAIN waiting : uxPriority[waiting[i]] <= uxPriority[Head(waiting)]

Delayed(t) == Contains(delayed, t) \/ Contains(overflow, t)

\* vTaskDelay ends: a delayed task becomes ready some time.
DelayEnds == \A t \in AppTask : Delayed(t) ~> ~Delayed(t)

\* The condition under which the scheduler keeps its liveness promises.
ProcessorShared ==
    /\ []<>(uxCriticalNesting = 0)
    /\ []<>(uxSchedulerSuspended = 0)

DelayEndsIfShared == ProcessorShared => DelayEnds

StaysReady(t) == <>[]Contains(pxReadyTasksLists[uxPriority[t]].items, t)

\* Tasks of equal priority share processing time: one that stays ready, while tasks
\* of its priority run again and again, runs again and again itself, also when a
\* task of a higher priority comes between.
TimeIsShared ==
    ProcessorShared => \A t \in AppTask :
        StaysReady(t) /\ []<>(uxPriority[pxCurrentTCB] = uxPriority[t])
            => []<>(pxCurrentTCB = t)
-----------------------------------------------------------------------------
(* What the lists and the wake times say of each task.                     *)

Ready(u) == Contains(pxReadyTasksLists[uxPriority[u]].items, u)

TaskState(u) ==
    CASE pc[u] = "none" -> "none"
      [] Contains(terminating, u) -> "deleted"
      [] Ready(u) -> "ready"
      [] Delayed(u) -> "asleep"
      [] OTHER -> "suspended"

\* The ticks until the time of u: in the overflow list it comes after the wrap.
TicksLeft(u) ==
    CASE Contains(delayed, u) -> wake[u] - xTickCount
      [] Contains(overflow, u) -> wake[u] + TickModulus - xTickCount
      [] OTHER -> 0

Event(u) ==
    CASE Contains(waiting, u) -> "waiting"
      [] Contains(pending, u) -> "posted"
      [] OTHER -> "none"

States == [u \in Task |-> TaskState(u)]
Lefts == [u \in Task |-> TicksLeft(u)]
Events == [u \in Task |-> Event(u)]

Abstract == INSTANCE TaskStates
            WITH state <- States, left <- Lefts, event <- Events, running <- pxCurrentTCB,
                 MaxSleep <- portMAX_DELAY, Initial <- {u \in Task : Created(u)}

\* The ready lists, the two delayed lists with their absolute times, the pending
\* list and the replayed ticks implement the task states: a task sleeps for exactly
\* the ticks it asked for, across the wrap of the tick count and the suspensions of
\* the scheduler, and wakes for its event or its time only.
ImplementsTaskStates == Abstract!AbsSpec
=============================================================================
