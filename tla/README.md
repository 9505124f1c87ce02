# A verification of the N201 FreeRTOS kernel

This directory holds TLA+ models of the real-time kernel of this repository
(`src/FreeRTOSv9.0.0/src/demo/`: FreeRTOS v9.0.0, ported to the Nuclei N201 core),
the TLC runs that check them on small instances, and theorems about them that
TLAPS checks for every instance. Paths below are relative to
`src/FreeRTOSv9.0.0/src/demo/Source/` unless they start with `src/`.

- [The system](#the-system)
- [Modules](#modules)
- [Modelling decisions](#modelling-decisions)
- [Runs](#runs)
- [Fairness](#fairness)
- [Proofs](#proofs)
- [Findings](#findings)
- [Not modelled](#not-modelled)
- [Plan](#plan)

## The system

The repository is a software development kit. The program in it with logic of its
own is the FreeRTOS kernel with its port; the other projects (`hello_world`,
`demo_eclic`, `demo_iasm`, CoreMark, Dhrystone) are single-threaded programs on
the board support package, and `Common/` holds third-party demo tasks and network
stacks that the build leaves out.

What the build fixes (`Demo/FreeRTOSConfig.h`): preemption and time slicing on, 4
priorities, 32-bit ticks, mutexes, counting semaphores, software timers (priority 3,
a queue of 5) and task notifications on; recursive mutexes, queue sets, co-routines,
tickless idle, `xTaskAbortDelay` and static allocation off; the heap is `heap_4.c`.
`configASSERT` disables the interrupts and loops for ever.

### Components

| Component | State | Operations | What makes it hard | What makes it correct |
|---|---|---|---|---|
| Lists (`list.c`, `list.h`) | rings of items through `xListEnd`, `pxIndex`, `uxNumberOfItems`, the container of each item | initialise, insert at the end, insert in order, remove, next entry, set a value | `vListInsert` walks with interrupts enabled; `pxIndex` is a cached pointer | rings closed and counted, `pxIndex` in its own ring, the walk ends |
| Scheduler (`tasks.c`) | ready lists, two delayed lists, pending, suspended and termination lists, `pxCurrentTCB`, tick count, the cached next unblock time, pended ticks, pending yield, suspension depth | tick, switch, suspend/resume the scheduler, delay, event lists, suspend/resume tasks, priorities, create, delete, idle | tick wrap, ticks and wake-ups while the scheduler is suspended, cached values, steps that race the time-out | one list per item, no tick lost, nobody oversleeps, the highest ready task runs |
| N200 port (`portable/GCC/N200`) | `uxCriticalNesting`, the ECLIC threshold | enter/exit critical, yield, tick handler | the nesting count is global and not saved on a switch; the yield is an ECALL that switches at once; the tick handler can be interrupted | interrupts come back, critical sections are exclusive |
| Queues, semaphores (`queue.c`) | ring of messages, two event lists, two lock counts | send, receive, peek, from tasks and interrupts, lock/unlock, reset, delete | the lock counts stand for wake-ups to be made later; time-outs race the answer; `int8_t` counts | no message lost or reordered, no waiter asleep beside a message |
| Mutexes (`queue.c`, `tasks.c`) | holder, inherited and base priorities, held count | take, give, inherit, disinherit | inheritance with several mutexes, changed base priorities, time-outs | mutual exclusion, priority returned |
| Time-outs (`tasks.c`) | tick count and overflow count taken at the start of a call | set, check | both counts wrap | a wait ends on time |
| Notifications (`tasks.c`) | value and state per task | take, wait, give, notify, from interrupts | the answer may come between the check and the block | no notification lost |
| Timers (`timers.c`) | two active lists, the command queue, the timer task | start, stop, reset, change, delete, pend a call | commands processed later than sent, wrap of the list times | a timer expires once per period, in order |
| Event groups (`event_groups.c`) | bits, waiting tasks | set, clear, wait, sync, delete | set wakes many under suspension; time-out reads bits of a group that may be gone | a waiter wakes exactly when its bits are set |
| Heap (`heap_4.c`) | free list in address order | allocate, free | splitting, coalescing, rounding | blocks disjoint, memory conserved |
| Demo application (`src/FreeRTOSv9.0.0/src/demo/Demo/main.c`) | a queue of one, two tasks, two button handlers | | an uninitialised wake-up flag in a handler | |
| Board support (`src/shared/bsp`) | registers | ECLIC, timer, GPIO accessors, start-up | pure I/O | |

### How they interact

Everything meets in the two list items of a task control block. `xStateListItem` is in
exactly one of the scheduler's lists; `xEventListItem` is in at most one event list
(of a queue or an event group) or in the pending list. Tasks call the kernel and run
its code themselves; interrupt handlers call the `FromISR` functions; the tick handler
calls `xTaskIncrementTick`. Three devices keep them apart:

1. critical sections (`vPortEnterCritical`), which raise the ECLIC threshold and count
   their nesting in `uxCriticalNesting`;
2. scheduler suspension (`vTaskSuspendAll` ... `xTaskResumeAll`), under which interrupts
   run but tasks do not switch: the tick only counts (`uxPendedTicks`), a wake-up
   only moves the event item to the pending list, and a switch is only noted
   (`xYieldPending`); `xTaskResumeAll` catches up on all three;
3. queue locks, under which interrupts leave the event lists of the queue alone.

## Modules

| Module | What it models | Source |
|---|---|---|
| `Lists` | lists as records of a sequence and a position: the operators the scheduler is written with | `list.c`, `list.h` |
| `ListSpec` | what `list.c` promises: items in at most one list, each operation one step | abstract |
| `ListRing` | the pointers, with `vListInsert` one node at a time between operations on other lists | `list.c`, `list.h` |
| `MCListRing` | instance of `ListRing`, and the mapping that reads each list off its ring | |
| `ListTheorems` | lemmas on the operators of `Lists`: what inserting and removing return, and lists in order of a value | |
| `ListRingProofs` | the invariants of the rings, for any lists and items | |
| `Tasks` | the scheduler with the port's critical sections and yield, and the mapping to `TaskStates` | `tasks.c`, `port.c`, `portasm.S`, the waking part of `queue.c` |
| `TaskStates` | what the scheduler promises of each task: the state diagram, ticks left, the event | abstract |
| `MCTasks` | instances of `Tasks` | |
| `Queue` | a queue with its callers, interrupt handlers, locks and event lists | `queue.c` |
| `QueueSpec` | what a queue promises: a bounded sequence of messages | abstract |
| `MCQueue` | instances of `Queue` | |
| `QueueProofs` | types, the pointers of the ring, the refinement of `QueueSpec`, and the wake-ups | |
| `Mutex` | mutexes, priority inheritance, and which task runs | `queue.c`, `tasks.c` |
| `MCMutex` | instances of `Mutex` | |
| `MutexProofs` | types, the end of inheritance, and inheritance itself | |
| `Timers` | the timer task, its two lists and its command queue | `timers.c`, `timers.h` |
| `MCTimers` | an instance of `Timers` | |
| `EventGroups` | one event group with a rendezvous and other users | `event_groups.c` |
| `Heap4` | the allocator | `portable/MemMang/heap_4.c` |
| `Waits` | time-outs and periodic delays with a tick count that wraps | `tasks.c` |
| `MCServices` | `Timers`, `EventGroups`, `Heap4` and `Waits` side by side, one at a time | |
| `TasksProofs` | the first inductive invariant of the scheduler: types, ticks, the pending list | |
| `TaskListsProofs` | on top of it: where the list items of the tasks are, and that the most urgent task runs | |
| `TaskTimeProofs` | on top of that: wake times, the nesting of critical sections, the assertions of the code, the order of the event list, the refinement of `TaskStates` | |
| `ServicesProofs` | the computations of `Waits` against a time that does not wrap; the partition and the alignment of the heap of `Heap4`; the timers of `Timers`; the waits and the rendezvous of `EventGroups` | |

`Tasks`, `Queue`, `Mutex` and `Timers` are written with `Lists`. The link between them and the code has two halves:
`ListRing` implements `ListSpec`, whose steps are the operators of `Lists`, and they
use those operators.

### State and actions of `Tasks`

The variables carry the names of `tasks.c` where it has one; `delayed`, `overflow`,
`pending`, `suspended`, `terminating` are the lists `pxDelayedTaskList`,
`pxOverflowDelayedTaskList`, `xPendingReadyList`, `xSuspendedTaskList`,
`xTasksWaitingTermination`; `waiting` is one event list. `pc[t]` says where the code of
a task stands between two points at which something else may run, and `ret[t]` where
the kernel call under way returns to (`xTaskResumeAll` is called from many places).
`replayed`, `created`, `xSwitchRequired` are local variables of the code, `elapsed` is
a history variable for one property.

| Code | Actions |
|---|---|
| `xTaskIncrementTick`, `vPortSysTickHandler` | `TickInterrupt`, `TickUnblock` (one turn of the loop), `TickSlice` |
| `vTaskSwitchContext` | `SwitchContext`, inside the actions that yield |
| `vTaskSuspendAll`, `xTaskResumeAll` | `vTaskSuspendAll`; `xTaskResumeAll`, `EnterResumeAll`, `Drain` (one task), `DrainEnd`, `ReplayTick` (one tick), `LeaveResumeAll` |
| `portYIELD`, `vPortExitCritical` after a yield | `YieldWithinAPI`, `TaskYield`, `ExitCritical` |
| `vTaskDelay`, `vTaskPlaceOnEventList`, `prvAddCurrentTaskToDelayedList` | `BlockingCall`, `vTaskDelay`, `vTaskPlaceOnEventList`, then `EnterResumeAll` ... |
| `xTaskRemoveFromEventList` as `xQueueGenericSend(FromISR)` calls it | `Post`, `PostFromISR` |
| `vTaskSuspend`, `vTaskResume`, `xTaskResumeFromISR` | `vTaskSuspend`, `AfterSuspend`, `vTaskResume`, `xTaskResumeFromISR` |
| `vTaskPrioritySet` | `vTaskPrioritySet` |
| `xTaskCreate`, `prvAddNewTaskToReadyList` | `xTaskCreate`, `AllocateTCB`, `AllocateFails`, `AddNewTask`, `Compare` |
| `vTaskDelete`, `prvDeleteTCB` | `vTaskDelete`, `AfterDelete`, `DeleteSelf` |
| `prvIdleTask`, `prvCheckTasksWaitingTermination` | `IdleLoop`, `IdleCheck`, `IdleClean`, `IdleFree` |

### State and actions of `Queue`

`Queue` takes the scheduler as it looks from a queue: a task is blocked or not, one task
may hold the scheduler suspended (`holder`), and a wake-up under suspension waits in
`pending`. Between two steps any task that is not blocked may run: the priorities allow
some of these schedules, so a property of all of them is a property of the code.

`pc[t]` is a place in the loop that `xQueueGenericSend` and `xQueueGenericReceive` share.

| Code | Actions |
|---|---|
| critical section at the top of the loop | `SendNow`, `ReceiveNow`, `PeekNow`, `NotNow` |
| `vTaskSuspendAll`, `prvLockQueue`, `xTaskCheckForTimeOut` | `vTaskSuspendAll`, `prvLockQueue` |
| `prvIsQueueFull`, `prvIsQueueEmpty` | `Test`; `Recheck` after a receive timed out |
| `vTaskPlaceOnEventList` | the same |
| `prvUnlockQueue` | `UnlockTx`, `UnlockRx`: its two critical sections |
| `xTaskResumeAll` and the return or retry after it | `xTaskResumeAll` |
| `xQueueGenericReset` | the same |
| `xQueueGenericSendFromISR` (and `xQueueGiveFromISR`, for a semaphore), `xQueueReceiveFromISR` | the same, between any two of the steps above |
| the tick that ends a wait, and the clock read by `xTaskCheckForTimeOut` | `TimePasses` |

Slots stand for addresses: `pcWriteTo` and `pcReadFrom` are slots of `storage`. The
wait of a call is "none", "limited" or "forever" (`portMAX_DELAY`); a limited one becomes
"expired" at any moment at which ticks are counted. How the code finds that out from two
counters that wrap is `xTaskCheckForTimeOut` of `Waits`.

Not in `Queue`: calls a task makes while it holds the scheduler suspended itself, and
tasks that are suspended or deleted in the middle of a call. The second matters: a
task that was woken for a message and is suspended before it runs keeps the wake-up to itself.

### State and actions of `Mutex`

A mutex is a queue of length one without data, whose message is there exactly while
`pxMutexHolder` is NULL. Handlers do not use mutexes, so what a task does between
`vTaskSuspendAll` and `xTaskResumeAll` is one step. Unlike in `Queue`, who runs is exact:
a switch happens where the code yields and at a tick, and picks a most urgent task.

| Code | Actions |
|---|---|
| `xQueueGenericReceive` (`xSemaphoreTake`) | `Take`; then `TakeNow`, `NotNow` (the critical section of the loop), `DoNotWait`, `Wait` (the part under suspension, with `vTaskPriorityInherit`), `Recheck` |
| `xQueueGenericSend` (`xSemaphoreGive`), `xTaskPriorityDisinherit` | `Give` |
| `vTaskDelay`, `vTaskPrioritySet` | the same |
| `xTaskIncrementTick` | `TimePasses` (a time comes), `TimeSlice` |

`uxPriority`, `uxBasePriority`, `uxMutexesHeld` and `eventValue` are the fields of the
control block. `changed` and `missed` are history variables: a priority was set while mutexes
were in use; a mutex was given without a switch to the most urgent task, and mutexes
have been in use since.

### State and actions of `Timers`

The timer task takes the steps of `prvTimerTask`, with the points between them at which a
tick, a task or a handler may come: before the tick count is read, before a list is
changed, before a callback, before a command is posted to itself.

| Code | Actions |
|---|---|
| `xTimerStart` (and reset), `xTimerStop`, `xTimerChangePeriod`, `xTimerDelete`, `xTimerPendFunctionCall` | the same: a message in `xTimerQueue`. A start carries a tick count that the caller read up to `CallDelay` ticks before |
| `prvProcessTimerOrBlockTask` | `FindWrap`, `FindExpired`, `vQueueWaitForMessageRestricted` |
| `prvProcessExpiredTimer` | the same |
| `prvSwitchTimerLists` | `SwitchExpire` (one timer), `SwitchReload`, `SwitchLists` |
| `prvProcessReceivedCommands` | `Receive`, `prvSampleTimeNow`, `ActOnStart`, `StartExpired`, `StartReload`, `ActOnStop`, `ActOnChangePeriod` |
| `xTaskIncrementTick` | the same |

Whatever the code stores or compares is a tick count modulo `TickModulus`. `clock`, the full
time of a command and `due`, the time at which the application was told that each timer
expires, are for the properties. `fault` says why the system has stopped: an assertion
(a full queue when the timer task posts to it) or a use of a timer whose memory was freed.

### State and actions of `EventGroups`, `Heap4`, `Waits`

Calls of an event group do their work under scheduler suspension, and handlers leave
theirs to the timer task, so a call is one step (`xEventGroupSync`, `xEventGroupWaitBits`,
`xEventGroupSetBits`, `xEventGroupClearBits`, `vEventGroupDelete`) and one more when the
blocked task runs again (`GroupResume`); `GroupTimeOut` is the tick, and
`xTimerPendFunctionCallFromISR`, `ExecutePended` are the way a handler takes. The event
item of a task is a record of its bits and the three control bits.

`Heap4` has `pvPortMalloc` and `vPortFree` as actions, on the sequence of the free
blocks and the sizes in the headers; both run under scheduler suspension.
`prvInsertBlockIntoFreeList` is an operator on both, with the walk along the list (`Stop`) and
the two merges; `Cut` is the split. `Waits` has one
task in a wait that may be woken in vain any number of times (`BeginWait`, `EndWait`,
`xTaskCheckForTimeOut`) and one in `vTaskDelayUntil`; `CountTick` is the tick, which waits
for neither. The variables `looked`, `deadline` and `released` are history: what a clock that
does not wrap would have shown.

## Modelling decisions

**Atomicity.** One processor runs one task or one interrupt handler. Code in a critical
section is one step, because nothing else can run, with two exceptions: the loops
of `xTaskResumeAll` and of `xTaskIncrementTick` take a step per turn, with
`uxCriticalNesting` raised or `inTick` set meanwhile. Code under scheduler suspension
is one step per piece between which an interrupt makes a difference.

**The yield of this port.** `portYIELD` is `ECALL(PORT_YIELD)`: `ulSynchTrap` calls
`vTaskSwitchContext` at once, even inside a critical section. The context that is saved
holds neither `uxCriticalNesting` nor the ECLIC threshold (`port.c`, `portasm.S`).
In the model a task that yields inside a critical section stops at `pc = "exit"`, the
count stays raised, and the task switched in runs with it.

**The hardware.** After the switch the core returns to thread level, so that the
tick can fire whenever the threshold is 0. The code before `vTaskStartScheduler` leaves
the threshold masked until the first task leaves its first critical section; the model
lets ticks come from the start, which only adds behaviours.

**Interrupts** come between ticks and where `uxCriticalNesting = 0`. That
`eclic_mtip_handler` can itself be interrupted is a hazard of its own (see the plan).

**Caller's obligations.** Not modelled as steps: blocking, suspending or deleting oneself
while holding the scheduler suspended (a `configASSERT`), deleting or suspending the idle
task, acting on a task that deleted itself. An interrupt handler that resumes a task
yields when told to, as the documentation of `xTaskResumeFromISR` asks; one that posts
an event may leave the yield to `xYieldPending`.

**Freed memory.** `prvAddNewTaskToReadyList` reads the new task's priority after its
critical section; when the task was deleted by then the result is any Boolean (`Compare`).
The stack and TCB are allocated and freed under scheduler suspension, with the
possible failure of each allocation.

**Bounds**, all in guards and all constants: `MaxPendedTicks` (ticks in one suspension),
`MaxSuspendNesting` (nested suspensions by the application), `MaxLeak` (deleting a task that
stands inside a critical section leaves the nesting raised for good: how often).
`TickModulus` is the width of `TickType_t`, not a bound: the runs take it small so that
the count wraps every few steps. `Calls` selects the groups of API calls a run makes.
In `Timers`, `MaxClock` ends a behaviour, `PostsPerTick` limits the commands of a tick, and
`Lateness` limits how late the timer task is: no tick is counted while an expiry or a
command has waited that long. The last is an assumption on the application (the timer task
has the highest priority, so only callbacks, handlers and suspensions delay it), and
`TimersAssumption` needs a little of it: the wrap is found by comparing two samples of
the tick count, and a timer task that sleeps through a whole turn of it, which a period
close to 2^32 makes possible, does not find it. `PendedCalls` bounds the functions
pended to the timer task, `LastTick` the time in `Waits`.

**How late a task of `Waits` may be.** Any time: the tick waits for nobody. How late the
code can still tell is part of the property. `xTaskCheckForTimeOut` never ends a wait too
early. It ends one whose limit has come if it looks before the tick count wraps a second time
after the `TimeOut_t` was set (`LooksInTime`): between one and two turns later, whatever
the limit, thanks to `xOverflowCount`. Beyond that a task may be told to wait on, and
`deadline` is then that of the wait that begins. `vTaskDelayUntil` has no count of
overflows, and is exact when called less than a turn after the period began. In the
model `xNumOfOverflows` does not wrap.

**One service at a time.** The services have no state in common. `MCServices` chooses one
at the start and leaves the others in their initial state; the state space is the sum of
theirs. What joins them to the kernel (queues, event lists, the tick) is in the modules
of the kernel.

**Faulty operators.** An operator named for what is wrong with it (`BeginTickNoSwitch`,
`DueLate`, `LinkAfterOneWay`) is not part of the model. It is defined beside the operator
it distorts to show that a property of a run fails when the code has that bug.

## Runs

| Run | Instance | Shows | States |
|---|---|---|---|
| `ListRing.cfg` | 2 lists, 3 items, 3 values of which one is `portMAX_DELAY` | the rings are sound while `vListInsert` is interrupted, they implement `ListSpec`, the walk ends | 333,879 |
| `TasksBlocking.cfg` | idle, 2 tasks on 2 levels, modulus 4, 2 pended ticks; delay, event, yield, suspendAll | ticks, sleep and wake-ups: `TicksConserved`, `WakeTimesAhead`, `UnblockTimeNotLate`, `PendingIsTransient`, `MostUrgentFirst`, refinement of `TaskStates` | 258,378 |
| `TasksControl.cfg` | idle, 2 tasks on 1 level which change between 2 priorities, modulus 2; suspend, create, delete, event, priority, suspendAll | `ItemsInOneList`, `ReadyByPriority`, `RunningIsHighest`, `AssertionsHold`, refinement of `TaskStates` | 820,120 |
| `TasksLiveness.cfg` | idle, 2 tasks on the highest level and 1 below, modulus 3; delay, suspendAll | delays end, and the two share the processor by the time slice alone, if critical sections and suspensions end | 187,840 |
| `Queue.cfg` | 2 tasks (alike), 2 messages, length 2; everything but overwrite | the ring implements a bounded sequence; `NoReceiverForgotten`, `NoSenderForgotten` | 455,715 |
| `QueueLiveness.cfg` | 2 tasks, 1 message, length 1; with overwrite, without reset | calls end | 29,689 |
| `QueueLockWraps.cfg` | 1 task, length 1, `int8_t` of full width; overwrite, receive | violated: 128 sends under one lock forget a receiver | |
| `DelayStarved.cfg` | idle, 2 tasks; delay | violated: a delay need not end on this port | |
| `Mutex.cfg` | idle, 3 tasks of different priorities, 2 mutexes; one base priority changes | `HolderInherits`, `RaisedOnlyWhileHolding`, `MostUrgentServed` | 402,259 |
| `MutexSwitch.cfg` | the same without changes of priority | violated: a more urgent task stays ready after a mutex was given | |
| `Services.cfg` | see below | `CalledWhenDue`, `ListedWhenDue`, `ExpiredAreCalled`; `ReleasedTogether`, `GroupRoundsInStep`; `HeapPartition`; `WaitsAreExact` | 378,472 |
| `TimersStop.cfg` | the timers of `Services.cfg`, modulus 6 | violated: a stopped timer goes on expiring | |

Why these sizes. With two lists and three items a ring has an empty, a singleton and a
longer form while the other list changes, and equal and different values meet. Two tasks and
the idle task are enough for a waker, a waiter and somebody to preempt; two of them asleep
give an ordered delayed list and one on each side of the wrap; a third task is added where
turn-taking is the question. A modulus of 4 lets a task sleep 1 to 3
ticks from any count, thus on both sides of the wrap and right at it (3 is `portMAX_DELAY`,
which also means "for ever" to an event wait); two pended ticks make the replay
loop turn twice. Deadlock is checked in the runs of
`Tasks`: the idle task can always step. `TasksControl.cfg` has no delays, which would multiply
its states, so that what its properties say of sleeping tasks (the delayed list at the wrap, the
states `TaskStates` counts ticks in, a time-out that meets an event) is shown by
`TasksBlocking.cfg` and by the theorems, which know no such limit. `MostUrgentFirst` is for event lists
where no priority is set: what a priority set while the item is in the list does, see below.

For the queue, length 2 with two messages shows their order and makes both pointers wrap;
two tasks can both wait, one can wait while the other is in the middle of
its call, and handlers come on top of them. Three tasks give 9.2 million states, on which
the same properties hold; the run is left out for its time. `MaxLockCount = 2` lets a lock
count exceed the number of waiters. `NoReceiverForgotten` counts, for every message beside
a sleeping receiver, a receiver that is on its way to look or a wake-up that
`prvUnlockQueue` owes. `NoSenderForgotten` has an exception which is the code's:
`xQueueGenericReset` frees every slot and wakes one sender, so that from a reset until the
queue is full again (`resetRoom`) senders may sleep beside free slots.

`TypeOK` and the invariants are checked on different runs because a run's calls decide
which can be disturbed: priorities never change in `TasksBlocking`, where the event
list is in order. When they do, it need not be: see the findings.

For the mutexes, a holder, a waiter and a task between them are what priority inversion
takes, and two mutexes what it takes to give them in another order than they were taken, to
wait for one while holding another, and to block each other for good, for which reason
deadlock is not checked. Only the lowest task changes its priority, to that of the middle
one and back: a task that holds, waits or was raised meanwhile.
`HolderInherits` speaks of base priorities, because the code does not pass on what a waiter
inherits itself, and leaves out the time after a change of priority, because
`vTaskPrioritySet` can lower a holder under its waiters, and the time after a missed
switch (`missed`). That the second is needed takes four tasks to show, two of them of the
lowest priority: with three, a give that misses a switch has just woken the last of
the two others, and nobody is left waiting. The case, which was met when `HolderInherits` was
proved, is told under the findings; the theorem covers any number of tasks.
`MostUrgentServed` has three
conditions, each of which the code needs: tasks use one mutex at a time (a task that
always holds some mutex keeps what it inherited, and waits are not passed on along chains), no
priority is set, and no switch is missed, which `MutexSwitch` shows can happen with two
mutexes. Time limits of every task together with changes of priority give 970,000 states, on
which the three invariants hold in seconds, and a liveness check takes too long. So `MCMutex`
has behaviours of two kinds: waits of all tasks may have limits and no priority is set, or
priorities are set and the waits of the highest task alone, which others inherit from, may
have limits.

`Services.cfg` has a timer that reloads with period 1 or 2 and may be deleted and one that does
not with period 3, a command queue of 2, modulus 7, times 5 to 8, commands and expiries up to
2 ticks late and start times read 1 tick early: expiry times and commands fall on both sides of
the wrap, in every order with it, and the reloading timer falls behind by more than a
period. `CalledWhenDue`, `ListedWhenDue` and `ExpiredAreCalled` leave out the timers in
`overtaken`, those of the finding below. In the event group three members meet and a visitor
waits for, sets and clears other bits or watches those of the rendezvous, with one pended
call at a time. The rounds are counted modulo 4, more than the members can be apart. The
heap holds 96 bytes, blocks of 16 to 32 with their headers and any order of calls: up to six
blocks, and free blocks on no, one or both sides. `Waits` has modulus 5, times to 12 and
limits of 1 to 4, so that two wraps pass, and a task looks within the turn, after the wrap, more
than a turn late, and too late. The runs stop at their last tick, hence without the check for deadlock.

The refinement `ImplementsTaskStates` is the strongest property: it forgets the lists and
absolute times, keeps for each task its state, the ticks it has left and its event, and
demands that a tick is counted only when nobody who had no tick left is still asleep,
and that a task leaves its sleep for its event or its time only.

## Fairness

`FairSpec` of `Tasks` assumes

- `WF(InTick)`: the tick handler ends;
- `SF(Proceed or IdleTask)`: code inside the kernel goes on. Strong, because an interrupt
  disables the task's step while it is handled; the timer period leaves the tasks
  some time between two ticks;
- `SF(TickInterrupt)`: the timer interrupt, once raised, is latched by the ECLIC and taken
  when the threshold allows it infinitely often.

Nothing is assumed of the application's calls or of other interrupts: a task may run for
ever without calling the kernel. So the liveness properties are stated under
`ProcessorShared`: critical sections are left and suspensions end again and again. The
run `DelayStarved` shows that the first half is not idle: the code itself may break it.

`FairSpec` of `Queue` assumes, for each task, strong fairness of going on in its call and of
its time passing. The first says that a task that is ready again and again runs again and again:
for tasks of one priority that is `TimeIsShared` of `Tasks`; a task below others that never
block has no such promise, and the liveness of its calls is not claimed. Neither sends
nor calls of handlers are assumed to come.

`LimitedCallsEnd` has an exception for receivers, and not for senders. A send gives up as soon
as its time has passed (`queue.c:915`); a receive looks once more and, if a message has come
by then, starts over (`queue.c:1420`), and may find it gone. It returns unless
that happens for ever.

`FairSpec` of `Mutex` assumes strong fairness, for each task, of going on in its call or giving a
mutex back (an application that keeps a mutex for ever starves others by itself), and that
its time passes. Strong, because the scheduler of the model, like that of the code, lets the
task run only when it is most urgent: the fairness does not give it the processor.

`ServicesSpec` has weak fairness of the timer task, which has the highest priority; and of each member of the rendezvous, which calls again
and again. Nothing is assumed of visitors, handlers or those who post commands.

`Spec` of `ListRing` has weak fairness of the walk alone: the handlers that interrupt
`vListInsert` return.

## Proofs

TLAPS 1.4.5 with Z3, Zenon and LS4 checks every leaf.

Each proof module states an inductive invariant, one lemma per action that keeps it, and the
theorems read off it. The invariants were checked by TLC on the safety instances before
they were proved. All are for any value of the constants; what is assumed of them is
named under each module and evaluated by the runs.

`ListTheorems`: what the operators of `Lists` return. First who is in a list afterwards (one
element inserted or removed), with the exact position where it matters, then what an
insertion or removal does to a list in order of a value (`KeepsOrder`, `Below`,
`InsertSortedBelow`).

`ListRingProofs`, for any set of lists and any finite set of items:

- `RingInvariant`: the inductive invariant;
- `TypesKept`, `RingsAreInverse`, `RingsAreClosed`, `IndexNeverDangles`, `WalkStaysInRing`,
  `CountsAreExact`: all six safety invariants of the run, read off it.

They are not inductive together. Nothing in them excludes two items that form a ring of their
own beside the list, and then `uxListRemove` leaves `pxIndex` on an item of no list.
`RingsOrdered` excludes it without recursion: nodes have ranks that grow along `pxNext` until it
comes back to `xListEnd`. Closure needs the inverse property: unlinking an item by its own two
pointers detaches it from both neighbours only if they point back.

`TasksProofs`, for any tasks, priorities, tick width and bounds:

- `SchedulerInvariant`: `Inv` is inductive over every action;
- `TypesKept` (`TypeOK`), `NoTickIsLost` (`TicksConserved`), `NoTaskStaysPending`
  (`PendingIsTransient`): read off it.

None of the three is inductive alone. `TypeOK` needs that a switch finds some ready task: the
loop of `taskSELECT_HIGHEST_PRIORITY_TASK` runs below priority 0 otherwise. That is
`IdleStays`: the idle task is always in ready list 0, which needs that it never blocks
and is nobody's argument. `TicksConserved` compares the tick count with the pended ticks,
or with the local copy of them during the replay; that the copy and the count are cleared
at the right moment needs `Replays`, and that only the running task can be there needs
`OneInside`: whoever is inside the body of `xTaskResumeAll`, or between a suspension of its
own and its resumption, is the running task, because the scheduler is suspended or interrupts
are masked. `PendingIsTransient` needs the same. `Sections` and `Deletions` relate the
program counters to the nesting count and to the termination list.

`TaskListsProofs`, on top of `Inv`:

- `HomesInvariant`: `HInv`, that is `Inv`, `Homes`, `Standing` and `Blocking`, is inductive;
- `NoTaskIsLost` (`ItemsInOneList`), `NoReadyTaskIsMissed` (`ReadyByPriority`): read off it;
- `MostUrgentTaskRuns` (`RunningIsHighest`): from `Urgent`, a second invariant on top.

`Homes` says of each task which of its two items is where. It is stronger than
`ItemsInOneList` in one place: a task whose event item is in a list has its state item in a list of
blocked tasks. Without it a wake-up would put a ready task on the ready list a second
time. That the running task can block (`prvAddCurrentTaskToDelayedList` removes it from a ready
list unconditionally) needs `Standing` and `Blocking`: the running task is ready unless it
is on its way to give up the processor after it suspended or deleted itself, and nobody can take
it off the ready list between `vTaskSuspendAll` and the block. `RunningIsHighest` speaks of
a task in its own code; `Urgent` says for every place in the kernel why the switch that is due
will still come: it is pending, the tick in progress will ask for it, the task is about
to yield, or it is about to compare its priority with that of the task it created.

`TaskTimeProofs`, on top of both:

- `NobodySleepsTooLong` (`WakeTimesAhead`), `NoWakeTimeIsSkipped` (`UnblockTimeNotLate`): from
  `Times`, which has to say of every delayed task what `UnblockTimeNotLate` says of the first,
  as the first may be removed without the cached time being set anew;
- `NoAssertionFails` (`AssertionsHold`): the delayed list is empty at the wrap because nobody can
  wake there at a time greater than the last; the nesting count is positive at each exit because
  (`Nesting`) it is no less than the number of critical sections that tasks stand inside, counted as
  a finite set of pairs: two for a task in `vTaskDelete` that yielded inside `vPortFree`; the list of
  deleted tasks is not empty when the idle task takes from it because (`CleanUpFound`) nobody else does;
- `EventsWakeTheMostUrgent` (`MostUrgentFirst`), under the hypothesis that `"priority"` is not among
  `Calls`, the groups of calls that the application makes. The hypothesis is needed, and is the
  finding on `vTaskPrioritySet` below; it is that of the run which checks the property;
- `SchedulerImplementsTaskStates` (`ImplementsTaskStates`): the scheduler implements `TaskStates`.

The refinement takes no invariant of its own. `Homes` makes the mapping work: a task is in one list, so
each list stands for a state (`StateOfLists`), and a step that moves the items of one task
changes one state (`OneChanges`). One lemma per kind of step says which step of
`TaskStates` it is: most change no state (`StillSteps`); a wake-up, also from the pending list or
by the tick, is `WakeUp` or `Posted` (`WakeUps`, `PendingChanges`); a block is `Sleep` for the ticks
asked for, because the wake time is that many ticks ahead, counted across the wrap if it is below the
count (`TimeToSleep`). A tick, taken or replayed, is `CountTick` (`TickChanges`), which
needs `Times`: whoever sleeps has a tick left, and at the wrap nobody is left in the
delayed list when the two lists change places. `WhoRuns` shows that whoever is switched in is ready:
`vTaskSwitchContext` takes a task from the list of some priority, and by `Ordered`, in the next state, that
list is the one of the task's own priority.

The assumptions are `TasksAssumption` and `ListRingAssumption`: priorities and bounds are
natural numbers, the initial ready lists hold no task twice and hold the idle task at priority 0,
the tick count has at least two values.

`QueueProofs`, for any length, tasks, messages and bounds:

- `QueueInvariant`: `TypeOK` and `PointersAgree` together are inductive;
- `TypesKept`: `TypeOK`;
- `QueueImplementsSpec`: the refinement of `QueueSpec`, which is safety, hence provable: the
  initial state maps to the empty sequence, and each step to a step or a stutter;
- `WakeUpsInvariant`: `Wakes` is inductive on top, if the lock counts do not wrap;
- `ReceiversRemembered` (`NoReceiverForgotten`), `SendersRemembered` (`NoSenderForgotten`): its
  last two conjuncts.

The code never compares its two pointers; that `pcWriteTo` is the slot after the last
message (`PointersAgree`) follows from both being moved in step with `uxMessagesWaiting`, and
without it a send could overwrite a waiting message. The lemmas between: slots modulo
the length (`SlotAhead`, `AfterAhead`, `AheadDiffers`: fewer than a full turn apart means
different slots), then the ring read as a sequence (`WriteAppends`, `WritePrepends`,
`ReadDrops`), then one lemma per action. The assumption is `QueueAssumption`: the length is
positive, and one if the queue is ever overwritten, which `xQueueGenericSend` asserts
(`queue.c:731`).

The wake-ups are counted: the messages beside a sleeping receiver are no more than the receivers
that will look at the queue and the wake-ups the transmit lock owes. Each action changes
these numbers by one, as cardinalities of finite sets. For the step that puts a receiver to sleep
the count must hold before anybody sleeps: `Tested` says that what `prvIsQueueEmpty` found has
changed since by no more than the lock counts, `Locking` that the locks are held just between
`prvLockQueue` and `prvUnlockQueue` by the one task that suspended the scheduler, and `Sleeping`
that who is in an event list or in the pending list is blocked and will look when woken. The
theorems have the hypothesis `MaxLockCount <= Int8Max`: handlers do not call more often
in one lock than an `int8_t` counts. It cannot be dropped: `QueueLockWraps` is the
counterexample at 128.

`MutexProofs`, for any tasks, mutexes, priorities and time limits:

- `MutexInvariant`: `Inv` is inductive;
- `TypesKept` (`TypeOK`), `InheritanceEnds` (`RaisedOnlyWhileHolding`): read off it;
- `InheritanceInvariant`: `IInv` is inductive;
- `HolderIsUrgent` (`HolderInherits`): read off it.

`RaisedOnlyWhileHolding` is not inductive: a task at its base priority may get there by
`vTaskPrioritySet` while it still holds a mutex, and its event item must be right when it
gives the mutex and no disinheritance happens. `ItemsMatch` says so. `BaseWithoutMutex` needs that
whoever inherits holds a mutex, hence the count of `HeldCounted`, which every take and give
changes by the one element it adds to or removes from a finite set. The assumption is
`MutexAssumption`: finitely many tasks and mutexes, and priorities in range. Nothing is needed of
the schedule.

`HolderInherits` needs the schedule. Between a give and the take of the task it woke, the mutex has
no holder, and whoever takes it inherits nothing from those who still wait. `Served` closes the gap:
beside every waiter there is a holder, or a ready task about to take the mutex, that is as
urgent as the waiter's base priority. The step from there to the holder needs that
nobody less urgent takes the mutex first, which is `MissesNoted`: the running task is a most urgent
one, or a switch was missed and `missed` says so. That the first waiter, which the give wakes, is
at least as urgent as those behind it is `WaitersInOrder`; a waiter may have been raised since it was
put in the list, so the event list is not sorted by the values of now, and the invariant is
`Below`: the value of a task is no greater than the uninherited value of any task behind it.

`ServicesProofs`, for any width of the tick count, limits and periods, any heap, and any timers:

- `TimesAreExact` (`WaitsAreExact`): from `WaitsInv`, which relates the `TimeOut_t` of the waiting
  task to the instant at which it was set, with what was left of the limit then, and the last wake
  time of the periodic task to that of its period. The lemmas are on remainders: the difference of two
  counts is never more than the time that passed; after one wrap at most it is that time, or the
  count has gone past what it was and a turn has passed (`DifferenceOfCounts`), which is what the
  count of overflows is there to tell. The bounds on lateness are hypotheses inside the property,
  and the assumption is `WaitsAssumption`.
- `HeapStaysPartitioned` (`HeapPartition`): from `HeapInv` (`HeapInvariant`), which adds to it that sizes are
  positive, that no block reaches beyond `pxEnd`, and that the free list ascends: without the last a
  block would be put in the wrong place, and merged with a block it does not touch. Malloc is a cut
  (`SplitKeepsPartition`) followed, as free is, by an insertion (`InsertKeepsPartition`), which
  finds the neighbours by the order of the list and then is a merge of sets of blocks
  (`MergeKeepsPartition`): no two blocks end at the same address, so that the blocks that disappear are
  nobody else's neighbours. That the free bytes are the sum of the free blocks takes a sum over a set,
  which the library defines by recursion over the set, and thus induction; it is done by
  hand, with a least counterexample (`NoLeast`), for the three facts needed: there is such a sum
  (`SumsExist`), only one (`SumsAgree`), and any block may be taken first (`SumsTakeAny`). The
  assumption is `Heap4Assumption`.
- `BlocksStayAligned`, the alignment in `HeapPartition`, comes on top of `HeapInv`. Merging makes no
  new block, and a block is cut at a distance that `Rounded` makes a multiple of the alignment. It is
  what the assertions of `pvPortMalloc` demand (`heap_4.c:236`, `:300`).
- `GroupInvariant`: `GroupInv` is inductive, for any members, visitors and bits that satisfy
  `EventGroupsAssumption`; `MembersGoTogether` (`ReleasedTogether`) and
  `NobodyMissesItsBits` (its conjunct `NobodyWaitsInVain`: the condition of a waiting task is never met
  by the bits of the group) are read off it.
- `TimersInvariant`: `TimersInv` is inductive; `TimerTypesKept` (`TypeOK`), `CalledOnlyWhenDue`
  (`CalledWhenDue`) and `ListedAsDue` (`ListedWhenDue`) are read off it.

`ListedWhenDue` speaks of the places at which the timer task looks at its lists; in between, timers are
on their way. `Standing` says of every timer and every place where it is (in one of the lists, in
a `START_DONT_TRACE` in the queue, in the command being processed, or noted for a restart) and
that the time kept there, which is a remainder, is that of `due`. For a timer in a list this takes
the turn of the tick count that the list stands for (`ListsEpoch`): the turn of `lastTime`, but one less
while `prvSwitchTimerLists` empties the old list. The comparisons of
`prvInsertTimerInActiveList`, on remainders, then say what they would say of full times, because two
times that are less than a turn apart are ordered as their remainders, unless a wrap lies between.
That they are so close is the rest of the invariant: `Recent` for each command (`QueueValid`,
`CommandValid`) and each time noted for a restart (`StageKept`), from the limit on lateness in
`TimersAssumption`. A timer in `overtaken` is excused from `Standing` alone: such a timer, too, is in
one list at most and not freed while listed. No wrap is missed either: a timer in a list is due
a period after the last sample at the latest, and the next sample comes in time for it; while both
lists are empty, the turns that pass do not matter.

In an event group these two need each other. The last member of a rendezvous finds all bits set;
that the others are then in the list, and so let go by the same walk, is `MembersInStep`: the bits
of a member are set while it waits and only then. It survives what visitors and pended calls do because
those leave the bits of the members alone (`VisitorsKeepOff`, which includes what they ask to have
cleared) and let no member go: if one could go without a member coming, all bits would be there already,
and it would be waiting in vain. When the group is deleted the members are woken with no bits, and
none counts a round. That members use bits of their own and visitors others is `EventGroupsAssumption`, the use
that the documentation of `xEventGroupSync` describes (`event_groups.h:609-727`).

`ItemsInOneList` is stated with disjoint sets and injective sequences rather than by counting
occurrences, so that it can be reasoned about; the two say the same.

Only model-checked:

- the refinement `ImplementsListSpec`, which is out of reach: the mapping reads a list off its
  ring by a recursive function, and what that returns after an insertion takes induction;
- all liveness, that of the rendezvous (`GroupRoundsInStep`) included.

Out of the prover's reach altogether: liveness and `ENABLED`; induction over data, since
the induction theorems of the library take operators as parameters, except where a least
counterexample can be named, as for the sums of the heap; anything about
`RECURSIVE` operators, of which the project has none.

## Findings

- **A yield inside a critical section masks the next task's interrupts** (`DelayStarved`).
  `xTaskResumeAll` yields before it leaves its critical section (`tasks.c:2119`). The
  usual ports pend the switch until the section is left or keep a nesting count per task, as
  the comment at `port.c:89-90` says; here the switch is immediate and the count global. If
  the task switched in blocks, and so on down to idle, idle runs with the tick masked: no
  delay ends, contrary to `task.h:663-665`. An unmasked moment comes back only when the task
  that yielded runs again.
- **A give misses a switch** (`MutexSwitch`). A task holds two mutexes; a less urgent task waits
  for one, a more urgent one for the other, so that the holder inherits its priority. It gives the
  second: the more urgent task is woken, and is not above the inherited priority. It gives the
  first and falls to its base priority; but because a task waits for this mutex,
  only that task is looked at for a switch (`queue.c:802-829`). The comment at
  `tasks.c:3840-3846` names this very case and says that the switch should occur "whether a task
  is waiting on it or not". A tick does not repair it: it switches only for tasks it wakes itself
  and for tasks of equal priority. It undoes priority inheritance too: the task that goes on may
  take again the mutex it gave first, before the task it woke has run, while a third, less
  urgent than that but more than itself, still waits for this mutex. `vTaskPriorityInherit` is
  called by a task that begins to wait; a task that takes a mutex inherits nothing from those who
  wait already, and so it holds the mutex below the third task's priority. (Take any four tasks
  of priorities 1, 1, 2, 3.) The proof of `HolderInherits` failed on it.
- **A stopped timer goes on** (`TimersStop`). A timer that reloads and is processed a whole period
  late is restarted by a command at the back of the queue (`timers.c:800`, also 519 and
  913). A stop that is in the queue already is processed first; then the restart inserts the
  timer again, against `timers.h:561`. With `xTimerDelete` in place of the stop, the restart
  works on memory that was freed. This takes a timer task that is late by a period.
- **The lock counts of a queue wrap** (`QueueLockWraps`). `cTxLock` and `cRxLock` are `int8_t`
  and are incremented without a check (`queue.c:1055`, `1508`). After 128 sends from handlers
  while a queue is locked, the unlock wakes nobody, and a receiver that was placed on the
  event list under that lock sleeps beside the message, against `queue.c:1053-1054`. The lock
  is held for a few hundred instructions, so this takes a burst of interrupts.

Met while modelling and not stated by a run:

- `vTaskPrioritySet` rewrites the value of an event item inside a sorted list
  (`tasks.c:1510-1512`), so that the event list is no longer in priority order, against
  the comment at `tasks.c:2845-2847`. `MostUrgentFirst` holds where priorities do not change.
- A wait for a mutex that times out leaves its owner at the inherited priority until the
  owner has given all its mutexes. The code says nothing else.
- When handlers fill the timer queue while the timer task is about to restart a timer, the
  assertion at `timers.c:520`, `801` or `914` stops the system.
- `ulTaskNotifyTake` and `xTaskNotifyWait` yield inside their critical section
  (`tasks.c:4236`, `4309`), with the consequence of the first finding: interrupts stay masked while the task waits,
  unless another leaves a section of its own.
- `vTaskSuspend` of a task that waits for a notification leaves `ucNotifyState` as it is, so that
  the next notification makes the suspended task ready.

## Not modelled

The share of the repository that the modules map is small because most of it is not
this program: of 290,000 lines, the kernel the build compiles (lists, tasks, queues, timers, event
groups, heap and port) is some 19,000 with its headers and comments. The rest are network
stacks and demo tasks of the FreeRTOS distribution under `Common/`, which the
build leaves out, device drivers without state, and benchmarks.

Task notifications: nothing in the build uses them, and on this port a wait for one
masks the interrupts that should end it (see the findings). A run of them would show that
again and little else.

A handler that interrupts the tick handler (`portasm.S:422`). `vQueueDelete`,
`xQueuePeekFromISR`, `xEventGroupSync` with a time limit. Queue reads and writes of a task that
is suspended or deleted in the middle of a call.

Stack checking, trace hooks, run-time statistics, task names and lists for display, MPU
support, thread-local storage: no part in control. `heap_1/2/3/5`, `croutine.c`: not built.
Saving and restoring of registers. The board support package: register accessors.
The tickless idle, abort-delay, recursive-mutex and queue-set code: configured out.

## Plan

Modelled: the lists, the scheduler, queues, mutexes, timers, event groups, the heap and
the time-outs. Proved: every safety invariant of the lists, the scheduler, queues, mutexes,
timers, event groups, the heap and the time-outs, and the refinements of the scheduler and of a queue.
Next: the nested interrupt of the tick handler, as a variant of the tick at a finer grain.
