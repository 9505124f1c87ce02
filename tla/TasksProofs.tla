---------------------------- MODULE TasksProofs ----------------------------
(***************************************************************************)
(* Proofs about the scheduler, for any tasks, priorities, width of the     *)
(* tick count and calls: types, the ticks that a suspension of the         *)
(* scheduler defers, and the tasks it keeps pending.                       *)
(***************************************************************************)
EXTENDS Tasks, ListTheorems

\* Inside xTaskResumeAll, where uxCriticalNesting is raised over several steps.
Resuming == {"drain", "drained", "replay", "leave"}

\* Where a task holds the scheduler suspended for a call of its own, or has just
\* ended that.
Inside == Resuming \cup {"block", "resumeAll"}

\* Where the calls that end in xTaskResumeAll, or that yield, go on.
ReturnPoint == {"run", "yield", "newTCB", "insert", "freed", "clean", "freeTCB"}

\* Ready lists among which vTaskSwitchContext always finds a task.
LegalLists(lists) ==
    /\ lists \in [Priority -> [items : Seq(Task), index : Nat]]
    /\ \A p \in Priority : IsList(lists[p], Task)
    /\ Contains(lists[0].items, Idle)

\* The idle task never leaves the ready list of priority 0.
IdleStays ==
    /\ LegalLists(pxReadyTasksLists)
    /\ uxPriority[Idle] = 0
    /\ pc[Idle] # "block"

\* Only the running task is inside xTaskResumeAll or holds the scheduler suspended
\* for a call of its own.
OneInside ==
    \A u \in Task : pc[u] \in Inside => u = pxCurrentTCB

\* What the scheduler suspension and the critical section are where the code stands.
Sections ==
    /\ pc[pxCurrentTCB] \in {"block", "resumeAll"} => uxSchedulerSuspended > 0
    /\ pc[pxCurrentTCB] \in Resuming => uxSchedulerSuspended = 0 /\ uxCriticalNesting > 0
    /\ inTick # "no" => /\ uxSchedulerSuspended = 0
                        /\ pc[pxCurrentTCB] # "replay" => uxCriticalNesting = 0

\* The ticks that are pended and those still to be replayed.
Replays ==
    /\ pc[pxCurrentTCB] = "replay" /\ inTick = "no" => replayed > 0
    /\ pc[pxCurrentTCB] # "replay" => replayed = 0
    /\ uxSchedulerSuspended = 0 /\ pc[pxCurrentTCB] \notin {"drain", "drained", "replay"}
         => uxPendedTicks = 0

Deletions == uxDeletedTasksWaitingCleanUp = Len(terminating)

Inv == /\ TypeOK /\ IdleStays /\ ret \in [Task -> ReturnPoint] /\ OneInside /\ Sections
       /\ Replays /\ Deletions /\ TicksConserved /\ PendingIsTransient
-----------------------------------------------------------------------------
(* Arithmetic of the tick count.                                           *)

\* The tick count is a natural number below its modulus.
LEMMA ModulusPositive == TickModulus \in Nat \ {0, 1} /\ Tick \subseteq Nat /\ 0 \in Tick
                         /\ portMAX_DELAY \in Tick
BY TasksAssumption DEF Tick, portMAX_DELAY

\* A remainder is a tick count.
LEMMA ModInTick == ASSUME NEW x \in Nat PROVE x % TickModulus \in Tick
BY ModulusPositive DEF Tick

\* A tick count is its own remainder.
LEMMA ModOfTick == ASSUME NEW x \in Tick PROVE x % TickModulus = x
BY ModulusPositive DEF Tick

\* The remainder does not see where the count wrapped.
LEMMA ModSuccessor ==
    ASSUME NEW x \in Nat
    PROVE  ((x % TickModulus) + 1) % TickModulus = (x + 1) % TickModulus
<1> DEFINE M == TickModulus
<1>1. M \in Nat \ {0, 1}
  BY ModulusPositive
<1> HIDE DEF M
<1>2. PICK r, q : r = x % M /\ q = x \div M
  OBVIOUS
<1>3. r \in 0 .. M - 1 /\ q \in Nat /\ x = M * q + r
  BY <1>1, <1>2
<1>4. CASE r + 1 < M
  <2>1. x + 1 = M * q + (r + 1) /\ r + 1 \in 0 .. M - 1
    BY <1>1, <1>3, <1>4
  <2>2. (x + 1) % M = r + 1
    BY <1>1, <1>3, <2>1
  <2>3. (r + 1) % M = r + 1
    BY <1>1, <2>1
  <2> QED BY <1>2, <2>2, <2>3 DEF M
<1>5. CASE r + 1 = M
  <2>1. PICK k \in Nat : k = q + 1
    BY <1>3
  <2>2. (x + 1) % M = 0
    <3>1. x + 1 = M * k + 0
      BY <1>1, <1>3, <1>5, <2>1
    <3>2. (M * k + 0) % M = 0
      BY <1>1
    <3> QED BY <3>1, <3>2
  <2>3. M % M = 0
    BY <1>1
  <2> QED BY <1>2, <1>5, <2>2, <2>3 DEF M
<1> QED BY <1>1, <1>3, <1>4, <1>5

\* One tick counted and one less to replay: the sum stays, across the wrap.
LEMMA ModNextTick ==
    ASSUME NEW x \in Tick, NEW r \in Nat, r > 0
    PROVE  (((x + 1) % TickModulus) + (r - 1)) % TickModulus = (x + r) % TickModulus
<1> DEFINE M == TickModulus
<1>1. M \in Nat \ {0, 1} /\ x \in 0 .. M - 1
  BY ModulusPositive DEF Tick
<1> HIDE DEF M
<1>2. CASE x + 1 < M
  <2>1. (x + 1) % M = x + 1 /\ (x + 1) + (r - 1) = x + r
    BY <1>1, <1>2
  <2> QED BY <2>1 DEF M
<1>3. CASE x + 1 = M
  <2>1. (x + 1) % M = 0 /\ 0 + (r - 1) = r - 1 /\ r - 1 \in Nat
    BY <1>1, <1>3
  <2>2. PICK s, q : s = (r - 1) % M /\ q = (r - 1) \div M
    OBVIOUS
  <2>3. s \in 0 .. M - 1 /\ q \in Nat /\ r - 1 = M * q + s
    BY <1>1, <2>1, <2>2
  <2>4. x + r = M * (q + 1) + s /\ q + 1 \in Nat
    BY <1>1, <1>3, <2>3
  <2>5. (x + r) % M = s
    BY <1>1, <2>3, <2>4
  <2> QED BY <2>1, <2>2, <2>5 DEF M
<1> QED BY <1>1, <1>2, <1>3
-----------------------------------------------------------------------------
(* The ready lists.                                                        *)

\* The idle task has its priority.
LEMMA PriorityIsNat == Priority \subseteq Nat /\ 0 \in Priority /\ Idle \in Task
BY TasksAssumption DEF Priority

\* A task other than the idle task leaves its ready list: the lists stay legal.
LEMMA NotReadyLegal ==
    ASSUME LegalLists(pxReadyTasksLists), NEW u \in Task, u # Idle
    PROVE  LegalLists(NotReady(u))
<1>1. \A p \in Priority : IsList(NotReady(u)[p], Task)
  BY UnlinkProperties DEF LegalLists, NotReady
<1>2. Contains(NotReady(u)[0].items, Idle)
  BY UnlinkProperties, PriorityIsNat DEF LegalLists, NotReady
<1>3. NotReady(u) \in [Priority -> [items : Seq(Task), index : Nat]]
  BY <1>1 DEF NotReady, IsList
<1> QED BY <1>1, <1>2, <1>3 DEF LegalLists

\* prvAddTaskToReadyList keeps the ready lists legal.
LEMMA ReadyAtLegal ==
    ASSUME LegalLists(pxReadyTasksLists), NEW u \in Task, NEW p \in Priority,
           u = Idle => p = 0
    PROVE  LegalLists(ReadyAt(u, p))
<1>1. /\ \A q \in Priority : IsList(NotReady(u)[q], Task)
      /\ NotReady(u) \in [Priority -> [items : Seq(Task), index : Nat]]
  BY UnlinkProperties DEF LegalLists, NotReady, IsList
<1>2. \A q \in Priority : ReadyAt(u, p)[q] = IF q = p THEN InsertEnd(NotReady(u)[p], u)
                                             ELSE NotReady(u)[q]
  BY <1>1 DEF ReadyAt
<1>3. \A q \in Priority : IsList(ReadyAt(u, p)[q], Task)
  <2> TAKE q \in Priority
  <2>1. IsList(InsertEnd(NotReady(u)[p], u), Task)
    BY <1>1, InsertEndProperties
  <2> QED BY <2>1, <1>1, <1>2
<1>4. ReadyAt(u, p) \in [Priority -> [items : Seq(Task), index : Nat]]
  <2>1. DOMAIN ReadyAt(u, p) = Priority /\ ReadyAt(u, p) = [q \in Priority |-> ReadyAt(u, p)[q]]
    BY <1>1 DEF ReadyAt
  <2> QED BY <2>1, <1>3 DEF IsList
<1>5. Contains(ReadyAt(u, p)[0].items, Idle)
  <2>1. CASE u = Idle
    BY <2>1, <1>1, <1>2, InsertEndProperties, PriorityIsNat
  <2>2. CASE u # Idle
    <3>1. Contains(NotReady(u)[0].items, Idle)
      BY <2>2, NotReadyLegal DEF LegalLists
    <3> QED BY <3>1, <1>1, <1>2, InsertEndProperties, PriorityIsNat
  <2> QED BY <2>1, <2>2
<1> QED BY <1>3, <1>4, <1>5 DEF LegalLists

\* taskSELECT_HIGHEST_PRIORITY_TASK ends on a list that is not empty: its
\* configASSERT( uxTopPriority ) holds.
LEMMA HighestReadyFound ==
    ASSUME NEW lists, LegalLists(lists), NEW top \in Priority
    PROVE  /\ HighestReady(lists, top) \in Priority
           /\ lists[HighestReady(lists, top)].items # <<>>
<1> DEFINE P == {p \in 0 .. top : lists[p].items # <<>>}
<1>1. top \in Nat /\ 0 .. top \subseteq Priority
  BY TasksAssumption DEF Priority
<1>2. 0 \in P
  BY <1>1 DEF LegalLists, Contains
<1>3. P \in SUBSET (0 .. top) /\ P # {}
  BY <1>2
<1>4. Max(P) \in P
  <2> HIDE DEF P
  <2> QED BY <1>1, <1>3, MaxExists
<1> QED BY <1>1, <1>4 DEF HighestReady

\* vTaskSwitchContext finds a task, whatever lists it is given.
LEMMA SwitchFindsTask ==
    ASSUME NEW lists, LegalLists(lists), NEW top \in Priority,
           NEW p, p = HighestReady(lists, top)
    PROVE  /\ p \in Priority
           /\ LegalLists([lists EXCEPT ![p] = Advance(@)])
           /\ lists[p].items[NextIndex(lists[p])] \in Task
<1>1. p \in Priority /\ lists[p].items # <<>> /\ IsList(lists[p], Task)
  BY HighestReadyFound DEF LegalLists
<1>2. /\ IsList(Advance(lists[p]), Task)
      /\ Advance(lists[p]).items = lists[p].items
      /\ lists[p].items[NextIndex(lists[p])] \in Task
  BY <1>1, AdvanceProperties
<1> QED BY <1>1, <1>2, PriorityIsNat DEF LegalLists, IsList

\* What vTaskSwitchContext leaves, whether it switches or notes a pending yield.
LEMMA SwitchContextType ==
    ASSUME NEW lists, LegalLists(lists), NEW top \in Priority, SwitchContext(lists, top),
           pxCurrentTCB \in Task
    PROVE  /\ LegalLists(pxReadyTasksLists') /\ uxTopReadyPriority' \in Priority
           /\ pxCurrentTCB' \in Task /\ xYieldPending' \in BOOLEAN
           /\ uxSchedulerSuspended # 0 => pxCurrentTCB' = pxCurrentTCB
<1>1. CASE uxSchedulerSuspended # 0
  BY <1>1 DEF SwitchContext, GoOn
<1>2. CASE uxSchedulerSuspended = 0
  <2>1. PICK p : p = HighestReady(lists, top)
    OBVIOUS
  <2>2. /\ xYieldPending' = FALSE
        /\ pxReadyTasksLists' = [lists EXCEPT ![p] = Advance(@)]
        /\ pxCurrentTCB' = lists[p].items[NextIndex(lists[p])]
        /\ uxTopReadyPriority' = p
    BY <1>2, <2>1 DEF SwitchContext
  <2>3. /\ p \in Priority
        /\ LegalLists([lists EXCEPT ![p] = Advance(@)])
        /\ lists[p].items[NextIndex(lists[p])] \in Task
    BY <2>1, SwitchFindsTask
  <2> QED BY <1>2, <2>2, <2>3
<1> QED BY <1>1, <1>2

\* taskRECORD_READY_PRIORITY records a priority.
LEMMA RecordType ==
    ASSUME NEW p \in Priority, uxTopReadyPriority \in Priority
    PROVE  Record(p) \in Priority
BY DEF Record

\* prvResetNextTaskUnblockTime sets a time.
LEMMA NextUnblockType ==
    ASSUME NEW list \in Seq(Task), wake \in [Task -> Tick]
    PROVE  NextUnblock(list) \in Tick
BY ModulusPositive, EmptySeq, HeadTailProperties DEF NextUnblock
-----------------------------------------------------------------------------
(* Steps outside xTaskResumeAll and xTaskIncrementTick.                    *)

USE DEF readyVars, blockedLists, eventLists, deletionVars, taskVars, switchVars, control,
        tickVars

\* They leave the ticks alone: what is left to show is about the lists, the program
\* counters and the pending list.
LEMMA OrdinaryStep ==
    ASSUME Inv, pc[pxCurrentTCB] \notin Resuming, inTick = "no", UNCHANGED tickVars,
           uxSchedulerSuspended' \in {uxSchedulerSuspended, uxSchedulerSuspended + 1},
           TypeOK', IdleStays', ret' \in [Task -> ReturnPoint], OneInside',
           pc'[pxCurrentTCB'] \notin Resuming,
           pc'[pxCurrentTCB'] \in {"block", "resumeAll"} => uxSchedulerSuspended' > 0,
           Deletions', PendingIsTransient'
    PROVE  Inv'
<1>1. TicksConserved'
  BY Zenon DEF Inv, TicksConserved, tickVars, Resuming
<1>2. Replays'
  BY DEF Inv, Replays, tickVars, Resuming, TypeOK
<1>3. Sections'
  BY DEF Sections, tickVars
<1> QED BY <1>1, <1>2, <1>3 DEF Inv

\* Whoever is switched in stands outside.
LEMMA OneStaysInside ==
    ASSUME Inv, NEW where, pc' = [pc EXCEPT ![pxCurrentTCB] = where],
           pxCurrentTCB' \in Task, where \in Inside => pxCurrentTCB' = pxCurrentTCB
    PROVE  /\ OneInside'
           /\ pc'[pxCurrentTCB'] \in Inside
                => pc'[pxCurrentTCB'] = where /\ pxCurrentTCB' = pxCurrentTCB
BY DEF Inv, OneInside, TypeOK

\* The same for a switch that moves no program counter.
LEMMA OneStaysInsideUnchanged ==
    ASSUME Inv, pc' = pc,
           pxCurrentTCB' \in Task, pc[pxCurrentTCB] \in Inside => pxCurrentTCB' = pxCurrentTCB
    PROVE  /\ OneInside'
           /\ pc'[pxCurrentTCB'] \in Inside => pxCurrentTCB' = pxCurrentTCB
BY DEF Inv, OneInside, TypeOK

\* taskEXIT_CRITICAL of a task that yielded inside its critical section.
LEMMA ExitCriticalStep ==
    ASSUME Inv, NEW t \in Task, ExitCritical(t)
    PROVE  Inv'
<1> USE DEF ExitCritical, At, Return, Inv
<1>1. OneInside' /\ pc'[pxCurrentTCB'] \notin Inside
  BY OneStaysInside DEF switchVars, TypeOK, Inside, ReturnPoint, Resuming
<1>2. TypeOK' /\ (ret \in [Task -> ReturnPoint])' /\ IdleStays'
  BY DEF TypeOK, IdleStays, ReturnPoint, PC
<1>3. Deletions' /\ PendingIsTransient'
  BY DEF Deletions, PendingIsTransient
<1> QED BY <1>1, <1>2, <1>3, OrdinaryStep DEF Inside, Resuming

\* portYIELD_WITHIN_API after a blocking call, a suspension or a deletion.
LEMMA YieldWithinAPIStep ==
    ASSUME Inv, NEW t \in Task, YieldWithinAPI(t)
    PROVE  Inv'
<1> USE DEF YieldWithinAPI, At, Goto, Inv
<1>0. /\ LegalLists(pxReadyTasksLists') /\ uxTopReadyPriority' \in Priority
      /\ pxCurrentTCB' \in Task /\ xYieldPending' \in BOOLEAN
  BY SwitchContextType DEF TypeOK, IdleStays
<1>1. OneInside' /\ pc'[pxCurrentTCB'] \notin Inside
  BY <1>0, OneStaysInside DEF Inside, Resuming
<1>2. TypeOK' /\ (ret \in [Task -> ReturnPoint])' /\ IdleStays'
  <2>1. TypeOK' /\ (ret \in [Task -> ReturnPoint])'
    BY <1>0 DEF TypeOK, LegalLists, PC
  <2>2. IdleStays'
    BY <1>0 DEF TypeOK, IdleStays
  <2> QED BY <2>1, <2>2
<1>3. Deletions' /\ PendingIsTransient'
  BY <1>1 DEF Deletions, PendingIsTransient, Inside, Resuming
<1> QED BY <1>1, <1>2, <1>3, OrdinaryStep DEF Inside, Resuming

\* taskYIELD.
LEMMA TaskYieldStep ==
    ASSUME Inv, NEW t \in Task, TaskYield(t)
    PROVE  Inv'
<1> USE DEF TaskYield, At, Inv
<1>0. /\ LegalLists(pxReadyTasksLists') /\ uxTopReadyPriority' \in Priority
      /\ pxCurrentTCB' \in Task /\ xYieldPending' \in BOOLEAN
  BY SwitchContextType DEF TypeOK, IdleStays
<1>1. OneInside' /\ pc'[pxCurrentTCB'] \notin Inside
  BY <1>0, OneStaysInsideUnchanged DEF Inside, Resuming
<1>2. TypeOK' /\ (ret \in [Task -> ReturnPoint])' /\ IdleStays'
  <2>1. TypeOK' /\ (ret \in [Task -> ReturnPoint])'
    BY <1>0 DEF TypeOK, LegalLists
  <2>2. IdleStays'
    BY <1>0 DEF TypeOK, IdleStays
  <2> QED BY <2>1, <2>2
<1>3. Deletions' /\ PendingIsTransient'
  BY <1>1 DEF Deletions, PendingIsTransient, Inside, Resuming
<1> QED BY <1>1, <1>2, <1>3, OrdinaryStep DEF Inside, Resuming

\* vTaskSuspendAll, wherever the call goes on.
LEMMA SuspendAllThenStep ==
    ASSUME Inv, NEW t \in Task, pxCurrentTCB = t, pc[t] \notin Inside, inTick = "no",
           NEW where \in {"run", "block", "resumeAll"}, NEW back \in ReturnPoint,
           where = "block" => t # Idle, SuspendAllThen(t, where, back)
    PROVE  Inv'
<1> USE DEF SuspendAllThen, Call, Inv
<1>0. uxSchedulerSuspended' > 0 /\ pxCurrentTCB' \in Task /\ pxCurrentTCB' = pxCurrentTCB
  BY DEF TypeOK
<1>1. OneInside' /\ pc'[pxCurrentTCB'] \notin Resuming
  <2>1. pc' = [pc EXCEPT ![pxCurrentTCB] = where]
    OBVIOUS
  <2> QED BY <1>0, <2>1, OneStaysInside DEF Inside, Resuming
<1>2. TypeOK' /\ (ret \in [Task -> ReturnPoint])' /\ IdleStays'
  BY DEF TypeOK, IdleStays, PC, ReturnPoint
<1>3. Deletions' /\ PendingIsTransient'
  BY <1>0 DEF Deletions, PendingIsTransient
<1> QED BY <1>0, <1>1, <1>2, <1>3, OrdinaryStep DEF Inside

\* The calls that begin with vTaskSuspendAll.
LEMMA SuspendingSteps ==
    ASSUME Inv, NEW t \in Task,
           \/ vTaskSuspendAll(t) \/ BlockingCall(t) \/ xTaskCreate(t) \/ AllocateTCB(t)
           \/ IdleCheck \/ IdleFree
    PROVE  Inv'
<1> USE PriorityIsNat DEF At, ReturnPoint, Inside, Resuming
<1>1. CASE vTaskSuspendAll(t)
  BY <1>1, SuspendAllThenStep DEF vTaskSuspendAll
<1>2. CASE BlockingCall(t)
  BY <1>2, SuspendAllThenStep DEF BlockingCall
<1>3. CASE xTaskCreate(t)
  BY <1>3, SuspendAllThenStep DEF xTaskCreate
<1>4. CASE AllocateTCB(t)
  BY <1>4, SuspendAllThenStep DEF AllocateTCB
<1>5. CASE IdleCheck
  BY <1>5, SuspendAllThenStep DEF IdleCheck
<1>6. CASE IdleFree
  BY <1>6, SuspendAllThenStep DEF IdleFree
<1> QED BY <1>1, <1>2, <1>3, <1>4, <1>5, <1>6

\* The application calls xTaskResumeAll.
LEMMA ResumeAllCallStep ==
    ASSUME Inv, NEW t \in Task, xTaskResumeAll(t)
    PROVE  Inv'
<1> USE DEF xTaskResumeAll, At, Goto, Inv
<1>1. OneInside' /\ pc'[pxCurrentTCB'] \notin Resuming
  BY OneStaysInside DEF Inside, Resuming, TypeOK
<1>2. TypeOK' /\ (ret \in [Task -> ReturnPoint])' /\ IdleStays'
  BY DEF TypeOK, IdleStays, PC
<1>3. Deletions' /\ PendingIsTransient'
  BY DEF Deletions, PendingIsTransient, TypeOK
<1> QED BY <1>1, <1>2, <1>3, OrdinaryStep DEF Resuming

\* xTaskCreate without memory.
LEMMA AllocateFailsStep ==
    ASSUME Inv, NEW t \in Task, AllocateFails(t)
    PROVE  Inv'
<1> USE DEF AllocateFails, At, Goto, Call, Inv
<1>1. /\ OneInside' /\ pc'[pxCurrentTCB'] \notin Resuming
      /\ pc'[pxCurrentTCB'] \in {"block", "resumeAll"} => uxSchedulerSuspended' > 0
  BY OneStaysInside DEF Inside, Resuming, TypeOK
<1>2. /\ pc' \in [Task -> PC] /\ pc'[Idle] # "block"
      /\ ret' \in [Task -> ReturnPoint] /\ ret' \in [Task -> PC]
      /\ uxSchedulerSuspended' \in {uxSchedulerSuspended, uxSchedulerSuspended + 1}
  <2>1. PICK where \in {"run", "resumeAll"} : pc' = [pc EXCEPT ![t] = where]
    OBVIOUS
  <2>2. pc' \in [Task -> PC] /\ pc'[Idle] # "block"
    BY <2>1 DEF TypeOK, IdleStays, PC
  <2>3. ret' = ret \/ ret' = [ret EXCEPT ![t] = "run"]
    OBVIOUS
  <2>4. ret' \in [Task -> ReturnPoint] /\ ret' \in [Task -> PC]
    BY <2>3 DEF TypeOK, ReturnPoint, PC
  <2> QED BY <2>2, <2>4
<1>3. TypeOK' /\ IdleStays'
  BY <1>2 DEF TypeOK, IdleStays
<1>4. Deletions' /\ PendingIsTransient'
  BY DEF Deletions, PendingIsTransient, TypeOK
<1> QED BY <1>1, <1>2, <1>3, <1>4, OrdinaryStep DEF Resuming

-----------------------------------------------------------------------------
(* Parts of steps.                                                         *)

\* A call returns to a place there is.
LEMMA ReturnPointsAreReal ==
    ASSUME NEW f \in [Task -> ReturnPoint] PROVE f \in [Task -> PC]
BY DEF ReturnPoint, PC

\* The ready lists, and what the calls make of them.
LEMMA ReadyListsKept ==
    ASSUME Inv, NEW u \in Task, NEW p \in Priority
    PROVE  /\ uxPriority[u] \in Priority /\ (u = Idle => uxPriority[u] = 0)
           /\ Record(p) \in Priority /\ uxTopReadyPriority \in Priority
           /\ LegalLists(pxReadyTasksLists)
           /\ u # Idle => LegalLists(NotReady(u))
           /\ u # Idle \/ p = 0 => LegalLists(ReadyAt(u, p))
<1>1. /\ uxPriority[u] \in Priority /\ (u = Idle => uxPriority[u] = 0)
      /\ uxTopReadyPriority \in Priority /\ LegalLists(pxReadyTasksLists)
  BY DEF Inv, TypeOK, IdleStays
<1> QED BY <1>1, RecordType, NotReadyLegal, ReadyAtLegal

\* The state item leaves the list it was in.
LEMMA LeaveBlockedType ==
    ASSUME TypeOK, NEW u, LeaveBlocked(u)
    PROVE  delayed' \in Seq(Task) /\ overflow' \in Seq(Task) /\ suspended' \in SUBSET Task
BY WithoutProperties DEF TypeOK, LeaveBlocked

\* The event item leaves the list it was in.
LEMMA LeaveEventListsType ==
    ASSUME TypeOK, NEW u, LeaveEventLists(u)
    PROVE  /\ pending' \in Seq(Task) /\ waiting' \in Seq(Task)
           /\ pending' # <<>> => pending # <<>>
<1>1. pending' \in Seq(Task) /\ waiting' \in Seq(Task)
  BY WithoutProperties DEF TypeOK, LeaveEventLists
<1>2. ASSUME pending = <<>> PROVE pending' = <<>>
  BY <1>2 DEF LeaveEventLists, Without, Contains
<1> QED BY <1>1, <1>2

\* Nothing joins the pending list while the scheduler runs.
LEMMA PendingStays ==
    ASSUME Inv, pc[pxCurrentTCB] \notin Resuming,
           pending' # <<>> => pending # <<>> \/ uxSchedulerSuspended # 0,
           uxSchedulerSuspended' \in {uxSchedulerSuspended, uxSchedulerSuspended + 1}
    PROVE  PendingIsTransient'
BY DEF Inv, PendingIsTransient, Resuming, TypeOK

\* The critical sections that end in a yield or do not.
LEMMA EndCriticalType ==
    ASSUME Inv, NEW t \in Task, At(t, "run"), NEW lists, LegalLists(lists),
           NEW top \in Priority, NEW yields, EndCritical(t, lists, top, yields)
    PROVE  /\ LegalLists(pxReadyTasksLists') /\ uxTopReadyPriority' \in Priority
           /\ pxCurrentTCB' \in Task /\ xYieldPending' \in BOOLEAN
           /\ uxCriticalNesting' \in Nat
           /\ pc' \in [Task -> PC] /\ pc'[Idle] # "block" /\ ret' \in [Task -> ReturnPoint]
           /\ OneInside' /\ pc'[pxCurrentTCB'] \notin Inside
<1>0. t = pxCurrentTCB /\ pc[t] = "run" /\ pc \in [Task -> PC] /\ pc[Idle] # "block"
      /\ ret \in [Task -> ReturnPoint] /\ uxCriticalNesting \in Nat
      /\ xYieldPending \in BOOLEAN
  BY DEF Inv, TypeOK, IdleStays, At
<1>1. CASE yields
  <2>1. SwitchContext(lists, top) /\ uxCriticalNesting' = uxCriticalNesting + 1
        /\ pc' = [pc EXCEPT ![pxCurrentTCB] = "exit"] /\ ret' = [ret EXCEPT ![t] = "run"]
    BY <1>0, <1>1 DEF EndCritical, Call
  <2>2. LegalLists(pxReadyTasksLists') /\ uxTopReadyPriority' \in Priority
        /\ pxCurrentTCB' \in Task /\ xYieldPending' \in BOOLEAN
    BY <1>0, <2>1, SwitchContextType
  <2>3. OneInside' /\ pc'[pxCurrentTCB'] \notin Inside
    <3>1. "exit" \notin Inside
      BY DEF Inside, Resuming
    <3> QED BY <2>1, <2>2, <3>1, OneStaysInside
  <2>4. pc' \in [Task -> PC] /\ pc'[Idle] # "block" /\ ret' \in [Task -> ReturnPoint]
    BY <1>0, <2>1 DEF PC, ReturnPoint
  <2> QED BY <1>0, <2>1, <2>2, <2>3, <2>4
<1>2. CASE ~yields
  <2>1. GoOn(lists, top) /\ UNCHANGED <<xYieldPending, uxCriticalNesting, pc, ret>>
    BY <1>2 DEF EndCritical
  <2>2. OneInside' /\ pc'[pxCurrentTCB'] \notin Inside
    BY <1>0, <2>1, OneStaysInsideUnchanged DEF GoOn, Inside, Resuming
  <2> QED BY <1>0, <2>1, <2>2 DEF GoOn
<1> QED BY <1>1, <1>2
-----------------------------------------------------------------------------
(* Blocking, events, suspending, priorities.                               *)

\* prvAddCurrentTaskToDelayedList, into either list or the suspended one.
LEMMA AddCurrentToDelayedListType ==
    ASSUME TypeOK, NEW t \in Task, NEW ticks \in 1 .. portMAX_DELAY, NEW forever,
           AddCurrentToDelayedList(t, ticks, forever)
    PROVE  /\ delayed' \in Seq(Task) /\ overflow' \in Seq(Task) /\ suspended' \in SUBSET Task
           /\ wake' \in [Task -> Tick] /\ xNextTaskUnblockTime' \in Tick
<1>1. CASE ticks = portMAX_DELAY /\ forever
  BY <1>1 DEF AddCurrentToDelayedList, TypeOK
<1>2. CASE ~(ticks = portMAX_DELAY /\ forever)
  <2>1. PICK at : at = (xTickCount + ticks) % TickModulus
    OBVIOUS
  <2>2. at \in Tick /\ at \in Nat /\ xNextTaskUnblockTime \in Nat
    <3>1. xTickCount + ticks \in Nat
      BY ModulusPositive DEF TypeOK
    <3> QED BY <2>1, <3>1, ModInTick, ModulusPositive DEF TypeOK
  <2>3. PICK value : value = [wake EXCEPT ![t] = at]
    OBVIOUS
  <2>4. value \in [Task -> Tick] /\ value[t] = at
    BY <2>2, <2>3 DEF TypeOK
  <2>5. /\ wake' = value /\ suspended' = suspended
        /\ \/ /\ overflow' = InsertSorted(overflow, value, t)
              /\ UNCHANGED <<delayed, xNextTaskUnblockTime>>
           \/ /\ delayed' = InsertSorted(delayed, value, t)
              /\ xNextTaskUnblockTime' = Min({at, xNextTaskUnblockTime})
              /\ UNCHANGED overflow
    <3>1. wake' = value
      BY <1>2, <2>1, <2>3 DEF AddCurrentToDelayedList
    <3> QED BY <1>2, <2>4, <3>1 DEF AddCurrentToDelayedList
  <2>6. InsertSorted(overflow, value, t) \in Seq(Task)
        /\ InsertSorted(delayed, value, t) \in Seq(Task)
    BY InsertSortedProperties DEF TypeOK
  <2>7. Min({at, xNextTaskUnblockTime}) \in {at, xNextTaskUnblockTime}
    BY <2>2, MinOfTwo
  <2> QED BY <2>2, <2>4, <2>5, <2>6, <2>7 DEF TypeOK
<1> QED BY <1>1, <1>2

\* vTaskDelay and vTaskPlaceOnEventList, with prvAddCurrentTaskToDelayedList.
LEMMA BlockingSteps ==
    ASSUME Inv, NEW t \in Task, NEW ticks \in 1 .. portMAX_DELAY,
           vTaskDelay(t, ticks) \/ vTaskPlaceOnEventList(t, ticks)
    PROVE  Inv'
<1>1. /\ t = pxCurrentTCB /\ pc[t] = "block" /\ inTick = "no" /\ t # Idle
      /\ uxSchedulerSuspended > 0
  BY DEF vTaskDelay, vTaskPlaceOnEventList, At, Inv, IdleStays, Sections
<1>2. PICK forever : AddCurrentToDelayedList(t, ticks, forever)
  BY DEF vTaskDelay, vTaskPlaceOnEventList
<1>3. /\ pc' = [pc EXCEPT ![pxCurrentTCB] = "resumeAll"] /\ pxReadyTasksLists' = NotReady(t)
      /\ UNCHANGED <<uxTopReadyPriority, pending, deletionVars, uxPriority, created,
                     switchVars, ret, tickVars, uxSchedulerSuspended, uxCriticalNesting>>
  BY <1>1, <1>2 DEF vTaskDelay, vTaskPlaceOnEventList, Blocked, Goto,
                    AddCurrentToDelayedList
<1>4. waiting' \in Seq(Task)
  <2>1. PICK value : value = EventValue
    OBVIOUS
  <2>2. InsertSorted(waiting, value, t) \in Seq(Task) /\ waiting \in Seq(Task)
    BY InsertSortedProperties DEF Inv, TypeOK
  <2> QED BY <2>1, <2>2 DEF vTaskDelay, vTaskPlaceOnEventList
<1>5. /\ delayed' \in Seq(Task) /\ overflow' \in Seq(Task) /\ suspended' \in SUBSET Task
      /\ wake' \in [Task -> Tick] /\ xNextTaskUnblockTime' \in Tick
  BY <1>2, AddCurrentToDelayedListType DEF Inv
<1>6. LegalLists(pxReadyTasksLists')
  BY <1>1, <1>3, NotReadyLegal DEF Inv, IdleStays
<1>7. OneInside' /\ pc'[pxCurrentTCB'] = "resumeAll"
  BY <1>1, <1>3, OneStaysInside DEF Inv, TypeOK
<1>8. TypeOK'
  BY <1>3, <1>4, <1>5, <1>6 DEF Inv, TypeOK, LegalLists, PC
<1>9. IdleStays'
  BY <1>1, <1>3, <1>6 DEF Inv, TypeOK, IdleStays
<1>10. Deletions' /\ PendingIsTransient' /\ ret' \in [Task -> ReturnPoint]
  BY <1>1, <1>3 DEF Deletions, PendingIsTransient, Inv
<1> QED BY <1>1, <1>3, <1>7, <1>8, <1>9, <1>10, OrdinaryStep DEF Resuming

\* xTaskRemoveFromEventList, with the scheduler running or suspended.
LEMMA RemoveFromEventListType ==
    ASSUME Inv, waiting # <<>>, xTaskRemoveFromEventList
    PROVE  /\ Woken \in Task
           /\ delayed' \in Seq(Task) /\ overflow' \in Seq(Task) /\ suspended' \in SUBSET Task
           /\ pending' \in Seq(Task) /\ waiting' \in Seq(Task)
           /\ LegalLists(ListsAfterWake) /\ TopAfterWake \in Priority
           /\ pending' # <<>> => pending # <<>> \/ uxSchedulerSuspended # 0
<1>1. Woken \in Task /\ Tail(waiting) \in Seq(Task)
  BY EmptySeq, HeadTailProperties DEF Woken, Inv, TypeOK
<1>2. CASE uxSchedulerSuspended = 0
  <2>1. LeaveEventLists(Woken) /\ LeaveBlocked(Woken)
    BY <1>2 DEF xTaskRemoveFromEventList
  <2>2. /\ delayed' \in Seq(Task) /\ overflow' \in Seq(Task) /\ suspended' \in SUBSET Task
        /\ pending' \in Seq(Task) /\ waiting' \in Seq(Task)
        /\ pending' # <<>> => pending # <<>>
    BY <2>1, LeaveBlockedType, LeaveEventListsType DEF Inv
  <2>3. LegalLists(ListsAfterWake) /\ TopAfterWake \in Priority
    <3>1. PICK u \in Task, p \in Priority : u = Woken /\ p = uxPriority[u]
      BY <1>1 DEF Inv, TypeOK
    <3>2. LegalLists(ReadyAt(u, p)) /\ Record(p) \in Priority
      BY <3>1, ReadyListsKept
    <3> QED BY <1>2, <3>1, <3>2 DEF ListsAfterWake, TopAfterWake
  <2> QED BY <1>1, <2>2, <2>3
<1>3. CASE uxSchedulerSuspended # 0
  <2>1. /\ waiting' = Tail(waiting) /\ pending' = Append(pending, Woken)
        /\ UNCHANGED <<delayed, overflow, suspended>>
    BY <1>3 DEF xTaskRemoveFromEventList
  <2>2. Append(pending, Woken) \in Seq(Task)
    BY <1>1, AppendProperties DEF Inv, TypeOK
  <2>3. LegalLists(ListsAfterWake) /\ TopAfterWake \in Priority
    BY <1>3 DEF ListsAfterWake, TopAfterWake, Inv, IdleStays, TypeOK
  <2> QED BY <1>1, <1>3, <2>1, <2>2, <2>3 DEF Inv, TypeOK
<1> QED BY <1>2, <1>3

\* A task posts the event.
LEMMA PostStep ==
    ASSUME Inv, NEW t \in Task, Post(t)
    PROVE  Inv'
<1>1. /\ t = pxCurrentTCB /\ pc[t] = "run" /\ inTick = "no" /\ At(t, "run")
      /\ UNCHANGED <<deletionVars, taskVars, tickVars, uxSchedulerSuspended,
                     xNextTaskUnblockTime>>
  BY DEF Post, At
<1>2. /\ delayed' \in Seq(Task) /\ overflow' \in Seq(Task) /\ suspended' \in SUBSET Task
      /\ pending' \in Seq(Task) /\ waiting' \in Seq(Task)
      /\ LegalLists(ListsAfterWake) /\ TopAfterWake \in Priority
      /\ pending' # <<>> => pending # <<>> \/ uxSchedulerSuspended # 0
  BY RemoveFromEventListType DEF Post
<1>3. /\ LegalLists(pxReadyTasksLists') /\ uxTopReadyPriority' \in Priority
      /\ pxCurrentTCB' \in Task /\ xYieldPending' \in BOOLEAN
      /\ uxCriticalNesting' \in Nat
      /\ pc' \in [Task -> PC] /\ pc'[Idle] # "block" /\ ret' \in [Task -> ReturnPoint]
      /\ OneInside' /\ pc'[pxCurrentTCB'] \notin Inside
  <2>1. PICK lists, top, yields : /\ lists = ListsAfterWake /\ top = TopAfterWake
                                  /\ yields = (uxPriority[Woken] > uxPriority[t])
    OBVIOUS
  <2>2. EndCritical(t, lists, top, yields)
    BY <2>1 DEF Post
  <2>3. LegalLists(lists) /\ top \in Priority
    BY <1>2, <2>1
  <2> QED BY <1>1, <2>2, <2>3, EndCriticalType
<1>4. TypeOK'
  BY <1>1, <1>2, <1>3, ReturnPointsAreReal DEF Inv, TypeOK, LegalLists
<1>5. IdleStays' /\ Deletions'
  BY <1>1, <1>3 DEF Inv, IdleStays, Deletions
<1>6. PendingIsTransient'
  BY <1>1, <1>2, PendingStays DEF Resuming
<1> QED BY <1>1, <1>3, <1>4, <1>5, <1>6, OrdinaryStep DEF Inside, Resuming

\* What an interrupt handler does to the ready lists, with a yield or without.
LEMMA HandlerType ==
    ASSUME Inv, uxCriticalNesting = 0, NEW lists, LegalLists(lists), NEW top \in Priority,
           UNCHANGED control,
           SwitchContext(lists, top) \/ (GoOn(lists, top) /\ xYieldPending' \in BOOLEAN)
    PROVE  /\ LegalLists(pxReadyTasksLists') /\ uxTopReadyPriority' \in Priority
           /\ pxCurrentTCB' \in Task /\ xYieldPending' \in BOOLEAN
           /\ OneInside' /\ pc'[pxCurrentTCB'] \notin Resuming
           /\ pc'[pxCurrentTCB'] \in Inside => pxCurrentTCB' = pxCurrentTCB
<1>1. /\ LegalLists(pxReadyTasksLists') /\ uxTopReadyPriority' \in Priority
      /\ pxCurrentTCB' \in Task /\ xYieldPending' \in BOOLEAN
      /\ uxSchedulerSuspended # 0 => pxCurrentTCB' = pxCurrentTCB
  BY SwitchContextType DEF GoOn, Inv, TypeOK
<1>2. pc[pxCurrentTCB] \notin Resuming /\ pxCurrentTCB \in Task /\ pc' = pc
  BY DEF Inv, Sections, TypeOK
<1>3. pc[pxCurrentTCB] \in Inside => uxSchedulerSuspended # 0
  BY <1>2 DEF Inv, Sections, Inside, TypeOK
<1>4. /\ OneInside'
      /\ pc'[pxCurrentTCB'] \in Inside => pxCurrentTCB' = pxCurrentTCB
  BY <1>1, <1>2, <1>3, OneStaysInsideUnchanged
<1> QED BY <1>1, <1>2, <1>4 DEF Inside

\* An interrupt handler posts the event.
LEMMA PostFromISRStep ==
    ASSUME Inv, PostFromISR
    PROVE  Inv'
<1>1. /\ inTick = "no" /\ uxCriticalNesting = 0 /\ pc[pxCurrentTCB] \notin Resuming
      /\ UNCHANGED <<deletionVars, taskVars, control, tickVars, uxSchedulerSuspended,
                     uxCriticalNesting, xNextTaskUnblockTime>>
  BY DEF PostFromISR, Inv, Sections, TypeOK
<1>2. /\ delayed' \in Seq(Task) /\ overflow' \in Seq(Task) /\ suspended' \in SUBSET Task
      /\ pending' \in Seq(Task) /\ waiting' \in Seq(Task)
      /\ LegalLists(ListsAfterWake) /\ TopAfterWake \in Priority
      /\ pending' # <<>> => pending # <<>> \/ uxSchedulerSuspended # 0
  BY RemoveFromEventListType DEF PostFromISR
<1>3. /\ LegalLists(pxReadyTasksLists') /\ uxTopReadyPriority' \in Priority
      /\ pxCurrentTCB' \in Task /\ xYieldPending' \in BOOLEAN
      /\ OneInside' /\ pc'[pxCurrentTCB'] \notin Resuming
      /\ pc'[pxCurrentTCB'] \in Inside => pxCurrentTCB' = pxCurrentTCB
  <2>1. PICK lists, top : lists = ListsAfterWake /\ top = TopAfterWake
    OBVIOUS
  <2>2. SwitchContext(lists, top) \/ (GoOn(lists, top) /\ xYieldPending' \in BOOLEAN)
    BY <2>1 DEF PostFromISR, Inv, TypeOK
  <2>3. LegalLists(lists) /\ top \in Priority
    BY <1>2, <2>1
  <2> QED BY <1>1, <2>2, <2>3, HandlerType
<1>4. TypeOK'
  BY <1>1, <1>2, <1>3 DEF Inv, TypeOK, LegalLists
<1>5. IdleStays' /\ Deletions'
  BY <1>1, <1>3 DEF Inv, IdleStays, Deletions
<1>6. PendingIsTransient'
  BY <1>1, <1>2, PendingStays
<1>7. pc'[pxCurrentTCB'] \in {"block", "resumeAll"} => uxSchedulerSuspended' > 0
  BY <1>1, <1>3 DEF Inv, Sections, Inside
<1> QED BY <1>1, <1>3, <1>4, <1>5, <1>6, <1>7, OrdinaryStep DEF Inv

\* vTaskSuspend, up to prvResetNextTaskUnblockTime.
LEMMA SuspendStep ==
    ASSUME Inv, NEW t \in Task, NEW u \in AppTask, vTaskSuspend(t, u)
    PROVE  Inv'
<1>1. /\ t = pxCurrentTCB /\ pc[t] = "run" /\ inTick = "no" /\ u \in Task /\ u # Idle
      /\ pc' = [pc EXCEPT ![pxCurrentTCB] = "reset"]
      /\ pxReadyTasksLists' = NotReady(u) /\ suspended' = suspended \cup {u}
      /\ UNCHANGED <<uxTopReadyPriority, deletionVars, taskVars, switchVars, tickVars,
                     uxSchedulerSuspended, uxCriticalNesting, xNextTaskUnblockTime>>
  BY DEF vTaskSuspend, Target, At, Call, AppTask
<1>2. ret' \in [Task -> ReturnPoint]
  BY DEF vTaskSuspend, Call, Inv, ReturnPoint
<1>3. /\ delayed' \in Seq(Task) /\ overflow' \in Seq(Task)
      /\ pending' \in Seq(Task) /\ waiting' \in Seq(Task)
      /\ pending' # <<>> => pending # <<>>
  BY WithoutProperties, LeaveEventListsType DEF vTaskSuspend, Inv, TypeOK
<1>4. LegalLists(pxReadyTasksLists')
  BY <1>1, ReadyListsKept, PriorityIsNat
<1>5. OneInside' /\ pc'[pxCurrentTCB'] \notin Inside
  <2>1. "reset" \notin Inside
    BY DEF Inside, Resuming
  <2> QED BY <1>1, <2>1, OneStaysInside DEF Inv, TypeOK
<1>6. TypeOK'
  BY <1>1, <1>2, <1>3, <1>4, ReturnPointsAreReal DEF Inv, TypeOK, LegalLists, PC
<1>7. IdleStays' /\ Deletions'
  BY <1>1, <1>4 DEF Inv, TypeOK, IdleStays, Deletions
<1>8. PendingIsTransient'
  BY <1>1, <1>3, PendingStays DEF Resuming
<1> QED BY <1>1, <1>2, <1>5, <1>6, <1>7, <1>8, OrdinaryStep DEF Inside, Resuming

\* The second critical section of vTaskSuspend.
LEMMA AfterSuspendStep ==
    ASSUME Inv, NEW t \in Task, AfterSuspend(t)
    PROVE  Inv'
<1> USE DEF AfterSuspend, At, Return, Inv
<1>1. OneInside' /\ pc'[pxCurrentTCB'] \notin Inside
  BY OneStaysInside DEF TypeOK, Inside, ReturnPoint, Resuming
<1>2. xNextTaskUnblockTime' \in Tick
  BY NextUnblockType DEF TypeOK
<1>3. TypeOK' /\ (ret \in [Task -> ReturnPoint])' /\ IdleStays'
  <2>1. pc' \in [Task -> PC] /\ pc'[Idle] # "block" /\ ret' \in [Task -> ReturnPoint]
    BY DEF TypeOK, IdleStays, ReturnPoint, PC
  <2>2. TypeOK'
    BY <1>2, <2>1, ReturnPointsAreReal DEF TypeOK
  <2> QED BY <2>1, <2>2 DEF IdleStays
<1>4. Deletions' /\ PendingIsTransient'
  BY DEF Deletions, PendingIsTransient
<1> QED BY <1>1, <1>3, <1>4, OrdinaryStep DEF Inside, Resuming

\* vTaskResume.
LEMMA ResumeStep ==
    ASSUME Inv, NEW t \in Task, NEW u \in AppTask, vTaskResume(t, u)
    PROVE  Inv'
<1>1. /\ t = pxCurrentTCB /\ pc[t] = "run" /\ inTick = "no" /\ At(t, "run")
      /\ u \in Task /\ u # Idle /\ uxPriority[u] \in Priority
      /\ UNCHANGED <<eventLists, deletionVars, taskVars, tickVars, uxSchedulerSuspended,
                     xNextTaskUnblockTime>>
  BY DEF vTaskResume, Target, At, AppTask, Inv, TypeOK
<1>2. delayed' \in Seq(Task) /\ overflow' \in Seq(Task) /\ suspended' \in SUBSET Task
  BY LeaveBlockedType DEF vTaskResume, Inv
<1>3. /\ LegalLists(pxReadyTasksLists') /\ uxTopReadyPriority' \in Priority
      /\ pxCurrentTCB' \in Task /\ xYieldPending' \in BOOLEAN
      /\ uxCriticalNesting' \in Nat
      /\ pc' \in [Task -> PC] /\ pc'[Idle] # "block" /\ ret' \in [Task -> ReturnPoint]
      /\ OneInside' /\ pc'[pxCurrentTCB'] \notin Inside
  <2>1. PICK p, lists, top, yields : 
           /\ p = uxPriority[u] /\ lists = ReadyAt(u, p) /\ top = Record(p)
           /\ yields = (p >= uxPriority[t])
    OBVIOUS
  <2>2. EndCritical(t, lists, top, yields)
    BY <2>1 DEF vTaskResume
  <2>3. LegalLists(lists) /\ top \in Priority
    BY <1>1, <2>1, ReadyListsKept
  <2> QED BY <1>1, <2>2, <2>3, EndCriticalType
<1>4. TypeOK'
  BY <1>1, <1>2, <1>3, ReturnPointsAreReal DEF Inv, TypeOK, LegalLists
<1>5. IdleStays' /\ Deletions'
  BY <1>1, <1>3 DEF Inv, IdleStays, Deletions
<1>6. PendingIsTransient'
  BY <1>1, PendingStays DEF Resuming
<1> QED BY <1>1, <1>3, <1>4, <1>5, <1>6, OrdinaryStep DEF Inside, Resuming

\* xTaskResumeFromISR, also of a task that has suspended itself and not yielded yet.
LEMMA ResumeFromISRStep ==
    ASSUME Inv, NEW u \in AppTask, xTaskResumeFromISR(u)
    PROVE  Inv'
<1>1. /\ inTick = "no" /\ uxCriticalNesting = 0 /\ pc[pxCurrentTCB] \notin Resuming
      /\ u \in Task /\ u # Idle /\ uxPriority[u] \in Priority
      /\ UNCHANGED <<waiting, deletionVars, taskVars, control, tickVars,
                     uxSchedulerSuspended, uxCriticalNesting, xNextTaskUnblockTime>>
  BY DEF xTaskResumeFromISR, Inv, Sections, TypeOK, AppTask
<1>2. /\ delayed' \in Seq(Task) /\ overflow' \in Seq(Task) /\ suspended' \in SUBSET Task
      /\ pending' \in Seq(Task)
      /\ pending' # <<>> => pending # <<>> \/ uxSchedulerSuspended # 0
  <2>1. CASE uxSchedulerSuspended = 0
    BY <2>1, LeaveBlockedType DEF xTaskResumeFromISR, Inv, TypeOK
  <2>2. CASE uxSchedulerSuspended # 0
    <3>1. Append(pending, u) \in Seq(Task)
      BY <1>1, AppendProperties DEF Inv, TypeOK
    <3> QED BY <2>2, <3>1 DEF xTaskResumeFromISR, Inv, TypeOK
  <2> QED BY <2>1, <2>2
<1>3. /\ LegalLists(pxReadyTasksLists') /\ uxTopReadyPriority' \in Priority
      /\ pxCurrentTCB' \in Task /\ xYieldPending' \in BOOLEAN
      /\ OneInside' /\ pc'[pxCurrentTCB'] \notin Resuming
      /\ pc'[pxCurrentTCB'] \in Inside => pxCurrentTCB' = pxCurrentTCB
  <2>1. PICK lists, top :
           IF uxSchedulerSuspended = 0
           THEN lists = ReadyAt(u, uxPriority[u]) /\ top = Record(uxPriority[u])
           ELSE lists = pxReadyTasksLists /\ top = uxTopReadyPriority
    OBVIOUS
  <2>2. LegalLists(lists) /\ top \in Priority
    <3>1. PICK p \in Priority : p = uxPriority[u]
      BY <1>1
    <3>2. /\ LegalLists(ReadyAt(u, p)) /\ Record(p) \in Priority
          /\ LegalLists(pxReadyTasksLists) /\ uxTopReadyPriority \in Priority
      BY <1>1, ReadyListsKept
    <3> QED BY <2>1, <3>1, <3>2
  <2>3. SwitchContext(lists, top) \/ (GoOn(lists, top) /\ xYieldPending' \in BOOLEAN)
    <3>1. CASE uxSchedulerSuspended = 0
      BY <3>1, <2>1 DEF xTaskResumeFromISR, Inv, TypeOK
    <3>2. CASE uxSchedulerSuspended # 0
      BY <3>2, <2>1 DEF xTaskResumeFromISR, GoOn, Inv, TypeOK
    <3> QED BY <3>1, <3>2
  <2> QED BY <1>1, <2>2, <2>3, HandlerType
<1>4. TypeOK'
  BY <1>1, <1>2, <1>3 DEF Inv, TypeOK, LegalLists
<1>5. IdleStays' /\ Deletions'
  BY <1>1, <1>3 DEF Inv, IdleStays, Deletions
<1>6. PendingIsTransient'
  BY <1>1, <1>2, PendingStays
<1>7. pc'[pxCurrentTCB'] \in {"block", "resumeAll"} => uxSchedulerSuspended' > 0
  BY <1>1, <1>3 DEF Inv, Sections, Inside
<1> QED BY <1>1, <1>3, <1>4, <1>5, <1>6, <1>7, OrdinaryStep DEF Inv

\* vTaskPrioritySet.
LEMMA PrioritySetStep ==
    ASSUME Inv, NEW t \in Task, NEW u \in AppTask, NEW p \in Priority,
           vTaskPrioritySet(t, u, p)
    PROVE  Inv'
<1>1. /\ t = pxCurrentTCB /\ pc[t] = "run" /\ inTick = "no" /\ At(t, "run")
      /\ u \in Task /\ u # Idle
      /\ uxPriority' = [uxPriority EXCEPT ![u] = p]
      /\ UNCHANGED <<blockedLists, eventLists, deletionVars, wake, created, tickVars,
                     uxSchedulerSuspended, xNextTaskUnblockTime>>
  BY DEF vTaskPrioritySet, Target, At, AppTask
<1>2. uxPriority' \in [Task -> Priority] /\ uxPriority'[Idle] = 0
  BY <1>1 DEF Inv, TypeOK, IdleStays
<1>3. /\ LegalLists(pxReadyTasksLists') /\ uxTopReadyPriority' \in Priority
      /\ pxCurrentTCB' \in Task /\ xYieldPending' \in BOOLEAN
      /\ uxCriticalNesting' \in Nat
      /\ pc' \in [Task -> PC] /\ pc'[Idle] # "block" /\ ret' \in [Task -> ReturnPoint]
      /\ OneInside' /\ pc'[pxCurrentTCB'] \notin Inside
  <2>1. PICK ready, yields :
          /\ ready = Contains(pxReadyTasksLists[uxPriority[u]].items, u)
          /\ yields = IF p > uxPriority[u] THEN u # t /\ p >= uxPriority[t] ELSE u = t
    OBVIOUS
  <2>2. PICK lists, top : /\ lists = IF ready THEN ReadyAt(u, p) ELSE pxReadyTasksLists
                          /\ top = IF ready THEN Record(p) ELSE uxTopReadyPriority
    OBVIOUS
  <2>3. EndCritical(t, lists, top, yields)
    BY <2>1, <2>2 DEF vTaskPrioritySet
  <2>4. LegalLists(lists) /\ top \in Priority
    BY <1>1, <2>2, ReadyListsKept
  <2> QED BY <1>1, <2>3, <2>4, EndCriticalType
<1>4. TypeOK'
  BY <1>1, <1>2, <1>3, ReturnPointsAreReal DEF Inv, TypeOK, LegalLists
<1>5. IdleStays' /\ Deletions'
  BY <1>1, <1>2, <1>3 DEF Inv, IdleStays, Deletions
<1>6. PendingIsTransient'
  BY <1>1, PendingStays DEF Resuming
<1> QED BY <1>1, <1>3, <1>4, <1>5, <1>6, OrdinaryStep DEF Inside, Resuming

-----------------------------------------------------------------------------
(* Creating, deleting, cleaning up.                                        *)

\* prvAddNewTaskToReadyList.
LEMMA AddNewTaskStep ==
    ASSUME Inv, NEW t \in Task, NEW u \in AppTask, NEW p \in Priority, AddNewTask(t, u, p)
    PROVE  Inv'
<1>1. /\ t = pxCurrentTCB /\ pc[t] = "insert" /\ inTick = "no"
      /\ u \in Task /\ u # Idle /\ u # t
      /\ uxPriority' = [uxPriority EXCEPT ![u] = p]
      /\ created' = [created EXCEPT ![t] = u]
      /\ pc' = [pc EXCEPT ![u] = "run", ![t] = "compare"]
      /\ UNCHANGED <<blockedLists, eventLists, deletionVars, wake, ret, xYieldPending,
                     tickVars, uxSchedulerSuspended, uxCriticalNesting,
                     xNextTaskUnblockTime>>
  BY DEF AddNewTask, At, AppTask
<1>2. LegalLists(pxReadyTasksLists') /\ uxTopReadyPriority' \in Priority
      /\ pxCurrentTCB' = pxCurrentTCB
  BY <1>1, ReadyListsKept DEF AddNewTask, GoOn
<1>3. uxPriority' \in [Task -> Priority] /\ uxPriority'[Idle] = 0
  BY <1>1 DEF Inv, TypeOK, IdleStays
<1>4. pc' \in [Task -> PC] /\ pc'[Idle] # "block" /\ OneInside'
      /\ pc'[pxCurrentTCB'] = "compare"
  <2>1. pc \in [Task -> PC] /\ pc[Idle] # "block"
    BY DEF Inv, TypeOK, IdleStays
  <2>2. pc' \in [Task -> PC] /\ pc'[Idle] # "block" /\ pc'[pxCurrentTCB'] = "compare"
    <3>1. "run" \in PC /\ "compare" \in PC
      BY DEF PC
    <3>2. pc' \in [Task -> PC]
      BY <1>1, <2>1, <3>1
    <3> QED BY <1>1, <1>2, <2>1, <3>2, PriorityIsNat
  <2>3. OneInside'
    BY <1>1, <1>2, <2>1 DEF Inv, OneInside, Inside, Resuming
  <2> QED BY <2>2, <2>3
<1>5. TypeOK'
  BY <1>1, <1>2, <1>3, <1>4 DEF Inv, TypeOK, LegalLists
<1>6. IdleStays' /\ Deletions' /\ ret' \in [Task -> ReturnPoint]
  BY <1>1, <1>2, <1>3, <1>4 DEF Inv, IdleStays, Deletions
<1>7. PendingIsTransient'
  BY <1>1, PendingStays DEF Resuming
<1> QED BY <1>1, <1>4, <1>5, <1>6, <1>7, OrdinaryStep DEF Resuming

\* xTaskCreate reads the priority of the new task.
LEMMA CompareStep ==
    ASSUME Inv, NEW t \in Task, Compare(t)
    PROVE  Inv'
<1>1. PICK where \in {"yield", "run"} : pc' = [pc EXCEPT ![pxCurrentTCB] = where]
  BY DEF Compare, At, Goto
<1>2. /\ t = pxCurrentTCB /\ pc[t] = "compare" /\ inTick = "no"
      /\ created' = [created EXCEPT ![t] = NoTask]
      /\ UNCHANGED <<readyVars, blockedLists, eventLists, deletionVars, uxPriority, wake, ret,
                     switchVars, tickVars, uxSchedulerSuspended, uxCriticalNesting,
                     xNextTaskUnblockTime>>
  BY DEF Compare, At, Goto
<1>3. OneInside' /\ pc'[pxCurrentTCB'] \notin Inside
  <2>1. where \notin Inside
    BY DEF Inside, Resuming
  <2> QED BY <1>1, <1>2, <2>1, OneStaysInside DEF Inv, TypeOK
<1>4. pc' \in [Task -> PC] /\ pc'[Idle] # "block"
  BY <1>1 DEF Inv, TypeOK, IdleStays, PC
<1>5. TypeOK'
  BY <1>2, <1>4 DEF Inv, TypeOK
<1>6. IdleStays' /\ Deletions' /\ PendingIsTransient' /\ ret' \in [Task -> ReturnPoint]
  BY <1>2, <1>4 DEF Inv, IdleStays, Deletions, PendingIsTransient
<1> QED BY <1>2, <1>3, <1>5, <1>6, OrdinaryStep DEF Inside, Resuming

\* vTaskDelete of another task, with the yield of the vPortFree it calls.
LEMMA DeleteStep ==
    ASSUME Inv, NEW t \in Task, NEW u \in AppTask, vTaskDelete(t, u)
    PROVE  Inv'
<1>1. /\ t = pxCurrentTCB /\ pc[t] = "run" /\ inTick = "no"
      /\ u \in Task /\ u # Idle /\ u # t
      /\ created' = [created EXCEPT ![u] = NoTask]
      /\ UNCHANGED <<deletionVars, uxPriority, wake, tickVars, uxSchedulerSuspended>>
  BY DEF vTaskDelete, Target, At, AppTask
<1>2. /\ delayed' \in Seq(Task) /\ overflow' \in Seq(Task) /\ suspended' \in SUBSET Task
      /\ pending' \in Seq(Task) /\ waiting' \in Seq(Task)
      /\ pending' # <<>> => pending # <<>>
  BY WithoutProperties, LeaveEventListsType DEF vTaskDelete, Inv, TypeOK
<1>3. LegalLists(NotReady(u))
  BY <1>1, ReadyListsKept, PriorityIsNat
<1>4. /\ LegalLists(pxReadyTasksLists') /\ uxTopReadyPriority' \in Priority
      /\ pxCurrentTCB' \in Task /\ xYieldPending' \in BOOLEAN
      /\ uxCriticalNesting' \in Nat /\ xNextTaskUnblockTime' \in Tick
      /\ pc' \in [Task -> PC] /\ pc'[Idle] # "block" /\ ret' \in [Task -> ReturnPoint]
      /\ OneInside' /\ pc'[pxCurrentTCB'] \notin Inside
  <2>1. CASE uxSchedulerSuspended = 0 /\ xYieldPending
    <3>1. /\ SwitchContext(NotReady(u), uxTopReadyPriority)
          /\ uxCriticalNesting' = uxCriticalNesting + 2
          /\ pc' = [pc EXCEPT ![u] = "none", ![t] = "exit"]
          /\ ret' = [ret EXCEPT ![u] = "run", ![t] = "freed"]
          /\ UNCHANGED xNextTaskUnblockTime
      BY <2>1 DEF vTaskDelete, Inv, TypeOK
    <3>2. LegalLists(pxReadyTasksLists') /\ uxTopReadyPriority' \in Priority
          /\ pxCurrentTCB' \in Task /\ xYieldPending' \in BOOLEAN
      <4>1. PICK lists, top : lists = NotReady(u) /\ top = uxTopReadyPriority
        OBVIOUS
      <4> QED BY <1>3, <3>1, <4>1, SwitchContextType DEF Inv, TypeOK
    <3>3. pc' \in [Task -> PC] /\ pc'[Idle] # "block" /\ ret' \in [Task -> ReturnPoint]
      <4>1. /\ pc \in [Task -> PC] /\ pc[Idle] # "block" /\ ret \in [Task -> ReturnPoint]
        BY DEF Inv, TypeOK, IdleStays
      <4>2. pc' \in [Task -> PC]
        <5>1. "none" \in PC /\ "exit" \in PC
          BY DEF PC
        <5> QED BY <1>1, <3>1, <4>1, <5>1
      <4>3. pc'[Idle] # "block"
        BY <1>1, <3>1, <4>1, PriorityIsNat
      <4>4. ret' \in [Task -> ReturnPoint]
        <5>1. "run" \in ReturnPoint /\ "freed" \in ReturnPoint
          BY DEF ReturnPoint
        <5> QED BY <1>1, <3>1, <4>1, <5>1
      <4> QED BY <4>2, <4>3, <4>4
    <3>4. OneInside' /\ pc'[pxCurrentTCB'] \notin Inside
      BY <1>1, <3>1, <3>2 DEF Inv, TypeOK, OneInside, Inside, Resuming
    <3>5. uxCriticalNesting' \in Nat /\ xNextTaskUnblockTime' \in Tick
      BY <3>1 DEF Inv, TypeOK
    <3> QED BY <3>2, <3>3, <3>4, <3>5
  <2>2. CASE uxSchedulerSuspended # 0 \/ ~xYieldPending
    <3>1. /\ GoOn(NotReady(u), uxTopReadyPriority)
          /\ pc' = [pc EXCEPT ![u] = "none"]
          /\ ret' = [ret EXCEPT ![u] = "run"]
          /\ xNextTaskUnblockTime' = NextUnblock(delayed')
          /\ UNCHANGED <<xYieldPending, uxCriticalNesting>>
      BY <2>2 DEF vTaskDelete, Inv, TypeOK
    <3>2. xNextTaskUnblockTime' \in Tick
      <4>1. PICK list \in Seq(Task) : list = delayed'
        BY <1>2
      <4>2. NextUnblock(list) \in Tick
        BY NextUnblockType DEF Inv, TypeOK
      <4>3. wake' = wake
        BY <1>1
      <4> QED BY <3>1, <4>1, <4>2, <4>3 DEF NextUnblock
    <3>3. pc' \in [Task -> PC] /\ pc'[Idle] # "block" /\ ret' \in [Task -> ReturnPoint]
      <4>1. /\ pc \in [Task -> PC] /\ pc[Idle] # "block" /\ ret \in [Task -> ReturnPoint]
        BY DEF Inv, TypeOK, IdleStays
      <4>2. pc' \in [Task -> PC]
        <5>1. "none" \in PC /\ "exit" \in PC
          BY DEF PC
        <5> QED BY <1>1, <3>1, <4>1, <5>1
      <4>3. pc'[Idle] # "block"
        BY <1>1, <3>1, <4>1, PriorityIsNat
      <4>4. ret' \in [Task -> ReturnPoint]
        <5>1. "run" \in ReturnPoint /\ "freed" \in ReturnPoint
          BY DEF ReturnPoint
        <5> QED BY <1>1, <3>1, <4>1, <5>1
      <4> QED BY <4>2, <4>3, <4>4
    <3>4. OneInside' /\ pc'[pxCurrentTCB'] \notin Inside
      BY <1>1, <3>1 DEF GoOn, Inv, TypeOK, OneInside, Inside, Resuming
    <3> QED BY <1>3, <3>1, <3>2, <3>3, <3>4 DEF GoOn, Inv, TypeOK
  <2> QED BY <2>1, <2>2
<1>5. TypeOK'
  BY <1>1, <1>2, <1>4, ReturnPointsAreReal DEF Inv, TypeOK, LegalLists
<1>6. IdleStays' /\ Deletions'
  BY <1>1, <1>4 DEF Inv, IdleStays, Deletions
<1>7. PendingIsTransient'
  BY <1>1, <1>2, PendingStays DEF Resuming
<1> QED BY <1>1, <1>4, <1>5, <1>6, <1>7, OrdinaryStep DEF Inside, Resuming

\* The end of its critical section.
LEMMA AfterDeleteStep ==
    ASSUME Inv, NEW t \in Task, AfterDelete(t)
    PROVE  Inv'
<1> USE DEF AfterDelete, At, Goto, Inv
<1>1. OneInside' /\ pc'[pxCurrentTCB'] \notin Inside
  BY OneStaysInside DEF TypeOK, Inside, Resuming
<1>2. xNextTaskUnblockTime' \in Tick /\ uxCriticalNesting' \in Nat
  BY NextUnblockType DEF TypeOK
<1>3. pc' \in [Task -> PC] /\ pc'[Idle] # "block"
  BY DEF TypeOK, IdleStays, PC
<1>4. TypeOK' /\ IdleStays'
  BY <1>2, <1>3 DEF TypeOK, IdleStays
<1>5. Deletions' /\ PendingIsTransient'
  BY DEF Deletions, PendingIsTransient
<1> QED BY <1>1, <1>4, <1>5, OrdinaryStep DEF Inside, Resuming

\* vTaskDelete(NULL).
LEMMA DeleteSelfStep ==
    ASSUME Inv, NEW t \in Task, DeleteSelf(t)
    PROVE  Inv'
<1>1. /\ t = pxCurrentTCB /\ pc[t] = "run" /\ inTick = "no" /\ t # Idle
      /\ terminating' = Append(terminating, t)
      /\ uxDeletedTasksWaitingCleanUp' = uxDeletedTasksWaitingCleanUp + 1
      /\ pc' = [pc EXCEPT ![pxCurrentTCB] = "yield"]
      /\ UNCHANGED <<uxTopReadyPriority, blockedLists, taskVars, switchVars, tickVars, ret,
                     uxSchedulerSuspended, uxCriticalNesting, xNextTaskUnblockTime>>
  BY DEF DeleteSelf, At, Goto
<1>2. /\ pending' \in Seq(Task) /\ waiting' \in Seq(Task)
      /\ pending' # <<>> => pending # <<>>
  BY LeaveEventListsType DEF DeleteSelf, Inv
<1>3. LegalLists(pxReadyTasksLists')
  BY <1>1, ReadyListsKept, PriorityIsNat DEF DeleteSelf
<1>4. terminating' \in Seq(Task) /\ Len(terminating') = Len(terminating) + 1
      /\ Len(terminating) \in Nat
  BY <1>1, AppendProperties, LenProperties DEF Inv, TypeOK
<1>5. OneInside' /\ pc'[pxCurrentTCB'] \notin Inside
  <2>1. "yield" \notin Inside
    BY DEF Inside, Resuming
  <2> QED BY <1>1, <2>1, OneStaysInside DEF Inv, TypeOK
<1>6. TypeOK'
  <2>1. pc' \in [Task -> PC]
    BY <1>1 DEF Inv, TypeOK, PC
  <2>2. uxDeletedTasksWaitingCleanUp' \in Nat
    BY <1>1 DEF Inv, TypeOK
  <2> QED BY <1>1, <1>2, <1>3, <1>4, <2>1, <2>2 DEF Inv, TypeOK, LegalLists
<1>7. IdleStays' /\ Deletions' /\ ret' \in [Task -> ReturnPoint]
  BY <1>1, <1>3, <1>4 DEF Inv, TypeOK, IdleStays, Deletions
<1>8. PendingIsTransient'
  BY <1>1, <1>2, PendingStays DEF Resuming
<1> QED BY <1>1, <1>5, <1>6, <1>7, <1>8, OrdinaryStep DEF Inside, Resuming

\* prvCheckTasksWaitingTermination takes one task out of the list.
LEMMA IdleCleanStep ==
    ASSUME Inv, IdleClean
    PROVE  Inv'
<1>0. /\ terminating # <<>> /\ terminating \in Seq(Task)
  BY DEF IdleClean, Inv, TypeOK
<1>1. PICK u \in Task : u = Head(terminating)
  BY <1>0, HeadTailProperties, EmptySeq
<1>2. /\ Idle = pxCurrentTCB /\ pc[Idle] = "clean" /\ inTick = "no" /\ Idle \in Task
      /\ terminating' = Tail(terminating)
      /\ uxDeletedTasksWaitingCleanUp' = uxDeletedTasksWaitingCleanUp - 1
      /\ pc' = [pc EXCEPT ![u] = "none", ![Idle] = "freeStack"]
      /\ ret' = [ret EXCEPT ![u] = "run"]
      /\ created' = [created EXCEPT ![u] = NoTask]
      /\ UNCHANGED <<readyVars, blockedLists, eventLists, uxPriority, wake, switchVars,
                     tickVars, uxSchedulerSuspended, uxCriticalNesting,
                     xNextTaskUnblockTime>>
  BY <1>1, PriorityIsNat DEF IdleClean, At
<1>3. /\ terminating' \in Seq(Task) /\ Len(terminating') = Len(terminating) - 1
      /\ Len(terminating) \in Nat \ {0}
  BY <1>0, <1>2, EmptySeq, HeadTailProperties, LenProperties
<1>4. uxDeletedTasksWaitingCleanUp' \in Nat /\ Deletions'
  BY <1>2, <1>3 DEF Inv, Deletions
<1>5. pc' \in [Task -> PC] /\ pc'[Idle] # "block" /\ ret' \in [Task -> ReturnPoint]
      /\ created' \in [Task -> Task \cup {NoTask}]
  BY <1>2 DEF Inv, TypeOK, PC, ReturnPoint
<1>6. OneInside' /\ pc'[pxCurrentTCB'] \notin Inside
  BY <1>2 DEF Inv, TypeOK, OneInside, Inside, Resuming
<1>7. TypeOK'
  BY <1>2, <1>3, <1>4, <1>5, ReturnPointsAreReal DEF Inv, TypeOK
<1>8. IdleStays' /\ PendingIsTransient'
  BY <1>2, <1>5 DEF Inv, IdleStays, PendingIsTransient
<1> QED BY <1>2, <1>4, <1>5, <1>6, <1>7, <1>8, OrdinaryStep DEF Inside, Resuming

-----------------------------------------------------------------------------
(* xTaskResumeAll.                                                         *)

\* Steps of the critical section of xTaskResumeAll stay on the task that executes it.
LEMMA ResumeAllMoves ==
    ASSUME Inv, NEW where \in PC, where # "block", pxCurrentTCB' = pxCurrentTCB,
           pc' = [pc EXCEPT ![pxCurrentTCB] = where]
    PROVE  /\ pc' \in [Task -> PC] /\ pc'[Idle] # "block" /\ pc'[pxCurrentTCB'] = where
           /\ OneInside'
BY DEF Inv, TypeOK, IdleStays, OneInside

\* xTaskResumeAll enters its critical section, or only undoes a nested suspension.
LEMMA EnterResumeAllStep ==
    ASSUME Inv, NEW t \in Task, EnterResumeAll(t)
    PROVE  Inv'
<1>1. /\ t = pxCurrentTCB /\ pc[t] = "resumeAll" /\ inTick = "no"
      /\ uxSchedulerSuspended > 0 /\ uxSchedulerSuspended \in Nat
      /\ uxSchedulerSuspended' = uxSchedulerSuspended - 1
      /\ UNCHANGED <<readyVars, blockedLists, eventLists, deletionVars, taskVars, switchVars,
                     tickVars, xNextTaskUnblockTime>>
      /\ ret[t] \in ReturnPoint
  BY DEF EnterResumeAll, At, Inv, TypeOK
<1>2. PICK where \in {"drain"} \cup ReturnPoint :
         /\ pc' = [pc EXCEPT ![pxCurrentTCB] = where]
         /\ where = "drain" => /\ uxSchedulerSuspended' = 0
                               /\ uxCriticalNesting' = uxCriticalNesting + 1
         /\ where # "drain" => /\ uxSchedulerSuspended' > 0
                               /\ uxCriticalNesting' = uxCriticalNesting
  BY <1>1 DEF EnterResumeAll, Goto, Return, ReturnPoint
<1>3. ret' \in [Task -> ReturnPoint]
  BY DEF EnterResumeAll, Goto, Return, Inv, ReturnPoint
<1>4. where \in PC /\ where # "block" /\ where \notin {"drained", "replay", "leave"}
      /\ where # "resumeAll"
  BY DEF PC, ReturnPoint
<1>5. pc' \in [Task -> PC] /\ pc'[Idle] # "block" /\ pc'[pxCurrentTCB'] = where
      /\ OneInside'
  BY <1>1, <1>2, <1>4, ResumeAllMoves
<1>6. TypeOK'
  <2>1. uxSchedulerSuspended' \in Nat /\ uxCriticalNesting' \in Nat
    BY <1>1, <1>2 DEF Inv, TypeOK
  <2> QED BY <1>1, <1>3, <1>5, <2>1, ReturnPointsAreReal DEF Inv, TypeOK
<1>7. IdleStays' /\ Deletions'
  BY <1>1, <1>5 DEF Inv, IdleStays, Deletions
<1>8. Sections'
  BY <1>1, <1>2, <1>4, <1>5 DEF Sections, Resuming, Inv, TypeOK
<1>9. Replays'
  BY <1>1, <1>2, <1>4, <1>5 DEF Replays, Inv
<1>10. TicksConserved'
  <2>1. pc'[pxCurrentTCB'] # "replay"
    BY <1>4, <1>5
  <2> QED BY <1>1, <2>1, Zenon DEF TicksConserved, Inv
<1>11. PendingIsTransient'
  BY <1>1, <1>2, <1>5 DEF PendingIsTransient, Inv
<1> QED BY <1>3, <1>5, <1>6, <1>7, <1>8, <1>9, <1>10, <1>11 DEF Inv

\* xTaskResumeAll moves one task out of the pending list.
LEMMA DrainStep ==
    ASSUME Inv, NEW t \in Task, Drain(t)
    PROVE  Inv'
<1>1. /\ t = pxCurrentTCB /\ pc[t] \in {"drain", "drained"} /\ inTick = "no"
      /\ pc' = [pc EXCEPT ![pxCurrentTCB] = "drained"]
      /\ UNCHANGED <<pxCurrentTCB, ret, deletionVars, taskVars, tickVars,
                     uxSchedulerSuspended, uxCriticalNesting, xNextTaskUnblockTime>>
  BY DEF Drain, At, Goto, GoOn
<1>2. PICK u \in Task, p \in Priority : u = Head(pending) /\ p = uxPriority[u]
  <2>1. Head(pending) \in Task
    BY EmptySeq, HeadTailProperties DEF Drain, Inv, TypeOK
  <2> QED BY <2>1 DEF Inv, TypeOK
<1>3. /\ LeaveEventLists(u) /\ LeaveBlocked(u) /\ GoOn(ReadyAt(u, p), Record(p))
      /\ xYieldPending' \in BOOLEAN
  BY <1>2 DEF Drain, Inv, TypeOK
<1>4. LegalLists(pxReadyTasksLists') /\ uxTopReadyPriority' \in Priority
  BY <1>2, <1>3, ReadyListsKept DEF GoOn
<1>5. /\ delayed' \in Seq(Task) /\ overflow' \in Seq(Task) /\ suspended' \in SUBSET Task
      /\ pending' \in Seq(Task) /\ waiting' \in Seq(Task)
  BY <1>3, LeaveBlockedType, LeaveEventListsType DEF Inv
<1>6. "drained" \in PC
  BY DEF PC
<1>7. pc' \in [Task -> PC] /\ pc'[Idle] # "block" /\ pc'[pxCurrentTCB'] = "drained"
      /\ OneInside'
  BY <1>1, <1>6, ResumeAllMoves
<1>8. TypeOK'
  BY <1>1, <1>3, <1>4, <1>5, <1>7 DEF Inv, TypeOK, LegalLists
<1>9. IdleStays' /\ Deletions' /\ ret' \in [Task -> ReturnPoint]
  BY <1>1, <1>4, <1>7 DEF Inv, IdleStays, Deletions
<1>10. Sections'
  BY <1>1, <1>7 DEF Sections, Resuming, Inv
<1>11. Replays'
  BY <1>1, <1>7 DEF Replays, Inv
<1>12. TicksConserved'
  <2>1. pc'[pxCurrentTCB'] # "replay" /\ pc[pxCurrentTCB] # "replay"
    BY <1>1, <1>7
  <2> QED BY <1>1, <2>1, Zenon DEF TicksConserved, Inv
<1>13. PendingIsTransient'
  BY <1>7 DEF PendingIsTransient
<1> QED BY <1>7, <1>8, <1>9, <1>10, <1>11, <1>12, <1>13 DEF Inv

\* The pending list is empty: the ticks are next.
LEMMA DrainEndStep ==
    ASSUME Inv, NEW t \in Task, DrainEnd(t)
    PROVE  Inv'
<1>1. /\ t = pxCurrentTCB /\ pc[t] \in {"drain", "drained"} /\ inTick = "no"
      /\ pending = <<>> /\ replayed' = uxPendedTicks
      /\ pc' = [pc EXCEPT ![pxCurrentTCB] = AfterDrain]
      /\ UNCHANGED <<readyVars, blockedLists, eventLists, deletionVars, taskVars, switchVars,
                     xTickCount, uxPendedTicks, inTick, xSwitchRequired, elapsed,
                     uxSchedulerSuspended, uxCriticalNesting, ret>>
  BY DEF DrainEnd, Drained, At, Goto
<1>2. xNextTaskUnblockTime' \in Tick
  BY NextUnblockType DEF DrainEnd, Inv, TypeOK
<1>3. PICK where \in {"replay", "leave"} : where = AfterDrain
  BY DEF AfterDrain
<1>4. where \in PC /\ where # "block"
  BY DEF PC
<1>5. pc' \in [Task -> PC] /\ pc'[Idle] # "block" /\ pc'[pxCurrentTCB'] = where
      /\ OneInside'
  BY <1>1, <1>3, <1>4, ResumeAllMoves
<1>6. TypeOK'
  BY <1>1, <1>2, <1>5 DEF Inv, TypeOK
<1>7. IdleStays' /\ Deletions' /\ ret' \in [Task -> ReturnPoint]
  BY <1>1, <1>5 DEF Inv, IdleStays, Deletions
<1>8. Sections'
  BY <1>1, <1>5 DEF Sections, Resuming, Inv
<1>9. Replays'
  BY <1>1, <1>3, <1>5 DEF Replays, AfterDrain, Inv, TypeOK
<1>10. TicksConserved'
  <2>1. pc[pxCurrentTCB] # "replay"
    BY <1>1
  <2>2. elapsed = (xTickCount + uxPendedTicks) % TickModulus
    BY <1>1, <2>1, Zenon DEF TicksConserved, Inv
  <2> QED BY <1>1, <2>2 DEF TicksConserved
<1>11. PendingIsTransient'
  BY <1>1 DEF PendingIsTransient
<1> QED BY <1>5, <1>6, <1>7, <1>8, <1>9, <1>10, <1>11 DEF Inv

\* xTaskIncrementTick up to its loop.
LEMMA BeginTickType ==
    ASSUME TypeOK, BeginTick
    PROVE  /\ xTickCount' = (xTickCount + 1) % TickModulus /\ xTickCount' \in Tick
           /\ delayed' \in Seq(Task) /\ overflow' \in Seq(Task)
           /\ xNextTaskUnblockTime' \in Tick
           /\ inTick' \in {"unblock", "slice"} /\ xSwitchRequired' \in BOOLEAN
<1>1. xTickCount' = (xTickCount + 1) % TickModulus /\ xTickCount' \in Tick
  <2>1. xTickCount + 1 \in Nat
    BY ModulusPositive DEF TypeOK
  <2> QED BY <2>1, ModInTick DEF BeginTick
<1> QED BY <1>1, NextUnblockType DEF BeginTick, TypeOK

\* xTaskResumeAll replays one tick.
LEMMA ReplayTickStep ==
    ASSUME Inv, NEW t \in Task, ReplayTick(t)
    PROVE  Inv'
<1>1. /\ t = pxCurrentTCB /\ pc[pxCurrentTCB] = "replay" /\ inTick = "no"
      /\ BeginTick /\ replayed' = replayed - 1
      /\ UNCHANGED <<readyVars, suspended, eventLists, deletionVars, taskVars, switchVars,
                     control, uxPendedTicks, elapsed, uxSchedulerSuspended,
                     uxCriticalNesting>>
  BY DEF ReplayTick, At
<1>2. /\ xTickCount' = (xTickCount + 1) % TickModulus /\ xTickCount' \in Tick
      /\ delayed' \in Seq(Task) /\ overflow' \in Seq(Task)
      /\ xNextTaskUnblockTime' \in Tick
      /\ inTick' \in {"unblock", "slice"} /\ xSwitchRequired' \in BOOLEAN
  BY <1>1, BeginTickType DEF Inv
<1>3. replayed \in Nat /\ replayed > 0 /\ replayed' \in Nat
  BY <1>1 DEF Inv, Replays, TypeOK
<1>4. TypeOK'
  BY <1>1, <1>2, <1>3 DEF Inv, TypeOK
<1>5. IdleStays' /\ Deletions' /\ ret' \in [Task -> ReturnPoint] /\ OneInside'
      /\ PendingIsTransient'
  BY <1>1 DEF Inv, IdleStays, Deletions, OneInside, PendingIsTransient
<1>6. Sections' /\ Replays'
  BY <1>1, <1>2 DEF Inv, Sections, Replays, Resuming
<1>7. TicksConserved'
  <2>1. elapsed = (xTickCount + replayed) % TickModulus
    BY <1>1, Zenon DEF TicksConserved, Inv
  <2>2. xTickCount \in Tick
    BY DEF Inv, TypeOK
  <2>3. elapsed = (((xTickCount + 1) % TickModulus) + (replayed - 1)) % TickModulus
    BY <1>3, <2>1, <2>2, ModNextTick
  <2> QED BY <1>1, <1>2, <2>3 DEF TicksConserved
<1> QED BY <1>4, <1>5, <1>6, <1>7 DEF Inv

\* xTaskResumeAll leaves its critical section, with a yield inside it or without.
LEMMA LeaveResumeAllStep ==
    ASSUME Inv, NEW t \in Task, LeaveResumeAll(t)
    PROVE  Inv'
<1>1. /\ t = pxCurrentTCB /\ pc[pxCurrentTCB] = "leave" /\ inTick = "no"
      /\ uxSchedulerSuspended = 0 /\ uxCriticalNesting > 0 /\ uxPendedTicks = 0
      /\ UNCHANGED <<blockedLists, eventLists, deletionVars, taskVars, tickVars,
                     uxSchedulerSuspended, xNextTaskUnblockTime>>
  BY DEF LeaveResumeAll, At, Inv, Sections, Replays, Resuming
<1>2. PICK where \in {"exit"} \cup ReturnPoint :
         pc' = [pc EXCEPT ![pxCurrentTCB] = where]
  BY <1>1 DEF LeaveResumeAll, Call, Return, Inv, TypeOK
<1>3. where \in PC /\ where \notin Inside
  BY DEF PC, ReturnPoint, Inside, Resuming
<1>4. pc' \in [Task -> PC] /\ pc'[Idle] # "block"
  <2>1. where # "block"
    BY <1>3 DEF Inside
  <2> QED BY <1>2, <1>3, <2>1 DEF Inv, TypeOK, IdleStays
<1>5. ret' \in [Task -> ReturnPoint]
  BY DEF LeaveResumeAll, Call, Return, Inv, ReturnPoint
<1>6. /\ LegalLists(pxReadyTasksLists') /\ uxTopReadyPriority' \in Priority
      /\ pxCurrentTCB' \in Task /\ xYieldPending' \in BOOLEAN
      /\ uxCriticalNesting' \in Nat
  <2>1. CASE xYieldPending
    <3>1. SwitchContext(pxReadyTasksLists, uxTopReadyPriority) /\ UNCHANGED uxCriticalNesting
      BY <2>1 DEF LeaveResumeAll
    <3>2. PICK lists, top : lists = pxReadyTasksLists /\ top = uxTopReadyPriority
      OBVIOUS
    <3> QED BY <3>1, <3>2, SwitchContextType DEF Inv, TypeOK, IdleStays
  <2>2. CASE ~xYieldPending
    BY <2>2, <1>1 DEF LeaveResumeAll, Inv, TypeOK, IdleStays
  <2> QED BY <2>1, <2>2
<1>7. OneInside' /\ pc'[pxCurrentTCB'] \notin Inside
  BY <1>2, <1>3, <1>6, OneStaysInside
<1>8. TypeOK'
  BY <1>1, <1>4, <1>5, <1>6, ReturnPointsAreReal DEF Inv, TypeOK, LegalLists
<1>9. IdleStays' /\ Deletions'
  BY <1>1, <1>4, <1>6 DEF Inv, IdleStays, Deletions
<1>10. Sections' /\ Replays'
  BY <1>1, <1>7 DEF Inv, Sections, Replays, Inside, Resuming
<1>11. TicksConserved'
  <2>1. pc'[pxCurrentTCB'] # "replay"
    BY <1>7 DEF Inside, Resuming
  <2> QED BY <1>1, <2>1, Zenon DEF TicksConserved, Inv
<1>12. PendingIsTransient'
  BY <1>1 DEF Inv, PendingIsTransient
<1> QED BY <1>5, <1>7, <1>8, <1>9, <1>10, <1>11, <1>12 DEF Inv

-----------------------------------------------------------------------------
(* The tick.                                                               *)

\* The tick is counted, or pended while the scheduler is suspended.
LEMMA TickInterruptStep ==
    ASSUME Inv, TickInterrupt
    PROVE  Inv'
<1>1. /\ uxCriticalNesting = 0 /\ inTick = "no" /\ pc[pxCurrentTCB] \notin Resuming
      /\ elapsed' = (elapsed + 1) % TickModulus
      /\ UNCHANGED <<readyVars, suspended, eventLists, deletionVars, taskVars, switchVars,
                     control, replayed, uxSchedulerSuspended, uxCriticalNesting>>
      /\ xTickCount \in Tick /\ elapsed \in Tick /\ uxPendedTicks \in Nat
      /\ pc[pxCurrentTCB] # "replay" /\ replayed = 0
  BY DEF TickInterrupt, Inv, Sections, Replays, TypeOK, Resuming
<1>2. elapsed = (xTickCount + uxPendedTicks) % TickModulus
  BY <1>1, Zenon DEF TicksConserved, Inv
<1>3. elapsed' \in Tick
  BY <1>1, ModInTick, ModulusPositive
<1>4. IdleStays' /\ Deletions' /\ ret' \in [Task -> ReturnPoint] /\ OneInside'
      /\ PendingIsTransient'
  BY <1>1 DEF Inv, IdleStays, Deletions, OneInside, PendingIsTransient
<1>5. CASE uxSchedulerSuspended = 0
  <2>1. BeginTick /\ uxPendedTicks' = uxPendedTicks
    BY <1>5 DEF TickInterrupt
  <2>2. /\ xTickCount' = (xTickCount + 1) % TickModulus /\ xTickCount' \in Tick
        /\ delayed' \in Seq(Task) /\ overflow' \in Seq(Task)
        /\ xNextTaskUnblockTime' \in Tick
        /\ inTick' \in {"unblock", "slice"} /\ xSwitchRequired' \in BOOLEAN
    BY <2>1, BeginTickType DEF Inv
  <2>3. uxPendedTicks = 0
    BY <1>1, <1>5 DEF Inv, Replays, Resuming
  <2>4. TypeOK'
    BY <1>1, <1>3, <2>1, <2>2 DEF Inv, TypeOK
  <2>5. Sections' /\ Replays'
    BY <1>1, <1>5, <2>1, <2>2, <2>3 DEF Inv, Sections, Replays, Resuming
  <2>6. TicksConserved'
    <3>1. xTickCount + 0 = xTickCount /\ xTickCount' + 0 = xTickCount'
      BY <1>1, <2>2, ModulusPositive
    <3>2. elapsed = xTickCount
      BY <1>1, <1>2, <2>3, <3>1, ModOfTick
    <3>3. elapsed' = xTickCount'
      BY <1>1, <2>2, <3>2
    <3>4. xTickCount' % TickModulus = xTickCount'
      BY <2>2, ModOfTick
    <3> QED BY <1>1, <2>2, <3>1, <3>3, <3>4 DEF TicksConserved
  <2> QED BY <1>4, <2>4, <2>5, <2>6 DEF Inv
<1>6. CASE uxSchedulerSuspended # 0
  <2>1. /\ uxPendedTicks' = uxPendedTicks + 1
        /\ UNCHANGED <<xTickCount, delayed, overflow, xNextTaskUnblockTime, inTick,
                       xSwitchRequired>>
    BY <1>6 DEF TickInterrupt
  <2>2. TypeOK'
    BY <1>1, <1>3, <2>1 DEF Inv, TypeOK
  <2>3. Sections' /\ Replays'
    BY <1>1, <1>6, <2>1 DEF Inv, Sections, Replays, Resuming
  <2>4. TicksConserved'
    <3>1. xTickCount + uxPendedTicks \in Nat
          /\ (xTickCount + uxPendedTicks) + 1 = xTickCount + (uxPendedTicks + 1)
      BY <1>1, ModulusPositive
    <3>2. elapsed' = (xTickCount + (uxPendedTicks + 1)) % TickModulus
      BY <1>1, <1>2, <3>1, ModSuccessor
    <3> QED BY <1>1, <2>1, <3>2 DEF TicksConserved
  <2> QED BY <1>4, <2>2, <2>3, <2>4 DEF Inv
<1> QED BY <1>5, <1>6

\* One turn of the loop of xTaskIncrementTick.
LEMMA TickUnblockStep ==
    ASSUME Inv, TickUnblock
    PROVE  Inv'
<1>1. /\ inTick = "unblock" /\ uxSchedulerSuspended = 0
      /\ pc[pxCurrentTCB] # "replay" => uxCriticalNesting = 0
      /\ UNCHANGED <<deletionVars, taskVars, switchVars, control, xTickCount, uxPendedTicks,
                     replayed, elapsed, uxSchedulerSuspended, uxCriticalNesting>>
  BY DEF TickUnblock, Inv, Sections
<1>2. /\ LegalLists(pxReadyTasksLists') /\ uxTopReadyPriority' \in Priority
      /\ delayed' \in Seq(Task) /\ overflow' \in Seq(Task) /\ suspended' \in SUBSET Task
      /\ pending' \in Seq(Task) /\ waiting' \in Seq(Task)
      /\ pending' # <<>> => pending # <<>>
      /\ xNextTaskUnblockTime' \in Tick /\ inTick' \in {"unblock", "slice"}
      /\ xSwitchRequired' \in BOOLEAN
  <2>1. CASE Due
    <3>1. PICK u \in Task, p \in Priority : u = Head(delayed) /\ p = uxPriority[u]
      <4>1. Head(delayed) \in Task
        BY <2>1, EmptySeq, HeadTailProperties DEF Due, Inv, TypeOK
      <4> QED BY <4>1 DEF Inv, TypeOK
    <3>2. /\ LeaveBlocked(u) /\ LeaveEventLists(u)
          /\ pxReadyTasksLists' = ReadyAt(u, p) /\ uxTopReadyPriority' = Record(p)
          /\ xSwitchRequired' \in BOOLEAN /\ UNCHANGED <<xNextTaskUnblockTime, inTick>>
      BY <2>1, <3>1 DEF TickUnblock, Inv, TypeOK
    <3>3. LegalLists(pxReadyTasksLists') /\ uxTopReadyPriority' \in Priority
      BY <3>1, <3>2, ReadyListsKept
    <3>4. /\ delayed' \in Seq(Task) /\ overflow' \in Seq(Task) /\ suspended' \in SUBSET Task
          /\ pending' \in Seq(Task) /\ waiting' \in Seq(Task)
          /\ pending' # <<>> => pending # <<>>
      BY <3>2, LeaveBlockedType, LeaveEventListsType DEF Inv
    <3> QED BY <1>1, <3>2, <3>3, <3>4 DEF Inv, TypeOK
  <2>2. CASE ~Due
    BY <2>2, NextUnblockType DEF TickUnblock, Inv, TypeOK, IdleStays
  <2> QED BY <2>1, <2>2
<1>3. TypeOK'
  BY <1>1, <1>2 DEF Inv, TypeOK, LegalLists
<1>4. IdleStays' /\ Deletions' /\ ret' \in [Task -> ReturnPoint] /\ OneInside'
  BY <1>1, <1>2 DEF Inv, IdleStays, Deletions, OneInside
<1>5. Sections' /\ Replays'
  BY <1>1, <1>2 DEF Inv, Sections, Replays, Resuming
<1>6. TicksConserved'
  BY <1>1, <1>2 DEF Inv, TicksConserved
<1>7. PendingIsTransient'
  BY <1>1, <1>2 DEF Inv, PendingIsTransient
<1> QED BY <1>3, <1>4, <1>5, <1>6, <1>7 DEF Inv

\* The end of xTaskIncrementTick, in the interrupt or in the replay.
LEMMA TickSliceStep ==
    ASSUME Inv, TickSlice
    PROVE  Inv'
<1>1. /\ inTick = "slice" /\ inTick' = "no" /\ xSwitchRequired' = FALSE
      /\ uxSchedulerSuspended = 0
      /\ UNCHANGED <<blockedLists, eventLists, deletionVars, taskVars, xTickCount, ret,
                     replayed, elapsed, uxSchedulerSuspended, uxCriticalNesting,
                     xNextTaskUnblockTime>>
  BY DEF TickSlice, Goto, Inv, Sections
<1>2. elapsed = (xTickCount + replayed) % TickModulus
  BY <1>1, Zenon DEF Inv, TicksConserved
<1>3. CASE pc[pxCurrentTCB] # "replay"
  <2>1. /\ pc[pxCurrentTCB] \notin Inside /\ replayed = 0
        /\ pending = <<>> /\ uxPendedTicks = 0
    BY <1>1, <1>3 DEF Inv, Sections, Replays, PendingIsTransient, Inside, Resuming, TypeOK
  <2>2. /\ UNCHANGED <<pc, uxPendedTicks>>
        /\ \/ SwitchContext(pxReadyTasksLists, uxTopReadyPriority)
           \/ UNCHANGED <<readyVars, switchVars>>
    BY <1>3 DEF TickSlice
  <2>3. /\ LegalLists(pxReadyTasksLists') /\ uxTopReadyPriority' \in Priority
        /\ pxCurrentTCB' \in Task /\ xYieldPending' \in BOOLEAN
    <3>1. PICK lists, top : lists = pxReadyTasksLists /\ top = uxTopReadyPriority
      OBVIOUS
    <3> QED BY <2>2, <3>1, SwitchContextType DEF Inv, TypeOK, IdleStays
  <2>4. OneInside' /\ pc'[pxCurrentTCB'] \notin Inside
    BY <2>1, <2>2, <2>3, OneStaysInsideUnchanged
  <2>5. TypeOK'
    BY <1>1, <2>2, <2>3 DEF Inv, TypeOK, LegalLists
  <2>6. IdleStays' /\ Deletions' /\ ret' \in [Task -> ReturnPoint] /\ PendingIsTransient'
    BY <1>1, <2>1, <2>2, <2>3 DEF Inv, IdleStays, Deletions, PendingIsTransient
  <2>7. Sections' /\ Replays'
    BY <1>1, <2>1, <2>2, <2>4 DEF Sections, Replays, Inside, Resuming
  <2>8. TicksConserved'
    <3>1. pc'[pxCurrentTCB'] # "replay"
      BY <2>4 DEF Inside, Resuming
    <3> QED BY <1>1, <1>2, <2>1, <2>2, <3>1 DEF TicksConserved
  <2> QED BY <2>4, <2>5, <2>6, <2>7, <2>8 DEF Inv
<1>4. CASE pc[pxCurrentTCB] = "replay"
  <2>1. /\ xYieldPending' \in BOOLEAN /\ UNCHANGED <<readyVars, pxCurrentTCB>>
        /\ replayed = 0 => /\ uxPendedTicks' = 0
                           /\ pc' = [pc EXCEPT ![pxCurrentTCB] = "leave"]
        /\ replayed # 0 => UNCHANGED <<uxPendedTicks, pc>>
    <3>1. xYieldPending' = (xSwitchRequired \/ Sharing \/ xYieldPending)
      BY <1>4 DEF TickSlice
    <3>2. xYieldPending' \in BOOLEAN
      BY <3>1
    <3> QED BY <1>4, <3>2 DEF TickSlice, Goto
  <2>2. replayed \in Nat /\ uxPendedTicks' \in Nat
    BY <2>1 DEF Inv, TypeOK
  <2>3. /\ pc' \in [Task -> PC] /\ pc'[Idle] # "block" /\ OneInside'
        /\ pc'[pxCurrentTCB'] = IF replayed = 0 THEN "leave" ELSE "replay"
    <3>1. "leave" \in PC
      BY DEF PC
    <3>2. CASE replayed = 0
      BY <2>1, <3>1, <3>2, ResumeAllMoves
    <3>3. CASE replayed # 0
      BY <1>4, <2>1, <3>3 DEF Inv, TypeOK, IdleStays, OneInside
    <3> QED BY <3>2, <3>3
  <2>4. TypeOK'
    BY <1>1, <2>1, <2>2, <2>3 DEF Inv, TypeOK
  <2>5. IdleStays' /\ Deletions' /\ ret' \in [Task -> ReturnPoint]
    BY <1>1, <2>1, <2>3 DEF Inv, IdleStays, Deletions
  <2>6. PendingIsTransient'
    BY <1>1, <1>4 DEF Inv, PendingIsTransient
  <2>7. Sections' /\ Replays'
    BY <1>1, <1>4, <2>1, <2>2, <2>3 DEF Inv, Sections, Replays, Resuming
  <2>8. TicksConserved'
    BY <1>1, <1>2, <2>1, <2>3 DEF TicksConserved
  <2> QED BY <2>3, <2>4, <2>5, <2>6, <2>7, <2>8 DEF Inv
<1> QED BY <1>3, <1>4
-----------------------------------------------------------------------------
(* The specification.                                                      *)

\* vTaskStartScheduler establishes the invariant.
LEMMA InitInv == Init => Inv
<1> SUFFICES ASSUME Init PROVE Inv
  OBVIOUS
<1> USE DEF Init
<1>1. PICK i \in DOMAIN InitialReady[0] : InitialReady[0][i] = Idle
  BY TasksAssumption
<1>2. /\ InitialReady \in [Priority -> Seq(Task)] /\ InitialReady[0] # <<>>
      /\ Contains(InitialReady[0], Idle)
  BY <1>1, TasksAssumption, PriorityIsNat DEF Contains
<1>3. LegalLists(pxReadyTasksLists)
  <2>1. \A p \in Priority : IsList([items |-> InitialReady[p], index |-> 0], Task)
    BY <1>2, LenProperties DEF IsList
  <2> QED BY <1>2, <2>1, PriorityIsNat DEF LegalLists, IsList
<1>4. \A p \in Priority : Contains(InitialReady[p], Idle) => p = 0
  <2> SUFFICES ASSUME NEW p \in Priority, NEW j \in DOMAIN InitialReady[p],
                      InitialReady[p][j] = Idle
               PROVE  p = 0
    BY DEF Contains
  <2> QED BY <1>1, TasksAssumption, PriorityIsNat
<1>5. uxPriority \in [Task -> Priority] /\ uxPriority[Idle] = 0
  <2>1. \A u \in Task : Created(u) => \E p \in Priority : Contains(InitialReady[p], u)
    BY DEF Created, Contains
  <2>2. (CHOOSE p \in Priority : Contains(InitialReady[p], Idle)) = 0
    BY <1>2, <1>4, PriorityIsNat
  <2> QED BY <2>1, <2>2, PriorityIsNat
<1>6. uxTopReadyPriority \in Priority /\ InitialReady[uxTopReadyPriority] # <<>>
  <2> DEFINE P == {p \in Priority : InitialReady[p] # <<>>}
  <2>1. P \in SUBSET (0 .. MaxPriorities - 1) /\ P # {} /\ MaxPriorities - 1 \in Nat
    <3>1. MaxPriorities - 1 \in Nat /\ Priority = 0 .. MaxPriorities - 1
      BY TasksAssumption DEF Priority
    <3>2. 0 \in P
      BY <1>2, PriorityIsNat
    <3> QED BY <3>1, <3>2
  <2>2. Max(P) \in P
    <3> HIDE DEF P
    <3> QED BY <2>1, MaxExists
  <2> QED BY <2>2
<1>7. pxCurrentTCB \in Task
  <2>1. PICK seq \in Seq(Task) : seq = InitialReady[uxTopReadyPriority] /\ seq # <<>>
    BY <1>2, <1>6
  <2>2. Len(seq) \in 1 .. Len(seq)
    BY <2>1, EmptySeq, LenProperties
  <2> QED BY <2>1, <2>2, ElementOfSeq DEF Last
<1>8. pc \in [Task -> PC] /\ ret \in [Task -> ReturnPoint] /\ ret \in [Task -> PC]
      /\ \A u \in Task : pc[u] \in {"run", "none"}
  BY DEF PC, ReturnPoint
<1>9. TypeOK
  <2>1. <<>> \in Seq(Task)
    BY EmptySeq
  <2>2. xNextTaskUnblockTime \in Tick /\ xTickCount \in Tick /\ elapsed \in Tick
    BY ModulusPositive
  <2>3. wake \in [Task -> Tick] /\ created \in [Task -> Task \cup {NoTask}]
    BY ModulusPositive
  <2> QED BY <1>3, <1>5, <1>6, <1>7, <1>8, <2>1, <2>2, <2>3 DEF TypeOK, LegalLists
<1>10. IdleStays /\ OneInside /\ Sections /\ Replays
  BY <1>3, <1>5, <1>7, <1>8, PriorityIsNat
     DEF IdleStays, OneInside, Sections, Replays, Inside, Resuming
<1>11. Deletions /\ PendingIsTransient
  BY EmptySeq DEF Deletions, PendingIsTransient
<1>12. TicksConserved
  <2>1. pc[pxCurrentTCB] # "replay" /\ 0 % TickModulus = 0
    BY <1>7, <1>8, ModOfTick, ModulusPositive
  <2> QED BY <2>1 DEF TicksConserved
<1> QED BY <1>8, <1>9, <1>10, <1>11, <1>12 DEF Inv

\* Every step keeps the invariant.
LEMMA NextInv == Inv /\ [Next]_vars => Inv'
<1> SUFFICES ASSUME Inv, [Next]_vars PROVE Inv'
  OBVIOUS
<1>1. ASSUME NEW t \in Task, Proceed(t) PROVE Inv'
  BY <1>1, ExitCriticalStep, YieldWithinAPIStep, EnterResumeAllStep, DrainStep, DrainEndStep,
     ReplayTickStep, LeaveResumeAllStep, BlockingSteps, AfterSuspendStep, AfterDeleteStep,
     SuspendingSteps, AllocateFailsStep, CompareStep, AddNewTaskStep DEF Proceed
<1>2. ASSUME NEW t \in Task, CallAPI(t) PROVE Inv'
  BY <1>2, TaskYieldStep, SuspendingSteps, PostStep, DeleteSelfStep, SuspendStep, ResumeStep,
     DeleteStep, PrioritySetStep DEF CallAPI
<1>3. ASSUME NEW t \in Task, xTaskResumeAll(t) PROVE Inv'
  BY <1>3, ResumeAllCallStep
<1>4. ASSUME IdleTask PROVE Inv'
  <2>1. CASE IdleLoop
    BY <2>1 DEF IdleLoop, vars, Inv, TypeOK, IdleStays, OneInside, Sections, Replays,
                Deletions, TicksConserved, PendingIsTransient
  <2>2. CASE IdleCheck \/ IdleFree
    BY <2>2, SuspendingSteps, PriorityIsNat
  <2>3. CASE IdleClean
    BY <2>3, IdleCleanStep
  <2> QED BY <1>4, <2>1, <2>2, <2>3 DEF IdleTask
<1>5. ASSUME TickInterrupt \/ InTick PROVE Inv'
  BY <1>5, TickInterruptStep, TickUnblockStep, TickSliceStep DEF InTick
<1>6. ASSUME PostFromISR \/ \E u \in AppTask : xTaskResumeFromISR(u) PROVE Inv'
  BY <1>6, PostFromISRStep, ResumeFromISRStep
<1>7. CASE UNCHANGED vars
  BY <1>7 DEF vars, Inv, TypeOK, IdleStays, OneInside, Sections, Replays,
              Deletions, TicksConserved, PendingIsTransient
<1> QED BY <1>1, <1>2, <1>3, <1>4, <1>5, <1>6, <1>7 DEF Next

\* The inductive invariant of the scheduler: from vTaskStartScheduler on, every task,
\* interrupt and tick keeps the lists, the sections and the counts of Inv.
THEOREM SchedulerInvariant == Spec => []Inv
BY InitInv, NextInv, PTL DEF Spec

\* Every variable keeps its type; in particular vTaskSwitchContext always finds a task
\* to run, and pxIndex of a ready list never leaves the list.
THEOREM TypesKept == Spec => []TypeOK
<1>1. Inv => TypeOK
  BY DEF Inv
<1> QED BY <1>1, SchedulerInvariant, PTL

\* For any width of the tick count and any number of ticks that arrive while the
\* scheduler is suspended, xTaskResumeAll replays each of them once.
THEOREM NoTickIsLost == Spec => []TicksConserved
<1>1. Inv => TicksConserved
  BY DEF Inv
<1> QED BY <1>1, SchedulerInvariant, PTL

\* No task that was woken while the scheduler was suspended is left in the pending
\* list when the scheduler runs again.
THEOREM NoTaskStaysPending == Spec => []PendingIsTransient
<1>1. Inv => PendingIsTransient
  BY DEF Inv
<1> QED BY <1>1, SchedulerInvariant, PTL
=============================================================================
