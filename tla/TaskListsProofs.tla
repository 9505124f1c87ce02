-------------------------- MODULE TaskListsProofs --------------------------
(***************************************************************************)
(* More proofs about the scheduler, on top of the invariant of TasksProofs *)
(* and again for any tasks, priorities, width of the tick count and calls: *)
(* where the list items of the tasks are, and that the most urgent task    *)
(* runs.                                                                   *)
(***************************************************************************)
EXTENDS TasksProofs, FiniteSetTheorems

-----------------------------------------------------------------------------
(* The invariant.                                                          *)

\* Ready lists without repetitions, each of its own priority and none above top.
Ordered(lists, priority, top) ==
    /\ \A p \in Priority : IsInjective(lists[p].items)
    /\ \A p \in Priority, u \in Task :
         Contains(lists[p].items, u) => priority[u] = p /\ p <= top

Distinct ==
    /\ IsInjective(delayed) /\ IsInjective(overflow) /\ IsInjective(terminating)
    /\ IsInjective(pending) /\ IsInjective(waiting)

\* The state item of u is in one list if the task exists; one whose event item is in
\* a list is blocked.
HomeOK(u) ==
    /\ pc[u] # "none" <=> \/ Ready(u) \/ Contains(delayed, u) \/ Contains(overflow, u)
                          \/ Contains(terminating, u) \/ u \in suspended
    /\ Ready(u) => /\ ~Contains(delayed, u) /\ ~Contains(overflow, u)
                   /\ ~Contains(terminating, u) /\ u \notin suspended
    /\ Contains(delayed, u) => /\ ~Contains(overflow, u) /\ ~Contains(terminating, u)
                               /\ u \notin suspended
    /\ Contains(overflow, u) => ~Contains(terminating, u) /\ u \notin suspended
    /\ Contains(terminating, u) => u \notin suspended
    /\ Contains(pending, u) => ~Contains(waiting, u)
    /\ Contains(pending, u) \/ Contains(waiting, u)
         => Contains(delayed, u) \/ Contains(overflow, u) \/ u \in suspended

Homes ==
    /\ Ordered(pxReadyTasksLists, uxPriority, uxTopReadyPriority)
    /\ Distinct
    /\ \A u \in Task : HomeOK(u)

\* The running task is ready, or is on its way to give up the processor.
Standing ==
    \/ Ready(pxCurrentTCB)
    \/ pc[pxCurrentTCB] = "yield" /\ uxSchedulerSuspended = 0
    \/ /\ pc[pxCurrentTCB] = "reset" /\ ret[pxCurrentTCB] = "yield"
       /\ uxSchedulerSuspended = 0
    \/ /\ pc[pxCurrentTCB] = "resumeAll" /\ ret[pxCurrentTCB] = "yield"
       /\ uxSchedulerSuspended = 1
    \/ pc[pxCurrentTCB] \in Resuming /\ ret[pxCurrentTCB] = "yield"

\* One that is about to block holds the scheduler suspended for that only.
Blocking ==
    pc[pxCurrentTCB] = "block" =>
        /\ Ready(pxCurrentTCB) /\ ret[pxCurrentTCB] = "yield"
        /\ uxSchedulerSuspended = 1

HInv == Inv /\ Homes /\ Standing /\ Blocking
-----------------------------------------------------------------------------
(* What the operators on the ready lists do to their items.                *)

\* The task that leaves the ready lists is the only one.
LEMMA NotReadyExact ==
    ASSUME Inv, Homes, NEW u \in Task
    PROVE  /\ \A p \in Priority : \A y :
                Contains(NotReady(u)[p].items, y)
                    <=> Contains(pxReadyTasksLists[p].items, y) /\ y # u
           /\ Ordered(NotReady(u), uxPriority, uxTopReadyPriority)
<1>1. ASSUME NEW p \in Priority
      PROVE  /\ \A y : Contains(NotReady(u)[p].items, y)
                          <=> Contains(pxReadyTasksLists[p].items, y) /\ y # u
             /\ IsInjective(NotReady(u)[p].items)
  <2>1. IsList(pxReadyTasksLists[p], Task) /\ IsInjective(pxReadyTasksLists[p].items)
    BY DEF Inv, IdleStays, LegalLists, Homes, Ordered
  <2>2. NotReady(u)[p] = Unlink(pxReadyTasksLists[p], u)
    BY DEF NotReady
  <2> QED BY <2>1, <2>2, UnlinkExact
<1> QED BY <1>1 DEF Homes, Ordered

\* The task that becomes ready is in the list of its priority, and nobody else moves.
LEMMA ReadyAtExact ==
    ASSUME Inv, Homes, NEW u \in Task, NEW p \in Priority
    PROVE  /\ \A q \in Priority : \A y :
                Contains(ReadyAt(u, p)[q].items, y)
                    <=> \/ y = u /\ q = p
                        \/ y # u /\ Contains(pxReadyTasksLists[q].items, y)
           /\ Ordered(ReadyAt(u, p), [uxPriority EXCEPT ![u] = p], Record(p))
<1>1. /\ \A q \in Priority : \A y :
           Contains(NotReady(u)[q].items, y)
               <=> Contains(pxReadyTasksLists[q].items, y) /\ y # u
      /\ \A q \in Priority : IsInjective(NotReady(u)[q].items)
  BY NotReadyExact DEF Ordered
<1>2. \A q \in Priority : IsList(NotReady(u)[q], Task)
  BY UnlinkProperties DEF Inv, IdleStays, LegalLists, NotReady
<1>3. \A q \in Priority : ReadyAt(u, p)[q] = IF q = p THEN InsertEnd(NotReady(u)[p], u)
                                             ELSE NotReady(u)[q]
  <2>1. DOMAIN NotReady(u) = Priority
    BY DEF NotReady
  <2> QED BY <2>1 DEF ReadyAt
<1>4. /\ \A y : Contains(InsertEnd(NotReady(u)[p], u).items, y)
                   <=> y = u \/ Contains(NotReady(u)[p].items, y)
      /\ IsInjective(InsertEnd(NotReady(u)[p], u).items)
  BY <1>1, <1>2, InsertEndExact
<1>5. \A q \in Priority : \A y :
        Contains(ReadyAt(u, p)[q].items, y)
            <=> \/ y = u /\ q = p
                \/ y # u /\ Contains(pxReadyTasksLists[q].items, y)
  BY <1>1, <1>3, <1>4
<1>6. \A q \in Priority : IsInjective(ReadyAt(u, p)[q].items)
  BY <1>1, <1>3, <1>4
<1>7. ASSUME NEW q \in Priority, NEW y \in Task, Contains(ReadyAt(u, p)[q].items, y)
      PROVE  [uxPriority EXCEPT ![u] = p][y] = q /\ q <= Record(p)
  <2>1. uxPriority \in [Task -> Priority] /\ uxTopReadyPriority \in Priority
        /\ Priority \subseteq Nat
    BY PriorityIsNat DEF Inv, TypeOK
  <2>2. CASE y = u
    BY <1>5, <1>7, <2>1, <2>2 DEF Record
  <2>3. CASE y # u
    <3>1. Contains(pxReadyTasksLists[q].items, y)
      BY <1>5, <1>7, <2>3
    <3>2. uxPriority[y] = q /\ q <= uxTopReadyPriority
      BY <3>1 DEF Homes, Ordered
    <3> QED BY <2>1, <2>3, <3>2 DEF Record
  <2> QED BY <2>2, <2>3
<1> QED BY <1>5, <1>6, <1>7 DEF Ordered

\* vTaskSwitchContext moves no item, and takes a task of the highest priority there is.
LEMMA SwitchContextExact ==
    ASSUME NEW lists, LegalLists(lists), NEW top \in Priority, NEW priority,
           Ordered(lists, priority, top), SwitchContext(lists, top)
    PROVE  /\ \A p \in Priority : pxReadyTasksLists'[p].items = lists[p].items
           /\ Ordered(pxReadyTasksLists', priority, uxTopReadyPriority')
           /\ uxSchedulerSuspended # 0 => pxCurrentTCB' = pxCurrentTCB /\ xYieldPending' = TRUE
           /\ uxSchedulerSuspended = 0 =>
                /\ pxCurrentTCB' \in Task
                /\ Contains(lists[priority[pxCurrentTCB']].items, pxCurrentTCB')
                /\ \A p \in Priority : p > priority[pxCurrentTCB'] => lists[p].items = <<>>
<1>1. CASE uxSchedulerSuspended # 0
  BY <1>1 DEF SwitchContext, GoOn
<1>2. CASE uxSchedulerSuspended = 0
  <2>1. PICK h : h = HighestReady(lists, top)
    OBVIOUS
  <2>2. /\ pxReadyTasksLists' = [lists EXCEPT ![h] = Advance(@)]
        /\ pxCurrentTCB' = lists[h].items[NextIndex(lists[h])]
        /\ uxTopReadyPriority' = h
    BY <1>2, <2>1 DEF SwitchContext
  <2>3. h \in Priority /\ lists[h].items # <<>> /\ IsList(lists[h], Task)
        /\ lists \in [Priority -> [items : Seq(Task), index : Nat]]
    BY <2>1, HighestReadyFound DEF LegalLists
  <2>4. Advance(lists[h]).items = lists[h].items
    BY <2>3, AdvanceProperties
  <2>5. \A p \in Priority : pxReadyTasksLists'[p].items = lists[p].items
    BY <2>2, <2>3, <2>4
  <2>6. ASSUME NEW p \in Priority, p > h PROVE lists[p].items = <<>>
    <3>1. ASSUME lists[p].items # <<>> PROVE FALSE
      <4> DEFINE P == {q \in 0 .. top : lists[q].items # <<>>}
      <4>1. top \in Nat /\ p \in Nat /\ h \in Nat
        BY PriorityIsNat, <2>3
      <4>2. p <= top
        <5>1. PICK u \in Task : Contains(lists[p].items, u)
          <6>1. lists[p].items \in Seq(Task) /\ lists[p].items # <<>>
            BY <2>3, <3>1
          <6>2. Head(lists[p].items) \in Task /\ Contains(lists[p].items, Head(lists[p].items))
            <7>1. PICK s \in Seq(Task) : s = lists[p].items /\ s # <<>>
              BY <6>1
            <7>2. Head(s) \in Task /\ Len(s) \in Nat \ {0} /\ Head(s) = s[1]
              BY <7>1, EmptySeq, HeadTailProperties, LenProperties
            <7> QED BY <7>1, <7>2 DEF Contains
          <6> QED BY <6>2
        <5> QED BY <5>1 DEF Ordered
      <4>3. p \in P /\ P \in SUBSET (0 .. top)
        BY <3>1, <4>1, <4>2
      <4> HIDE DEF P
      <4>4. Max(P) >= p
        BY <4>1, <4>3, MaxExists
      <4>5. h = Max(P)
        BY <2>1 DEF HighestReady, P
      <4> QED BY <2>6, <4>1, <4>4, <4>5
    <3> QED BY <3>1
  <2>7. pxCurrentTCB' \in Task /\ Contains(lists[h].items, pxCurrentTCB')
    <3>1. PICK s \in Seq(Task) : s = lists[h].items /\ s # <<>>
      BY <2>3
    <3>2. Len(s) \in Nat \ {0} /\ lists[h].index \in Nat
      BY <2>3, <3>1, EmptySeq, LenProperties
    <3>3. NextIndex(lists[h]) \in 1 .. Len(s)
      BY <3>1, <3>2 DEF NextIndex
    <3> QED BY <2>2, <3>1, <3>3, ElementOfSeq DEF Contains
  <2>8. priority[pxCurrentTCB'] = h
    BY <2>3, <2>7 DEF Ordered
  <2>9. Ordered(pxReadyTasksLists', priority, uxTopReadyPriority')
    <3>1. \A p \in Priority : IsInjective(pxReadyTasksLists'[p].items)
      BY <2>5 DEF Ordered
    <3>2. ASSUME NEW p \in Priority, NEW u \in Task, Contains(pxReadyTasksLists'[p].items, u)
          PROVE  priority[u] = p /\ p <= h
      <4>1. Contains(lists[p].items, u) /\ priority[u] = p
        BY <2>5, <3>2 DEF Ordered
      <4>2. lists[p].items # <<>>
        BY <4>1 DEF Contains
      <4>3. p \in Nat /\ h \in Nat
        BY <2>3, PriorityIsNat
      <4> QED BY <2>6, <4>1, <4>2, <4>3
    <3> QED BY <2>2, <3>1, <3>2 DEF Ordered
  <2> QED BY <1>2, <2>5, <2>6, <2>7, <2>8, <2>9
<1> QED BY <1>1, <1>2

-----------------------------------------------------------------------------
(* What a step has to show.                                                *)

USE DEF readyVars, blockedLists, eventLists, deletionVars, taskVars, switchVars, control,
        tickVars

\* The items of the ready lists after a step, and the order they are in.
Taken(lists) ==
    /\ \A p \in Priority : \A y :
         Contains(pxReadyTasksLists'[p].items, y) <=> Contains(lists[p].items, y)
    /\ Ordered(pxReadyTasksLists', uxPriority', uxTopReadyPriority')

\* A step that neither moves an item of y nor makes, ends or reorders y.
Stays(y) ==
    /\ \A p \in Priority :
         Contains(pxReadyTasksLists'[p].items, y) <=> Contains(pxReadyTasksLists[p].items, y)
    /\ Contains(delayed', y) <=> Contains(delayed, y)
    /\ Contains(overflow', y) <=> Contains(overflow, y)
    /\ Contains(terminating', y) <=> Contains(terminating, y)
    /\ Contains(pending', y) <=> Contains(pending, y)
    /\ Contains(waiting', y) <=> Contains(waiting, y)
    /\ y \in suspended' <=> y \in suspended
    /\ uxPriority'[y] = uxPriority[y]
    /\ pc'[y] = "none" <=> pc[y] = "none"

\* A task that stays is where it was.
LEMMA StaysHome ==
    ASSUME HInv, NEW y \in Task, Stays(y)
    PROVE  HomeOK(y)' /\ (Ready(y)' <=> Ready(y))
<1>1. uxPriority[y] \in Priority /\ HomeOK(y)
  BY DEF HInv, Inv, TypeOK, Homes
<1>2. Ready(y)' <=> Ready(y)
  BY <1>1 DEF Stays, Ready
<1> QED BY <1>1, <1>2 DEF Stays, HomeOK

\* A step that moves the items of one task at most.
LEMMA HomesKept ==
    ASSUME HInv, Ordered(pxReadyTasksLists', uxPriority', uxTopReadyPriority'), Distinct',
           \A y \in Task : Stays(y) \/ HomeOK(y)'
    PROVE  Homes'
BY StaysHome DEF Homes

\* GoOn and SwitchContext leave the items as they are handed over.
LEMMA ListsTaken ==
    ASSUME NEW lists, LegalLists(lists), NEW top \in Priority,
           Ordered(lists, uxPriority', top), GoOn(lists, top) \/ SwitchContext(lists, top)
    PROVE  Taken(lists)
<1>1. CASE GoOn(lists, top)
  BY <1>1 DEF GoOn, Taken
<1>2. CASE SwitchContext(lists, top)
  BY <1>2, SwitchContextExact DEF Taken
<1> QED BY <1>1, <1>2

\* Whom vTaskSwitchContext leaves running is ready.
LEMMA SwitchedIsReady ==
    ASSUME NEW lists, LegalLists(lists), NEW top \in Priority,
           Ordered(lists, uxPriority', top), SwitchContext(lists, top),
           pxCurrentTCB \in Task, uxPriority' \in [Task -> Priority],
           uxSchedulerSuspended # 0 =>
               Contains(lists[uxPriority'[pxCurrentTCB]].items, pxCurrentTCB)
    PROVE  Ready(pxCurrentTCB)'
<1>1. CASE uxSchedulerSuspended # 0
  BY <1>1, SwitchContextExact DEF Ready
<1>2. CASE uxSchedulerSuspended = 0
  BY <1>2, SwitchContextExact DEF Ready
<1> QED BY <1>1, <1>2

\* A task that runs is ready, except on its way to give up the processor.
LEMMA RunningIsReady ==
    ASSUME HInv, pc[pxCurrentTCB] \notin Resuming \cup {"yield", "reset", "resumeAll"}
    PROVE  Ready(pxCurrentTCB)
BY DEF HInv, Standing, Resuming

\* Only BlockingCall leads to where a task is about to block.
LEMMA BlockingKept ==
    ASSUME HInv, pxCurrentTCB' \in Task, pc'[pxCurrentTCB] # "block",
           \A y \in Task : y # pxCurrentTCB => pc'[y] \in {pc[y], "none", "run"}
    PROVE  Blocking'
BY DEF HInv, Inv, OneInside, Inside, Blocking

\* A step that moves no item.
LEMMA NothingMoves ==
    ASSUME HInv, Taken(pxReadyTasksLists), UNCHANGED uxPriority,
           UNCHANGED <<blockedLists, eventLists, deletionVars>>,
           \A y \in Task : pc'[y] = "none" <=> pc[y] = "none"
    PROVE  Homes' /\ \A y \in Task : Ready(y)' <=> Ready(y)
<1>1. \A y \in Task : Stays(y)
  BY DEF Stays, Taken
<1>2. Distinct'
  BY DEF HInv, Homes, Distinct
<1> QED BY <1>1, <1>2, HomesKept, StaysHome DEF Taken
-----------------------------------------------------------------------------
(* Steps that move no item.                                                *)

Kept == Homes' /\ Standing' /\ Blocking'

\* Steps of the running task that change neither the lists nor the running task.
LEMMA QuietSteps ==
    ASSUME HInv, NEW t \in Task,
           \/ ExitCritical(t) \/ EnterResumeAll(t) \/ DrainEnd(t) \/ AfterSuspend(t)
           \/ AfterDelete(t) \/ Compare(t) \/ AllocateFails(t) \/ xTaskResumeAll(t)
           \/ xTaskCreate(t) \/ AllocateTCB(t) \/ vTaskSuspendAll(t) \/ BlockingCall(t)
           \/ IdleCheck \/ IdleFree
    PROVE  Kept
<1> DEFINE cur == pxCurrentTCB
<1> USE DEF At, Goto, Call, Return, SuspendAllThen
<1>1. /\ cur \in Task /\ pc \in [Task -> PC] /\ ret \in [Task -> ReturnPoint]
      /\ Standing /\ Blocking /\ uxSchedulerSuspended \in Nat
      /\ pc[cur] \in Resuming => uxSchedulerSuspended = 0
  BY DEF HInv, Inv, TypeOK, Sections
<1>2. /\ UNCHANGED <<pxReadyTasksLists, uxTopReadyPriority, blockedLists, eventLists>>
      /\ UNCHANGED <<deletionVars, uxPriority, pxCurrentTCB>>
      /\ pc[cur] # "none"
  BY DEF ExitCritical, EnterResumeAll, DrainEnd, AfterSuspend, AfterDelete, Compare,
         AllocateFails, xTaskResumeAll, xTaskCreate, AllocateTCB, vTaskSuspendAll,
         BlockingCall, IdleCheck, IdleFree
<1>3. PICK where \in PC \ {"none"} : pc' = [pc EXCEPT ![cur] = where]
  BY <1>1 DEF ExitCritical, EnterResumeAll, DrainEnd, AfterSuspend, AfterDelete, Compare,
         AllocateFails, xTaskResumeAll, xTaskCreate, AllocateTCB, vTaskSuspendAll,
         BlockingCall, IdleCheck, IdleFree, AfterDrain, PC, ReturnPoint
<1>4. Taken(pxReadyTasksLists)
  BY <1>2 DEF HInv, Homes, Taken
<1>5. Homes' /\ (Ready(cur)' <=> Ready(cur))
  BY <1>1, <1>2, <1>3, <1>4, NothingMoves
<1>6. CASE Ready(cur)
  <2>1. Standing'
    BY <1>2, <1>5, <1>6 DEF Standing, Ready
  <2>2. Blocking'
    <3>1. CASE BlockingCall(t)
      BY <1>1, <1>2, <1>5, <1>6, <3>1 DEF BlockingCall, Blocking, Ready
    <3>2. CASE ~BlockingCall(t)
      <4>1. pc'[cur] # "block"
        BY <1>1, <3>2 DEF ExitCritical, EnterResumeAll, DrainEnd, AfterSuspend, AfterDelete,
           Compare, AllocateFails, xTaskResumeAll, xTaskCreate, AllocateTCB, vTaskSuspendAll,
           IdleCheck, IdleFree, AfterDrain, ReturnPoint
      <4> QED BY <1>1, <1>2, <1>3, <4>1, BlockingKept
    <3> QED BY <3>1, <3>2
  <2> QED BY <1>5, <2>1, <2>2 DEF Kept
<1>7. CASE ~Ready(cur)
  <2>1. \/ pc[cur] = "yield" /\ uxSchedulerSuspended = 0
        \/ /\ pc[cur] = "reset" /\ ret[cur] = "yield"
           /\ uxSchedulerSuspended = 0
        \/ /\ pc[cur] = "resumeAll" /\ ret[cur] = "yield"
           /\ uxSchedulerSuspended = 1
        \/ pc[cur] \in Resuming /\ ret[cur] = "yield"
    BY <1>1, <1>7 DEF Standing
  <2>2. EnterResumeAll(t) \/ DrainEnd(t) \/ AfterSuspend(t)
    BY <2>1 DEF ExitCritical, EnterResumeAll, DrainEnd, AfterSuspend, AfterDelete, Compare,
         AllocateFails, xTaskResumeAll, xTaskCreate, AllocateTCB, vTaskSuspendAll,
         BlockingCall, IdleCheck, IdleFree, Resuming
  <2>3. Standing' /\ pc'[cur] # "block"
    <3>1. CASE EnterResumeAll(t)
      BY <1>1, <1>2, <2>1, <3>1 DEF EnterResumeAll, Standing, Resuming
    <3>2. CASE DrainEnd(t)
      BY <1>1, <1>2, <2>1, <3>2 DEF DrainEnd, Standing, Resuming, AfterDrain
    <3>3. CASE AfterSuspend(t)
      BY <1>1, <1>2, <2>1, <3>3 DEF AfterSuspend, Standing, Resuming
    <3> QED BY <2>2, <3>1, <3>2, <3>3
  <2>4. Blocking'
    BY <1>1, <1>2, <1>3, <2>3, BlockingKept
  <2> QED BY <1>5, <2>3, <2>4 DEF Kept
<1> QED BY <1>6, <1>7

\* Steps that end in vTaskSwitchContext and move no item.
LEMMA SwitchSteps ==
    ASSUME HInv, NEW t \in Task, YieldWithinAPI(t) \/ TaskYield(t) \/ LeaveResumeAll(t)
    PROVE  Kept
<1> DEFINE cur == pxCurrentTCB
<1> USE DEF At, Goto, Call, Return
<1>1. /\ cur \in Task /\ pc \in [Task -> PC] /\ ret \in [Task -> ReturnPoint]
      /\ Standing /\ Blocking /\ uxSchedulerSuspended \in Nat
      /\ pc[cur] \in Resuming => uxSchedulerSuspended = 0
      /\ LegalLists(pxReadyTasksLists) /\ uxTopReadyPriority \in Priority
      /\ uxPriority \in [Task -> Priority]
      /\ Ordered(pxReadyTasksLists, uxPriority, uxTopReadyPriority)
  BY DEF HInv, Inv, TypeOK, Sections, IdleStays, Homes
<1>2. /\ UNCHANGED <<blockedLists, eventLists, deletionVars, uxPriority>>
      /\ UNCHANGED uxSchedulerSuspended
      /\ pc[cur] # "none"
  BY DEF YieldWithinAPI, TaskYield, LeaveResumeAll
<1>3. PICK where \in PC \ {"none", "block"} : pc' = [pc EXCEPT ![cur] = where]
  <2>1. CASE YieldWithinAPI(t) \/ LeaveResumeAll(t)
    BY <1>1, <2>1 DEF YieldWithinAPI, LeaveResumeAll, PC, ReturnPoint
  <2>2. CASE TaskYield(t)
    <3>1. pc' = [pc EXCEPT ![cur] = pc[cur]] /\ pc[cur] = "run"
      BY <1>1, <2>2 DEF TaskYield
    <3> QED BY <3>1 DEF PC
  <2> QED BY <2>1, <2>2
<1>4. \/ SwitchContext(pxReadyTasksLists, uxTopReadyPriority)
      \/ UNCHANGED <<pxReadyTasksLists, uxTopReadyPriority, pxCurrentTCB>>
  BY DEF YieldWithinAPI, TaskYield, LeaveResumeAll
<1>5. Taken(pxReadyTasksLists) /\ pxCurrentTCB' \in Task
  <2>1. CASE SwitchContext(pxReadyTasksLists, uxTopReadyPriority)
    BY <1>1, <1>2, <2>1, ListsTaken, SwitchContextType
  <2>2. CASE UNCHANGED <<pxReadyTasksLists, uxTopReadyPriority, pxCurrentTCB>>
    BY <1>1, <1>2, <2>2 DEF Taken
  <2> QED BY <1>4, <2>1, <2>2
<1>6. Homes'
  BY <1>1, <1>2, <1>3, <1>5, NothingMoves
<1>7. Standing'
  <2>1. CASE SwitchContext(pxReadyTasksLists, uxTopReadyPriority)
    <3>1. uxSchedulerSuspended # 0 => Ready(cur)
      BY <1>1 DEF Standing, YieldWithinAPI, TaskYield, LeaveResumeAll, Resuming
    <3>2. Ready(pxCurrentTCB)'
      BY <1>1, <1>2, <2>1, <3>1, SwitchedIsReady DEF Ready
    <3> QED BY <3>2 DEF Standing, Ready
  <2>2. CASE ~SwitchContext(pxReadyTasksLists, uxTopReadyPriority)
    <3>1. LeaveResumeAll(t) /\ UNCHANGED <<pxReadyTasksLists, pxCurrentTCB>> /\ Return(t)
      BY <2>2 DEF YieldWithinAPI, TaskYield, LeaveResumeAll
    <3>2. pc[cur] = "leave" /\ uxSchedulerSuspended = 0
      BY <1>1, <3>1 DEF LeaveResumeAll, Resuming
    <3>3. Ready(cur) \/ ret[cur] = "yield"
      BY <1>1, <3>2 DEF Standing
    <3>4. CASE Ready(cur)
      BY <1>2, <3>1, <3>4 DEF Standing, Ready
    <3>5. CASE ret[cur] = "yield"
      BY <1>1, <1>2, <3>1, <3>2, <3>5 DEF Standing, LeaveResumeAll
    <3> QED BY <3>3, <3>4, <3>5
  <2> QED BY <2>1, <2>2
<1>8. Blocking'
  BY <1>1, <1>2, <1>3, <1>5, BlockingKept
<1> QED BY <1>6, <1>7, <1>8 DEF Kept
-----------------------------------------------------------------------------
(* The tick.                                                               *)

\* The lists change places when the tick count wraps: every task stays in one.
LEMMA TickSteps ==
    ASSUME HInv, NEW t \in Task, TickInterrupt \/ ReplayTick(t)
    PROVE  Kept
<1>1. /\ UNCHANGED <<readyVars, suspended, eventLists, deletionVars, taskVars, switchVars>>
      /\ UNCHANGED <<control, uxSchedulerSuspended>>
      /\ \/ delayed' = overflow /\ overflow' = delayed
         \/ UNCHANGED <<delayed, overflow>>
  BY DEF TickInterrupt, ReplayTick, BeginTick
<1>2. Homes /\ Standing /\ Blocking
  BY DEF HInv
<1>3. ASSUME NEW y \in Task PROVE HomeOK(y)'
  <2>1. HomeOK(y)
    BY <1>2 DEF Homes
  <2>2. CASE UNCHANGED <<delayed, overflow>>
    BY <1>1, <2>1, <2>2 DEF HomeOK, Ready
  <2>3. CASE delayed' = overflow /\ overflow' = delayed
    BY <1>1, <2>1, <2>3 DEF HomeOK, Ready
  <2> QED BY <1>1, <2>2, <2>3
<1>4. Distinct' /\ Ordered(pxReadyTasksLists', uxPriority', uxTopReadyPriority')
  BY <1>1, <1>2 DEF Homes, Distinct
<1>5. Standing' /\ Blocking'
  BY <1>1, <1>2 DEF Standing, Blocking, Ready
<1> QED BY <1>3, <1>4, <1>5 DEF Kept, Homes

\* The end of xTaskIncrementTick.
LEMMA TickSliceKeeps ==
    ASSUME HInv, TickSlice
    PROVE  Kept
<1> DEFINE cur == pxCurrentTCB
<1> USE DEF Goto
<1>1. /\ cur \in Task /\ pc \in [Task -> PC]
      /\ Standing /\ Blocking
      /\ LegalLists(pxReadyTasksLists) /\ uxTopReadyPriority \in Priority
      /\ uxPriority \in [Task -> Priority]
      /\ Ordered(pxReadyTasksLists, uxPriority, uxTopReadyPriority)
  BY DEF HInv, Inv, TypeOK, IdleStays, Homes
<1>2. /\ UNCHANGED <<blockedLists, eventLists, deletionVars, uxPriority>>
      /\ UNCHANGED uxSchedulerSuspended
      /\ uxSchedulerSuspended = 0
  BY DEF TickSlice, HInv, Inv, Sections
<1>3. PICK required : required = (xSwitchRequired \/ Sharing \/ xYieldPending)
  OBVIOUS
<1>4. \/ /\ SwitchContext(pxReadyTasksLists, uxTopReadyPriority) /\ UNCHANGED control
         /\ pc[cur] # "replay"
      \/ /\ UNCHANGED <<pxReadyTasksLists, uxTopReadyPriority, pxCurrentTCB, control>>
      \/ /\ UNCHANGED <<pxReadyTasksLists, uxTopReadyPriority, pxCurrentTCB>>
         /\ pc[cur] = "replay" /\ Goto(cur, "leave")
  BY DEF TickSlice
<1>5. CASE /\ SwitchContext(pxReadyTasksLists, uxTopReadyPriority) /\ UNCHANGED control
           /\ pc[cur] # "replay"
  <2>1. Taken(pxReadyTasksLists) /\ pxCurrentTCB' \in Task
    BY <1>1, <1>2, <1>5, ListsTaken, SwitchContextType
  <2>2. Homes'
    BY <1>2, <1>5, <2>1, NothingMoves
  <2>3. Ready(pxCurrentTCB)'
    BY <1>1, <1>2, <1>5, SwitchedIsReady
  <2>4. pc[cur] # "block"
    BY <1>1, <1>2 DEF Blocking
  <2>5. Blocking'
    BY <1>5, <2>1, <2>4, BlockingKept
  <2> QED BY <2>2, <2>3, <2>5 DEF Kept, Standing, Ready
<1>6. CASE UNCHANGED <<pxReadyTasksLists, uxTopReadyPriority, pxCurrentTCB, control>>
  <2>1. Taken(pxReadyTasksLists)
    BY <1>1, <1>2, <1>6 DEF Taken
  <2>2. Homes'
    BY <1>2, <1>6, <2>1, NothingMoves
  <2> QED BY <1>1, <1>2, <1>6, <2>2 DEF Kept, Standing, Blocking, Ready
<1>7. CASE /\ UNCHANGED <<pxReadyTasksLists, uxTopReadyPriority, pxCurrentTCB>>
           /\ pc[cur] = "replay" /\ Goto(cur, "leave")
  <2>1. Taken(pxReadyTasksLists)
    BY <1>1, <1>2, <1>7 DEF Taken
  <2>2. Homes'
    BY <1>1, <1>2, <1>7, <2>1, NothingMoves
  <2>3. Standing' /\ Blocking'
    BY <1>1, <1>2, <1>7 DEF Standing, Blocking, Ready, Resuming
  <2> QED BY <2>2, <2>3 DEF Kept
<1> QED BY <1>4, <1>5, <1>6, <1>7
-----------------------------------------------------------------------------
(* Steps that make a blocked task ready.                                   *)

\* uxListRemove on the lists of blocked tasks takes u out and nobody else.
LEMMA LeaveBlockedExact ==
    ASSUME HInv, NEW u, LeaveBlocked(u)
    PROVE  /\ \A y : Contains(delayed', y) <=> Contains(delayed, y) /\ y # u
           /\ \A y : Contains(overflow', y) <=> Contains(overflow, y) /\ y # u
           /\ suspended' = suspended \ {u}
           /\ IsInjective(delayed') /\ IsInjective(overflow')
BY WithoutExact DEF LeaveBlocked, HInv, Homes, Distinct, Inv, TypeOK

\* The same for the event item.
LEMMA LeaveEventListsExact ==
    ASSUME HInv, NEW u, LeaveEventLists(u)
    PROVE  /\ \A y : Contains(pending', y) <=> Contains(pending, y) /\ y # u
           /\ \A y : Contains(waiting', y) <=> Contains(waiting, y) /\ y # u
           /\ IsInjective(pending') /\ IsInjective(waiting')
BY WithoutExact DEF LeaveEventLists, HInv, Homes, Distinct, Inv, TypeOK

\* A blocked task leaves every list and is added to the ready list of its priority.
LEMMA WakeHomes ==
    ASSUME HInv, NEW u \in Task,
           Contains(delayed, u) \/ Contains(overflow, u) \/ u \in suspended,
           LeaveBlocked(u),
           LeaveEventLists(u) \/ /\ ~Contains(pending, u) /\ ~Contains(waiting, u)
                                 /\ UNCHANGED eventLists,
           Taken(ReadyAt(u, uxPriority[u])),
           UNCHANGED <<deletionVars, uxPriority>>,
           \A y \in Task : pc'[y] = "none" <=> pc[y] = "none"
    PROVE  /\ Homes' /\ Ready(u)'
           /\ \A y \in Task : y # u => (Ready(y)' <=> Ready(y))
<1>1. /\ Inv /\ Homes /\ HomeOK(u) /\ uxPriority[u] \in Priority /\ Distinct
  BY DEF HInv, Inv, TypeOK, Homes
<1>2. \A q \in Priority : \A y :
        Contains(pxReadyTasksLists'[q].items, y)
            <=> \/ y = u /\ q = uxPriority[u]
                \/ y # u /\ Contains(pxReadyTasksLists[q].items, y)
  <2>1. \A q \in Priority : \A y :
          Contains(ReadyAt(u, uxPriority[u])[q].items, y)
              <=> \/ y = u /\ q = uxPriority[u]
                  \/ y # u /\ Contains(pxReadyTasksLists[q].items, y)
    <3>1. PICK p \in Priority : p = uxPriority[u]
      BY <1>1
    <3>2. \A q \in Priority : \A y :
            Contains(ReadyAt(u, p)[q].items, y)
                <=> \/ y = u /\ q = p
                    \/ y # u /\ Contains(pxReadyTasksLists[q].items, y)
      BY <1>1, ReadyAtExact
    <3> QED BY <3>1, <3>2
  <2> QED BY <2>1 DEF Taken
<1>3. /\ \A y : y # u => (Contains(pending', y) <=> Contains(pending, y))
      /\ \A y : y # u => (Contains(waiting', y) <=> Contains(waiting, y))
      /\ ~Contains(pending', u) /\ ~Contains(waiting', u)
      /\ IsInjective(pending') /\ IsInjective(waiting')
  BY <1>1, LeaveEventListsExact DEF Distinct
<1>4. ASSUME NEW y \in Task, y # u PROVE Stays(y)
  <2>1. /\ Contains(delayed', y) <=> Contains(delayed, y)
        /\ Contains(overflow', y) <=> Contains(overflow, y)
        /\ y \in suspended' <=> y \in suspended
    BY <1>4, LeaveBlockedExact
  <2> QED BY <1>2, <1>3, <1>4, <2>1 DEF Stays
<1>5. Ready(u)'
  BY <1>1, <1>2 DEF Ready
<1>6. HomeOK(u)'
  <2>1. pc[u] # "none" /\ ~Contains(terminating, u)
    BY <1>1 DEF HomeOK
  <2> QED BY <1>3, <1>5, <2>1, LeaveBlockedExact DEF HomeOK
<1>7. Distinct'
  BY <1>1, <1>3, LeaveBlockedExact DEF Distinct
<1> QED BY <1>4, <1>5, <1>6, <1>7, HomesKept, StaysHome DEF Taken

\* After that the task goes on or vTaskSwitchContext is called: the task that runs is
\* ready if it was.
LEMMA WakeSwitches ==
    ASSUME HInv, NEW u \in Task,
           Contains(delayed, u) \/ Contains(overflow, u) \/ u \in suspended,
           LeaveBlocked(u),
           LeaveEventLists(u) \/ /\ ~Contains(pending, u) /\ ~Contains(waiting, u)
                                 /\ UNCHANGED eventLists,
           \/ GoOn(ReadyAt(u, uxPriority[u]), Record(uxPriority[u]))
           \/ SwitchContext(ReadyAt(u, uxPriority[u]), Record(uxPriority[u])),
           UNCHANGED <<deletionVars, uxPriority>>,
           \A y \in Task : pc'[y] = "none" <=> pc[y] = "none"
    PROVE  /\ Homes' /\ pxCurrentTCB' \in Task
           /\ Ready(pxCurrentTCB) => Ready(pxCurrentTCB)'
           /\ uxSchedulerSuspended # 0 => pxCurrentTCB' = pxCurrentTCB
           /\ pxCurrentTCB' = pxCurrentTCB \/ Ready(pxCurrentTCB)'
<1>1. /\ Inv /\ Homes /\ LegalLists(pxReadyTasksLists) /\ uxPriority \in [Task -> Priority]
      /\ pxCurrentTCB \in Task /\ uxTopReadyPriority \in Priority
      /\ u = Idle => uxPriority[u] = 0
  BY DEF HInv, Inv, TypeOK, IdleStays
<1>2. PICK p \in Priority : p = uxPriority[u]
  BY <1>1
<1>3. PICK lists, top : lists = ReadyAt(u, p) /\ top = Record(p)
  OBVIOUS
<1>4. LegalLists(lists) /\ top \in Priority
  BY <1>1, <1>2, <1>3, ReadyAtLegal, RecordType
<1>5. Ordered(lists, uxPriority', top)
  <2>1. [uxPriority EXCEPT ![u] = p] = uxPriority
    BY <1>1, <1>2
  <2>2. Ordered(lists, [uxPriority EXCEPT ![u] = p], top)
    BY <1>1, <1>3, ReadyAtExact
  <2> QED BY <2>1, <2>2
<1>6. Taken(ReadyAt(u, uxPriority[u]))
  BY <1>2, <1>3, <1>4, <1>5, ListsTaken
<1>7. Homes' /\ Ready(u)' /\ \A y \in Task : y # u => (Ready(y)' <=> Ready(y))
  BY <1>6, WakeHomes
<1>8. CASE GoOn(lists, top)
  <2>1. pxCurrentTCB' = pxCurrentTCB
    BY <1>8 DEF GoOn
  <2>2. Ready(pxCurrentTCB) => Ready(pxCurrentTCB)'
    BY <1>1, <1>7, <2>1 DEF Ready
  <2> QED BY <1>1, <1>7, <2>1, <2>2
<1>9. CASE SwitchContext(lists, top)
  <2>1. /\ pxCurrentTCB' \in Task
        /\ uxSchedulerSuspended # 0 => pxCurrentTCB' = pxCurrentTCB
    BY <1>1, <1>4, <1>9, SwitchContextType
  <2>2. ASSUME uxSchedulerSuspended = 0 PROVE Ready(pxCurrentTCB)'
    BY <1>1, <1>4, <1>5, <1>9, <2>2, SwitchedIsReady
  <2>3. ASSUME uxSchedulerSuspended # 0, Ready(pxCurrentTCB) PROVE Ready(pxCurrentTCB)'
    BY <1>1, <1>7, <2>1, <2>3 DEF Ready
  <2> QED BY <1>7, <2>1, <2>2, <2>3
<1> QED BY <1>2, <1>3, <1>8, <1>9

\* What an interrupt handler has to leave.
LEMMA HandlerKeeps ==
    ASSUME HInv, Homes', pxCurrentTCB' \in Task,
           Ready(pxCurrentTCB) => Ready(pxCurrentTCB)',
           uxSchedulerSuspended # 0 => pxCurrentTCB' = pxCurrentTCB,
           pxCurrentTCB' = pxCurrentTCB \/ Ready(pxCurrentTCB)',
           UNCHANGED <<control, uxSchedulerSuspended>>
    PROVE  Kept
<1>1. Standing /\ Blocking /\ pxCurrentTCB \in Task
      /\ \A y \in Task : pc[y] = "block" => y = pxCurrentTCB
  BY DEF HInv, Inv, OneInside, Inside, TypeOK
<1>2. Standing'
  <2>1. CASE Ready(pxCurrentTCB)'
    BY <2>1 DEF Standing, Ready
  <2>2. CASE pxCurrentTCB' = pxCurrentTCB /\ ~Ready(pxCurrentTCB)
    BY <1>1, <2>2 DEF Standing
  <2> QED BY <2>1, <2>2
<1>3. Blocking'
  <2>1. CASE pc'[pxCurrentTCB'] # "block"
    BY <2>1 DEF Blocking
  <2>2. CASE pc'[pxCurrentTCB'] = "block"
    <3>1. pxCurrentTCB' = pxCurrentTCB
      BY <1>1, <2>2
    <3> QED BY <1>1, <2>2, <3>1 DEF Blocking, Ready
  <2> QED BY <2>1, <2>2
<1> QED BY <1>2, <1>3 DEF Kept

\* And a call of a running task, which is ready when the call ends or has yielded.
LEMMA CallKeeps ==
    ASSUME HInv, Homes', pxCurrentTCB' \in Task, Ready(pxCurrentTCB)',
           pc'[pxCurrentTCB] # "block",
           \A y \in Task : y # pxCurrentTCB => pc'[y] \in {pc[y], "none", "run"}
    PROVE  Kept
<1>1. Blocking'
  BY BlockingKept
<1> QED BY <1>1 DEF Kept, Standing, Ready

\* xTaskResumeAll moves a task from the pending list to a ready list.
LEMMA DrainKeeps ==
    ASSUME HInv, NEW t \in Task, Drain(t)
    PROVE  Kept
<1> USE DEF At, Goto
<1>1. /\ pending \in Seq(Task) /\ pending # <<>> /\ IsInjective(pending)
      /\ t = pxCurrentTCB /\ pc \in [Task -> PC]
      /\ pc[t] \in {"drain", "drained"} /\ uxSchedulerSuspended = 0
      /\ Standing
  BY DEF HInv, Inv, TypeOK, Homes, Distinct, Drain, Sections, Resuming
<1>2. PICK u \in Task : u = Head(pending) /\ Contains(pending, u)
  BY <1>1, TailExact
<1>3. Contains(delayed, u) \/ Contains(overflow, u) \/ u \in suspended
  BY <1>2 DEF HInv, Homes, HomeOK
<1>4. /\ LeaveBlocked(u) /\ LeaveEventLists(u)
      /\ GoOn(ReadyAt(u, uxPriority[u]), Record(uxPriority[u]))
      /\ UNCHANGED <<deletionVars, uxPriority, ret>>
      /\ pc' = [pc EXCEPT ![t] = "drained"]
  BY <1>2 DEF Drain
<1>5. /\ Homes' /\ pxCurrentTCB' \in Task
      /\ Ready(pxCurrentTCB) => Ready(pxCurrentTCB)'
  <2>1. \A y \in Task : pc'[y] = "none" <=> pc[y] = "none"
    BY <1>1, <1>4
  <2> QED BY <1>2, <1>3, <1>4, <2>1, WakeSwitches
<1>6. pxCurrentTCB' = pxCurrentTCB
  BY <1>4 DEF GoOn
<1>7. Standing'
  <2>1. CASE Ready(pxCurrentTCB)
    BY <1>5, <2>1 DEF Standing, Ready
  <2>2. CASE ~Ready(pxCurrentTCB)
    BY <1>1, <1>4, <1>6, <2>2 DEF Standing, Resuming
  <2> QED BY <2>1, <2>2
<1>8. Blocking'
  BY <1>1, <1>4, <1>5, BlockingKept
<1> QED BY <1>5, <1>7, <1>8 DEF Kept

\* A turn of the loop of xTaskIncrementTick.
LEMMA TickUnblockKeeps ==
    ASSUME HInv, TickUnblock
    PROVE  Kept
<1>1. /\ delayed \in Seq(Task) /\ IsInjective(delayed) /\ pxCurrentTCB \in Task
      /\ UNCHANGED <<deletionVars, uxPriority, pxCurrentTCB, control, uxSchedulerSuspended>>
  BY DEF HInv, Inv, TypeOK, Homes, Distinct, TickUnblock
<1>2. CASE Due
  <2>1. PICK u \in Task : u = Head(delayed) /\ Contains(delayed, u)
    BY <1>1, <1>2, TailExact DEF Due
  <2>2. /\ LeaveBlocked(u) /\ LeaveEventLists(u)
        /\ GoOn(ReadyAt(u, uxPriority[u]), Record(uxPriority[u]))
    BY <1>1, <1>2, <2>1 DEF TickUnblock, GoOn
  <2>3. /\ Homes' /\ pxCurrentTCB' \in Task
        /\ Ready(pxCurrentTCB) => Ready(pxCurrentTCB)'
    BY <1>1, <2>1, <2>2, WakeSwitches
  <2> QED BY <1>1, <2>3, HandlerKeeps
<1>3. CASE ~Due
  <2>1. UNCHANGED <<pxReadyTasksLists, uxTopReadyPriority, blockedLists, eventLists>>
    BY <1>3 DEF TickUnblock
  <2>2. Taken(pxReadyTasksLists)
    BY <1>1, <2>1 DEF Taken, HInv, Homes
  <2>3. Homes'
    BY <1>1, <2>1, <2>2, NothingMoves
  <2>4. Ready(pxCurrentTCB) => Ready(pxCurrentTCB)'
    BY <1>1, <2>1 DEF Ready
  <2> QED BY <1>1, <2>3, <2>4, HandlerKeeps
<1> QED BY <1>2, <1>3
-----------------------------------------------------------------------------
(* Events and resumptions.                                                 *)

\* While the scheduler is suspended the event item of a blocked task moves to the
\* pending list: the task is still blocked.
LEMMA PendHomes ==
    ASSUME HInv, NEW u \in Task,
           Contains(delayed, u) \/ Contains(overflow, u) \/ u \in suspended,
           ~Contains(pending, u), pending' = Append(pending, u),
           \/ waiting # <<>> /\ u = Head(waiting) /\ waiting' = Tail(waiting)
           \/ ~Contains(waiting, u) /\ UNCHANGED waiting,
           Taken(pxReadyTasksLists),
           UNCHANGED <<blockedLists, deletionVars, uxPriority>>,
           \A y \in Task : pc'[y] = "none" <=> pc[y] = "none"
    PROVE  Homes' /\ \A y \in Task : Ready(y)' <=> Ready(y)
<1>1. /\ HomeOK(u) /\ Distinct /\ pending \in Seq(Task) /\ waiting \in Seq(Task)
      /\ IsInjective(pending) /\ IsInjective(waiting)
  BY DEF HInv, Homes, Distinct, Inv, TypeOK
<1>2. /\ \A y : Contains(pending', y) <=> y = u \/ Contains(pending, y)
      /\ IsInjective(pending')
  BY <1>1, AppendExact
<1>3. /\ \A y : Contains(waiting', y) <=> Contains(waiting, y) /\ y # u
      /\ IsInjective(waiting')
  <2>1. CASE waiting # <<>> /\ u = Head(waiting) /\ waiting' = Tail(waiting)
    BY <1>1, <2>1, TailExact
  <2>2. CASE ~Contains(waiting, u) /\ UNCHANGED waiting
    BY <1>1, <2>2
  <2> QED BY <2>1, <2>2
<1>4. \A y \in Task : y # u => Stays(y)
  BY <1>2, <1>3 DEF Stays, Taken
<1>5. \A y \in Task : Ready(y)' <=> Ready(y)
  BY DEF Ready, Taken, HInv, Inv, TypeOK
<1>6. HomeOK(u)'
  BY <1>1, <1>2, <1>3, <1>5 DEF HomeOK
<1>7. Distinct'
  BY <1>1, <1>2, <1>3 DEF Distinct
<1> QED BY <1>4, <1>5, <1>6, <1>7, HomesKept DEF Taken

\* The same, when the task goes on or vTaskSwitchContext notes a pending yield.
LEMMA PendSwitches ==
    ASSUME HInv, uxSchedulerSuspended # 0, NEW u \in Task,
           Contains(delayed, u) \/ Contains(overflow, u) \/ u \in suspended,
           ~Contains(pending, u), pending' = Append(pending, u),
           \/ waiting # <<>> /\ u = Head(waiting) /\ waiting' = Tail(waiting)
           \/ ~Contains(waiting, u) /\ UNCHANGED waiting,
           \/ GoOn(pxReadyTasksLists, uxTopReadyPriority)
           \/ SwitchContext(pxReadyTasksLists, uxTopReadyPriority),
           UNCHANGED <<blockedLists, deletionVars, uxPriority>>,
           \A y \in Task : pc'[y] = "none" <=> pc[y] = "none"
    PROVE  /\ Homes' /\ pxCurrentTCB' = pxCurrentTCB /\ pxCurrentTCB \in Task
           /\ Ready(pxCurrentTCB) => Ready(pxCurrentTCB)'
<1>1. /\ LegalLists(pxReadyTasksLists) /\ uxTopReadyPriority \in Priority
      /\ Ordered(pxReadyTasksLists, uxPriority, uxTopReadyPriority)
      /\ pxCurrentTCB \in Task
  BY DEF HInv, Homes, Inv, IdleStays, TypeOK
<1>2. Taken(pxReadyTasksLists)
  BY <1>1, ListsTaken
<1>3. Homes' /\ \A y \in Task : Ready(y)' <=> Ready(y)
  BY <1>2, PendHomes
<1>4. pxCurrentTCB' = pxCurrentTCB
  BY DEF GoOn, SwitchContext
<1> QED BY <1>1, <1>3, <1>4 DEF Ready

\* The task an event wakes is blocked.
LEMMA WokenIsBlocked ==
    ASSUME HInv, waiting # <<>>
    PROVE  /\ Woken \in Task /\ Contains(waiting, Woken) /\ ~Contains(pending, Woken)
           /\ Contains(delayed, Woken) \/ Contains(overflow, Woken) \/ Woken \in suspended
<1>1. Woken \in Task /\ Contains(waiting, Woken)
  BY TailExact DEF HInv, Inv, TypeOK, Homes, Distinct, Woken
<1>2. HomeOK(Woken)
  BY <1>1 DEF HInv, Homes
<1> QED BY <1>1, <1>2 DEF HomeOK

\* xTaskRemoveFromEventList and what its callers do after it.
LEMMA EventWakes ==
    ASSUME HInv, waiting # <<>>, xTaskRemoveFromEventList,
           GoOn(ListsAfterWake, TopAfterWake) \/ SwitchContext(ListsAfterWake, TopAfterWake),
           UNCHANGED <<deletionVars, uxPriority>>,
           \A y \in Task : pc'[y] = "none" <=> pc[y] = "none"
    PROVE  /\ Homes' /\ pxCurrentTCB' \in Task
           /\ Ready(pxCurrentTCB) => Ready(pxCurrentTCB)'
           /\ uxSchedulerSuspended # 0 => pxCurrentTCB' = pxCurrentTCB
           /\ pxCurrentTCB' = pxCurrentTCB \/ Ready(pxCurrentTCB)'
<1>1. PICK u \in Task : u = Woken /\ u = Head(waiting)
  BY WokenIsBlocked DEF Woken
<1>2. /\ Contains(waiting, u) /\ ~Contains(pending, u)
      /\ Contains(delayed, u) \/ Contains(overflow, u) \/ u \in suspended
  BY <1>1, WokenIsBlocked
<1>3. CASE uxSchedulerSuspended = 0
  <2>1. /\ LeaveBlocked(u) /\ LeaveEventLists(u)
        /\ \/ GoOn(ReadyAt(u, uxPriority[u]), Record(uxPriority[u]))
           \/ SwitchContext(ReadyAt(u, uxPriority[u]), Record(uxPriority[u]))
    BY <1>1, <1>3 DEF xTaskRemoveFromEventList, ListsAfterWake, TopAfterWake
  <2> QED BY <1>2, <2>1, WakeSwitches
<1>4. CASE uxSchedulerSuspended # 0
  <2>1. /\ pending' = Append(pending, u) /\ waiting' = Tail(waiting)
        /\ UNCHANGED blockedLists
        /\ \/ GoOn(pxReadyTasksLists, uxTopReadyPriority)
           \/ SwitchContext(pxReadyTasksLists, uxTopReadyPriority)
    BY <1>1, <1>4 DEF xTaskRemoveFromEventList, ListsAfterWake, TopAfterWake
  <2> QED BY <1>1, <1>2, <1>4, <2>1, PendSwitches
<1> QED BY <1>3, <1>4

\* The program counters at the end of a critical section of a running task.
LEMMA EndCriticalCounters ==
    ASSUME HInv, At(pxCurrentTCB, "run"),
           pc' = pc \/ pc' = [pc EXCEPT ![pxCurrentTCB] = "exit"]
    PROVE  /\ \A y \in Task : pc'[y] = "none" <=> pc[y] = "none"
           /\ pc'[pxCurrentTCB] # "block"
           /\ \A y \in Task : y # pxCurrentTCB => pc'[y] = pc[y]
           /\ Ready(pxCurrentTCB)
<1>1. /\ pxCurrentTCB \in Task /\ pc \in [Task -> PC] /\ pc[pxCurrentTCB] = "run"
      /\ Ready(pxCurrentTCB)
  BY RunningIsReady DEF HInv, Inv, TypeOK, At, Resuming
<1> QED BY <1>1

\* A task posts an event.
LEMMA PostKeeps ==
    ASSUME HInv, NEW t \in Task, Post(t)
    PROVE  Kept
<1>1. /\ t = pxCurrentTCB /\ At(pxCurrentTCB, "run") /\ waiting # <<>>
      /\ xTaskRemoveFromEventList
      /\ UNCHANGED <<deletionVars, uxPriority>>
  BY DEF Post, At
<1>3. /\ GoOn(ListsAfterWake, TopAfterWake) \/ SwitchContext(ListsAfterWake, TopAfterWake)
      /\ pc' = pc \/ pc' = [pc EXCEPT ![pxCurrentTCB] = "exit"]
  BY <1>1 DEF Post, EndCritical, Call
<1>4. /\ \A y \in Task : pc'[y] = "none" <=> pc[y] = "none"
      /\ pc'[pxCurrentTCB] # "block"
      /\ \A y \in Task : y # pxCurrentTCB => pc'[y] = pc[y]
      /\ Ready(pxCurrentTCB)
  BY <1>1, <1>3, EndCriticalCounters
<1>5. Homes' /\ pxCurrentTCB' \in Task /\ Ready(pxCurrentTCB)'
  BY <1>1, <1>3, <1>4, EventWakes
<1> QED BY <1>4, <1>5, CallKeeps

\* An interrupt handler does.
LEMMA PostFromISRKeeps ==
    ASSUME HInv, PostFromISR
    PROVE  Kept
<1>1. /\ waiting # <<>> /\ xTaskRemoveFromEventList
      /\ GoOn(ListsAfterWake, TopAfterWake) \/ SwitchContext(ListsAfterWake, TopAfterWake)
      /\ UNCHANGED <<deletionVars, uxPriority, control, uxSchedulerSuspended>>
  BY DEF PostFromISR
<1> QED BY <1>1, EventWakes, HandlerKeeps

\* vTaskResume finds a task that is blocked and waits for no event.
LEMMA ResumeKeeps ==
    ASSUME HInv, NEW t \in Task, NEW u \in AppTask, vTaskResume(t, u)
    PROVE  Kept
<1>1. /\ t = pxCurrentTCB /\ At(pxCurrentTCB, "run") /\ LeaveBlocked(u) /\ u \in Task
      /\ u \in suspended /\ ~Contains(pending, u) /\ ~Contains(waiting, u)
      /\ UNCHANGED <<deletionVars, uxPriority, eventLists>>
  BY DEF vTaskResume, Target, At, TaskIsSuspended, AppTask
<1>3. /\ \/ GoOn(ReadyAt(u, uxPriority[u]), Record(uxPriority[u]))
         \/ SwitchContext(ReadyAt(u, uxPriority[u]), Record(uxPriority[u]))
      /\ pc' = pc \/ pc' = [pc EXCEPT ![pxCurrentTCB] = "exit"]
  BY <1>1 DEF vTaskResume, EndCritical, Call
<1>4. /\ \A y \in Task : pc'[y] = "none" <=> pc[y] = "none"
      /\ pc'[pxCurrentTCB] # "block"
      /\ \A y \in Task : y # pxCurrentTCB => pc'[y] = pc[y]
      /\ Ready(pxCurrentTCB)
  BY <1>1, <1>3, EndCriticalCounters
<1>5. Homes' /\ pxCurrentTCB' \in Task /\ Ready(pxCurrentTCB)'
  BY <1>1, <1>3, <1>4, WakeSwitches
<1> QED BY <1>4, <1>5, CallKeeps

\* So does xTaskResumeFromISR.
LEMMA ResumeFromISRKeeps ==
    ASSUME HInv, NEW u \in AppTask, xTaskResumeFromISR(u)
    PROVE  Kept
<1>1. /\ u \in Task
      /\ u \in suspended /\ ~Contains(pending, u) /\ ~Contains(waiting, u)
      /\ UNCHANGED <<deletionVars, uxPriority, waiting, control, uxSchedulerSuspended>>
  BY DEF xTaskResumeFromISR, TaskIsSuspended, AppTask
<1>2. CASE uxSchedulerSuspended = 0
  <2>1. /\ LeaveBlocked(u) /\ UNCHANGED eventLists
        /\ \/ GoOn(ReadyAt(u, uxPriority[u]), Record(uxPriority[u]))
           \/ SwitchContext(ReadyAt(u, uxPriority[u]), Record(uxPriority[u]))
    BY <1>1, <1>2 DEF xTaskResumeFromISR
  <2>2. /\ Homes' /\ pxCurrentTCB' \in Task
        /\ Ready(pxCurrentTCB) => Ready(pxCurrentTCB)'
        /\ uxSchedulerSuspended # 0 => pxCurrentTCB' = pxCurrentTCB
        /\ pxCurrentTCB' = pxCurrentTCB \/ Ready(pxCurrentTCB)'
    BY <1>1, <2>1, WakeSwitches
  <2> QED BY <1>1, <2>2, HandlerKeeps
<1>3. CASE uxSchedulerSuspended # 0
  <2>1. /\ pending' = Append(pending, u) /\ UNCHANGED blockedLists
        /\ GoOn(pxReadyTasksLists, uxTopReadyPriority)
    BY <1>3 DEF xTaskResumeFromISR, GoOn
  <2>2. /\ Homes' /\ pxCurrentTCB' = pxCurrentTCB /\ pxCurrentTCB \in Task
        /\ Ready(pxCurrentTCB) => Ready(pxCurrentTCB)'
    BY <1>1, <1>3, <2>1, PendSwitches
  <2> QED BY <1>1, <2>2, HandlerKeeps
<1> QED BY <1>2, <1>3
-----------------------------------------------------------------------------
(* Steps that take a task out of the ready lists.                          *)

\* uxListRemove on every list u may be in.
LEMMA UnreadyExact ==
    ASSUME HInv, NEW u \in Task, pxReadyTasksLists' = NotReady(u),
           UNCHANGED <<uxPriority, uxTopReadyPriority>>
    PROVE  /\ \A p \in Priority : \A y :
                Contains(pxReadyTasksLists'[p].items, y)
                    <=> Contains(pxReadyTasksLists[p].items, y) /\ y # u
           /\ Ordered(pxReadyTasksLists', uxPriority', uxTopReadyPriority')
           /\ ~Ready(u)' /\ \A y \in Task : y # u => (Ready(y)' <=> Ready(y))
<1>1. Inv /\ Homes /\ uxPriority \in [Task -> Priority]
  BY DEF HInv, Inv, TypeOK
<1>2. /\ \A p \in Priority : \A y :
           Contains(pxReadyTasksLists'[p].items, y)
               <=> Contains(pxReadyTasksLists[p].items, y) /\ y # u
      /\ Ordered(pxReadyTasksLists', uxPriority', uxTopReadyPriority')
  BY <1>1, NotReadyExact
<1> QED BY <1>1, <1>2 DEF Ready

\* vTaskSuspend.
LEMMA SuspendKeeps ==
    ASSUME HInv, NEW t \in Task, NEW u \in AppTask, vTaskSuspend(t, u)
    PROVE  Kept
<1> USE DEF At, Call, Target
<1>1. /\ u \in Task /\ t = pxCurrentTCB /\ pc \in [Task -> PC] /\ pc[t] = "run"
      /\ ret \in [Task -> ReturnPoint]
      /\ pxReadyTasksLists' = NotReady(u) /\ LeaveEventLists(u)
      /\ UNCHANGED <<uxPriority, uxTopReadyPriority, deletionVars, pxCurrentTCB>>
      /\ UNCHANGED uxSchedulerSuspended
      /\ u = t => uxSchedulerSuspended = 0
      /\ pc' = [pc EXCEPT ![t] = "reset"]
      /\ ret' = [ret EXCEPT ![t] = IF u = t THEN "yield" ELSE "run"]
      /\ pc[u] # "none" /\ ~Contains(terminating, u)
  BY DEF vTaskSuspend, HInv, Inv, TypeOK, AppTask, Live
<1>2. /\ \A y : Contains(delayed', y) <=> Contains(delayed, y) /\ y # u
      /\ \A y : Contains(overflow', y) <=> Contains(overflow, y) /\ y # u
      /\ IsInjective(delayed') /\ IsInjective(overflow')
      /\ suspended' = suspended \cup {u}
  BY WithoutExact DEF vTaskSuspend, HInv, Homes, Distinct, Inv, TypeOK
<1>3. /\ \A y : Contains(pending', y) <=> Contains(pending, y) /\ y # u
      /\ \A y : Contains(waiting', y) <=> Contains(waiting, y) /\ y # u
      /\ IsInjective(pending') /\ IsInjective(waiting')
  BY <1>1, LeaveEventListsExact
<1>4. /\ \A p \in Priority : \A y :
           Contains(pxReadyTasksLists'[p].items, y)
               <=> Contains(pxReadyTasksLists[p].items, y) /\ y # u
      /\ Ordered(pxReadyTasksLists', uxPriority', uxTopReadyPriority')
      /\ ~Ready(u)' /\ \A y \in Task : y # u => (Ready(y)' <=> Ready(y))
  BY <1>1, UnreadyExact
<1>5. \A y \in Task : y # u => Stays(y)
  BY <1>1, <1>2, <1>3, <1>4 DEF Stays
<1>6. HomeOK(u)'
  BY <1>1, <1>2, <1>3, <1>4 DEF HomeOK
<1>7. Distinct'
  BY <1>1, <1>2, <1>3 DEF Distinct, HInv, Homes
<1>8. Homes'
  BY <1>4, <1>5, <1>6, <1>7, HomesKept
<1>9. Standing'
  <2>1. CASE u = t
    BY <1>1, <2>1 DEF Standing
  <2>2. CASE u # t
    <3>1. Ready(t)
      BY <1>1, RunningIsReady DEF Resuming
    <3>2. Ready(t)'
      BY <1>4, <2>2, <3>1
    <3> QED BY <1>1, <3>2 DEF Standing, Ready
  <2> QED BY <2>1, <2>2
<1>10. Blocking'
  BY <1>1, BlockingKept
<1> QED BY <1>8, <1>9, <1>10 DEF Kept

\* prvAddCurrentTaskToDelayedList: the task that was ready is in one list of blocked
\* tasks.
LEMMA AddCurrentExact ==
    ASSUME HInv, NEW t \in Task, Ready(t), NEW ticks, NEW indefinitely,
           AddCurrentToDelayedList(t, ticks, indefinitely)
    PROVE  /\ \A y : y # t => /\ Contains(delayed', y) <=> Contains(delayed, y)
                              /\ Contains(overflow', y) <=> Contains(overflow, y)
                              /\ y \in suspended' <=> y \in suspended
           /\ IsInjective(delayed') /\ IsInjective(overflow')
           /\ \/ Contains(delayed', t) /\ ~Contains(overflow', t) /\ t \notin suspended'
              \/ ~Contains(delayed', t) /\ Contains(overflow', t) /\ t \notin suspended'
              \/ ~Contains(delayed', t) /\ ~Contains(overflow', t) /\ t \in suspended'
<1>1. /\ delayed \in Seq(Task) /\ overflow \in Seq(Task)
      /\ IsInjective(delayed) /\ IsInjective(overflow)
      /\ ~Contains(delayed, t) /\ ~Contains(overflow, t) /\ t \notin suspended
  BY DEF HInv, Homes, HomeOK, Distinct, Inv, TypeOK
<1>2. \/ /\ suspended' = suspended \cup {t} /\ UNCHANGED <<delayed, overflow>>
      \/ overflow' = InsertSorted(overflow, wake', t) /\ UNCHANGED <<delayed, suspended>>
      \/ delayed' = InsertSorted(delayed, wake', t) /\ UNCHANGED <<overflow, suspended>>
  BY DEF AddCurrentToDelayedList
<1>3. CASE suspended' = suspended \cup {t} /\ UNCHANGED <<delayed, overflow>>
  BY <1>1, <1>3
<1>4. CASE overflow' = InsertSorted(overflow, wake', t) /\ UNCHANGED <<delayed, suspended>>
  <2>1. /\ \A y : Contains(overflow', y) <=> y = t \/ Contains(overflow, y)
        /\ IsInjective(overflow')
    BY <1>1, <1>4, InsertSortedExact
  <2> QED BY <1>1, <1>4, <2>1
<1>5. CASE delayed' = InsertSorted(delayed, wake', t) /\ UNCHANGED <<overflow, suspended>>
  <2>1. /\ \A y : Contains(delayed', y) <=> y = t \/ Contains(delayed, y)
        /\ IsInjective(delayed')
    BY <1>1, <1>5, InsertSortedExact
  <2> QED BY <1>1, <1>5, <2>1
<1> QED BY <1>2, <1>3, <1>4, <1>5

\* vTaskDelay and vTaskPlaceOnEventList.
LEMMA BlockKeeps ==
    ASSUME HInv, NEW t \in Task, NEW n \in 1 .. portMAX_DELAY,
           vTaskDelay(t, n) \/ vTaskPlaceOnEventList(t, n)
    PROVE  Kept
<1>1. /\ t = pxCurrentTCB /\ pc[t] = "block" /\ pc \in [Task -> PC]
      /\ Ready(t) /\ ret[t] = "yield" /\ uxSchedulerSuspended = 1
      /\ waiting \in Seq(Task)
  BY DEF vTaskDelay, vTaskPlaceOnEventList, At, HInv, Inv, TypeOK, Blocking
<1>2. /\ UNCHANGED <<uxTopReadyPriority, pending, deletionVars, uxPriority, pxCurrentTCB>>
      /\ UNCHANGED <<ret, uxSchedulerSuspended>>
      /\ pc' = [pc EXCEPT ![t] = "resumeAll"]
      /\ pxReadyTasksLists' = NotReady(t)
      /\ waiting' = waiting \/ waiting' = InsertSorted(waiting, EventValue, t)
  BY DEF vTaskDelay, vTaskPlaceOnEventList, Blocked, Goto, AddCurrentToDelayedList
<1>3. /\ HomeOK(t) /\ Distinct /\ IsInjective(waiting)
      /\ ~Contains(pending, t) /\ ~Contains(waiting, t)
  BY <1>1 DEF HInv, Homes, HomeOK, Distinct
<1>4. /\ \A y : y # t => /\ Contains(delayed', y) <=> Contains(delayed, y)
                         /\ Contains(overflow', y) <=> Contains(overflow, y)
                         /\ y \in suspended' <=> y \in suspended
      /\ IsInjective(delayed') /\ IsInjective(overflow')
      /\ \/ Contains(delayed', t) /\ ~Contains(overflow', t) /\ t \notin suspended'
         \/ ~Contains(delayed', t) /\ Contains(overflow', t) /\ t \notin suspended'
         \/ ~Contains(delayed', t) /\ ~Contains(overflow', t) /\ t \in suspended'
  <2>1. CASE vTaskDelay(t, n)
    BY <1>1, <2>1, AddCurrentExact DEF vTaskDelay
  <2>2. CASE vTaskPlaceOnEventList(t, n)
    BY <1>1, <2>2, AddCurrentExact DEF vTaskPlaceOnEventList
  <2> QED BY <2>1, <2>2
<1>5. /\ \A y : y # t => (Contains(waiting', y) <=> Contains(waiting, y))
      /\ IsInjective(waiting')
  <2>1. CASE waiting' = waiting
    BY <1>3, <2>1
  <2>2. CASE waiting' = InsertSorted(waiting, EventValue, t)
    BY <1>1, <1>3, <2>2, InsertSortedExact
  <2> QED BY <1>2, <2>1, <2>2
<1>6. /\ \A p \in Priority : \A y :
           Contains(pxReadyTasksLists'[p].items, y)
               <=> Contains(pxReadyTasksLists[p].items, y) /\ y # t
      /\ Ordered(pxReadyTasksLists', uxPriority', uxTopReadyPriority')
      /\ ~Ready(t)'
  BY <1>2, UnreadyExact
<1>7. \A y \in Task : y # t => Stays(y)
  BY <1>1, <1>2, <1>4, <1>5, <1>6 DEF Stays
<1>8. HomeOK(t)'
  BY <1>1, <1>2, <1>3, <1>4, <1>6 DEF HomeOK
<1>9. Distinct'
  BY <1>2, <1>3, <1>4, <1>5 DEF Distinct
<1>10. Homes'
  BY <1>6, <1>7, <1>8, <1>9, HomesKept
<1>11. Standing' /\ Blocking'
  BY <1>1, <1>2 DEF Standing, Blocking
<1> QED BY <1>10, <1>11 DEF Kept

\* vTaskDelete of the task itself: it is in the list of those to be cleaned up.
LEMMA DeleteSelfKeeps ==
    ASSUME HInv, NEW t \in Task, DeleteSelf(t)
    PROVE  Kept
<1>1. /\ t = pxCurrentTCB /\ pc[t] = "run" /\ pc \in [Task -> PC]
      /\ Ready(t) /\ uxSchedulerSuspended = 0 /\ terminating \in Seq(Task)
      /\ UNCHANGED <<uxTopReadyPriority, blockedLists, uxPriority, pxCurrentTCB>>
      /\ UNCHANGED uxSchedulerSuspended
      /\ pc' = [pc EXCEPT ![t] = "yield"]
      /\ pxReadyTasksLists' = NotReady(t) /\ LeaveEventLists(t)
      /\ terminating' = Append(terminating, t)
  BY RunningIsReady DEF DeleteSelf, Goto, At, HInv, Inv, TypeOK, Resuming
<1>2. /\ HomeOK(t) /\ Distinct /\ ~Contains(terminating, t) /\ ~Contains(delayed, t)
      /\ ~Contains(overflow, t) /\ t \notin suspended
  BY <1>1 DEF HInv, Homes, HomeOK
<1>3. /\ \A y : Contains(pending', y) <=> Contains(pending, y) /\ y # t
      /\ \A y : Contains(waiting', y) <=> Contains(waiting, y) /\ y # t
      /\ IsInjective(pending') /\ IsInjective(waiting')
  BY <1>1, LeaveEventListsExact
<1>4. /\ \A y : Contains(terminating', y) <=> y = t \/ Contains(terminating, y)
      /\ IsInjective(terminating')
  BY <1>1, <1>2, AppendExact DEF Distinct
<1>5. /\ \A p \in Priority : \A y :
           Contains(pxReadyTasksLists'[p].items, y)
               <=> Contains(pxReadyTasksLists[p].items, y) /\ y # t
      /\ Ordered(pxReadyTasksLists', uxPriority', uxTopReadyPriority')
      /\ ~Ready(t)'
  BY <1>1, UnreadyExact
<1>6. \A y \in Task : y # t => Stays(y)
  BY <1>1, <1>3, <1>4, <1>5 DEF Stays
<1>7. HomeOK(t)'
  BY <1>1, <1>2, <1>3, <1>4, <1>5 DEF HomeOK
<1>8. Distinct'
  BY <1>1, <1>2, <1>3, <1>4 DEF Distinct
<1>9. Homes'
  BY <1>5, <1>6, <1>7, <1>8, HomesKept
<1>10. Standing' /\ Blocking'
  BY <1>1 DEF Standing, Blocking
<1> QED BY <1>9, <1>10 DEF Kept
-----------------------------------------------------------------------------
(* Priorities, creation and deletion.                                      *)

\* vTaskDelete of another task, which is in no list any more.
LEMMA DeleteKeeps ==
    ASSUME HInv, NEW t \in Task, NEW u \in AppTask, vTaskDelete(t, u)
    PROVE  Kept
<1> USE DEF At, Target
<1>1. /\ u \in Task /\ u # Idle /\ u # t /\ t = pxCurrentTCB /\ pc \in [Task -> PC]
      /\ pc[t] = "run" /\ pc[u] # "none" /\ ~Contains(terminating, u) /\ Ready(t)
      /\ LeaveEventLists(u) /\ UNCHANGED <<uxPriority, deletionVars>>
  BY RunningIsReady DEF vTaskDelete, HInv, Inv, TypeOK, AppTask, Live, Resuming
<1>2. \/ /\ SwitchContext(NotReady(u), uxTopReadyPriority) /\ uxSchedulerSuspended = 0
         /\ pc' = [pc EXCEPT ![u] = "none", ![t] = "exit"]
      \/ /\ GoOn(NotReady(u), uxTopReadyPriority)
         /\ pc' = [pc EXCEPT ![u] = "none"]
  BY DEF vTaskDelete
<1>3. /\ Inv /\ Homes /\ Distinct /\ LegalLists(pxReadyTasksLists)
      /\ uxTopReadyPriority \in Priority /\ uxPriority \in [Task -> Priority]
  BY DEF HInv, Inv, IdleStays, TypeOK, Homes
<1>4. PICK lists : lists = NotReady(u)
  OBVIOUS
<1>5. /\ LegalLists(lists) /\ Ordered(lists, uxPriority', uxTopReadyPriority)
      /\ \A p \in Priority : \A y :
           Contains(lists[p].items, y) <=> Contains(pxReadyTasksLists[p].items, y) /\ y # u
  BY <1>1, <1>3, <1>4, NotReadyLegal, NotReadyExact
<1>6. Taken(lists)
  BY <1>2, <1>3, <1>4, <1>5, ListsTaken
<1>7. /\ \A y : Contains(delayed', y) <=> Contains(delayed, y) /\ y # u
      /\ \A y : Contains(overflow', y) <=> Contains(overflow, y) /\ y # u
      /\ IsInjective(delayed') /\ IsInjective(overflow')
      /\ suspended' = suspended \ {u}
  BY WithoutExact DEF vTaskDelete, HInv, Homes, Distinct, Inv, TypeOK
<1>8. /\ \A y : Contains(pending', y) <=> Contains(pending, y) /\ y # u
      /\ \A y : Contains(waiting', y) <=> Contains(waiting, y) /\ y # u
      /\ IsInjective(pending') /\ IsInjective(waiting')
  BY <1>1, LeaveEventListsExact
<1>9. ASSUME NEW y \in Task, y # u PROVE Stays(y)
  <2>1. pc'[y] = "none" <=> pc[y] = "none"
    BY <1>1, <1>2, <1>9
  <2>2. \A p \in Priority :
         Contains(pxReadyTasksLists'[p].items, y) <=> Contains(pxReadyTasksLists[p].items, y)
    BY <1>5, <1>6, <1>9 DEF Taken
  <2> QED BY <1>1, <1>7, <1>8, <1>9, <2>1, <2>2 DEF Stays
<1>10. ~Ready(u)' /\ pc'[u] = "none"
  BY <1>1, <1>2, <1>3, <1>5, <1>6 DEF Ready, Taken
<1>11. HomeOK(u)'
  BY <1>1, <1>7, <1>8, <1>10 DEF HomeOK
<1>12. Distinct'
  BY <1>1, <1>3, <1>7, <1>8 DEF Distinct
<1>13. Homes'
  BY <1>6, <1>9, <1>11, <1>12, HomesKept DEF Taken
<1>14. Ready(pxCurrentTCB)' /\ pxCurrentTCB' \in Task
  <2>1. CASE SwitchContext(NotReady(u), uxTopReadyPriority) /\ uxSchedulerSuspended = 0
    BY <1>1, <1>3, <1>4, <1>5, <2>1, SwitchedIsReady, SwitchContextType
  <2>2. CASE GoOn(NotReady(u), uxTopReadyPriority)
    <3>1. pxCurrentTCB' = t /\ (Ready(t)' <=> Ready(t))
      BY <1>1, <1>9, <2>2, StaysHome DEF GoOn
    <3> QED BY <1>1, <3>1 DEF Ready
  <2> QED BY <1>2, <2>1, <2>2
<1>15. pc'[t] # "block" /\ \A y \in Task : y # t => pc'[y] \in {pc[y], "none", "run"}
  BY <1>1, <1>2
<1> QED BY <1>1, <1>13, <1>14, <1>15, CallKeeps

\* prvAddNewTaskToReadyList: the new task was in no list.
LEMMA AddNewTaskKeeps ==
    ASSUME HInv, NEW t \in Task, NEW u \in AppTask, NEW p \in Priority, AddNewTask(t, u, p)
    PROVE  Kept
<1>1. /\ u \in Task /\ u # Idle /\ u # t /\ t = pxCurrentTCB /\ pc \in [Task -> PC]
      /\ pc[t] = "insert" /\ pc[u] = "none" /\ Ready(t)
      /\ UNCHANGED <<blockedLists, eventLists, deletionVars>>
      /\ uxPriority' = [uxPriority EXCEPT ![u] = p]
      /\ GoOn(ReadyAt(u, p), Record(p))
      /\ pc' = [pc EXCEPT ![u] = "run", ![t] = "compare"]
  BY RunningIsReady DEF AddNewTask, HInv, Inv, TypeOK, AppTask, Resuming, At
<1>2. /\ Inv /\ Homes /\ Distinct /\ HomeOK(u) /\ LegalLists(pxReadyTasksLists)
      /\ uxTopReadyPriority \in Priority /\ uxPriority \in [Task -> Priority]
  BY <1>1 DEF HInv, Inv, IdleStays, TypeOK, Homes
<1>3. PICK lists, top : lists = ReadyAt(u, p) /\ top = Record(p)
  OBVIOUS
<1>4. LegalLists(lists) /\ top \in Priority
  BY <1>1, <1>2, <1>3, ReadyAtLegal, RecordType
<1>5. /\ Ordered(lists, uxPriority', top)
      /\ \A q \in Priority : \A y :
           Contains(lists[q].items, y)
               <=> \/ y = u /\ q = p
                   \/ y # u /\ Contains(pxReadyTasksLists[q].items, y)
  BY <1>1, <1>2, <1>3, ReadyAtExact
<1>6. Taken(lists)
  BY <1>1, <1>3, <1>4, <1>5, ListsTaken
<1>7. ASSUME NEW y \in Task, y # u PROVE Stays(y)
  <2>1. pc'[y] = "none" <=> pc[y] = "none"
    BY <1>1, <1>7
  <2>2. \A q \in Priority :
         Contains(pxReadyTasksLists'[q].items, y) <=> Contains(pxReadyTasksLists[q].items, y)
    BY <1>5, <1>6, <1>7 DEF Taken
  <2>3. uxPriority'[y] = uxPriority[y]
    BY <1>1, <1>2, <1>7
  <2> QED BY <1>1, <2>1, <2>2, <2>3 DEF Stays
<1>8. Ready(u)' /\ pc'[u] # "none"
  BY <1>1, <1>2, <1>5, <1>6 DEF Ready, Taken
<1>9. HomeOK(u)'
  BY <1>1, <1>2, <1>8 DEF HomeOK
<1>10. Distinct'
  BY <1>1, <1>2 DEF Distinct
<1>11. Homes'
  BY <1>6, <1>7, <1>9, <1>10, HomesKept DEF Taken
<1>12. pxCurrentTCB' = t /\ (Ready(t)' <=> Ready(t))
  BY <1>1, <1>7, StaysHome DEF GoOn
<1>13. Ready(pxCurrentTCB)'
  BY <1>1, <1>12 DEF Ready
<1>14. pc'[t] # "block" /\ \A y \in Task : y # t => pc'[y] \in {pc[y], "none", "run"}
  BY <1>1
<1> QED BY <1>1, <1>11, <1>12, <1>13, <1>14, CallKeeps

\* prvCheckTasksWaitingTermination takes the first task, which is in no list any more.
LEMMA IdleCleanKeeps ==
    ASSUME HInv, IdleClean
    PROVE  Kept
<1>1. /\ Idle = pxCurrentTCB /\ pc \in [Task -> PC] /\ pc[Idle] = "clean"
      /\ terminating \in Seq(Task) /\ terminating # <<>> /\ Idle \in Task
      /\ terminating' = Tail(terminating)
      /\ UNCHANGED <<pxReadyTasksLists, uxTopReadyPriority, blockedLists, eventLists>>
      /\ UNCHANGED <<uxPriority, pxCurrentTCB>>
      /\ Homes /\ Distinct /\ Ready(Idle) /\ HomeOK(Idle)
  BY RunningIsReady DEF IdleClean, HInv, Inv, TypeOK, Homes, At, Resuming
<1>2. PICK u \in Task : u = Head(terminating) /\ Contains(terminating, u)
  BY <1>1, TailExact DEF Distinct
<1>3. /\ \A y : Contains(terminating', y) <=> Contains(terminating, y) /\ y # u
      /\ IsInjective(terminating')
  BY <1>1, <1>2, TailExact DEF Distinct
<1>4. u # Idle /\ pc' = [pc EXCEPT ![u] = "none", ![Idle] = "freeStack"]
  BY <1>1, <1>2 DEF HomeOK, IdleClean
<1>5. ASSUME NEW y \in Task, y # u PROVE Stays(y)
  <2>1. pc'[y] = "none" <=> pc[y] = "none"
    BY <1>1, <1>4, <1>5
  <2> QED BY <1>1, <1>3, <1>5, <2>1 DEF Stays
<1>6. HomeOK(u)'
  <2>1. HomeOK(u) /\ pc'[u] = "none"
    BY <1>1, <1>2, <1>4 DEF Homes
  <2>2. Ready(u)' <=> Ready(u)
    BY <1>1 DEF Ready
  <2> QED BY <1>1, <1>2, <1>3, <2>1, <2>2 DEF HomeOK
<1>7. Distinct'
  BY <1>1, <1>3 DEF Distinct
<1>8. Homes'
  BY <1>1, <1>5, <1>6, <1>7, HomesKept DEF Homes
<1>9. Ready(pxCurrentTCB)'
  BY <1>1 DEF Ready
<1>10. pc'[Idle] # "block" /\ \A y \in Task : y # Idle => pc'[y] \in {pc[y], "none", "run"}
  BY <1>1, <1>4
<1> QED BY <1>1, <1>8, <1>9, <1>10, CallKeeps

\* vTaskPrioritySet: a ready task moves to the list of its new priority, a blocked one
\* stays where it is.
LEMMA PrioritySetKeeps ==
    ASSUME HInv, NEW t \in Task, NEW u \in AppTask, NEW p \in Priority,
           vTaskPrioritySet(t, u, p)
    PROVE  Kept
<1>1. /\ u \in Task /\ u # Idle /\ t = pxCurrentTCB /\ At(pxCurrentTCB, "run")
      /\ UNCHANGED <<blockedLists, eventLists, deletionVars>>
      /\ uxPriority' = [uxPriority EXCEPT ![u] = p]
      /\ pxCurrentTCB \in Task /\ pc \in [Task -> PC]
  BY DEF vTaskPrioritySet, Target, AppTask, At, HInv, Inv, TypeOK
<1>2. PICK lists, top : /\ lists = IF Ready(u) THEN ReadyAt(u, p) ELSE pxReadyTasksLists
                        /\ top = IF Ready(u) THEN Record(p) ELSE uxTopReadyPriority
  OBVIOUS
<1>3. /\ GoOn(lists, top) \/ SwitchContext(lists, top)
      /\ pc' = pc \/ pc' = [pc EXCEPT ![pxCurrentTCB] = "exit"]
  BY <1>1, <1>2 DEF vTaskPrioritySet, EndCritical, Call, Ready
<1>4. /\ \A y \in Task : pc'[y] = "none" <=> pc[y] = "none"
      /\ pc'[pxCurrentTCB] # "block"
      /\ \A y \in Task : y # pxCurrentTCB => pc'[y] = pc[y]
      /\ Ready(pxCurrentTCB)
  BY <1>1, <1>3, EndCriticalCounters
<1>5. /\ Inv /\ Homes /\ Distinct /\ HomeOK(u) /\ LegalLists(pxReadyTasksLists)
      /\ uxTopReadyPriority \in Priority /\ uxPriority \in [Task -> Priority]
      /\ Ordered(pxReadyTasksLists, uxPriority, uxTopReadyPriority)
  BY <1>1 DEF HInv, Inv, IdleStays, TypeOK, Homes
<1>6. LegalLists(lists) /\ top \in Priority
  BY <1>1, <1>2, <1>5, ReadyAtLegal, RecordType
<1>7. /\ Ordered(lists, uxPriority', top)
      /\ \A q \in Priority : \A y :
           y # u => (Contains(lists[q].items, y) <=> Contains(pxReadyTasksLists[q].items, y))
      /\ Contains(lists[p].items, u) <=> Ready(u)
  <2>1. CASE Ready(u)
    <3>1. lists = ReadyAt(u, p) /\ top = Record(p)
      BY <1>2, <2>1
    <3>2. /\ \A q \in Priority : \A y :
               Contains(ReadyAt(u, p)[q].items, y)
                   <=> \/ y = u /\ q = p
                       \/ y # u /\ Contains(pxReadyTasksLists[q].items, y)
          /\ Ordered(ReadyAt(u, p), [uxPriority EXCEPT ![u] = p], Record(p))
      BY <1>1, <1>5, ReadyAtExact
    <3> QED BY <1>1, <2>1, <3>1, <3>2
  <2>2. CASE ~Ready(u)
    <3>1. lists = pxReadyTasksLists /\ top = uxTopReadyPriority
      BY <1>2, <2>2
    <3>2. \A q \in Priority : ~Contains(lists[q].items, u)
      BY <1>1, <1>5, <2>2, <3>1 DEF Ordered, Ready
    <3>3. \A y \in Task : y # u => uxPriority'[y] = uxPriority[y]
      BY <1>1, <1>5
    <3>4. Ordered(lists, uxPriority', top)
      BY <1>5, <3>1, <3>2, <3>3 DEF Ordered
    <3> QED BY <2>2, <3>1, <3>2, <3>4
  <2> QED BY <2>1, <2>2
<1>8. Taken(lists)
  BY <1>3, <1>6, <1>7, ListsTaken
<1>9. ASSUME NEW y \in Task, y # u PROVE Stays(y)
  <2>1. \A q \in Priority :
         Contains(pxReadyTasksLists'[q].items, y) <=> Contains(pxReadyTasksLists[q].items, y)
    BY <1>7, <1>8, <1>9 DEF Taken
  <2>2. uxPriority'[y] = uxPriority[y]
    BY <1>1, <1>5, <1>9
  <2> QED BY <1>1, <1>4, <2>1, <2>2 DEF Stays
<1>10. Ready(u)' <=> Ready(u)
  BY <1>1, <1>5, <1>7, <1>8 DEF Taken, Ready
<1>11. HomeOK(u)'
  BY <1>1, <1>4, <1>5, <1>10 DEF HomeOK
<1>12. Distinct'
  BY <1>1, <1>5 DEF Distinct
<1>13. Homes'
  BY <1>8, <1>9, <1>11, <1>12, HomesKept DEF Taken
<1>14. Ready(t)' <=> Ready(t)
  BY <1>1, <1>9, <1>10, StaysHome
<1>15. uxPriority' \in [Task -> Priority]
  BY <1>1, <1>5
<1>16. Ready(pxCurrentTCB)' /\ pxCurrentTCB' \in Task
  <2>1. CASE GoOn(lists, top)
    BY <1>1, <1>4, <1>14, <2>1 DEF GoOn, Ready
  <2>2. CASE SwitchContext(lists, top)
    <3>1. Contains(lists[uxPriority'[t]].items, t)
      BY <1>1, <1>4, <1>8, <1>14, <1>15 DEF Ready, Taken
    <3> QED BY <1>1, <1>6, <1>7, <1>15, <2>2, <3>1, SwitchedIsReady, SwitchContextType
  <2> QED BY <1>3, <2>1, <2>2
<1> QED BY <1>4, <1>13, <1>16, CallKeeps
-----------------------------------------------------------------------------
(* The invariant holds.                                                    *)

\* The lists xTaskCreate leaves before the scheduler starts.
LEMMA InitLists ==
    ASSUME Init
    PROVE  /\ \A p \in Priority, u \in Task : Contains(InitialReady[p], u) => uxPriority[u] = p
           /\ \A u \in Task : Created(u) <=> Contains(InitialReady[uxPriority[u]], u)
           /\ \A p \in Priority : p > uxTopReadyPriority => InitialReady[p] = <<>>
           /\ pxCurrentTCB \in Task /\ uxTopReadyPriority \in Priority
           /\ Contains(InitialReady[uxTopReadyPriority], pxCurrentTCB)
           /\ \A p \in Priority : InitialReady[p] \in Seq(Task) /\ IsInjective(InitialReady[p])
<1> USE DEF Init
<1>1. /\ InitialReady \in [Priority -> Seq(Task)]
      /\ \A p, q \in Priority : \A i \in DOMAIN InitialReady[p], j \in DOMAIN InitialReady[q] :
           InitialReady[p][i] = InitialReady[q][j] => p = q /\ i = j
  BY TasksAssumption
<1>2. \A p \in Priority : DOMAIN InitialReady[p] = 1 .. Len(InitialReady[p])
  BY <1>1, LenProperties
<1>3. \A p \in Priority : IsInjective(InitialReady[p])
  BY <1>1 DEF IsInjective
<1>4. ASSUME NEW p \in Priority, NEW q \in Priority, NEW u,
             Contains(InitialReady[p], u), Contains(InitialReady[q], u)
      PROVE  p = q
  BY <1>1, <1>2, <1>4 DEF Contains
<1>5. \A u : Created(u) <=> \E p \in Priority : Contains(InitialReady[p], u)
  BY <1>2 DEF Created, Contains
<1>6. ASSUME NEW p \in Priority, NEW u \in Task, Contains(InitialReady[p], u)
      PROVE  uxPriority[u] = p
  <2>1. Created(u)
    BY <1>5, <1>6
  <2>2. uxPriority[u] = CHOOSE q \in Priority : Contains(InitialReady[q], u)
    BY <2>1
  <2> QED BY <1>4, <1>6, <2>2
<1>7. ASSUME NEW u \in Task
      PROVE  Created(u) <=> Contains(InitialReady[uxPriority[u]], u)
  <2>1. uxPriority[u] \in Priority
    BY <1>5, PriorityIsNat
  <2> QED BY <1>5, <1>6, <2>1
<1>8. /\ \A p \in Priority : p > uxTopReadyPriority => InitialReady[p] = <<>>
      /\ uxTopReadyPriority \in Priority /\ InitialReady[uxTopReadyPriority] # <<>>
  <2> DEFINE P == {p \in Priority : InitialReady[p] # <<>>}
  <2>1. P \in SUBSET (0 .. MaxPriorities - 1) /\ P # {} /\ MaxPriorities - 1 \in Nat
    <3>1. MaxPriorities - 1 \in Nat /\ Priority = 0 .. MaxPriorities - 1
      BY TasksAssumption DEF Priority
    <3>2. 0 \in P
      <4>1. PICK i \in DOMAIN InitialReady[0] : InitialReady[0][i] = Idle
        BY TasksAssumption
      <4> QED BY <1>1, <4>1, PriorityIsNat, EmptySeq, LenProperties
    <3> QED BY <3>1, <3>2
  <2>2. Max(P) \in P /\ \A y \in P : Max(P) >= y
    <3> HIDE DEF P
    <3> QED BY <2>1, MaxExists
  <2>3. uxTopReadyPriority = Max(P)
    OBVIOUS
  <2>4. ASSUME NEW p \in Priority, p > uxTopReadyPriority PROVE InitialReady[p] = <<>>
    <3>1. p \in Nat /\ uxTopReadyPriority \in Nat
      BY <2>2, <2>3, PriorityIsNat
    <3>2. p \in P => uxTopReadyPriority >= p
      BY <2>2, <2>3
    <3> QED BY <2>4, <3>1, <3>2
  <2> QED BY <2>2, <2>3, <2>4
<1>9. pxCurrentTCB \in Task /\ Contains(InitialReady[uxTopReadyPriority], pxCurrentTCB)
  <2>1. PICK seq \in Seq(Task) : seq = InitialReady[uxTopReadyPriority] /\ seq # <<>>
    BY <1>1, <1>8
  <2>2. Len(seq) \in 1 .. Len(seq)
    BY <2>1, EmptySeq, LenProperties
  <2>3. pxCurrentTCB = seq[Len(seq)]
    BY <2>1 DEF Last
  <2> QED BY <2>1, <2>2, <2>3, ElementOfSeq DEF Contains
<1> QED BY <1>1, <1>3, <1>6, <1>7, <1>8, <1>9

\* vTaskStartScheduler establishes the invariant.
LEMMA InitHomes == Init => HInv
<1> SUFFICES ASSUME Init PROVE HInv
  OBVIOUS
<1>1. /\ \A p \in Priority : pxReadyTasksLists[p].items = InitialReady[p]
      /\ delayed = <<>> /\ overflow = <<>> /\ pending = <<>> /\ waiting = <<>>
      /\ suspended = {} /\ terminating = <<>>
      /\ pc = [u \in Task |-> IF Created(u) THEN "run" ELSE "none"]
  BY DEF Init
<1>2. Inv /\ uxPriority \in [Task -> Priority]
  BY InitInv DEF Inv, TypeOK
<1>3. \A y : ~Contains(<<>>, y)
  BY EmptySeq DEF Contains
<1>4. IsInjective(<<>>)
  BY EmptySeq DEF IsInjective
<1>5. Ordered(pxReadyTasksLists, uxPriority, uxTopReadyPriority)
  <2>1. \A p \in Priority : IsInjective(pxReadyTasksLists[p].items)
    BY <1>1, InitLists
  <2>2. ASSUME NEW p \in Priority, NEW u \in Task, Contains(pxReadyTasksLists[p].items, u)
        PROVE  uxPriority[u] = p /\ p <= uxTopReadyPriority
    <3>1. Contains(InitialReady[p], u) /\ InitialReady[p] # <<>>
      BY <1>1, <1>3, <2>2
    <3>2. uxPriority[u] = p /\ ~(p > uxTopReadyPriority) /\ uxTopReadyPriority \in Priority
      BY <3>1, InitLists
    <3> QED BY <3>2, PriorityIsNat
  <2> QED BY <2>1, <2>2 DEF Ordered
<1>6. \A u \in Task : Ready(u) <=> Created(u)
  BY <1>1, <1>2, InitLists DEF Ready
<1>7. \A u \in Task : HomeOK(u)
  BY <1>1, <1>3, <1>6 DEF HomeOK
<1>8. Homes
  BY <1>1, <1>4, <1>5, <1>7 DEF Homes, Distinct
<1>9. Ready(pxCurrentTCB)
  <2>1. pxCurrentTCB \in Task /\ Contains(InitialReady[uxTopReadyPriority], pxCurrentTCB)
        /\ uxTopReadyPriority \in Priority
    BY InitLists
  <2>2. uxPriority[pxCurrentTCB] = uxTopReadyPriority
    BY <2>1, InitLists
  <2> QED BY <1>1, <2>1, <2>2 DEF Ready
<1>10. Standing /\ Blocking
  <2>1. pxCurrentTCB \in Task /\ pc[pxCurrentTCB] \in {"run", "none"}
    BY <1>1, InitLists
  <2> QED BY <1>9, <2>1 DEF Standing, Blocking
<1> QED BY <1>2, <1>8, <1>10 DEF HInv

\* Every step keeps it.
LEMMA NextHomes == HInv /\ [Next]_vars => HInv'
<1> SUFFICES ASSUME HInv, [Next]_vars PROVE HInv'
  OBVIOUS
<1>1. Inv'
  BY NextInv DEF HInv
<1>2. ASSUME NEW t \in Task, Proceed(t) PROVE Kept
  BY <1>2, QuietSteps, SwitchSteps, DrainKeeps, TickSteps, BlockKeeps, AddNewTaskKeeps
     DEF Proceed
<1>3. ASSUME NEW t \in Task, CallAPI(t) PROVE Kept
  BY <1>3, QuietSteps, SwitchSteps, PostKeeps, DeleteSelfKeeps, SuspendKeeps, ResumeKeeps,
     DeleteKeeps, PrioritySetKeeps DEF CallAPI
<1>4. ASSUME NEW t \in Task, xTaskResumeAll(t) PROVE Kept
  BY <1>4, QuietSteps
<1>5. ASSUME UNCHANGED vars PROVE Kept
  <2>1. /\ UNCHANGED <<pxReadyTasksLists, uxTopReadyPriority, uxPriority, pxCurrentTCB>>
        /\ UNCHANGED <<blockedLists, eventLists, deletionVars, pc, ret>>
        /\ UNCHANGED uxSchedulerSuspended
    BY <1>5 DEF vars
  <2>2. Taken(pxReadyTasksLists)
    BY <2>1 DEF Taken, HInv, Homes
  <2>3. Homes'
    BY <2>1, <2>2, NothingMoves
  <2>4. Standing' /\ Blocking'
    BY <2>1 DEF HInv, Standing, Blocking, Ready
  <2> QED BY <2>3, <2>4 DEF Kept
<1>6. ASSUME IdleTask PROVE Kept
  <2>1. CASE IdleLoop
    BY <1>5, <2>1 DEF IdleLoop
  <2>2. CASE IdleCheck \/ IdleFree
    BY <2>2, QuietSteps, PriorityIsNat
  <2>3. CASE IdleClean
    BY <2>3, IdleCleanKeeps
  <2> QED BY <1>6, <2>1, <2>2, <2>3 DEF IdleTask
<1>7. ASSUME TickInterrupt \/ InTick PROVE Kept
  BY <1>7, TickSteps, TickUnblockKeeps, TickSliceKeeps, PriorityIsNat DEF InTick
<1>8. ASSUME PostFromISR \/ \E u \in AppTask : xTaskResumeFromISR(u) PROVE Kept
  BY <1>8, PostFromISRKeeps, ResumeFromISRKeeps
<1>9. Kept
  BY <1>2, <1>3, <1>4, <1>5, <1>6, <1>7, <1>8 DEF Next
<1> QED BY <1>1, <1>9 DEF Kept, HInv

\* From vTaskStartScheduler on, every item is where the state of its task says, and the
\* running task is ready.
THEOREM HomesInvariant == Spec => []HInv
BY InitHomes, NextHomes, PTL DEF Spec

\* No list operation of a task, an interrupt or the tick loses a task, leaves its state
\* item in two lists or twice in one, or leaves its event item in two lists.
THEOREM NoTaskIsLost == Spec => []ItemsInOneList
<1>1. HInv => ItemsInOneList
  <2> SUFFICES ASSUME HInv PROVE ItemsInOneList
    OBVIOUS
  <2>1. /\ \A p \in Priority : pxReadyTasksLists[p].items \in Seq(Task)
        /\ delayed \in Seq(Task) /\ overflow \in Seq(Task) /\ terminating \in Seq(Task)
        /\ pending \in Seq(Task) /\ waiting \in Seq(Task) /\ suspended \in SUBSET Task
    BY DEF HInv, Inv, TypeOK, IsList
  <2>2. ASSUME NEW seq \in Seq(Task) PROVE ToSet(seq) = {u \in Task : Contains(seq, u)}
    <3>1. DOMAIN seq = 1 .. Len(seq) /\ \A i \in 1 .. Len(seq) : seq[i] \in Task
      BY LenProperties, ElementOfSeq
    <3> QED BY <3>1 DEF ToSet, Contains
  <2>3. /\ Ordered(pxReadyTasksLists, uxPriority, uxTopReadyPriority) /\ Distinct
        /\ \A u \in Task : HomeOK(u) /\ uxPriority[u] \in Priority
    BY DEF HInv, Homes, Inv, TypeOK
  <2>4. ASSUME NEW p \in Priority, NEW q \in Priority, p # q
        PROVE  ToSet(pxReadyTasksLists[p].items) \cap ToSet(pxReadyTasksLists[q].items) = {}
    <3>1. \A u \in Task : Contains(pxReadyTasksLists[p].items, u)
                             => ~Contains(pxReadyTasksLists[q].items, u)
      BY <2>3, <2>4 DEF Ordered
    <3>2. PICK a, b : a = pxReadyTasksLists[p].items /\ b = pxReadyTasksLists[q].items
      OBVIOUS
    <3>3. ToSet(a) = {u \in Task : Contains(a, u)} /\ ToSet(b) = {u \in Task : Contains(b, u)}
      BY <2>1, <2>2, <3>2
    <3> QED BY <3>1, <3>2, <3>3
  <2>5. InReadyLists = {u \in Task : Ready(u)}
    BY <2>1, <2>2, <2>3 DEF InReadyLists, Ready, Ordered
  <2>6. PICK r, d, o, e, s : /\ r = InReadyLists /\ d = ToSet(delayed) /\ o = ToSet(overflow)
                             /\ e = ToSet(terminating) /\ s = suspended
    OBVIOUS
  <2>7. \A u : /\ u \in r <=> u \in Task /\ Ready(u)
               /\ u \in d <=> u \in Task /\ Contains(delayed, u)
               /\ u \in o <=> u \in Task /\ Contains(overflow, u)
               /\ u \in e <=> u \in Task /\ Contains(terminating, u)
               /\ u \in s <=> u \in Task /\ u \in suspended
    BY <2>1, <2>2, <2>5, <2>6
  <2>8. /\ r \cap d = {} /\ r \cap o = {} /\ r \cap e = {} /\ r \cap s = {}
        /\ d \cap o = {} /\ d \cap e = {} /\ d \cap s = {}
        /\ o \cap e = {} /\ o \cap s = {} /\ e \cap s = {}
        /\ r \cup d \cup o \cup e \cup s = Existing
    BY <2>3, <2>7 DEF HomeOK, Existing
  <2>9. StateItems = <<r, d, o, e, s>>
    BY <2>6 DEF StateItems
  <2>10. \A i, j \in 1 .. 5 : i # j => StateItems[i] \cap StateItems[j] = {}
    BY <2>8, <2>9
  <2>11. UNION {StateItems[i] : i \in 1 .. 5} = Existing
    <3>1. UNION {StateItems[i] : i \in 1 .. 5} = r \cup d \cup o \cup e \cup s
      BY <2>9
    <3> QED BY <2>8, <3>1
  <2>12. /\ EventItems[1] \cap EventItems[2] = {}
         /\ EventItems[1] \cup EventItems[2] \subseteq Existing
    <3>1. EventItems[1] = ToSet(pending) /\ EventItems[2] = ToSet(waiting)
      BY DEF EventItems
    <3>2. \A u : /\ u \in EventItems[1] <=> u \in Task /\ Contains(pending, u)
                 /\ u \in EventItems[2] <=> u \in Task /\ Contains(waiting, u)
      BY <2>1, <2>2, <3>1
    <3> QED BY <2>3, <3>2 DEF HomeOK, Existing
  <2> QED BY <2>3, <2>4, <2>10, <2>11, <2>12 DEF ItemsInOneList, Ordered, Distinct
<1> QED BY <1>1, HomesInvariant, PTL

\* Every ready task is in the list of its priority and none is above uxTopReadyPriority,
\* from where vTaskSwitchContext searches downwards.
THEOREM NoReadyTaskIsMissed == Spec => []ReadyByPriority
<1>1. HInv => ReadyByPriority
  <2> SUFFICES ASSUME HInv, NEW p \in Priority, NEW i \in DOMAIN pxReadyTasksLists[p].items
               PROVE  /\ uxPriority[pxReadyTasksLists[p].items[i]] = p
                      /\ p <= uxTopReadyPriority
    BY DEF ReadyByPriority
  <2>1. PICK seq \in Seq(Task) : seq = pxReadyTasksLists[p].items
    BY DEF HInv, Inv, TypeOK, IsList
  <2>2. i \in 1 .. Len(seq) /\ seq[i] \in Task
    BY <2>1, LenProperties, ElementOfSeq
  <2>3. Contains(seq, seq[i])
    BY <2>2 DEF Contains
  <2> QED BY <2>1, <2>2, <2>3 DEF HInv, Homes, Ordered
<1> QED BY <1>1, HomesInvariant, PTL
-----------------------------------------------------------------------------
(* The most urgent task runs.                                              *)

Highest == \A u \in Task : Ready(u) => uxPriority[u] <= uxPriority[pxCurrentTCB]

\* The running task has the highest priority of the ready ones, or somewhere it is
\* noted that it has to yield.
Urgent ==
    \/ Highest
    \/ xYieldPending
    \/ inTick # "no" /\ xSwitchRequired
    \/ pc[pxCurrentTCB] = "yield"
    \/ /\ pc[pxCurrentTCB] = "compare"
       /\ pc[created[pxCurrentTCB]] # "none"
       /\ uxPriority[created[pxCurrentTCB]] > uxPriority[pxCurrentTCB]

\* Priorities are compared as numbers.
LEMMA PrioritiesAreNumbers ==
    ASSUME HInv
    PROVE  /\ uxPriority \in [Task -> Priority] /\ Priority \subseteq Nat
           /\ \A u \in Task : uxPriority[u] \in Nat
           /\ pxCurrentTCB \in Task /\ Inv /\ Homes /\ LegalLists(pxReadyTasksLists)
           /\ uxTopReadyPriority \in Priority
           /\ Ordered(pxReadyTasksLists, uxPriority, uxTopReadyPriority)
           /\ pc \in [Task -> PC]
BY PriorityIsNat DEF HInv, Inv, TypeOK, IdleStays, Homes

\* vTaskSwitchContext takes the most urgent task, or notes that a switch is due.
LEMMA SwitchIsUrgent ==
    ASSUME HInv', NEW lists, LegalLists(lists), NEW top \in Priority,
           Ordered(lists, uxPriority', top), SwitchContext(lists, top)
    PROVE  Urgent'
<1>1. CASE uxSchedulerSuspended # 0
  BY <1>1, SwitchContextExact DEF Urgent
<1>2. CASE uxSchedulerSuspended = 0
  <2>1. /\ \A p \in Priority : pxReadyTasksLists'[p].items = lists[p].items
        /\ \A p \in Priority : p > uxPriority'[pxCurrentTCB'] => lists[p].items = <<>>
    BY <1>2, SwitchContextExact
  <2>2. /\ uxPriority' \in [Task -> Priority] /\ Priority \subseteq Nat /\ pxCurrentTCB' \in Task
    BY PriorityIsNat DEF HInv, Inv, TypeOK
  <2>3. ASSUME NEW u \in Task, Ready(u)' PROVE uxPriority'[u] <= uxPriority'[pxCurrentTCB']
    <3>1. PICK q \in Priority : q = uxPriority'[u]
      BY <2>2
    <3>2. Contains(lists[q].items, u)
      BY <2>1, <2>3, <3>1 DEF Ready
    <3>3. lists[q].items # <<>>
      BY <3>2 DEF Contains
    <3>4. ~(q > uxPriority'[pxCurrentTCB'])
      BY <2>1, <3>3
    <3>5. q \in Nat /\ uxPriority'[pxCurrentTCB'] \in Nat
      BY <2>2
    <3> QED BY <3>1, <3>4, <3>5
  <2> QED BY <2>3 DEF Highest, Urgent
<1> QED BY <1>1, <1>2

\* A call without a switch: what it makes ready is not above the running task, or the
\* yield is pending.
LEMMA CallIsUrgent ==
    ASSUME HInv, Urgent, inTick = "no", pc[pxCurrentTCB] \notin {"yield", "compare"},
           xYieldPending => xYieldPending',
           ~xYieldPending' /\ Highest => Highest'
    PROVE  Urgent'
BY DEF Urgent

\* An interrupt or a turn of the tick without a switch.
LEMMA HandlerIsUrgent ==
    ASSUME HInv, Urgent, UNCHANGED <<pc, created, uxPriority, pxCurrentTCB>>,
           inTick # "no" /\ xSwitchRequired => inTick' # "no" /\ xSwitchRequired',
           xYieldPending => xYieldPending',
           Highest => \/ Highest' \/ xYieldPending'
                      \/ inTick' # "no" /\ xSwitchRequired'
    PROVE  Urgent'
BY DEF Urgent

\* Nothing becomes ready.
LEMMA NothingAbove ==
    ASSUME HInv, Highest, UNCHANGED <<uxPriority, pxCurrentTCB>>,
           \A y \in Task : Ready(y)' => Ready(y)
    PROVE  Highest'
BY DEF Highest

\* One task becomes ready, and it is not above the running one.
LEMMA OneBelow ==
    ASSUME HInv, Highest, NEW u \in Task, UNCHANGED <<uxPriority, pxCurrentTCB>>,
           \A y \in Task : y # u /\ Ready(y)' => Ready(y),
           uxPriority[u] <= uxPriority[pxCurrentTCB]
    PROVE  Highest'
BY DEF Highest

\* prvAddTaskToReadyList makes one task ready.
LEMMA OthersStayReady ==
    ASSUME HInv, NEW u \in Task, pxReadyTasksLists' = ReadyAt(u, uxPriority[u]),
           UNCHANGED uxPriority
    PROVE  \A y \in Task : y # u /\ Ready(y)' => Ready(y)
<1>1. PICK p \in Priority : p = uxPriority[u]
  BY PrioritiesAreNumbers
<1>2. \A q \in Priority : \A y :
        Contains(ReadyAt(u, p)[q].items, y)
            <=> \/ y = u /\ q = p
                \/ y # u /\ Contains(pxReadyTasksLists[q].items, y)
  BY PrioritiesAreNumbers, ReadyAtExact
<1> QED BY <1>1, <1>2, PrioritiesAreNumbers DEF Ready

\* A task becomes ready and vTaskSwitchContext is called.
LEMMA WakeIsUrgent ==
    ASSUME HInv, HInv', NEW u \in Task, UNCHANGED uxPriority,
           SwitchContext(ReadyAt(u, uxPriority[u]), Record(uxPriority[u]))
    PROVE  Urgent'
<1>1. /\ Inv /\ Homes /\ LegalLists(pxReadyTasksLists) /\ uxPriority \in [Task -> Priority]
      /\ uxTopReadyPriority \in Priority
      /\ u = Idle => uxPriority[u] = 0
  BY DEF HInv, Inv, TypeOK, IdleStays
<1>2. PICK p \in Priority : p = uxPriority[u]
  BY <1>1
<1>3. PICK lists, top : lists = ReadyAt(u, p) /\ top = Record(p)
  OBVIOUS
<1>4. LegalLists(lists) /\ top \in Priority
  BY <1>1, <1>2, <1>3, ReadyAtLegal, RecordType
<1>5. Ordered(lists, uxPriority', top)
  <2>1. [uxPriority EXCEPT ![u] = p] = uxPriority
    BY <1>1, <1>2
  <2>2. Ordered(lists, [uxPriority EXCEPT ![u] = p], top)
    BY <1>1, <1>3, ReadyAtExact
  <2> QED BY <2>1, <2>2
<1>6. SwitchContext(lists, top)
  BY <1>2, <1>3
<1> QED BY <1>4, <1>5, <1>6, SwitchIsUrgent

\* Steps that make nobody ready.
LEMMA ShrinkingSteps ==
    ASSUME HInv, Urgent, NEW t \in Task,
           \/ ExitCritical(t) \/ EnterResumeAll(t) \/ DrainEnd(t) \/ AfterSuspend(t)
           \/ AfterDelete(t) \/ AllocateFails(t) \/ xTaskResumeAll(t)
           \/ xTaskCreate(t) \/ AllocateTCB(t) \/ vTaskSuspendAll(t) \/ BlockingCall(t)
           \/ IdleCheck \/ IdleFree \/ IdleClean \/ ReplayTick(t) \/ DeleteSelf(t)
           \/ \E u \in AppTask : vTaskSuspend(t, u)
           \/ \E n \in 1 .. portMAX_DELAY : vTaskDelay(t, n) \/ vTaskPlaceOnEventList(t, n)
    PROVE  Urgent'
<1>1. /\ inTick = "no" /\ pc[pxCurrentTCB] \notin {"yield", "compare"}
      /\ UNCHANGED <<uxPriority, pxCurrentTCB, uxTopReadyPriority, xYieldPending>>
      /\ \/ UNCHANGED pxReadyTasksLists
         \/ \E u \in Task : pxReadyTasksLists' = NotReady(u)
  BY DEF ExitCritical, EnterResumeAll, DrainEnd, AfterSuspend, AfterDelete, AllocateFails,
         xTaskResumeAll, xTaskCreate, AllocateTCB, vTaskSuspendAll, BlockingCall, IdleCheck,
         IdleFree, IdleClean, ReplayTick, DeleteSelf, vTaskSuspend, vTaskDelay,
         vTaskPlaceOnEventList, Blocked, AddCurrentToDelayedList, SuspendAllThen, At,
         AppTask, Target
<1>2. ASSUME NEW y \in Task, Ready(y)' PROVE Ready(y)
  <2>1. CASE UNCHANGED pxReadyTasksLists
    BY <1>1, <1>2, <2>1 DEF Ready
  <2>2. CASE \E u \in Task : pxReadyTasksLists' = NotReady(u)
    <3>1. PICK u \in Task : pxReadyTasksLists' = NotReady(u)
      BY <2>2
    <3>2. ~Ready(u)' /\ \A z \in Task : z # u => (Ready(z)' <=> Ready(z))
      BY <1>1, <3>1, UnreadyExact
    <3> QED BY <1>2, <3>2
  <2> QED BY <1>1, <2>1, <2>2
<1>3. Highest => Highest'
  BY <1>1, <1>2, NothingAbove
<1> QED BY <1>1, <1>3, CallIsUrgent

\* Steps that end in vTaskSwitchContext.
LEMMA SwitchingSteps ==
    ASSUME HInv, HInv', Urgent, NEW t \in Task,
           YieldWithinAPI(t) \/ TaskYield(t) \/ LeaveResumeAll(t)
    PROVE  Urgent'
<1>1. CASE SwitchContext(pxReadyTasksLists, uxTopReadyPriority)
  <2>1. UNCHANGED uxPriority
    BY DEF YieldWithinAPI, TaskYield, LeaveResumeAll
  <2> QED BY <1>1, <2>1, SwitchIsUrgent, PrioritiesAreNumbers
<1>2. CASE ~SwitchContext(pxReadyTasksLists, uxTopReadyPriority)
  <2>1. /\ inTick = "no" /\ pc[pxCurrentTCB] \notin {"yield", "compare"}
        /\ UNCHANGED <<uxPriority, pxCurrentTCB, pxReadyTasksLists, xYieldPending>>
    BY <1>2 DEF YieldWithinAPI, TaskYield, LeaveResumeAll, At
  <2>2. \A y \in Task : Ready(y)' => Ready(y)
    BY <2>1 DEF Ready
  <2>3. Highest => Highest'
    BY <2>1, <2>2, NothingAbove
  <2> QED BY <2>1, <2>3, CallIsUrgent
<1> QED BY <1>1, <1>2

\* prvAddNewTaskToReadyList and the comparison after it.
LEMMA CreationIsUrgent ==
    ASSUME HInv, Urgent, NEW t \in Task,
           \/ Compare(t)
           \/ \E u \in AppTask, p \in Priority : AddNewTask(t, u, p)
    PROVE  Urgent'
<1>1. CASE Compare(t)
  <2>1. /\ t = pxCurrentTCB /\ inTick = "no" /\ pc[t] = "compare"
        /\ UNCHANGED <<uxPriority, pxCurrentTCB, pxReadyTasksLists, xYieldPending>>
    BY <1>1 DEF Compare, At
  <2>2. \A y \in Task : Ready(y)' => Ready(y)
    BY <2>1 DEF Ready
  <2>3. Highest => Highest'
    BY <2>1, <2>2, NothingAbove
  <2>4. ASSUME pc[created[t]] # "none", uxPriority[created[t]] > uxPriority[t]
        PROVE  pc'[pxCurrentTCB'] = "yield"
    <3>1. PICK higher \in BOOLEAN :
            /\ pc[created[t]] # "none" => higher = (uxPriority[t] < uxPriority[created[t]])
            /\ pc' = [pc EXCEPT ![t] = IF higher THEN "yield" ELSE "run"]
      BY <1>1 DEF Compare, Goto
    <3>2. uxPriority[t] < uxPriority[created[t]]
      BY <2>4
    <3> QED BY <2>1, <2>4, <3>1, <3>2, PrioritiesAreNumbers
  <2> QED BY <2>1, <2>3, <2>4 DEF Urgent
<1>2. ASSUME NEW u \in AppTask, NEW p \in Priority, AddNewTask(t, u, p) PROVE Urgent'
  <2>1. /\ u \in Task /\ u # t /\ t = pxCurrentTCB /\ inTick = "no" /\ pc[t] = "insert"
        /\ UNCHANGED <<pxCurrentTCB, xYieldPending>>
        /\ uxPriority' = [uxPriority EXCEPT ![u] = p]
        /\ pxReadyTasksLists' = ReadyAt(u, p)
        /\ pc' = [pc EXCEPT ![u] = "run", ![t] = "compare"]
        /\ created' = [created EXCEPT ![t] = u]
        /\ created \in [Task -> Task \cup {NoTask}]
    BY <1>2 DEF AddNewTask, GoOn, At, AppTask, HInv, Inv, TypeOK
  <2>2. \A q \in Priority : \A y :
          Contains(ReadyAt(u, p)[q].items, y)
              <=> \/ y = u /\ q = p
                  \/ y # u /\ Contains(pxReadyTasksLists[q].items, y)
    BY <2>1, PrioritiesAreNumbers, ReadyAtExact
  <2>3. /\ uxPriority'[u] = p
        /\ \A y \in Task : y # u => uxPriority'[y] = uxPriority[y]
        /\ \A y \in Task : y # u /\ Ready(y)' => Ready(y)
    BY <2>1, <2>2, PrioritiesAreNumbers DEF Ready
  <2>4. CASE p > uxPriority[t]
    <3>1. pc'[t] = "compare" /\ created'[t] = u /\ pc'[u] = "run"
      BY <2>1, PrioritiesAreNumbers
    <3> QED BY <2>1, <2>3, <2>4, <3>1 DEF Urgent
  <2>5. CASE ~(p > uxPriority[t])
    <3>1. p \in Nat /\ \A y \in Task : uxPriority[y] \in Nat
      BY PrioritiesAreNumbers
    <3>2. Highest => Highest'
      BY <2>1, <2>3, <2>5, <3>1 DEF Highest
    <3> QED BY <2>1, <3>2, CallIsUrgent
  <2> QED BY <2>4, <2>5
<1> QED BY <1>1, <1>2

\* xTaskResumeAll notes the yield for a task it moves that is not below the running one.
LEMMA DrainIsUrgent ==
    ASSUME HInv, Urgent, NEW t \in Task, Drain(t)
    PROVE  Urgent'
<1>1. /\ t = pxCurrentTCB /\ inTick = "no" /\ pc[t] \in {"drain", "drained"}
      /\ pending \in Seq(Task) /\ IsInjective(pending) /\ pending # <<>>
      /\ UNCHANGED <<uxPriority, pxCurrentTCB>>
  BY DEF Drain, At, GoOn, HInv, Inv, TypeOK, Homes, Distinct
<1>2. PICK u \in Task : u = Head(pending)
  BY <1>1, TailExact
<1>3. /\ pxReadyTasksLists' = ReadyAt(u, uxPriority[u])
      /\ xYieldPending' = (xYieldPending \/ uxPriority[u] >= uxPriority[t])
  BY <1>1, <1>2 DEF Drain, GoOn
<1>4. \A y \in Task : y # u /\ Ready(y)' => Ready(y)
  BY <1>1, <1>3, OthersStayReady
<1>5. uxPriority[u] \in Nat /\ uxPriority[t] \in Nat
  BY PrioritiesAreNumbers
<1>6. ASSUME ~xYieldPending', Highest PROVE Highest'
  <2>1. ~(uxPriority[u] >= uxPriority[t])
    BY <1>3, <1>6
  <2>2. uxPriority[u] <= uxPriority[pxCurrentTCB]
    BY <1>1, <1>5, <2>1
  <2> QED BY <1>1, <1>4, <1>6, <2>2, OneBelow
<1> QED BY <1>1, <1>3, <1>6, CallIsUrgent

\* A task that runs wakes another, and yields unless that one is not above it.
LEMMA WakingCalls ==
    ASSUME HInv, HInv', Urgent, NEW t \in Task,
           Post(t) \/ \E u \in AppTask : vTaskResume(t, u)
    PROVE  Urgent'
<1>1. /\ t = pxCurrentTCB /\ inTick = "no" /\ pc[t] = "run" /\ UNCHANGED uxPriority
      /\ \A y \in Task : uxPriority[y] \in Nat
  BY PrioritiesAreNumbers DEF Post, vTaskResume, Target, At
<1>2. PICK u, lists, top :
        /\ u \in Task
        /\ \/ lists = ReadyAt(u, uxPriority[u]) /\ top = Record(uxPriority[u])
           \/ lists = pxReadyTasksLists /\ top = uxTopReadyPriority
        /\ \/ SwitchContext(lists, top)
           \/ /\ GoOn(lists, top) /\ UNCHANGED xYieldPending
              /\ ~(uxPriority[u] > uxPriority[t])
  <2>1. CASE Post(t)
    <3>1. Woken \in Task
      BY <2>1, WokenIsBlocked DEF Post
    <3>2. \/ SwitchContext(ListsAfterWake, TopAfterWake)
          \/ /\ GoOn(ListsAfterWake, TopAfterWake) /\ UNCHANGED xYieldPending
             /\ ~(uxPriority[Woken] > uxPriority[t])
      BY <2>1 DEF Post, EndCritical
    <3> QED BY <3>1, <3>2 DEF ListsAfterWake, TopAfterWake
  <2>2. ASSUME NEW u \in AppTask, vTaskResume(t, u)
        PROVE  /\ u \in Task
               /\ \/ SwitchContext(ReadyAt(u, uxPriority[u]), Record(uxPriority[u]))
                  \/ /\ GoOn(ReadyAt(u, uxPriority[u]), Record(uxPriority[u]))
                     /\ UNCHANGED xYieldPending
                     /\ ~(uxPriority[u] > uxPriority[t])
    <3>1. u \in Task /\ uxPriority[u] \in Nat /\ uxPriority[t] \in Nat
      BY <1>1 DEF AppTask
    <3> QED BY <2>2, <3>1 DEF vTaskResume, EndCritical
  <2> QED BY <2>1, <2>2
<1>3. CASE SwitchContext(lists, top)
  BY <1>1, <1>2, <1>3, WakeIsUrgent, SwitchIsUrgent, PrioritiesAreNumbers
<1>4. CASE GoOn(lists, top) /\ UNCHANGED xYieldPending /\ ~(uxPriority[u] > uxPriority[t])
  <2>1. UNCHANGED pxCurrentTCB /\ pxReadyTasksLists' = lists
    BY <1>4 DEF GoOn
  <2>2. \A y \in Task : y # u /\ Ready(y)' => Ready(y)
    <3>1. CASE lists = ReadyAt(u, uxPriority[u])
      BY <1>1, <1>2, <2>1, <3>1, OthersStayReady
    <3>2. CASE lists = pxReadyTasksLists
      BY <1>1, <2>1, <3>2 DEF Ready
    <3> QED BY <1>2, <3>1, <3>2
  <2>3. uxPriority[u] <= uxPriority[pxCurrentTCB]
    BY <1>1, <1>2, <1>4
  <2>4. Highest => Highest'
    BY <1>1, <2>1, <2>2, <2>3, OneBelow
  <2> QED BY <1>1, <1>4, <2>4, CallIsUrgent
<1> QED BY <1>2, <1>3, <1>4

\* A handler does, and yields, notes it, or the task it wakes is below.
LEMMA WakingHandlers ==
    ASSUME HInv, HInv', Urgent,
           PostFromISR \/ \E u \in AppTask : xTaskResumeFromISR(u)
    PROVE  Urgent'
<1>1. /\ inTick = "no" /\ UNCHANGED <<uxPriority, pc, created, inTick, xSwitchRequired>>
      /\ \A y \in Task : uxPriority[y] \in Nat
      /\ pxCurrentTCB \in Task
  BY PrioritiesAreNumbers DEF PostFromISR, xTaskResumeFromISR
<1>2. PICK u, lists, top :
        /\ u \in Task
        /\ \/ lists = ReadyAt(u, uxPriority[u]) /\ top = Record(uxPriority[u])
           \/ lists = pxReadyTasksLists /\ top = uxTopReadyPriority
        /\ \/ SwitchContext(lists, top)
           \/ /\ GoOn(lists, top) /\ (xYieldPending => xYieldPending')
              /\ \/ lists = pxReadyTasksLists \/ xYieldPending'
                 \/ ~(uxPriority[u] > uxPriority[pxCurrentTCB])
  <2>1. CASE PostFromISR
    <3>1. Woken \in Task
      BY <2>1, WokenIsBlocked DEF PostFromISR
    <3>2. \/ SwitchContext(ListsAfterWake, TopAfterWake)
          \/ /\ GoOn(ListsAfterWake, TopAfterWake) /\ (xYieldPending => xYieldPending')
             /\ \/ xYieldPending' \/ ~(uxPriority[Woken] > uxPriority[pxCurrentTCB])
      BY <2>1 DEF PostFromISR
    <3> QED BY <3>1, <3>2 DEF ListsAfterWake, TopAfterWake
  <2>2. ASSUME NEW u \in AppTask, xTaskResumeFromISR(u)
        PROVE  /\ u \in Task
               /\ \/ SwitchContext(ReadyAt(u, uxPriority[u]), Record(uxPriority[u]))
                  \/ /\ GoOn(ReadyAt(u, uxPriority[u]), Record(uxPriority[u]))
                     /\ UNCHANGED xYieldPending
                     /\ ~(uxPriority[u] > uxPriority[pxCurrentTCB])
                  \/ /\ GoOn(pxReadyTasksLists, uxTopReadyPriority)
                     /\ UNCHANGED xYieldPending
    <3>1. u \in Task /\ uxPriority[u] \in Nat /\ uxPriority[pxCurrentTCB] \in Nat
      BY <1>1 DEF AppTask
    <3>2. CASE uxSchedulerSuspended = 0
      BY <2>2, <3>1, <3>2 DEF xTaskResumeFromISR
    <3>3. CASE uxSchedulerSuspended # 0
      BY <2>2, <3>1, <3>3 DEF xTaskResumeFromISR, GoOn
    <3> QED BY <3>2, <3>3
  <2> QED BY <2>1, <2>2
<1>3. CASE SwitchContext(lists, top)
  BY <1>1, <1>2, <1>3, WakeIsUrgent, SwitchIsUrgent, PrioritiesAreNumbers
<1>4. CASE /\ GoOn(lists, top) /\ (xYieldPending => xYieldPending')
           /\ \/ lists = pxReadyTasksLists \/ xYieldPending'
              \/ ~(uxPriority[u] > uxPriority[pxCurrentTCB])
  <2>1. UNCHANGED pxCurrentTCB /\ pxReadyTasksLists' = lists
    BY <1>4 DEF GoOn
  <2>2. CASE lists = pxReadyTasksLists
    <3>1. \A y \in Task : Ready(y)' => Ready(y)
      BY <1>1, <2>1, <2>2 DEF Ready
    <3>2. Highest => Highest'
      BY <1>1, <2>1, <3>1, NothingAbove
    <3> QED BY <1>1, <1>4, <2>1, <3>2, HandlerIsUrgent
  <2>3. CASE lists = ReadyAt(u, uxPriority[u])
    <3>1. \A y \in Task : y # u /\ Ready(y)' => Ready(y)
      BY <1>1, <1>2, <2>1, <2>3, OthersStayReady
    <3>2. CASE ~(uxPriority[u] > uxPriority[pxCurrentTCB])
      <4>1. uxPriority[u] <= uxPriority[pxCurrentTCB]
        BY <1>1, <1>2, <3>2
      <4>2. Highest => Highest'
        BY <1>1, <2>1, <3>1, <4>1, OneBelow
      <4> QED BY <1>1, <1>4, <2>1, <4>2, HandlerIsUrgent
    <3>3. CASE xYieldPending'
      BY <3>3 DEF Urgent
    <3> QED BY <1>4, <2>2, <3>2, <3>3
  <2> QED BY <1>2, <2>2, <2>3
<1> QED BY <1>2, <1>3, <1>4

\* The tick: its caller yields for a task it woke that is not below the running one.
LEMMA TickIsUrgent ==
    ASSUME HInv, HInv', Urgent, TickInterrupt \/ TickUnblock \/ TickSlice
    PROVE  Urgent'
<1>1. /\ \A y \in Task : uxPriority[y] \in Nat
      /\ pxCurrentTCB \in Task /\ pc \in [Task -> PC]
  BY PrioritiesAreNumbers
<1>2. CASE TickInterrupt
  <2>1. /\ inTick = "no"
        /\ UNCHANGED <<pc, created, uxPriority, pxCurrentTCB, xYieldPending>>
        /\ UNCHANGED pxReadyTasksLists
    BY <1>2 DEF TickInterrupt
  <2>2. \A y \in Task : Ready(y)' => Ready(y)
    BY <2>1 DEF Ready
  <2>3. Highest => Highest'
    BY <2>1, <2>2, NothingAbove
  <2> QED BY <2>1, <2>3, HandlerIsUrgent
<1>3. CASE TickUnblock
  <2>1. UNCHANGED <<pc, created, uxPriority, pxCurrentTCB, xYieldPending>>
    BY <1>3 DEF TickUnblock
  <2>2. CASE ~Due
    <3>1. inTick' = "slice" /\ UNCHANGED <<pxReadyTasksLists, xSwitchRequired>>
      BY <1>3, <2>2 DEF TickUnblock
    <3>2. \A y \in Task : Ready(y)' => Ready(y)
      BY <2>1, <3>1 DEF Ready
    <3>3. Highest => Highest'
      BY <2>1, <3>2, NothingAbove
    <3> QED BY <2>1, <3>1, <3>3, HandlerIsUrgent
  <2>3. CASE Due
    <3>1. PICK u \in Task : u = Head(delayed)
      BY <2>3, TailExact DEF HInv, Inv, TypeOK, Homes, Distinct, Due
    <3>2. /\ pxReadyTasksLists' = ReadyAt(u, uxPriority[u])
          /\ xSwitchRequired' = (xSwitchRequired \/ uxPriority[u] >= uxPriority[pxCurrentTCB])
          /\ inTick' = "unblock"
      BY <1>3, <2>3, <3>1 DEF TickUnblock
    <3>3. \A y \in Task : y # u /\ Ready(y)' => Ready(y)
      BY <2>1, <3>2, OthersStayReady
    <3>4. Highest => Highest' \/ xSwitchRequired'
      <4>1. CASE uxPriority[u] >= uxPriority[pxCurrentTCB]
        BY <3>2, <4>1
      <4>2. CASE ~(uxPriority[u] >= uxPriority[pxCurrentTCB])
        <5>1. uxPriority[u] <= uxPriority[pxCurrentTCB]
          BY <1>1, <4>2
        <5> QED BY <2>1, <3>3, <5>1, OneBelow
      <4> QED BY <4>1, <4>2
    <3> QED BY <2>1, <3>2, <3>4, HandlerIsUrgent
  <2> QED BY <2>2, <2>3
<1>4. CASE TickSlice
  <2>1. UNCHANGED <<created, uxPriority>> /\ xSwitchRequired \in BOOLEAN
        /\ xYieldPending \in BOOLEAN
    BY <1>4 DEF TickSlice, HInv, Inv, TypeOK
  <2>2. CASE SwitchContext(pxReadyTasksLists, uxTopReadyPriority)
    BY <2>1, <2>2, SwitchIsUrgent, PrioritiesAreNumbers
  <2>3. CASE ~SwitchContext(pxReadyTasksLists, uxTopReadyPriority)
    <3>1. /\ UNCHANGED <<pxReadyTasksLists, pxCurrentTCB>>
          /\ xYieldPending \/ xSwitchRequired => xYieldPending'
      BY <1>4, <2>1, <2>3 DEF TickSlice
    <3>2. CASE xYieldPending'
      BY <3>2 DEF Urgent
    <3>3. CASE ~xYieldPending'
      <4>1. Highest \/ pc[pxCurrentTCB] \in {"yield", "compare"}
        BY <3>1, <3>3 DEF Urgent
      <4>2. \A y \in Task : Ready(y)' => Ready(y)
        BY <2>1, <3>1 DEF Ready
      <4>3. Highest => Highest'
        BY <2>1, <3>1, <4>2, NothingAbove
      <4>4. CASE Highest
        BY <4>3, <4>4 DEF Urgent
      <4>5. CASE pc[pxCurrentTCB] \in {"yield", "compare"}
        <5>1. UNCHANGED pc
          BY <1>4, <2>3, <4>5 DEF TickSlice
        <5> QED BY <2>1, <3>1, <3>3, <4>3, <5>1 DEF Urgent
      <4> QED BY <4>1, <4>4, <4>5
    <3> QED BY <3>2, <3>3
  <2> QED BY <2>2, <2>3
<1> QED BY <1>2, <1>3, <1>4

\* vTaskDelete makes nobody ready.
LEMMA DeleteIsUrgent ==
    ASSUME HInv, HInv', Urgent, NEW t \in Task, NEW u \in AppTask, vTaskDelete(t, u)
    PROVE  Urgent'
<1>1. /\ u \in Task /\ u # Idle /\ t = pxCurrentTCB /\ inTick = "no" /\ pc[t] = "run"
      /\ UNCHANGED uxPriority
  BY DEF vTaskDelete, Target, At, AppTask
<1>2. CASE SwitchContext(NotReady(u), uxTopReadyPriority)
  <2>1. LegalLists(NotReady(u))
    BY <1>1, NotReadyLegal, PrioritiesAreNumbers
  <2>2. Ordered(NotReady(u), uxPriority', uxTopReadyPriority)
    BY <1>1, NotReadyExact, PrioritiesAreNumbers
  <2> QED BY <1>2, <2>1, <2>2, SwitchIsUrgent, PrioritiesAreNumbers
<1>3. CASE ~SwitchContext(NotReady(u), uxTopReadyPriority)
  <2>1. GoOn(NotReady(u), uxTopReadyPriority) /\ UNCHANGED xYieldPending
    BY <1>3 DEF vTaskDelete
  <2>2. /\ pxReadyTasksLists' = NotReady(u)
        /\ UNCHANGED <<pxCurrentTCB, uxTopReadyPriority>>
    BY <2>1 DEF GoOn
  <2>3. ~Ready(u)' /\ \A y \in Task : y # u => (Ready(y)' <=> Ready(y))
    BY <1>1, <2>2, UnreadyExact
  <2>4. Highest => Highest'
    BY <1>1, <2>2, <2>3, NothingAbove
  <2> QED BY <1>1, <2>1, <2>4, CallIsUrgent
<1> QED BY <1>2, <1>3

\* vTaskPrioritySet yields unless the running task remains the most urgent one.
LEMMA PrioritySetIsUrgent ==
    ASSUME HInv, HInv', Urgent, NEW t \in Task, NEW u \in AppTask, NEW p \in Priority,
           vTaskPrioritySet(t, u, p)
    PROVE  Urgent'
<1>1. /\ u \in Task /\ u # Idle /\ t = pxCurrentTCB /\ inTick = "no" /\ pc[t] = "run"
      /\ uxPriority' = [uxPriority EXCEPT ![u] = p]
      /\ p \in Nat /\ \A y \in Task : uxPriority[y] \in Nat
  BY PrioritiesAreNumbers DEF vTaskPrioritySet, Target, At, AppTask
<1>2. PICK lists, top : /\ lists = IF Ready(u) THEN ReadyAt(u, p) ELSE pxReadyTasksLists
                        /\ top = IF Ready(u) THEN Record(p) ELSE uxTopReadyPriority
  OBVIOUS
<1>3. \/ SwitchContext(lists, top)
      \/ /\ GoOn(lists, top) /\ UNCHANGED xYieldPending
         /\ IF p > uxPriority[u] THEN u = t \/ ~(p >= uxPriority[t]) ELSE u # t
  BY <1>1, <1>2 DEF vTaskPrioritySet, EndCritical, Ready
<1>4. /\ uxPriority'[u] = p
      /\ \A y \in Task : y # u => uxPriority'[y] = uxPriority[y]
  BY <1>1, PrioritiesAreNumbers
<1>5. CASE Ready(u)
  <2>1. lists = ReadyAt(u, p) /\ top = Record(p)
    BY <1>2, <1>5
  <2>2. /\ \A q \in Priority : \A y :
             Contains(ReadyAt(u, p)[q].items, y)
                 <=> \/ y = u /\ q = p
                     \/ y # u /\ Contains(pxReadyTasksLists[q].items, y)
        /\ Ordered(ReadyAt(u, p), [uxPriority EXCEPT ![u] = p], Record(p))
    BY <1>1, ReadyAtExact, PrioritiesAreNumbers
  <2>3. CASE SwitchContext(lists, top)
    <3>1. LegalLists(lists) /\ top \in Priority
      BY <1>1, <2>1, ReadyAtLegal, RecordType, PrioritiesAreNumbers
    <3>2. Ordered(lists, uxPriority', top)
      BY <1>1, <2>1, <2>2
    <3> QED BY <2>3, <3>1, <3>2, SwitchIsUrgent
  <2>4. CASE /\ GoOn(lists, top) /\ UNCHANGED xYieldPending
             /\ IF p > uxPriority[u] THEN u = t \/ ~(p >= uxPriority[t]) ELSE u # t
    <3>1. pxReadyTasksLists' = ReadyAt(u, p) /\ UNCHANGED pxCurrentTCB
      BY <2>1, <2>4 DEF GoOn
    <3>2. \A y \in Task : y # u /\ Ready(y)' => Ready(y)
      BY <1>4, <2>2, <3>1, PrioritiesAreNumbers DEF Ready
    <3>3. ASSUME Highest PROVE Highest'
      <4>1. uxPriority[u] <= uxPriority[t]
        BY <1>1, <1>5, <3>3 DEF Highest
      <4>2. CASE u = t
        <5>1. p > uxPriority[t]
          BY <2>4, <4>2
        <5>2. \A y \in Task : y # u /\ Ready(y)' => uxPriority'[y] <= p
          BY <1>1, <1>4, <3>2, <3>3, <5>1 DEF Highest
        <5> QED BY <1>1, <1>4, <3>1, <4>2, <5>2 DEF Highest
      <4>3. CASE u # t
        <5>1. p <= uxPriority[t]
          BY <1>1, <2>4, <4>1, <4>3
        <5> QED BY <1>1, <1>4, <3>1, <3>2, <3>3, <4>3, <5>1 DEF Highest
      <4> QED BY <4>2, <4>3
    <3> QED BY <1>1, <2>4, <3>1, <3>3, CallIsUrgent
  <2> QED BY <1>3, <2>3, <2>4
<1>6. CASE ~Ready(u)
  <2>1. lists = pxReadyTasksLists /\ top = uxTopReadyPriority
    BY <1>2, <1>6
  <2>2. u # t
    BY <1>1, <1>6, RunningIsReady DEF Resuming
  <2>3. \A q \in Priority : ~Contains(lists[q].items, u)
    BY <1>1, <1>6, <2>1, PrioritiesAreNumbers DEF Ordered, Ready
  <2>4. CASE SwitchContext(lists, top)
    <3>1. Ordered(lists, uxPriority', top)
      BY <1>4, <2>1, <2>3, PrioritiesAreNumbers DEF Ordered
    <3> QED BY <2>1, <2>4, <3>1, SwitchIsUrgent, PrioritiesAreNumbers
  <2>5. CASE GoOn(lists, top) /\ UNCHANGED xYieldPending
    <3>1. UNCHANGED <<pxReadyTasksLists, pxCurrentTCB>>
      BY <2>1, <2>5 DEF GoOn
    <3>2. ~Ready(u)' /\ \A y \in Task : y # u => (Ready(y)' <=> Ready(y))
      BY <1>1, <1>4, <2>1, <2>3, <3>1 DEF Ready
    <3>3. Highest => Highest'
      BY <1>1, <1>4, <2>2, <3>1, <3>2 DEF Highest
    <3> QED BY <1>1, <2>5, <3>1, <3>3, CallIsUrgent
  <2> QED BY <1>3, <2>4, <2>5
<1> QED BY <1>5, <1>6

\* The scheduler starts with the most urgent task.
LEMMA InitUrgent == Init => Urgent
<1> SUFFICES ASSUME Init PROVE Urgent
  OBVIOUS
<1>1. /\ pxCurrentTCB \in Task /\ uxTopReadyPriority \in Priority
      /\ Contains(InitialReady[uxTopReadyPriority], pxCurrentTCB)
      /\ HInv /\ Priority \subseteq Nat
  BY InitLists, InitHomes, PriorityIsNat
<1>2. uxPriority[pxCurrentTCB] = uxTopReadyPriority
  BY <1>1, InitLists
<1>3. \A u \in Task : Ready(u) => uxPriority[u] <= uxTopReadyPriority
  BY <1>1, PrioritiesAreNumbers DEF Ready, Ordered
<1> QED BY <1>2, <1>3 DEF Highest, Urgent

\* Every step leaves the most urgent task running, or notes that it must yield.
LEMMA NextUrgent == HInv /\ Urgent /\ [Next]_vars => Urgent'
<1> SUFFICES ASSUME HInv, Urgent, [Next]_vars PROVE Urgent'
  OBVIOUS
<1>1. HInv'
  BY NextHomes
<1>2. ASSUME NEW t \in Task, Proceed(t) PROVE Urgent'
  BY <1>1, <1>2, ShrinkingSteps, SwitchingSteps, CreationIsUrgent, DrainIsUrgent DEF Proceed
<1>3. ASSUME NEW t \in Task, CallAPI(t) PROVE Urgent'
  BY <1>1, <1>3, ShrinkingSteps, SwitchingSteps, WakingCalls, DeleteIsUrgent,
     PrioritySetIsUrgent DEF CallAPI
<1>4. ASSUME NEW t \in Task, xTaskResumeAll(t) PROVE Urgent'
  BY <1>4, ShrinkingSteps
<1>5. ASSUME UNCHANGED vars PROVE Urgent'
  BY <1>5 DEF vars, Urgent, Highest, Ready
<1>6. ASSUME IdleTask PROVE Urgent'
  <2>1. CASE IdleLoop
    BY <1>5, <2>1 DEF IdleLoop
  <2>2. CASE IdleCheck \/ IdleFree \/ IdleClean
    BY <2>2, ShrinkingSteps, PriorityIsNat
  <2> QED BY <1>6, <2>1, <2>2 DEF IdleTask
<1>7. ASSUME TickInterrupt \/ InTick PROVE Urgent'
  BY <1>1, <1>7, TickIsUrgent DEF InTick
<1>8. ASSUME PostFromISR \/ \E u \in AppTask : xTaskResumeFromISR(u) PROVE Urgent'
  BY <1>1, <1>8, WakingHandlers
<1> QED BY <1>2, <1>3, <1>4, <1>5, <1>6, <1>7, <1>8 DEF Next

\* The fixed-priority promise of the scheduler: whenever a task executes its own code
\* with the scheduler running, it is ready and no ready task is above it, or a yield is
\* pending, whatever tasks, interrupts and ticks did before.
THEOREM MostUrgentTaskRuns == Spec => []RunningIsHighest
<1>1. HInv /\ Urgent => RunningIsHighest
  <2> SUFFICES ASSUME HInv, Urgent, pc[pxCurrentTCB] = "run", inTick = "no"
               PROVE  /\ Ready(pxCurrentTCB)
                      /\ xYieldPending \/ \A p \in Priority :
                           p > uxPriority[pxCurrentTCB] => pxReadyTasksLists[p].items = <<>>
    BY DEF RunningIsHighest, Ready
  <2>1. Ready(pxCurrentTCB)
    BY RunningIsReady DEF Resuming
  <2>2. ASSUME ~xYieldPending, NEW p \in Priority, p > uxPriority[pxCurrentTCB],
               pxReadyTasksLists[p].items # <<>>
        PROVE  FALSE
    <3>1. Highest
      BY <2>2 DEF Urgent
    <3>2. PICK s \in Seq(Task) : s = pxReadyTasksLists[p].items /\ s # <<>>
      BY <2>2 DEF HInv, Inv, TypeOK, IsList
    <3>3. Head(s) \in Task /\ Contains(s, Head(s))
      <4>1. Head(s) \in Task /\ Len(s) \in Nat \ {0} /\ Head(s) = s[1]
        BY <3>2, EmptySeq, HeadTailProperties, LenProperties
      <4> QED BY <4>1 DEF Contains
    <3>4. uxPriority[Head(s)] = p /\ Ready(Head(s))
      BY <3>2, <3>3, PrioritiesAreNumbers DEF Ordered, Ready
    <3>5. p <= uxPriority[pxCurrentTCB]
      BY <3>1, <3>3, <3>4 DEF Highest
    <3>6. p \in Nat /\ uxPriority[pxCurrentTCB] \in Nat
      BY PrioritiesAreNumbers
    <3> QED BY <2>2, <3>5, <3>6
  <2> QED BY <2>1, <2>2
<1>2. Spec => []Urgent
  BY HomesInvariant, InitUrgent, NextUrgent, PTL DEF Spec
<1> QED BY <1>1, <1>2, HomesInvariant, PTL
=============================================================================
