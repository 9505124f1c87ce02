-------------------------- MODULE TaskTimeProofs --------------------------
(***************************************************************************)
(* The last proofs about the scheduler, for any tasks, priorities, width   *)
(* of the tick count and calls: sleeping tasks are on the right side of    *)
(* the wrap of xTickCount and none is skipped, the waiting list is in      *)
(* order of priority, every critical section that is left was entered,     *)
(* with these the assertions of the code hold, and the scheduler           *)
(* implements the task states of TaskStates.                               *)
(***************************************************************************)
EXTENDS TaskListsProofs

-----------------------------------------------------------------------------
(* Lists in order of a value.                                              *)

\* What is left of a sorted list is sorted.
LEMMA SortedKept ==
    ASSUME NEW S, NEW seq \in Seq(S), NEW new \in Seq(S), KeepsOrder(new, seq),
           NEW value, Sorted(seq, value)
    PROVE  Sorted(new, value)
<1>1. DOMAIN new = 1 .. Len(new) /\ DOMAIN seq = 1 .. Len(seq)
  BY LenProperties
<1> SUFFICES ASSUME NEW i \in 1 .. Len(new), NEW j \in 1 .. Len(new), i < j
             PROVE  value[new[i]] <= value[new[j]]
  BY <1>1 DEF Sorted
<1>2. PICK k, l \in 1 .. Len(seq) : k < l /\ new[i] = seq[k] /\ new[j] = seq[l]
  BY DEF KeepsOrder
<1> QED BY <1>1, <1>2 DEF Sorted

\* A list of which no value changes stays sorted.
LEMMA SortedAlike ==
    ASSUME NEW S, NEW seq \in Seq(S), NEW value, NEW other, Sorted(seq, value),
           \A y \in S : Contains(seq, y) => other[y] = value[y]
    PROVE  Sorted(seq, other)
<1>1. DOMAIN seq = 1 .. Len(seq) /\ \A i \in 1 .. Len(seq) : seq[i] \in S
  BY LenProperties, ElementOfSeq
<1>2. \A i \in 1 .. Len(seq) : other[seq[i]] = value[seq[i]]
  BY <1>1 DEF Contains
<1> QED BY <1>1, <1>2 DEF Sorted

\* The first item of a sorted list has the least value.
LEMMA HeadIsLeast ==
    ASSUME NEW S, NEW seq \in Seq(S), NEW value, \A y \in S : value[y] \in Int,
           Sorted(seq, value), NEW y, Contains(seq, y)
    PROVE  seq # <<>> /\ Head(seq) \in S /\ value[Head(seq)] <= value[y]
<1>1. PICK i \in 1 .. Len(seq) : seq[i] = y
  BY DEF Contains
<1>2. /\ seq # <<>> /\ Len(seq) \in Nat /\ DOMAIN seq = 1 .. Len(seq)
      /\ \A k \in 1 .. Len(seq) : seq[k] \in S
  BY <1>1, EmptySeq, LenProperties, ElementOfSeq
<1>3. Head(seq) = seq[1] /\ 1 \in 1 .. Len(seq)
  BY <1>1, <1>2, HeadTailProperties
<1>4. CASE i = 1
  BY <1>1, <1>2, <1>3, <1>4
<1>5. CASE i # 1
  BY <1>1, <1>2, <1>3, <1>5 DEF Sorted
<1> QED BY <1>4, <1>5

\* vListInsert keeps a list sorted.
LEMMA InsertSortedSorted ==
    ASSUME NEW S, NEW seq \in Seq(S), NEW value, \A y \in S : value[y] \in Int,
           NEW x \in S, Sorted(seq, value)
    PROVE  Sorted(InsertSorted(seq, value, x), value)
<1>1. Below(seq, value, value)
  BY DEF Sorted, Below
<1>2. Below(InsertSorted(seq, value, x), value, value)
  BY <1>1, InsertSortedBelow
<1> QED BY <1>2 DEF Sorted, Below
-----------------------------------------------------------------------------
(* The times at which tasks wake.                                          *)

USE DEF readyVars, blockedLists, eventLists, deletionVars, taskVars, switchVars, control,
        tickVars

\* The time of a delayed task is ahead, except while the tick moves the tasks whose time
\* has come; that of one in the overflow list comes after the wrap of xTickCount.
Times ==
    /\ Sorted(delayed, wake) /\ Sorted(overflow, wake)
    /\ \A y \in Task : Contains(delayed, y) =>
         /\ IF inTick = "unblock" THEN wake[y] >= xTickCount ELSE wake[y] > xTickCount
         /\ xNextTaskUnblockTime <= wake[y]
    /\ \A y \in Task : Contains(overflow, y) => wake[y] < xTickCount

LEMMA TimesAreNumbers ==
    ASSUME HInv
    PROVE  /\ delayed \in Seq(Task) /\ overflow \in Seq(Task)
           /\ wake \in [Task -> Tick] /\ xTickCount \in Tick /\ xNextTaskUnblockTime \in Tick
           /\ Tick \subseteq Nat
           /\ \A y \in Task : wake[y] \in Nat /\ wake[y] \in Int
           /\ IsInjective(delayed) /\ IsInjective(overflow)
           /\ inTick \in {"no", "unblock", "slice"}
           /\ pxCurrentTCB \in Task
<1>1. TypeOK /\ Distinct
  BY DEF HInv, Inv, Homes
<1>2. /\ delayed \in Seq(Task) /\ overflow \in Seq(Task)
      /\ wake \in [Task -> Tick] /\ xTickCount \in Tick /\ xNextTaskUnblockTime \in Tick
      /\ inTick \in {"no", "unblock", "slice"} /\ pxCurrentTCB \in Task
  BY <1>1 DEF TypeOK
<1>3. IsInjective(delayed) /\ IsInjective(overflow)
  BY <1>1 DEF Distinct
<1>4. Tick \subseteq Nat
  BY ModulusPositive
<1>5. \A y \in Task : wake[y] \in Nat /\ wake[y] \in Int
  <2> TAKE y \in Task
  <2>1. wake[y] \in Tick
    BY <1>2
  <2>2. wake[y] \in Nat
    BY <1>4, <2>1
  <2> QED BY <2>2
<1> QED BY <1>2, <1>3, <1>4, <1>5

\* prvResetNextTaskUnblockTime: no delayed task is to wake before.
LEMMA NextUnblockNotLate ==
    ASSUME HInv, NEW list \in Seq(Task), Sorted(list, wake), NEW y \in Task, Contains(list, y)
    PROVE  NextUnblock(list) <= wake[y]
<1>1. list # <<>> /\ wake[Head(list)] <= wake[y]
  BY HeadIsLeast, TimesAreNumbers
<1> QED BY <1>1 DEF NextUnblock

\* uxListRemove on a list sorted by time.
LEMMA WithoutSorted ==
    ASSUME HInv, NEW list \in Seq(Task), IsInjective(list), Sorted(list, wake), NEW u
    PROVE  /\ Without(list, u) \in Seq(Task) /\ Sorted(Without(list, u), wake)
           /\ \A y : Contains(Without(list, u), y) => Contains(list, y)
<1>1. /\ Without(list, u) \in Seq(Task) /\ KeepsOrder(Without(list, u), list)
      /\ \A y : Contains(Without(list, u), y) => Contains(list, y)
  BY WithoutExact, WithoutProperties
<1> QED BY <1>1, SortedKept

\* Tasks may leave the lists at any time.
LEMMA LeavingKeepsTimes ==
    ASSUME HInv, Times, NEW u, UNCHANGED <<wake, xTickCount>>,
           inTick' = inTick \/ (inTick # "unblock" /\ inTick' # "unblock"),
           \/ UNCHANGED <<delayed, overflow>>
           \/ delayed' = Without(delayed, u) /\ overflow' = Without(overflow, u),
           xNextTaskUnblockTime' = xNextTaskUnblockTime
             \/ xNextTaskUnblockTime' = NextUnblock(delayed')
    PROVE  Times'
<1>1. /\ delayed' \in Seq(Task) /\ Sorted(delayed', wake)
      /\ \A y : Contains(delayed', y) => Contains(delayed, y)
  BY TimesAreNumbers, WithoutSorted DEF Times
<1>2. /\ Sorted(overflow', wake)
      /\ \A y : Contains(overflow', y) => Contains(overflow, y)
  BY TimesAreNumbers, WithoutSorted DEF Times
<1>3. ASSUME NEW y \in Task, Contains(delayed', y) PROVE xNextTaskUnblockTime' <= wake[y]
  <2>1. NextUnblock(delayed') <= wake[y]
    <3>1. PICK list \in Seq(Task) : list = delayed'
      BY <1>1
    <3> QED BY <1>1, <1>3, <3>1, NextUnblockNotLate
  <2> QED BY <1>1, <1>3, <2>1 DEF Times
<1>4. \A y \in Task : Contains(delayed', y) =>
         IF inTick' = "unblock" THEN wake[y] >= xTickCount ELSE wake[y] > xTickCount
  BY <1>1 DEF Times
<1>5. \A y \in Task : Contains(overflow', y) => wake[y] < xTickCount
  BY <1>2 DEF Times
<1> QED BY <1>1, <1>2, <1>3, <1>4, <1>5 DEF Times

\* Steps that leave the times and the lists of delayed tasks alone.
LEMMA UntimedSteps ==
    ASSUME HInv, Times, NEW t \in Task,
           \/ ExitCritical(t) \/ YieldWithinAPI(t) \/ EnterResumeAll(t) \/ LeaveResumeAll(t)
           \/ AllocateTCB(t) \/ AllocateFails(t) \/ Compare(t)
           \/ \E u \in AppTask, p \in Priority : AddNewTask(t, u, p)
           \/ TaskYield(t) \/ vTaskSuspendAll(t) \/ BlockingCall(t)
           \/ xTaskCreate(t) \/ DeleteSelf(t) \/ xTaskResumeAll(t)
           \/ \E u \in AppTask, p \in Priority : vTaskPrioritySet(t, u, p)
           \/ IdleCheck \/ IdleClean \/ IdleFree \/ TickSlice
    PROVE  Times'
<1>1. /\ UNCHANGED <<wake, xTickCount, delayed, overflow, xNextTaskUnblockTime>>
      /\ inTick' = inTick \/ (inTick = "slice" /\ inTick' = "no")
  <2>1. CASE ExitCritical(t) \/ YieldWithinAPI(t) \/ EnterResumeAll(t) \/ LeaveResumeAll(t)
    BY <2>1 DEF ExitCritical, YieldWithinAPI, EnterResumeAll, LeaveResumeAll
  <2>2. CASE AllocateTCB(t) \/ AllocateFails(t) \/ Compare(t)
    BY <2>2 DEF AllocateTCB, AllocateFails, Compare, SuspendAllThen
  <2>3. CASE \E u \in AppTask, p \in Priority : AddNewTask(t, u, p)
    BY <2>3 DEF AddNewTask
  <2>4. CASE TaskYield(t) \/ vTaskSuspendAll(t) \/ BlockingCall(t) \/ xTaskCreate(t)
    BY <2>4 DEF TaskYield, vTaskSuspendAll, BlockingCall, xTaskCreate, SuspendAllThen
  <2>5. CASE DeleteSelf(t) \/ xTaskResumeAll(t)
    BY <2>5 DEF DeleteSelf, xTaskResumeAll
  <2>6. CASE \E u \in AppTask, p \in Priority : vTaskPrioritySet(t, u, p)
    BY <2>6 DEF vTaskPrioritySet
  <2>7. CASE IdleCheck \/ IdleFree
    BY <2>7 DEF IdleCheck, IdleFree, SuspendAllThen
  <2>8. CASE IdleClean
    BY <2>8 DEF IdleClean
  <2>9. CASE TickSlice
    BY <2>9 DEF TickSlice
  <2> QED BY <2>1, <2>2, <2>3, <2>4, <2>5, <2>6, <2>7, <2>8, <2>9
<1> QED BY <1>1, LeavingKeepsTimes

\* Steps that take a task out of the lists, or look at them again for the next time.
LEMMA LeavingSteps ==
    ASSUME HInv, Times, NEW t \in Task,
           \/ Drain(t) \/ DrainEnd(t) \/ AfterSuspend(t) \/ AfterDelete(t)
           \/ Post(t) \/ PostFromISR
           \/ \E u \in AppTask : vTaskSuspend(t, u) \/ vTaskResume(t, u) \/ vTaskDelete(t, u)
                                 \/ xTaskResumeFromISR(u)
    PROVE  Times'
<1>1. CASE Drain(t)
  <2>1. PICK u : u = Head(pending)
    OBVIOUS
  <2> QED BY <1>1, <2>1, LeavingKeepsTimes DEF Drain, LeaveBlocked
<1>2. CASE DrainEnd(t) \/ AfterSuspend(t) \/ AfterDelete(t)
  <2>1. /\ UNCHANGED <<wake, xTickCount, delayed, overflow, inTick>>
        /\ xNextTaskUnblockTime' = xNextTaskUnblockTime
             \/ xNextTaskUnblockTime' = NextUnblock(delayed)
    BY <1>2 DEF DrainEnd, AfterSuspend, AfterDelete
  <2>2. NextUnblock(delayed') = NextUnblock(delayed)
    BY <2>1 DEF NextUnblock
  <2> QED BY <2>1, <2>2, LeavingKeepsTimes
<1>3. CASE Post(t) \/ PostFromISR
  <2>1. PICK u : u = Woken
    OBVIOUS
  <2>2. /\ UNCHANGED <<wake, xTickCount, inTick, xNextTaskUnblockTime>>
        /\ \/ UNCHANGED <<delayed, overflow>>
           \/ delayed' = Without(delayed, u) /\ overflow' = Without(overflow, u)
    BY <1>3, <2>1 DEF Post, PostFromISR, xTaskRemoveFromEventList, LeaveBlocked
  <2> QED BY <2>2, LeavingKeepsTimes
<1>4. ASSUME NEW u \in AppTask, vTaskSuspend(t, u) \/ vTaskResume(t, u) PROVE Times'
  <2>1. /\ UNCHANGED <<wake, xTickCount, inTick, xNextTaskUnblockTime>>
        /\ delayed' = Without(delayed, u) /\ overflow' = Without(overflow, u)
    BY <1>4 DEF vTaskSuspend, vTaskResume, LeaveBlocked
  <2> QED BY <2>1, LeavingKeepsTimes
<1>5. ASSUME NEW u \in AppTask, vTaskDelete(t, u) PROVE Times'
  <2>1. /\ UNCHANGED <<wake, xTickCount, inTick>>
        /\ delayed' = Without(delayed, u) /\ overflow' = Without(overflow, u)
        /\ xNextTaskUnblockTime' = xNextTaskUnblockTime
             \/ xNextTaskUnblockTime' = NextUnblock(delayed')
    BY <1>5 DEF vTaskDelete
  <2> QED BY <2>1, LeavingKeepsTimes
<1>6. ASSUME NEW u \in AppTask, xTaskResumeFromISR(u) PROVE Times'
  <2>1. /\ UNCHANGED <<wake, xTickCount, inTick, xNextTaskUnblockTime>>
        /\ \/ UNCHANGED <<delayed, overflow>>
           \/ delayed' = Without(delayed, u) /\ overflow' = Without(overflow, u)
    BY <1>6 DEF xTaskResumeFromISR, LeaveBlocked
  <2> QED BY <2>1, LeavingKeepsTimes
<1> QED BY <1>1, <1>2, <1>3, <1>4, <1>5, <1>6

\* prvAddCurrentTaskToDelayedList: less than a turn of the tick count ahead, the wake
\* time is after the tick count, or before it and after the wrap.
LEMMA WakeTimeSide ==
    ASSUME NEW now \in Tick, NEW ticks \in 1 .. portMAX_DELAY,
           NEW then, then = (now + ticks) % TickModulus
    PROVE  then \in Tick /\ then # now
<1> DEFINE M == TickModulus
<1>1. M \in Nat \ {0, 1} /\ now \in 0 .. M - 1 /\ ticks \in 1 .. M - 1
  BY ModulusPositive DEF Tick, portMAX_DELAY
<1> HIDE DEF M
<1>2. CASE now + ticks < M
  <2>1. (now + ticks) % M = now + ticks
    BY <1>1, <1>2
  <2> QED BY <1>1, <1>2, <2>1 DEF M, Tick
<1>3. CASE now + ticks >= M
  <2>1. PICK r : r = now + ticks - M
    OBVIOUS
  <2>2. r \in 0 .. M - 1 /\ now + ticks = M * 1 + r /\ r # now
    BY <1>1, <1>3, <2>1
  <2>3. (now + ticks) % M = r
    BY <1>1, <2>2
  <2> QED BY <1>1, <2>2, <2>3 DEF M, Tick
<1> QED BY <1>1, <1>2, <1>3

\* vTaskDelay and vTaskPlaceOnEventList.
LEMMA BlockingKeepsTimes ==
    ASSUME HInv, Times, NEW t \in Task, NEW n \in 1 .. portMAX_DELAY,
           vTaskDelay(t, n) \/ vTaskPlaceOnEventList(t, n)
    PROVE  Times'
<1>1. /\ Ready(t) /\ inTick = "no" /\ UNCHANGED <<xTickCount, inTick>>
      /\ \E always \in BOOLEAN : AddCurrentToDelayedList(t, n, always)
  BY DEF vTaskDelay, vTaskPlaceOnEventList, At, HInv, Blocking, Blocked
<1>2. ~Contains(delayed, t) /\ ~Contains(overflow, t)
  BY <1>1 DEF HInv, Homes, HomeOK
<1>3. CASE UNCHANGED <<delayed, overflow, wake, xNextTaskUnblockTime>>
  BY <1>1, <1>3 DEF Times
<1>4. CASE ~UNCHANGED <<delayed, overflow, wake, xNextTaskUnblockTime>>
  <2>1. PICK then : then = (xTickCount + n) % TickModulus
    OBVIOUS
  <2>2. /\ wake' = [wake EXCEPT ![t] = then]
        /\ \/ /\ then < xTickCount /\ overflow' = InsertSorted(overflow, wake', t)
              /\ UNCHANGED <<delayed, xNextTaskUnblockTime>>
           \/ /\ ~(then < xTickCount) /\ delayed' = InsertSorted(delayed, wake', t)
              /\ xNextTaskUnblockTime' = Min({then, xNextTaskUnblockTime})
              /\ UNCHANGED overflow
    <3>1. PICK always \in BOOLEAN : AddCurrentToDelayedList(t, n, always)
      BY <1>1
    <3>2. /\ wake' = [wake EXCEPT ![t] = then]
          /\ IF wake'[t] < xTickCount
             THEN /\ overflow' = InsertSorted(overflow, wake', t)
                  /\ UNCHANGED <<delayed, xNextTaskUnblockTime>>
             ELSE /\ delayed' = InsertSorted(delayed, wake', t)
                  /\ xNextTaskUnblockTime' = Min({wake'[t], xNextTaskUnblockTime})
                  /\ UNCHANGED overflow
      BY <1>4, <2>1, <3>1 DEF AddCurrentToDelayedList
    <3>3. wake'[t] = then
      BY <3>2, TimesAreNumbers
    <3> QED BY <3>2, <3>3
  <2>3. then \in Tick /\ then # xTickCount
    BY <2>1, WakeTimeSide, TimesAreNumbers
  <2>4. PICK value : value = wake'
    OBVIOUS
  <2>5. /\ value[t] = then /\ \A y \in Task : y # t => value[y] = wake[y]
        /\ \A y \in Task : value[y] \in Int /\ value[y] \in Nat
    BY <2>2, <2>3, <2>4, TimesAreNumbers
  <2>6. Sorted(delayed, value) /\ Sorted(overflow, value)
    <3>1. \A y \in Task : Contains(delayed, y) => value[y] = wake[y]
      BY <1>2, <2>5
    <3>2. \A y \in Task : Contains(overflow, y) => value[y] = wake[y]
      BY <1>2, <2>5
    <3>3. Sorted(delayed, value)
      <4>1. delayed \in Seq(Task) /\ Sorted(delayed, wake)
        BY TimesAreNumbers DEF Times
      <4> QED BY <3>1, <4>1, SortedAlike
    <3>4. Sorted(overflow, value)
      BY <3>2, SortedAlike, TimesAreNumbers DEF Times
    <3> QED BY <3>3, <3>4
  <2>7. xTickCount \in Nat /\ then \in Nat /\ xNextTaskUnblockTime \in Nat
    BY <2>3, TimesAreNumbers
  <2>8. CASE /\ then < xTickCount /\ overflow' = InsertSorted(overflow, value, t)
             /\ UNCHANGED <<delayed, xNextTaskUnblockTime>>
    <3>1. /\ Sorted(overflow', value)
          /\ \A y : Contains(overflow', y) <=> y = t \/ Contains(overflow, y)
      BY <2>5, <2>6, <2>8, InsertSortedSorted, InsertSortedExact, TimesAreNumbers
    <3>2. \A y \in Task : Contains(overflow', y) => value[y] < xTickCount
      BY <2>5, <2>8, <3>1 DEF Times
    <3>3. \A y \in Task : Contains(delayed, y) =>
            value[y] > xTickCount /\ xNextTaskUnblockTime <= value[y]
      BY <1>1, <1>2, <2>5 DEF Times
    <3> QED BY <1>1, <2>4, <2>6, <2>8, <3>1, <3>2, <3>3 DEF Times
  <2>9. CASE /\ ~(then < xTickCount) /\ delayed' = InsertSorted(delayed, value, t)
             /\ xNextTaskUnblockTime' = Min({then, xNextTaskUnblockTime})
             /\ UNCHANGED overflow
    <3>1. /\ Sorted(delayed', value)
          /\ \A y : Contains(delayed', y) <=> y = t \/ Contains(delayed, y)
      BY <2>5, <2>6, <2>9, InsertSortedSorted, InsertSortedExact, TimesAreNumbers
    <3>2. then > xTickCount
      BY <2>3, <2>7, <2>9
    <3>3. /\ xNextTaskUnblockTime' <= then /\ xNextTaskUnblockTime' <= xNextTaskUnblockTime
          /\ xNextTaskUnblockTime' \in Nat
      BY <2>7, <2>9, MinOfTwo
    <3>4. ASSUME NEW y \in Task, Contains(delayed', y)
          PROVE  value[y] > xTickCount /\ xNextTaskUnblockTime' <= value[y]
      <4>1. CASE y = t
        BY <2>5, <3>2, <3>3, <4>1
      <4>2. CASE y # t
        <5>1. wake[y] > xTickCount /\ xNextTaskUnblockTime <= wake[y] /\ value[y] = wake[y]
          BY <1>1, <2>5, <3>1, <3>4, <4>2 DEF Times
        <5> QED BY <2>5, <2>7, <3>3, <5>1
      <4> QED BY <4>1, <4>2
    <3>5. \A y \in Task : Contains(overflow, y) => value[y] < xTickCount
      BY <1>2, <2>5 DEF Times
    <3> QED BY <1>1, <2>4, <2>6, <2>9, <3>1, <3>4, <3>5 DEF Times
  <2> QED BY <2>2, <2>4, <2>8, <2>9
<1> QED BY <1>3, <1>4

\* xTaskIncrementTick, up to its loop: when the count wraps nobody is left in the delayed
\* list, and the two lists change places.
LEMMA BeginTickKeepsTimes ==
    ASSUME HInv, Times, inTick = "no", BeginTick, UNCHANGED wake
    PROVE  Times'
<1>1. PICK now : now = (xTickCount + 1) % TickModulus
  OBVIOUS
<1>2. /\ xTickCount' = now
      /\ IF now = 0
         THEN /\ delayed' = overflow /\ overflow' = delayed
              /\ xNextTaskUnblockTime' = NextUnblock(overflow)
         ELSE UNCHANGED <<delayed, overflow, xNextTaskUnblockTime>>
      /\ inTick' = IF now >= xNextTaskUnblockTime' THEN "unblock" ELSE "slice"
  BY <1>1 DEF BeginTick
<1>3. /\ now \in Nat /\ (now = 0 \/ now = xTickCount + 1)
      /\ now = 0 => \A y \in Task : ~(wake[y] > xTickCount)
  <2> DEFINE M == TickModulus
  <2>1. M \in Nat \ {0, 1} /\ xTickCount \in 0 .. M - 1
        /\ \A y \in Task : wake[y] \in 0 .. M - 1
    BY ModulusPositive, TimesAreNumbers DEF Tick
  <2>2. now = (xTickCount + 1) % M
    BY <1>1
  <2> HIDE DEF M
  <2>3. CASE xTickCount + 1 < M
    <3>1. now = xTickCount + 1
      BY <2>1, <2>2, <2>3
    <3> QED BY <2>1, <3>1
  <2>4. CASE xTickCount + 1 = M
    <3>1. now = 0
      BY <2>1, <2>2, <2>4
    <3> QED BY <2>1, <2>4, <3>1
  <2> QED BY <2>1, <2>3, <2>4
<1>4. CASE now # 0
  <2>1. /\ now = xTickCount + 1
        /\ UNCHANGED <<delayed, overflow, xNextTaskUnblockTime>>
        /\ inTick' = IF now >= xNextTaskUnblockTime THEN "unblock" ELSE "slice"
        /\ xTickCount \in Nat /\ xNextTaskUnblockTime \in Nat
    BY <1>2, <1>3, <1>4, TimesAreNumbers
  <2>2. ASSUME NEW y \in Task, Contains(delayed, y)
        PROVE  /\ IF inTick' = "unblock" THEN wake[y] >= now ELSE wake[y] > now
               /\ xNextTaskUnblockTime <= wake[y]
    <3>1. /\ wake[y] > xTickCount /\ xNextTaskUnblockTime <= wake[y]
          /\ wake[y] \in Nat
      BY <2>2, TimesAreNumbers DEF Times
    <3> QED BY <2>1, <3>1
  <2>3. ASSUME NEW y \in Task, Contains(overflow, y) PROVE wake[y] < now
    <3>1. wake[y] < xTickCount /\ wake[y] \in Nat
      BY <2>3, TimesAreNumbers DEF Times
    <3> QED BY <2>1, <3>1
  <2> QED BY <1>2, <2>1, <2>2, <2>3 DEF Times
<1>5. CASE now = 0
  <2>1. /\ delayed' = overflow /\ overflow' = delayed
        /\ xNextTaskUnblockTime' = NextUnblock(overflow)
    BY <1>2, <1>5
  <2>2. \A y \in Task : ~Contains(delayed, y)
    BY <1>3, <1>5 DEF Times
  <2>3. ASSUME NEW y \in Task, Contains(overflow, y)
        PROVE  /\ IF inTick' = "unblock" THEN wake[y] >= now ELSE wake[y] > now
               /\ xNextTaskUnblockTime' <= wake[y]
    <3>1. NextUnblock(overflow) <= wake[y]
      BY <2>3, NextUnblockNotLate, TimesAreNumbers DEF Times
    <3>2. wake[y] \in Nat /\ NextUnblock(overflow) \in Nat
      BY NextUnblockType, TimesAreNumbers
    <3>3. CASE now >= xNextTaskUnblockTime'
      BY <1>2, <1>5, <2>1, <3>1, <3>2, <3>3
    <3>4. CASE ~(now >= xNextTaskUnblockTime')
      BY <1>2, <1>5, <2>1, <3>1, <3>2, <3>4
    <3> QED BY <3>3, <3>4
  <2> QED BY <1>2, <2>1, <2>2, <2>3 DEF Times
<1> QED BY <1>4, <1>5

\* The tick, and those that xTaskResumeAll replays.
LEMMA TickKeepsTimes ==
    ASSUME HInv, Times, NEW t \in Task, TickInterrupt \/ TickUnblock \/ ReplayTick(t)
    PROVE  Times'
<1>1. CASE TickInterrupt
  <2>1. CASE BeginTick
    BY <1>1, <2>1, BeginTickKeepsTimes DEF TickInterrupt
  <2>2. CASE ~BeginTick
    <3>1. UNCHANGED <<wake, xTickCount, delayed, overflow, xNextTaskUnblockTime, inTick>>
      BY <1>1, <2>2 DEF TickInterrupt
    <3> QED BY <3>1 DEF Times
  <2> QED BY <2>1, <2>2
<1>2. CASE ReplayTick(t)
  BY <1>2, BeginTickKeepsTimes DEF ReplayTick, At
<1>3. CASE TickUnblock
  <2>1. CASE Due
    <3>1. PICK u : u = Head(delayed)
      OBVIOUS
    <3>2. /\ UNCHANGED <<wake, xTickCount, inTick, xNextTaskUnblockTime>>
          /\ delayed' = Without(delayed, u) /\ overflow' = Without(overflow, u)
      BY <1>3, <2>1, <3>1 DEF TickUnblock, LeaveBlocked
    <3> QED BY <3>2, LeavingKeepsTimes
  <2>2. CASE ~Due
    <3>1. /\ UNCHANGED <<wake, xTickCount, delayed, overflow>>
          /\ inTick' = "slice" /\ xNextTaskUnblockTime' = NextUnblock(delayed)
      BY <1>3, <2>2 DEF TickUnblock
    <3>2. ASSUME NEW y \in Task, Contains(delayed, y)
          PROVE  wake[y] > xTickCount /\ NextUnblock(delayed) <= wake[y]
      <4>1. delayed \in Seq(Task) /\ Sorted(delayed, wake)
        BY TimesAreNumbers DEF Times
      <4>2. /\ delayed # <<>> /\ Head(delayed) \in Task
            /\ wake[Head(delayed)] <= wake[y]
        BY <3>2, <4>1, HeadIsLeast, TimesAreNumbers
      <4>3. ~(xTickCount >= wake[Head(delayed)])
        BY <2>2, <4>2 DEF Due
      <4>4. xTickCount \in Nat /\ wake[y] \in Nat /\ wake[Head(delayed)] \in Nat
        BY <4>2, TimesAreNumbers
      <4> QED BY <4>2, <4>3, <4>4 DEF NextUnblock
    <3> QED BY <3>1, <3>2 DEF Times
  <2> QED BY <2>1, <2>2
<1> QED BY <1>1, <1>2, <1>3

\* At the start nobody sleeps.
LEMMA InitTimes == Init => Times
<1> SUFFICES ASSUME Init PROVE Times
  OBVIOUS
<1>1. delayed = <<>> /\ overflow = <<>>
  BY DEF Init
<1> QED BY <1>1 DEF Times, Sorted, Contains

\* No step loses a time.
LEMMA NextTimes == HInv /\ Times /\ [Next]_vars => Times'
<1> SUFFICES ASSUME HInv, Times, [Next]_vars PROVE Times'
  OBVIOUS
<1>1. ASSUME NEW t \in Task, Proceed(t) PROVE Times'
  <2>1. CASE \E n \in 1 .. portMAX_DELAY : vTaskDelay(t, n) \/ vTaskPlaceOnEventList(t, n)
    BY <2>1, BlockingKeepsTimes
  <2>2. CASE Drain(t) \/ DrainEnd(t) \/ AfterSuspend(t) \/ AfterDelete(t)
    BY <2>2, LeavingSteps
  <2>3. CASE ReplayTick(t)
    BY <2>3, TickKeepsTimes
  <2>4. CASE \/ ExitCritical(t) \/ YieldWithinAPI(t) \/ EnterResumeAll(t)
             \/ LeaveResumeAll(t) \/ AllocateTCB(t) \/ AllocateFails(t) \/ Compare(t)
             \/ \E u \in AppTask, p \in Priority : AddNewTask(t, u, p)
    BY <2>4, UntimedSteps
  <2> QED BY <1>1, <2>1, <2>2, <2>3, <2>4 DEF Proceed
<1>2. ASSUME NEW t \in Task, CallAPI(t) PROVE Times'
  BY <1>2, UntimedSteps, LeavingSteps DEF CallAPI
<1>3. ASSUME NEW t \in Task, xTaskResumeAll(t) PROVE Times'
  BY <1>3, UntimedSteps
<1>4. ASSUME UNCHANGED vars PROVE Times'
  BY <1>4 DEF vars, Times
<1>5. ASSUME IdleTask PROVE Times'
  <2>1. CASE IdleLoop
    BY <1>4, <2>1 DEF IdleLoop
  <2>2. CASE IdleCheck \/ IdleFree \/ IdleClean
    BY <2>2, UntimedSteps, PriorityIsNat
  <2> QED BY <1>5, <2>1, <2>2 DEF IdleTask
<1>6. ASSUME TickInterrupt \/ InTick PROVE Times'
  <2>1. CASE TickInterrupt \/ TickUnblock
    BY <2>1, TickKeepsTimes, PriorityIsNat
  <2>2. CASE TickSlice
    BY <2>2, UntimedSteps, PriorityIsNat
  <2> QED BY <1>6, <2>1, <2>2 DEF InTick
<1>7. ASSUME PostFromISR \/ \E u \in AppTask : xTaskResumeFromISR(u) PROVE Times'
  BY <1>7, LeavingSteps, PriorityIsNat
<1> QED BY <1>1, <1>2, <1>3, <1>4, <1>5, <1>6, <1>7 DEF Next

LEMMA TimesInvariant == Spec => []Times
BY HomesInvariant, InitTimes, NextTimes, PTL DEF Spec

\* Nobody sleeps a whole turn of the tick count too long: the times in the delayed list
\* are ahead, those in the overflow list come after the wrap, for any width of the count
\* and wherever the wrap falls among suspensions, replayed ticks and wake-ups.
THEOREM NobodySleepsTooLong == Spec => []WakeTimesAhead
<1>1. HInv /\ Times => WakeTimesAhead
  <2> SUFFICES ASSUME HInv, Times PROVE WakeTimesAhead
    OBVIOUS
  <2>1. ASSUME NEW list \in Seq(Task), NEW i \in DOMAIN list
        PROVE  list[i] \in Task /\ Contains(list, list[i])
    <3>1. i \in 1 .. Len(list)
      BY LenProperties
    <3> QED BY <3>1, ElementOfSeq DEF Contains
  <2> QED BY <2>1, TimesAreNumbers DEF Times, WakeTimesAhead
<1> QED BY <1>1, HomesInvariant, TimesInvariant, PTL

\* The time up to which xTaskIncrementTick skips its loop is never later than that of the
\* first delayed task, whatever removals, suspensions and deletions leave it stale.
THEOREM NoWakeTimeIsSkipped == Spec => []UnblockTimeNotLate
<1>1. HInv /\ Times => UnblockTimeNotLate
  <2> SUFFICES ASSUME HInv, Times, delayed # <<>>
               PROVE  xNextTaskUnblockTime <= wake[Head(delayed)]
    BY DEF UnblockTimeNotLate
  <2>1. Head(delayed) \in Task /\ Contains(delayed, Head(delayed))
    BY TailExact, TimesAreNumbers
  <2> QED BY <2>1 DEF Times
<1> QED BY <1>1, HomesInvariant, TimesInvariant, PTL
-----------------------------------------------------------------------------
(* Critical sections.                                                      *)

\* Where a task is inside a critical section that it has to leave.
InCritical == {"exit", "freed"} \cup Resuming

\* The critical sections that are entered: one for every task inside one, two for one
\* that yielded inside vPortFree, inside the critical section of vTaskDelete.
Held == {h \in Task \X {1, 2} : IF h[2] = 1 THEN pc[h[1]] \in InCritical
                                ELSE ret[h[1]] = "freed"}

\* uxCriticalNesting counts them all, and those of tasks that were deleted inside one.
Nesting ==
    /\ IsFiniteSet(Held) /\ Cardinality(Held) <= uxCriticalNesting
    /\ \A u \in Task : ret[u] = "freed" => pc[u] = "exit"

\* The other tasks are where they were, or one of them is created or ends.
OthersAsBefore(t) ==
    \A y \in Task : y # t => \/ pc'[y] = pc[y] /\ ret'[y] = ret[y]
                             \/ pc'[y] \in {"none", "run"} /\ ret'[y] # "freed"

LEMMA OthersHoldNoMore ==
    ASSUME Nesting, NEW t \in Task, OthersAsBefore(t)
    PROVE  /\ Held' \subseteq Held \cup {<<t, 1>>, <<t, 2>>}
           /\ <<t, 1>> \in Held' <=> pc'[t] \in InCritical
           /\ <<t, 2>> \in Held' <=> ret'[t] = "freed"
           /\ <<t, 1>> \in Held <=> pc[t] \in InCritical
           /\ <<t, 2>> \in Held <=> ret[t] = "freed"
           /\ \A y \in Task : y # t => (ret'[y] = "freed" => pc'[y] = "exit")
<1>1. ASSUME NEW h \in Held' PROVE h \in Held \/ h = <<t, 1>> \/ h = <<t, 2>>
  <2>1. PICK y \in Task, n \in {1, 2} : h = <<y, n>>
    BY DEF Held
  <2>2. IF n = 1 THEN pc'[y] \in InCritical ELSE ret'[y] = "freed"
    BY <2>1 DEF Held
  <2>3. CASE y = t
    BY <2>1, <2>3
  <2>4. CASE y # t
    <3>1. IF n = 1 THEN pc[y] \in InCritical ELSE ret[y] = "freed"
      BY <2>2, <2>4 DEF OthersAsBefore, InCritical, Resuming
    <3> QED BY <2>1, <3>1 DEF Held
  <2> QED BY <2>3, <2>4
<1>2. /\ <<t, 1>> \in Held' <=> pc'[t] \in InCritical
      /\ <<t, 2>> \in Held' <=> ret'[t] = "freed"
  BY DEF Held
<1>3. /\ <<t, 1>> \in Held <=> pc[t] \in InCritical
      /\ <<t, 2>> \in Held <=> ret[t] = "freed"
  BY DEF Held
<1>4. \A y \in Task : y # t => (ret'[y] = "freed" => pc'[y] = "exit")
  BY DEF Nesting, OthersAsBefore
<1> QED BY <1>1, <1>2, <1>3, <1>4

\* No critical section is entered, and none that was entered is left.
LEMMA QuietNesting ==
    ASSUME Nesting, uxCriticalNesting \in Nat, NEW t \in Task, OthersAsBefore(t),
           pc'[t] \in InCritical => pc[t] \in InCritical, ret'[t] # "freed",
           UNCHANGED uxCriticalNesting
    PROVE  Nesting'
<1>1. Held' \in SUBSET Held
  BY OthersHoldNoMore
<1>2. IsFiniteSet(Held) /\ Cardinality(Held) \in Nat
  BY FS_CardinalityType DEF Nesting
<1>3. IsFiniteSet(Held') /\ Cardinality(Held') <= Cardinality(Held)
  BY <1>1, <1>2, FS_Subset
<1>4. Cardinality(Held') \in Nat /\ Cardinality(Held) <= uxCriticalNesting
  BY <1>3, FS_CardinalityType DEF Nesting
<1>5. Cardinality(Held') <= uxCriticalNesting'
  BY <1>2, <1>3, <1>4
<1>6. \A u \in Task : ret'[u] = "freed" => pc'[u] = "exit"
  BY OthersHoldNoMore
<1> QED BY <1>3, <1>4, <1>5, <1>6 DEF Nesting

\* One critical section is entered.
LEMMA EnteringNesting ==
    ASSUME Nesting, uxCriticalNesting \in Nat, NEW t \in Task, OthersAsBefore(t),
           ret'[t] # "freed", uxCriticalNesting' = uxCriticalNesting + 1
    PROVE  Nesting'
<1> DEFINE more == Held \cup {<<t, 1>>}
<1>1. Held' \in SUBSET more
  BY OthersHoldNoMore
<1>2. IsFiniteSet(Held) /\ Cardinality(Held) \in Nat
  BY FS_CardinalityType DEF Nesting
<1>3. IsFiniteSet(more) /\ Cardinality(more) <= Cardinality(Held) + 1
      /\ Cardinality(more) \in Nat
  <2>1. /\ IsFiniteSet(more)
        /\ Cardinality(more) = IF <<t, 1>> \in Held THEN Cardinality(Held)
                               ELSE Cardinality(Held) + 1
    BY <1>2, FS_AddElement
  <2> QED BY <1>2, <2>1
<1> HIDE DEF more
<1>4. IsFiniteSet(Held') /\ Cardinality(Held') <= Cardinality(more)
  BY <1>1, <1>3, FS_Subset
<1>5. Cardinality(Held') \in Nat /\ Cardinality(Held) <= uxCriticalNesting
  BY <1>4, FS_CardinalityType DEF Nesting
<1>6. Cardinality(Held') <= uxCriticalNesting'
  BY <1>2, <1>3, <1>4, <1>5
<1>7. \A u \in Task : ret'[u] = "freed" => pc'[u] = "exit"
  BY OthersHoldNoMore
<1> QED BY <1>4, <1>5, <1>6, <1>7 DEF Nesting

\* Two are entered: vTaskDelete, and vPortFree inside it.
LEMMA TwiceEnteringNesting ==
    ASSUME Nesting, uxCriticalNesting \in Nat, NEW t \in Task, OthersAsBefore(t),
           pc'[t] = "exit", uxCriticalNesting' = uxCriticalNesting + 2
    PROVE  Nesting'
<1> DEFINE more == Held \cup {<<t, 1>>}
           most == more \cup {<<t, 2>>}
<1>1. Held' \in SUBSET most
  BY OthersHoldNoMore
<1>2. IsFiniteSet(Held) /\ Cardinality(Held) \in Nat
  BY FS_CardinalityType DEF Nesting
<1>3. IsFiniteSet(more) /\ Cardinality(more) <= Cardinality(Held) + 1
      /\ Cardinality(more) \in Nat
  <2>1. /\ IsFiniteSet(more)
        /\ Cardinality(more) = IF <<t, 1>> \in Held THEN Cardinality(Held)
                               ELSE Cardinality(Held) + 1
    BY <1>2, FS_AddElement
  <2> QED BY <1>2, <2>1
<1> HIDE DEF more
<1>4. IsFiniteSet(most) /\ Cardinality(most) <= Cardinality(more) + 1
      /\ Cardinality(most) \in Nat
  <2>1. /\ IsFiniteSet(most)
        /\ Cardinality(most) = IF <<t, 2>> \in more THEN Cardinality(more)
                               ELSE Cardinality(more) + 1
    BY <1>3, FS_AddElement
  <2> QED BY <1>3, <2>1
<1> HIDE DEF most
<1>5. IsFiniteSet(Held') /\ Cardinality(Held') <= Cardinality(most)
  BY <1>1, <1>4, FS_Subset
<1>6. Cardinality(Held') \in Nat /\ Cardinality(Held) <= uxCriticalNesting
  BY <1>5, FS_CardinalityType DEF Nesting
<1>7. Cardinality(Held') <= uxCriticalNesting'
  BY <1>2, <1>3, <1>4, <1>5, <1>6
<1>8. \A u \in Task : ret'[u] = "freed" => pc'[u] = "exit"
  BY OthersHoldNoMore
<1> QED BY <1>5, <1>6, <1>7, <1>8 DEF Nesting

\* One critical section is left, of the two that vTaskDelete may have entered.
LEMMA LeavingNesting ==
    ASSUME Nesting, uxCriticalNesting \in Nat, NEW t \in Task, OthersAsBefore(t),
           pc[t] \in InCritical, ret'[t] # "freed",
           ret[t] = "freed" \/ pc'[t] \notin InCritical,
           uxCriticalNesting' = uxCriticalNesting - 1
    PROVE  Nesting' /\ uxCriticalNesting > 0
<1>1. PICK h \in Held : h = IF ret[t] = "freed" THEN <<t, 2>> ELSE <<t, 1>>
  BY OthersHoldNoMore
<1> DEFINE less == Held \ {h}
<1>2. Held' \in SUBSET less
  BY <1>1, OthersHoldNoMore
<1>3. IsFiniteSet(Held) /\ Cardinality(Held) \in Nat
  BY FS_CardinalityType DEF Nesting
<1>4. IsFiniteSet(less) /\ Cardinality(less) = Cardinality(Held) - 1
  BY <1>3, FS_RemoveElement
<1> HIDE DEF less
<1>5. IsFiniteSet(Held') /\ Cardinality(Held') <= Cardinality(less)
  BY <1>2, <1>4, FS_Subset
<1>6. Cardinality(Held') \in Nat /\ Cardinality(less) \in Nat
      /\ Cardinality(Held) <= uxCriticalNesting
  BY <1>4, <1>5, FS_CardinalityType DEF Nesting
<1>7. Cardinality(Held') <= uxCriticalNesting' /\ uxCriticalNesting > 0
  BY <1>3, <1>4, <1>5, <1>6
<1>8. \A u \in Task : ret'[u] = "freed" => pc'[u] = "exit"
  BY OthersHoldNoMore
<1> QED BY <1>5, <1>6, <1>7, <1>8 DEF Nesting

LEMMA ControlIsTyped ==
    ASSUME HInv
    PROVE  /\ pc \in [Task -> PC] /\ ret \in [Task -> ReturnPoint]
           /\ uxCriticalNesting \in Nat /\ pxCurrentTCB \in Task /\ Idle \in Task
           /\ AppTask \subseteq Task /\ Idle \notin AppTask
BY PriorityIsNat DEF HInv, Inv, TypeOK, AppTask

\* Handlers and the tick leave every task where it is, but for the one that replays.
LEMMA HandlersNest ==
    ASSUME HInv, Nesting,
           \/ TickInterrupt \/ TickUnblock \/ TickSlice
           \/ PostFromISR \/ \E u \in AppTask : xTaskResumeFromISR(u)
    PROVE  Nesting'
<1>1. CASE UNCHANGED <<pc, ret, uxCriticalNesting>>
  BY <1>1 DEF Nesting, Held
<1>2. CASE ~UNCHANGED <<pc, ret, uxCriticalNesting>>
  <2>1. /\ pc[pxCurrentTCB] = "replay" /\ pc' = [pc EXCEPT ![pxCurrentTCB] = "leave"]
        /\ UNCHANGED <<ret, uxCriticalNesting>>
    <3>1. CASE TickInterrupt \/ TickUnblock
      BY <1>2, <3>1 DEF TickInterrupt, TickUnblock
    <3>2. CASE TickSlice
      BY <1>2, <3>2 DEF TickSlice, Goto
    <3>3. CASE PostFromISR
      BY <1>2, <3>3 DEF PostFromISR
    <3>4. ASSUME NEW u \in AppTask, xTaskResumeFromISR(u)
          PROVE  UNCHANGED <<pc, ret, uxCriticalNesting>>
      BY <3>4 DEF xTaskResumeFromISR
    <3> QED BY <1>2, <3>1, <3>2, <3>3, <3>4
  <2>2. /\ pxCurrentTCB \in Task /\ OthersAsBefore(pxCurrentTCB)
        /\ ret[pxCurrentTCB] # "freed"
    BY <2>1, ControlIsTyped DEF OthersAsBefore, Nesting
  <2>3. pc[pxCurrentTCB] \in InCritical
    BY <2>1 DEF InCritical, Resuming
  <2> QED BY <2>1, <2>2, <2>3, QuietNesting, ControlIsTyped
<1> QED BY <1>1, <1>2

\* Steps of the running task that change the place of no other one, and neither enter
\* nor leave a critical section.
LEMMA QuietStepsNest ==
    ASSUME HInv, Nesting, NEW t \in Task,
           \/ YieldWithinAPI(t) \/ Drain(t) \/ DrainEnd(t) \/ ReplayTick(t)
           \/ \E n \in 1 .. portMAX_DELAY : vTaskDelay(t, n) \/ vTaskPlaceOnEventList(t, n)
           \/ AfterSuspend(t) \/ AllocateTCB(t) \/ AllocateFails(t) \/ Compare(t)
           \/ TaskYield(t) \/ vTaskSuspendAll(t) \/ BlockingCall(t) \/ xTaskCreate(t)
           \/ DeleteSelf(t) \/ xTaskResumeAll(t) \/ IdleCheck \/ IdleFree
           \/ \E u \in AppTask : vTaskSuspend(t, u)
    PROVE  Nesting'
<1> DEFINE cur == pxCurrentTCB
<1> USE DEF At, Goto, Call, Return
<1>1. /\ UNCHANGED uxCriticalNesting
      /\ \E where \in PC, back \in ReturnPoint \ {"freed"} :
           /\ pc' = [pc EXCEPT ![cur] = where]
           /\ ret' = [ret EXCEPT ![cur] = back]
           /\ where \in InCritical => pc[cur] \in InCritical
  <2>1. cur \in Task /\ pc \in [Task -> PC] /\ ret \in [Task -> ReturnPoint]
        /\ (pc[cur] # "exit" => ret[cur] # "freed")
        /\ pc = [pc EXCEPT ![cur] = pc[cur]] /\ ret = [ret EXCEPT ![cur] = ret[cur]]
    BY ControlIsTyped DEF Nesting
  <2> USE DEF ReturnPoint, PC, InCritical, Resuming
  <2>2. CASE YieldWithinAPI(t) \/ TaskYield(t)
    BY <2>1, <2>2 DEF YieldWithinAPI, TaskYield
  <2>3. CASE Drain(t) \/ DrainEnd(t) \/ ReplayTick(t)
    <3>1. /\ UNCHANGED <<uxCriticalNesting, ret>> /\ pc[cur] \in Resuming
          /\ \/ pc' = [pc EXCEPT ![cur] = "drained"] \/ pc' = [pc EXCEPT ![cur] = "leave"]
             \/ pc' = [pc EXCEPT ![cur] = "replay"]
      BY <2>1, <2>3 DEF Drain, DrainEnd, ReplayTick, AfterDrain
    <3> QED BY <2>1, <3>1
  <2>4. CASE \E n \in 1 .. portMAX_DELAY : vTaskDelay(t, n) \/ vTaskPlaceOnEventList(t, n)
    <3>1. /\ UNCHANGED <<uxCriticalNesting, ret>> /\ pc[cur] = "block"
          /\ pc' = [pc EXCEPT ![cur] = "resumeAll"]
      BY <2>4 DEF vTaskDelay, vTaskPlaceOnEventList, Blocked
    <3> QED BY <2>1, <3>1
  <2>5. CASE AfterSuspend(t)
    BY <2>1, <2>5 DEF AfterSuspend
  <2>6. CASE AllocateTCB(t) \/ AllocateFails(t)
    BY <2>1, <2>6 DEF AllocateTCB, AllocateFails, SuspendAllThen
  <2>7. CASE Compare(t)
    <3>1. /\ UNCHANGED <<uxCriticalNesting, ret>> /\ pc[cur] = "compare"
          /\ \/ pc' = [pc EXCEPT ![cur] = "yield"] \/ pc' = [pc EXCEPT ![cur] = "run"]
      BY <2>7 DEF Compare
    <3> QED BY <2>1, <3>1
  <2>8. CASE vTaskSuspendAll(t) \/ BlockingCall(t) \/ xTaskCreate(t)
    BY <2>1, <2>8 DEF vTaskSuspendAll, BlockingCall, xTaskCreate, SuspendAllThen
  <2>9. CASE DeleteSelf(t) \/ xTaskResumeAll(t)
    BY <2>1, <2>9 DEF DeleteSelf, xTaskResumeAll
  <2>10. CASE IdleCheck \/ IdleFree
    BY <2>1, <2>10 DEF IdleCheck, IdleFree, SuspendAllThen
  <2>11. ASSUME NEW u \in AppTask, vTaskSuspend(t, u)
         PROVE  /\ UNCHANGED uxCriticalNesting
                /\ pc' = [pc EXCEPT ![cur] = "reset"]
                /\ \/ ret' = [ret EXCEPT ![cur] = "yield"]
                   \/ ret' = [ret EXCEPT ![cur] = "run"]
    BY <2>11 DEF vTaskSuspend, Target
  <2>12. CASE \E u \in AppTask : vTaskSuspend(t, u)
    BY <2>1, <2>11, <2>12
  <2> QED BY <2>2, <2>3, <2>4, <2>5, <2>6, <2>7, <2>8, <2>9, <2>10, <2>12
<1>2. OthersAsBefore(cur) /\ ret'[cur] # "freed" /\ cur \in Task
      /\ (pc'[cur] \in InCritical => pc[cur] \in InCritical)
  BY <1>1, ControlIsTyped DEF OthersAsBefore
<1> QED BY <1>1, <1>2, QuietNesting, ControlIsTyped

\* A call that ends its critical section, or yields in it.
LEMMA EndCriticalNests ==
    ASSUME HInv, Nesting, NEW t \in Task, NEW lists, NEW top, NEW yields,
           EndCritical(t, lists, top, yields)
    PROVE  Nesting'
<1>1. CASE UNCHANGED <<pc, ret, uxCriticalNesting>>
  BY <1>1 DEF Nesting, Held
<1>2. CASE ~UNCHANGED <<pc, ret, uxCriticalNesting>>
  <2>1. /\ pc' = [pc EXCEPT ![t] = "exit"] /\ ret' = [ret EXCEPT ![t] = "run"]
        /\ uxCriticalNesting' = uxCriticalNesting + 1
    BY <1>2 DEF EndCritical, Call
  <2>2. OthersAsBefore(t) /\ ret'[t] # "freed"
    BY <2>1, ControlIsTyped DEF OthersAsBefore
  <2> QED BY <2>1, <2>2, EnteringNesting, ControlIsTyped
<1> QED BY <1>1, <1>2

\* Steps of the running task that enter or leave a critical section.
LEMMA SectionStepsNest ==
    ASSUME HInv, Nesting, NEW t \in Task,
           \/ EnterResumeAll(t) \/ LeaveResumeAll(t) \/ ExitCritical(t) \/ AfterDelete(t)
    PROVE  Nesting'
<1>1. /\ pc \in [Task -> PC] /\ ret \in [Task -> ReturnPoint]
      /\ (pc[t] # "exit" => ret[t] # "freed") /\ uxCriticalNesting \in Nat
  BY ControlIsTyped DEF Nesting
<1> USE DEF At, Goto, Call, Return, ReturnPoint, InCritical, Resuming
<1>2. CASE EnterResumeAll(t)
  <2>1. OthersAsBefore(t) /\ ret'[t] # "freed" /\ pc[t] = "resumeAll"
    BY <1>1, <1>2 DEF EnterResumeAll, OthersAsBefore
  <2>2. CASE uxCriticalNesting' = uxCriticalNesting + 1
    BY <1>1, <2>1, <2>2, EnteringNesting
  <2>3. CASE uxCriticalNesting' # uxCriticalNesting + 1
    <3>1. UNCHANGED uxCriticalNesting /\ pc'[t] = ret[t] /\ ret[t] # "freed"
      BY <1>1, <1>2, <2>1, <2>3 DEF EnterResumeAll
    <3>2. pc'[t] \notin InCritical
      BY <1>1, <3>1
    <3> QED BY <1>1, <2>1, <3>1, <3>2, QuietNesting
  <2> QED BY <2>2, <2>3
<1>3. CASE LeaveResumeAll(t)
  <2>1. OthersAsBefore(t) /\ ret'[t] # "freed" /\ pc[t] = "leave" /\ ret[t] # "freed"
    BY <1>1, <1>3 DEF LeaveResumeAll, OthersAsBefore
  <2>2. CASE UNCHANGED uxCriticalNesting
    BY <1>1, <2>1, <2>2, QuietNesting
  <2>3. CASE ~UNCHANGED uxCriticalNesting
    <3>1. uxCriticalNesting' = uxCriticalNesting - 1 /\ pc'[t] = ret[t]
      BY <1>1, <1>3, <2>3 DEF LeaveResumeAll
    <3>2. pc'[t] \notin InCritical /\ pc[t] \in InCritical
      BY <1>1, <2>1, <3>1
    <3> QED BY <1>1, <2>1, <3>1, <3>2, LeavingNesting
  <2> QED BY <2>2, <2>3
<1>4. CASE ExitCritical(t)
  <2>1. /\ OthersAsBefore(t) /\ ret'[t] # "freed" /\ pc[t] = "exit" /\ pc'[t] = ret[t]
        /\ uxCriticalNesting' = uxCriticalNesting - 1
    BY <1>1, <1>4 DEF ExitCritical, OthersAsBefore
  <2>2. /\ pc[t] \in InCritical
        /\ ret[t] = "freed" \/ pc'[t] \notin InCritical
    BY <1>1, <2>1
  <2> QED BY <1>1, <2>1, <2>2, LeavingNesting
<1>5. CASE AfterDelete(t)
  <2>1. /\ OthersAsBefore(t) /\ ret'[t] # "freed" /\ pc[t] = "freed" /\ pc'[t] = "run"
        /\ uxCriticalNesting' = uxCriticalNesting - 1
    BY <1>1, <1>5 DEF AfterDelete, OthersAsBefore
  <2>2. pc[t] \in InCritical /\ pc'[t] \notin InCritical
    BY <2>1
  <2> QED BY <1>1, <2>1, <2>2, LeavingNesting
<1> QED BY <1>2, <1>3, <1>4, <1>5

\* Steps that make or end another task.
LEMMA LifeStepsNest ==
    ASSUME HInv, Nesting, NEW t \in Task,
           \/ \E u \in AppTask, p \in Priority : AddNewTask(t, u, p)
           \/ \E u \in AppTask : vTaskDelete(t, u)
           \/ IdleClean
    PROVE  Nesting'
<1>1. /\ pc \in [Task -> PC] /\ ret \in [Task -> ReturnPoint]
      /\ \A y \in Task : ret[y] = "freed" => pc[y] = "exit"
      /\ uxCriticalNesting \in Nat /\ AppTask \subseteq Task /\ Idle \in Task
  BY ControlIsTyped DEF Nesting
<1> USE DEF At, InCritical, Resuming
<1>2. ASSUME NEW u \in AppTask, NEW p \in Priority, AddNewTask(t, u, p) PROVE Nesting'
  <2>1. /\ pc' = [pc EXCEPT ![u] = "run", ![t] = "compare"] /\ pc[u] = "none"
        /\ pc[t] = "insert" /\ UNCHANGED <<ret, uxCriticalNesting>>
    BY <1>2 DEF AddNewTask
  <2>2. ret[u] # "freed" /\ ret[t] # "freed" /\ u \in Task
    BY <1>1, <2>1
  <2>3. OthersAsBefore(t) /\ ret'[t] # "freed" /\ pc'[t] \notin InCritical
    BY <1>1, <2>1, <2>2 DEF OthersAsBefore
  <2> QED BY <1>1, <2>1, <2>3, QuietNesting
<1>3. ASSUME NEW u \in AppTask, vTaskDelete(t, u) PROVE Nesting'
  <2>1. u \in Task /\ u # t /\ pc[t] = "run" /\ ret[t] # "freed"
    BY <1>1, <1>3 DEF vTaskDelete, Target
  <2>2. CASE /\ uxCriticalNesting' = uxCriticalNesting + 2
             /\ pc' = [pc EXCEPT ![u] = "none", ![t] = "exit"]
             /\ ret' = [ret EXCEPT ![u] = "run", ![t] = "freed"]
    <3>1. OthersAsBefore(t) /\ pc'[t] = "exit"
      BY <1>1, <2>1, <2>2 DEF OthersAsBefore
    <3> QED BY <1>1, <2>2, <3>1, TwiceEnteringNesting
  <2>3. CASE /\ UNCHANGED uxCriticalNesting
             /\ pc' = [pc EXCEPT ![u] = "none"]
             /\ ret' = [ret EXCEPT ![u] = "run"]
    <3>1. OthersAsBefore(t) /\ pc'[t] = "run" /\ ret'[t] # "freed"
      BY <1>1, <2>1, <2>3 DEF OthersAsBefore
    <3> QED BY <1>1, <2>3, <3>1, QuietNesting
  <2> QED BY <1>3, <2>2, <2>3 DEF vTaskDelete
<1>4. CASE IdleClean
  <2>1. PICK u : u = Head(terminating)
    OBVIOUS
  <2>2. /\ pc' = [pc EXCEPT ![u] = "none", ![Idle] = "freeStack"]
        /\ ret' = [ret EXCEPT ![u] = "run"] /\ pc[Idle] = "clean"
        /\ UNCHANGED uxCriticalNesting
    BY <1>4, <2>1 DEF IdleClean
  <2>3. OthersAsBefore(Idle) /\ ret'[Idle] # "freed" /\ pc'[Idle] = "freeStack"
    BY <1>1, <2>2 DEF OthersAsBefore
  <2> QED BY <1>1, <2>2, <2>3, QuietNesting
<1> QED BY <1>2, <1>3, <1>4

\* At the start no task is inside a critical section.
LEMMA InitNesting == Init => Nesting
<1> SUFFICES ASSUME Init PROVE Nesting
  OBVIOUS
<1>1. /\ \A u \in Task : pc[u] \in {"run", "none"} /\ ret[u] = "run"
      /\ uxCriticalNesting = 0
  BY DEF Init
<1>2. Held = {}
  BY <1>1 DEF Held, InCritical, Resuming
<1> QED BY <1>1, <1>2, FS_EmptySet DEF Nesting

\* Every step counts the critical sections it enters and leaves.
LEMMA NextNesting == HInv /\ Nesting /\ [Next]_vars => Nesting'
<1> SUFFICES ASSUME HInv, Nesting, [Next]_vars PROVE Nesting'
  OBVIOUS
<1>1. ASSUME NEW t \in Task, Proceed(t) PROVE Nesting'
  <2>1. CASE \/ ExitCritical(t) \/ EnterResumeAll(t) \/ LeaveResumeAll(t) \/ AfterDelete(t)
    BY <2>1, SectionStepsNest
  <2>2. CASE \E u \in AppTask, p \in Priority : AddNewTask(t, u, p)
    BY <2>2, LifeStepsNest
  <2>3. CASE \/ YieldWithinAPI(t) \/ Drain(t) \/ DrainEnd(t) \/ ReplayTick(t)
             \/ \E n \in 1 .. portMAX_DELAY :
                  vTaskDelay(t, n) \/ vTaskPlaceOnEventList(t, n)
             \/ AfterSuspend(t) \/ AllocateTCB(t) \/ AllocateFails(t) \/ Compare(t)
    BY <2>3, QuietStepsNest
  <2> QED BY <1>1, <2>1, <2>2, <2>3 DEF Proceed
<1>2. ASSUME NEW t \in Task, CallAPI(t) PROVE Nesting'
  <2>1. CASE Post(t)
    BY <2>1, EndCriticalNests DEF Post
  <2>2. ASSUME NEW u \in AppTask, vTaskResume(t, u) PROVE Nesting'
    BY <2>2, EndCriticalNests DEF vTaskResume
  <2>3. ASSUME NEW u \in AppTask, NEW p \in Priority, vTaskPrioritySet(t, u, p)
        PROVE  Nesting'
    <3>1. PICK lists, top, yields : EndCritical(t, lists, top, yields)
      BY <2>3 DEF vTaskPrioritySet
    <3> QED BY <3>1, EndCriticalNests
  <2>4. CASE \E u \in AppTask : vTaskDelete(t, u)
    BY <2>4, LifeStepsNest
  <2>5. CASE \/ TaskYield(t) \/ vTaskSuspendAll(t) \/ BlockingCall(t) \/ xTaskCreate(t)
             \/ DeleteSelf(t) \/ \E u \in AppTask : vTaskSuspend(t, u)
    BY <2>5, QuietStepsNest
  <2> QED BY <1>2, <2>1, <2>2, <2>3, <2>4, <2>5 DEF CallAPI
<1>3. ASSUME NEW t \in Task, xTaskResumeAll(t) PROVE Nesting'
  BY <1>3, QuietStepsNest
<1>4. ASSUME UNCHANGED vars PROVE Nesting'
  BY <1>4 DEF vars, Nesting, Held
<1>5. ASSUME IdleTask PROVE Nesting'
  <2>1. CASE IdleLoop
    BY <1>4, <2>1 DEF IdleLoop
  <2>2. CASE IdleCheck \/ IdleFree
    BY <2>2, QuietStepsNest, PriorityIsNat
  <2>3. CASE IdleClean
    BY <2>3, LifeStepsNest, PriorityIsNat
  <2> QED BY <1>5, <2>1, <2>2, <2>3 DEF IdleTask
<1>6. ASSUME TickInterrupt \/ InTick PROVE Nesting'
  BY <1>6, HandlersNest DEF InTick
<1>7. ASSUME PostFromISR \/ \E u \in AppTask : xTaskResumeFromISR(u) PROVE Nesting'
  BY <1>7, HandlersNest
<1> QED BY <1>1, <1>2, <1>3, <1>4, <1>5, <1>6, <1>7 DEF Next

LEMMA NestingInvariant == Spec => []Nesting
BY HomesInvariant, InitNesting, NextNesting, PTL DEF Spec

\* The idle task goes to take a deleted task only from a list that it found not empty.
CleanUpFound ==
    /\ pc[Idle] = "clean" => terminating # <<>> /\ ret[Idle] # "clean"
    /\ ret[Idle] = "clean" => terminating # <<>>

\* The idle task stays where it is, returns, or goes elsewhere.
IdleMoves ==
    \/ pc'[Idle] = pc[Idle] /\ ret'[Idle] = ret[Idle]
    \/ pc'[Idle] = ret[Idle] /\ ret'[Idle] = "run"
    \/ pc'[Idle] # "clean" /\ (ret'[Idle] = "clean" => ret[Idle] = "clean")

\* Nobody but the idle task takes a task from the list.
LEMMA IdleMovesKeep ==
    ASSUME CleanUpFound, IdleMoves,
           terminating' = terminating \/ terminating' # <<>>
    PROVE  CleanUpFound'
BY DEF CleanUpFound, IdleMoves

\* A step of one task leaves the idle task where it is, or is its own.
LEMMA OneMoves ==
    ASSUME HInv, NEW t \in Task, NEW where, NEW back,
           pc' = [pc EXCEPT ![t] = where], ret' = [ret EXCEPT ![t] = back],
           \/ where = pc[t] /\ back = ret[t]
           \/ where = ret[t] /\ back = "run"
           \/ where # "clean" /\ (back = "clean" => ret[t] = "clean")
    PROVE  IdleMoves
<1>1. pc \in [Task -> PC] /\ ret \in [Task -> ReturnPoint] /\ Idle \in Task
  BY ControlIsTyped
<1>2. CASE t = Idle
  BY <1>1, <1>2 DEF IdleMoves
<1>3. CASE t # Idle
  BY <1>1, <1>3 DEF IdleMoves
<1> QED BY <1>2, <1>3

\* Nothing but a call to the scheduler is between the look and the taking.
LEMMA ProceedingMoves ==
    ASSUME HInv, NEW t \in Task, Proceed(t)
    PROVE  IdleMoves /\ UNCHANGED terminating
<1> USE DEF At, Goto, Call, Return, deletionVars
<1>1. /\ pc \in [Task -> PC] /\ ret \in [Task -> ReturnPoint]
      /\ ret = [ret EXCEPT ![t] = ret[t]] /\ pc = [pc EXCEPT ![t] = pc[t]]
      /\ Idle \in Task /\ AppTask \subseteq Task /\ Idle \notin AppTask
  BY ControlIsTyped
<1>2. CASE ExitCritical(t) \/ EnterResumeAll(t) \/ LeaveResumeAll(t) \/ AfterDelete(t)
  <2>1. CASE ExitCritical(t)
    BY <1>1, <2>1, OneMoves DEF ExitCritical
  <2>2. CASE EnterResumeAll(t)
    BY <1>1, <2>2, OneMoves DEF EnterResumeAll
  <2>3. CASE LeaveResumeAll(t)
    BY <1>1, <2>3, OneMoves DEF LeaveResumeAll
  <2>4. CASE AfterDelete(t)
    BY <1>1, <2>4, OneMoves DEF AfterDelete
  <2> QED BY <1>2, <2>1, <2>2, <2>3, <2>4
<1>3. CASE Drain(t) \/ DrainEnd(t) \/ ReplayTick(t)
  <2>1. /\ UNCHANGED <<ret, terminating>>
        /\ \/ pc' = [pc EXCEPT ![t] = "drained"] \/ pc' = [pc EXCEPT ![t] = "leave"]
           \/ pc' = [pc EXCEPT ![t] = "replay"] \/ UNCHANGED pc
    BY <1>3 DEF Drain, DrainEnd, ReplayTick, AfterDrain
  <2> QED BY <1>1, <2>1, OneMoves
<1>4. CASE \E n \in 1 .. portMAX_DELAY : vTaskDelay(t, n) \/ vTaskPlaceOnEventList(t, n)
  <2>1. UNCHANGED <<ret, terminating>> /\ pc' = [pc EXCEPT ![t] = "resumeAll"]
    BY <1>4 DEF vTaskDelay, vTaskPlaceOnEventList, Blocked
  <2> QED BY <1>1, <2>1, OneMoves
<1>5. CASE YieldWithinAPI(t) \/ AfterSuspend(t)
  BY <1>1, <1>5, OneMoves DEF YieldWithinAPI, AfterSuspend
<1>6. CASE AllocateTCB(t) \/ AllocateFails(t)
  BY <1>1, <1>6, OneMoves DEF AllocateTCB, AllocateFails, SuspendAllThen
<1>7. CASE Compare(t)
  <2>1. /\ UNCHANGED <<ret, terminating>>
        /\ \/ pc' = [pc EXCEPT ![t] = "yield"] \/ pc' = [pc EXCEPT ![t] = "run"]
    BY <1>7 DEF Compare
  <2> QED BY <1>1, <2>1, OneMoves
<1>8. ASSUME NEW u \in AppTask, NEW p \in Priority, AddNewTask(t, u, p)
      PROVE  IdleMoves /\ UNCHANGED terminating
  <2>1. /\ UNCHANGED <<ret, terminating>> /\ u # Idle
        /\ pc' = [pc EXCEPT ![u] = "run", ![t] = "compare"]
    BY <1>1, <1>8 DEF AddNewTask
  <2>2. pc'[Idle] = pc[Idle] \/ pc'[Idle] = "compare"
    BY <1>1, <2>1
  <2> QED BY <2>1, <2>2 DEF IdleMoves
<1> QED BY <1>2, <1>3, <1>4, <1>5, <1>6, <1>7, <1>8 DEF Proceed

\* The calls of tasks, the tick and the handlers do not take a deleted task either.
LEMMA CallingMoves ==
    ASSUME HInv, NEW t \in Task, CallAPI(t) \/ xTaskResumeAll(t)
    PROVE  IdleMoves /\ (terminating' = terminating \/ terminating' # <<>>)
<1> USE DEF At, Goto, Call, Return, deletionVars
<1>1. /\ pc \in [Task -> PC] /\ ret \in [Task -> ReturnPoint]
      /\ ret = [ret EXCEPT ![t] = ret[t]] /\ pc = [pc EXCEPT ![t] = pc[t]]
      /\ Idle \in Task /\ AppTask \subseteq Task /\ Idle \notin AppTask
      /\ terminating \in Seq(Task)
  BY ControlIsTyped DEF HInv, Inv, TypeOK
<1>2. ASSUME NEW lists, NEW top, NEW yields, EndCritical(t, lists, top, yields)
      PROVE  IdleMoves
  <2>1. \/ UNCHANGED <<pc, ret>>
        \/ pc' = [pc EXCEPT ![t] = "exit"] /\ ret' = [ret EXCEPT ![t] = "run"]
    BY <1>2 DEF EndCritical, control
  <2> QED BY <1>1, <2>1, OneMoves DEF IdleMoves
<1>3. CASE Post(t)
  BY <1>2, <1>3 DEF Post
<1>4. ASSUME NEW u \in AppTask, vTaskResume(t, u)
      PROVE  IdleMoves /\ UNCHANGED terminating
  BY <1>2, <1>4 DEF vTaskResume
<1>5. ASSUME NEW u \in AppTask, NEW p \in Priority, vTaskPrioritySet(t, u, p)
      PROVE  IdleMoves /\ UNCHANGED terminating
  <2>1. PICK lists, top, yields : EndCritical(t, lists, top, yields)
    BY <1>5 DEF vTaskPrioritySet
  <2> QED BY <1>2, <1>5, <2>1 DEF vTaskPrioritySet
<1>6. ASSUME NEW u \in AppTask, vTaskDelete(t, u)
      PROVE  IdleMoves /\ UNCHANGED terminating
  <2>1. /\ u # Idle /\ UNCHANGED terminating
        /\ \/ /\ pc' = [pc EXCEPT ![u] = "none", ![t] = "exit"]
              /\ ret' = [ret EXCEPT ![u] = "run", ![t] = "freed"]
           \/ /\ pc' = [pc EXCEPT ![u] = "none"]
              /\ ret' = [ret EXCEPT ![u] = "run"]
    BY <1>1, <1>6 DEF vTaskDelete
  <2>2. \/ pc'[Idle] = pc[Idle] /\ ret'[Idle] = ret[Idle]
        \/ pc'[Idle] = "exit" /\ ret'[Idle] = "freed"
    BY <1>1, <2>1
  <2> QED BY <2>1, <2>2 DEF IdleMoves
<1>7. CASE DeleteSelf(t)
  <2>1. pc' = [pc EXCEPT ![t] = "yield"] /\ UNCHANGED ret /\ terminating' # <<>>
    BY <1>1, <1>7 DEF DeleteSelf
  <2> QED BY <1>1, <2>1, OneMoves
<1>8. ASSUME NEW u \in AppTask, vTaskSuspend(t, u)
      PROVE  IdleMoves /\ UNCHANGED terminating
  <2>1. /\ UNCHANGED terminating /\ pc' = [pc EXCEPT ![t] = "reset"]
        /\ \/ ret' = [ret EXCEPT ![t] = "yield"]
           \/ ret' = [ret EXCEPT ![t] = "run"]
    BY <1>8 DEF vTaskSuspend, Target
  <2> QED BY <1>1, <2>1, OneMoves
<1>9. CASE TaskYield(t) \/ vTaskSuspendAll(t) \/ xTaskResumeAll(t)
  BY <1>1, <1>9, OneMoves DEF TaskYield, vTaskSuspendAll, xTaskResumeAll, control, IdleMoves,
                              SuspendAllThen
<1>10. CASE BlockingCall(t) \/ xTaskCreate(t)
  BY <1>1, <1>10, OneMoves DEF BlockingCall, xTaskCreate, SuspendAllThen
<1> QED BY <1>3, <1>4, <1>5, <1>6, <1>7, <1>8, <1>9, <1>10 DEF CallAPI

LEMMA NextCleanUp == HInv /\ CleanUpFound /\ [Next]_vars => CleanUpFound'
<1> SUFFICES ASSUME HInv, CleanUpFound, [Next]_vars PROVE CleanUpFound'
  OBVIOUS
<1>0. pc \in [Task -> PC] /\ ret \in [Task -> ReturnPoint] /\ Idle \in Task
  BY ControlIsTyped
<1>1. ASSUME NEW t \in Task, Proceed(t) PROVE CleanUpFound'
  BY <1>1, ProceedingMoves, IdleMovesKeep
<1>2. ASSUME NEW t \in Task, CallAPI(t) \/ xTaskResumeAll(t) PROVE CleanUpFound'
  BY <1>2, CallingMoves, IdleMovesKeep
<1>3. CASE UNCHANGED vars
  BY <1>3 DEF vars, control, deletionVars, CleanUpFound
<1>4. CASE IdleTask
  <2>1. CASE IdleLoop
    BY <1>3, <2>1 DEF IdleLoop
  <2>2. CASE IdleCheck
    <3>1. /\ pc' = [pc EXCEPT ![Idle] = "resumeAll"] /\ UNCHANGED terminating
          /\ ret' = [ret EXCEPT ![Idle] = IF terminating = <<>> THEN "run" ELSE "clean"]
      BY <2>2 DEF IdleCheck, SuspendAllThen, Call, deletionVars
    <3> QED BY <1>0, <3>1 DEF CleanUpFound
  <2>3. CASE IdleFree
    <3>1. /\ pc' = [pc EXCEPT ![Idle] = "resumeAll"] /\ UNCHANGED terminating
          /\ \/ ret' = [ret EXCEPT ![Idle] = "freeTCB"] \/ ret' = [ret EXCEPT ![Idle] = "run"]
      BY <2>3 DEF IdleFree, SuspendAllThen, Call, deletionVars
    <3> QED BY <1>0, <3>1 DEF CleanUpFound
  <2>4. CASE IdleClean
    <3>1. PICK u : u = Head(terminating)
      OBVIOUS
    <3>2. /\ pc' = [pc EXCEPT ![u] = "none", ![Idle] = "freeStack"] /\ pc[Idle] = "clean"
          /\ ret' = [ret EXCEPT ![u] = "run"]
      BY <2>4, <3>1 DEF IdleClean, At
    <3>3. pc'[Idle] = "freeStack" /\ ret'[Idle] # "clean"
      BY <1>0, <3>2 DEF CleanUpFound
    <3> QED BY <3>3 DEF CleanUpFound
  <2> QED BY <1>4, <2>1, <2>2, <2>3, <2>4 DEF IdleTask
<1>5. CASE TickInterrupt \/ InTick \/ PostFromISR \/ \E u \in AppTask : xTaskResumeFromISR(u)
  <2>1. /\ UNCHANGED <<terminating, ret>>
        /\ UNCHANGED pc \/ \E t \in Task : pc' = [pc EXCEPT ![t] = "leave"]
    BY <1>5, ControlIsTyped DEF TickInterrupt, InTick, TickUnblock, TickSlice, PostFromISR,
          xTaskResumeFromISR, Goto, deletionVars, control
  <2>2. pc'[Idle] = pc[Idle] \/ pc'[Idle] = "leave"
    BY <1>0, <2>1
  <2> QED BY <2>1, <2>2 DEF CleanUpFound
<1> QED BY <1>1, <1>2, <1>3, <1>4, <1>5 DEF Next

LEMMA CleanUpInvariant == Spec => []CleanUpFound
<1>1. Init => CleanUpFound
  <2> SUFFICES ASSUME Init PROVE CleanUpFound
    OBVIOUS
  <2>1. Idle \in Task
    BY PriorityIsNat
  <2>2. pc[Idle] \in {"run", "none"} /\ ret[Idle] = "run"
    BY <2>1 DEF Init
  <2> QED BY <2>2 DEF CleanUpFound
<1> QED BY <1>1, HomesInvariant, NextCleanUp, PTL DEF Spec

\* The assertions of tasks.c and port.c never fail, whatever the application calls, the
\* handlers post and the timer interrupts: nobody is left in the delayed list when the
\* count wraps, the scheduler is suspended where it is resumed and runs where a task
\* that is gone yields, and no critical section is left that was not entered.  Nor does
\* the idle task find the count of deleted tasks and their list at odds.
THEOREM NoAssertionFails == Spec => []AssertionsHold
<1>1. HInv /\ Times /\ Nesting /\ CleanUpFound => AssertionsHold
  <2> SUFFICES ASSUME HInv, Times, Nesting, CleanUpFound PROVE AssertionsHold
    OBVIOUS
  <2> DEFINE cur == pxCurrentTCB
  <2>1. ASSUME xTickCount = TickModulus - 1, inTick = "no", delayed # <<>> PROVE FALSE
    <3>1. Head(delayed) \in Task /\ Contains(delayed, Head(delayed))
      BY <2>1, TailExact, TimesAreNumbers
    <3>2. wake[Head(delayed)] > TickModulus - 1 /\ wake[Head(delayed)] \in Tick
      BY <2>1, <3>1, TimesAreNumbers DEF Times
    <3> QED BY <3>2, ModulusPositive DEF Tick
  <2>2. pc[cur] = "resumeAll" => uxSchedulerSuspended > 0
    BY DEF HInv, Inv, Sections
  <2>3. ASSUME pc[cur] = "yield", cur \in suspended \/ Contains(terminating, cur)
        PROVE  uxSchedulerSuspended = 0
    <3>1. ~Ready(cur)
      BY <2>3, ControlIsTyped DEF HInv, Homes, HomeOK
    <3> QED BY <2>3, <3>1 DEF HInv, Standing, Resuming
  <2>4. ASSUME pc[cur] \in {"exit", "freed", "leave"} PROVE uxCriticalNesting > 0
    <3>1. <<cur, 1>> \in Held
      BY <2>4, ControlIsTyped DEF Held, InCritical, Resuming
    <3>2. Cardinality(Held) # 0 /\ Cardinality(Held) \in Nat
      BY <3>1, FS_EmptySet, FS_CardinalityType DEF Nesting
    <3>3. uxCriticalNesting \in Nat /\ Cardinality(Held) <= uxCriticalNesting
      BY ControlIsTyped DEF Nesting
    <3> QED BY <3>2, <3>3
  <2>5. \E p \in Priority : p <= uxTopReadyPriority /\ pxReadyTasksLists[p].items # <<>>
    <3>1. pxReadyTasksLists[0].items # <<>>
      BY DEF HInv, Inv, IdleStays, LegalLists, Contains
    <3>2. 0 \in Priority /\ 0 <= uxTopReadyPriority
      <4>1. uxTopReadyPriority \in Nat
        BY PrioritiesAreNumbers
      <4> QED BY <4>1, PriorityIsNat
    <3> QED BY <3>1, <3>2
  <2>6. uxDeletedTasksWaitingCleanUp = Len(terminating)
    BY DEF HInv, Inv, Deletions
  <2>7. pc[Idle] = "clean" => terminating # <<>>
    BY DEF CleanUpFound
  <2> QED BY <2>1, <2>2, <2>3, <2>4, <2>5, <2>6, <2>7 DEF AssertionsHold
<1> QED BY <1>1, HomesInvariant, TimesInvariant, NestingInvariant, CleanUpInvariant, PTL
-----------------------------------------------------------------------------
(* The order of those that wait for an event.                              *)

\* The event list is in order of priority.
Queued == Sorted(waiting, EventValue)

LEMMA WaitingIsTyped ==
    ASSUME HInv
    PROVE  /\ waiting \in Seq(Task) /\ IsInjective(waiting) /\ pending \in Seq(Task)
           /\ \A y \in Task : EventValue[y] \in Int
           /\ \A y \in Task : Contains(waiting, y) => pc[y] # "none"
<1>1. MaxPriorities \in Nat /\ \A y \in Task : uxPriority[y] \in Nat
  BY PrioritiesAreNumbers, TasksAssumption
<1>2. \A y \in Task : EventValue[y] \in Int
  BY <1>1 DEF EventValue
<1>3. waiting \in Seq(Task) /\ IsInjective(waiting) /\ pending \in Seq(Task)
  BY DEF HInv, Inv, TypeOK, Homes, Distinct
<1>4. \A y \in Task : Contains(waiting, y) => pc[y] # "none"
  BY DEF HInv, Homes, HomeOK
<1> QED BY <1>2, <1>3, <1>4

\* Tasks may leave the list, and those in it keep their priority.
LEMMA LeavingKeepsOrder ==
    ASSUME HInv, Queued, NEW u,
           \A y \in Task : Contains(waiting, y) => uxPriority'[y] = uxPriority[y],
           \/ waiting' = waiting \/ waiting' = Without(waiting, u)
           \/ waiting # <<>> /\ waiting' = Tail(waiting)
    PROVE  Queued'
<1>1. PICK value : value = EventValue'
  OBVIOUS
<1>2. \A y \in Task : Contains(waiting, y) => value[y] = EventValue[y]
  BY <1>1 DEF EventValue
<1>3. Sorted(waiting, value)
  <2>1. waiting \in Seq(Task) /\ Sorted(waiting, EventValue)
    BY WaitingIsTyped DEF Queued
  <2> QED BY <1>2, <2>1, SortedAlike
<1>4. CASE waiting' = waiting
  BY <1>1, <1>3, <1>4 DEF Queued
<1>5. CASE waiting' = Without(waiting, u)
  <2>1. Without(waiting, u) \in Seq(Task) /\ KeepsOrder(Without(waiting, u), waiting)
    BY WaitingIsTyped, WithoutExact, WithoutProperties
  <2>2. Sorted(Without(waiting, u), value)
    BY <1>3, <2>1, SortedKept, WaitingIsTyped
  <2> QED BY <1>1, <1>5, <2>2 DEF Queued
<1>6. CASE waiting # <<>> /\ waiting' = Tail(waiting)
  <2>1. Tail(waiting) \in Seq(Task) /\ KeepsOrder(Tail(waiting), waiting)
    <3>1. /\ Tail(waiting) \in Seq(Task) /\ Len(Tail(waiting)) = Len(waiting) - 1
          /\ \A a \in 1 .. Len(waiting) - 1 : Tail(waiting)[a] = waiting[a + 1]
          /\ Len(waiting) \in Nat
      BY <1>6, TailExact, WaitingIsTyped, LenProperties
    <3>2. ASSUME NEW i \in 1 .. Len(Tail(waiting)), NEW j \in 1 .. Len(Tail(waiting)), i < j
          PROVE  \E k, l \in 1 .. Len(waiting) :
                   /\ k < l /\ Tail(waiting)[i] = waiting[k] /\ Tail(waiting)[j] = waiting[l]
      <4>1. i + 1 \in 1 .. Len(waiting) /\ j + 1 \in 1 .. Len(waiting) /\ i + 1 < j + 1
        BY <3>1, <3>2
      <4>2. Tail(waiting)[i] = waiting[i + 1] /\ Tail(waiting)[j] = waiting[j + 1]
        BY <3>1
      <4> QED BY <4>1, <4>2
    <3> QED BY <3>1, <3>2 DEF KeepsOrder
  <2>2. Sorted(Tail(waiting), value)
    BY <1>3, <2>1, SortedKept, WaitingIsTyped
  <2> QED BY <1>1, <1>6, <2>2 DEF Queued
<1> QED BY <1>4, <1>5, <1>6

\* Steps that leave the list and the priorities of the tasks in it alone.
LEMMA OrderIsLeftAlone ==
    ASSUME HInv, Queued, NEW t \in Task,
           \/ ExitCritical(t) \/ YieldWithinAPI(t) \/ EnterResumeAll(t) \/ DrainEnd(t)
           \/ ReplayTick(t) \/ LeaveResumeAll(t) \/ AfterSuspend(t) \/ AfterDelete(t)
           \/ AllocateTCB(t) \/ AllocateFails(t) \/ Compare(t)
           \/ \E n \in 1 .. portMAX_DELAY : vTaskDelay(t, n)
           \/ \E u \in AppTask, p \in Priority : AddNewTask(t, u, p)
           \/ TaskYield(t) \/ vTaskSuspendAll(t) \/ BlockingCall(t) \/ xTaskCreate(t)
           \/ xTaskResumeAll(t) \/ \E u \in AppTask : vTaskResume(t, u)
           \/ \E u \in AppTask : xTaskResumeFromISR(u)
           \/ IdleCheck \/ IdleClean \/ IdleFree \/ TickInterrupt \/ TickSlice
    PROVE  Queued'
<1>1. /\ waiting' = waiting
      /\ \A y \in Task : pc[y] # "none" => uxPriority'[y] = uxPriority[y]
  <2>1. CASE \/ ExitCritical(t) \/ YieldWithinAPI(t) \/ EnterResumeAll(t) \/ DrainEnd(t)
             \/ ReplayTick(t) \/ LeaveResumeAll(t) \/ AfterSuspend(t) \/ AfterDelete(t)
    BY <2>1 DEF ExitCritical, YieldWithinAPI, EnterResumeAll, DrainEnd, ReplayTick,
           LeaveResumeAll, AfterSuspend, AfterDelete
  <2>2. CASE AllocateTCB(t) \/ AllocateFails(t) \/ Compare(t)
    BY <2>2 DEF AllocateTCB, AllocateFails, Compare, SuspendAllThen
  <2>3. CASE \E n \in 1 .. portMAX_DELAY : vTaskDelay(t, n)
    BY <2>3 DEF vTaskDelay, Blocked
  <2>4. ASSUME NEW u \in AppTask, NEW p \in Priority, AddNewTask(t, u, p)
        PROVE  /\ waiting' = waiting
               /\ \A y \in Task : pc[y] # "none" => uxPriority'[y] = uxPriority[y]
    BY <2>4, PrioritiesAreNumbers DEF AddNewTask
  <2>5. CASE TaskYield(t) \/ vTaskSuspendAll(t) \/ BlockingCall(t) \/ xTaskCreate(t)
             \/ xTaskResumeAll(t)
    BY <2>5 DEF TaskYield, vTaskSuspendAll, BlockingCall, xTaskCreate, SuspendAllThen,
           xTaskResumeAll
  <2>6. CASE \E u \in AppTask : vTaskResume(t, u) \/ xTaskResumeFromISR(u)
    BY <2>6 DEF vTaskResume, xTaskResumeFromISR
  <2>7. CASE IdleCheck \/ IdleClean \/ IdleFree
    BY <2>7 DEF IdleCheck, IdleClean, IdleFree, SuspendAllThen
  <2>8. CASE TickInterrupt \/ TickSlice
    BY <2>8 DEF TickInterrupt, TickSlice
  <2> QED BY <2>1, <2>2, <2>3, <2>4, <2>5, <2>6, <2>7, <2>8
<1>2. \A y \in Task : Contains(waiting, y) => uxPriority'[y] = uxPriority[y]
  BY <1>1, WaitingIsTyped
<1> QED BY <1>1, <1>2, LeavingKeepsOrder

\* Steps that take a task out of the list, and vTaskPlaceOnEventList.
LEMMA OrderSteps ==
    ASSUME HInv, Queued, NEW t \in Task,
           \/ Drain(t) \/ Post(t) \/ PostFromISR \/ DeleteSelf(t) \/ TickUnblock
           \/ \E u \in AppTask : vTaskSuspend(t, u) \/ vTaskDelete(t, u)
           \/ \E n \in 1 .. portMAX_DELAY : vTaskPlaceOnEventList(t, n)
    PROVE  Queued'
<1>1. CASE Drain(t)
  <2>1. PICK u : u = Head(pending)
    OBVIOUS
  <2>2. waiting' = Without(waiting, u) /\ UNCHANGED uxPriority
    BY <1>1, <2>1 DEF Drain, LeaveEventLists
  <2> QED BY <2>2, LeavingKeepsOrder
<1>2. CASE Post(t) \/ PostFromISR
  <2>1. PICK u : u = Woken
    OBVIOUS
  <2>2. /\ UNCHANGED uxPriority /\ waiting # <<>>
        /\ waiting' = Without(waiting, u) \/ waiting' = Tail(waiting)
    BY <1>2, <2>1 DEF Post, PostFromISR, xTaskRemoveFromEventList, LeaveEventLists
  <2> QED BY <2>2, LeavingKeepsOrder
<1>3. CASE DeleteSelf(t)
  BY <1>3, LeavingKeepsOrder DEF DeleteSelf, LeaveEventLists
<1>4. CASE TickUnblock
  <2>1. PICK u : u = Head(delayed)
    OBVIOUS
  <2>2. /\ UNCHANGED uxPriority
        /\ waiting' = waiting \/ waiting' = Without(waiting, u)
    BY <1>4, <2>1 DEF TickUnblock, LeaveEventLists
  <2> QED BY <2>2, LeavingKeepsOrder
<1>5. ASSUME NEW u \in AppTask, vTaskSuspend(t, u) PROVE Queued'
  BY <1>5, LeavingKeepsOrder DEF vTaskSuspend, LeaveEventLists
<1>6. ASSUME NEW u \in AppTask, vTaskDelete(t, u) PROVE Queued'
  BY <1>6, LeavingKeepsOrder DEF vTaskDelete, LeaveEventLists
<1>7. ASSUME NEW n \in 1 .. portMAX_DELAY, vTaskPlaceOnEventList(t, n) PROVE Queued'
  <2>1. waiting' = InsertSorted(waiting, EventValue, t) /\ UNCHANGED uxPriority
    BY <1>7 DEF vTaskPlaceOnEventList, Blocked
  <2>2. PICK value : value = EventValue
    OBVIOUS
  <2>3. Sorted(InsertSorted(waiting, value, t), value)
    BY <2>2, InsertSortedSorted, WaitingIsTyped DEF Queued
  <2>4. EventValue' = value
    BY <2>1, <2>2 DEF EventValue
  <2> QED BY <2>1, <2>2, <2>3, <2>4 DEF Queued
<1> QED BY <1>1, <1>2, <1>3, <1>4, <1>5, <1>6, <1>7

\* While no priority changes, every step keeps the order.
LEMMA NextQueued ==
    ASSUME "priority" \notin Calls
    PROVE  HInv /\ Queued /\ [Next]_vars => Queued'
<1> SUFFICES ASSUME HInv, Queued, [Next]_vars PROVE Queued'
  OBVIOUS
<1>1. ASSUME NEW t \in Task, Proceed(t) PROVE Queued'
  <2>1. CASE \/ ExitCritical(t) \/ YieldWithinAPI(t) \/ EnterResumeAll(t) \/ DrainEnd(t)
             \/ ReplayTick(t) \/ LeaveResumeAll(t) \/ AfterSuspend(t) \/ AfterDelete(t)
             \/ AllocateTCB(t) \/ AllocateFails(t) \/ Compare(t)
             \/ \E u \in AppTask, p \in Priority : AddNewTask(t, u, p)
    BY <2>1, OrderIsLeftAlone
  <2>2. CASE \E n \in 1 .. portMAX_DELAY : vTaskDelay(t, n)
    BY <2>2, OrderIsLeftAlone
  <2>3. CASE Drain(t) \/ \E n \in 1 .. portMAX_DELAY : vTaskPlaceOnEventList(t, n)
    BY <2>3, OrderSteps
  <2> QED BY <1>1, <2>1, <2>2, <2>3 DEF Proceed
<1>2. ASSUME NEW t \in Task, CallAPI(t) PROVE Queued'
  <2>1. CASE \/ TaskYield(t) \/ vTaskSuspendAll(t) \/ BlockingCall(t) \/ xTaskCreate(t)
             \/ \E u \in AppTask : vTaskResume(t, u)
    BY <2>1, OrderIsLeftAlone
  <2>2. CASE \/ Post(t) \/ DeleteSelf(t)
             \/ \E u \in AppTask : vTaskSuspend(t, u) \/ vTaskDelete(t, u)
    BY <2>2, OrderSteps
  <2>3. ~ \E u \in AppTask, p \in Priority : vTaskPrioritySet(t, u, p)
    BY DEF vTaskPrioritySet
  <2> QED BY <1>2, <2>1, <2>2, <2>3 DEF CallAPI
<1>3. ASSUME NEW t \in Task, xTaskResumeAll(t) PROVE Queued'
  BY <1>3, OrderIsLeftAlone
<1>4. ASSUME UNCHANGED vars PROVE Queued'
  BY <1>4 DEF vars, Queued, EventValue
<1>5. ASSUME IdleTask PROVE Queued'
  <2>1. CASE IdleLoop
    BY <1>4, <2>1 DEF IdleLoop
  <2>2. CASE IdleCheck \/ IdleFree \/ IdleClean
    BY <2>2, OrderIsLeftAlone, PriorityIsNat
  <2> QED BY <1>5, <2>1, <2>2 DEF IdleTask
<1>6. ASSUME TickInterrupt \/ InTick PROVE Queued'
  <2>1. CASE TickInterrupt \/ TickSlice
    BY <2>1, OrderIsLeftAlone, PriorityIsNat
  <2>2. CASE TickUnblock
    BY <2>2, OrderSteps, PriorityIsNat
  <2> QED BY <1>6, <2>1, <2>2 DEF InTick
<1>7. ASSUME PostFromISR \/ \E u \in AppTask : xTaskResumeFromISR(u) PROVE Queued'
  <2>1. CASE PostFromISR
    BY <2>1, OrderSteps, PriorityIsNat
  <2>2. CASE \E u \in AppTask : xTaskResumeFromISR(u)
    BY <2>2, OrderIsLeftAlone, PriorityIsNat
  <2> QED BY <1>7, <2>1, <2>2
<1> QED BY <1>1, <1>2, <1>3, <1>4, <1>5, <1>6, <1>7 DEF Next

\* In an application that changes no priority, an event wakes the most urgent of those
\* that wait for it, however waits, timeouts, suspensions and deletions interleave.
THEOREM EventsWakeTheMostUrgent ==
    ASSUME "priority" \notin Calls
    PROVE  Spec => []MostUrgentFirst
<1>1. Init => Queued
  BY DEF Init, Queued, Sorted
<1>2. HInv /\ Queued /\ [Next]_vars => Queued'
  BY NextQueued
<1>3. HInv /\ Queued => MostUrgentFirst
  <2> SUFFICES ASSUME HInv, Queued, NEW i \in DOMAIN waiting
               PROVE  uxPriority[waiting[i]] <= uxPriority[Head(waiting)]
    BY DEF MostUrgentFirst
  <2>1. waiting[i] \in Task /\ Contains(waiting, waiting[i])
    <3>1. i \in 1 .. Len(waiting)
      BY WaitingIsTyped, LenProperties
    <3> QED BY <3>1, ElementOfSeq, WaitingIsTyped DEF Contains
  <2>2. Head(waiting) \in Task /\ EventValue[Head(waiting)] <= EventValue[waiting[i]]
    BY <2>1, HeadIsLeast, WaitingIsTyped DEF Queued
  <2>3. /\ MaxPriorities \in Nat /\ uxPriority[waiting[i]] \in Nat
        /\ uxPriority[Head(waiting)] \in Nat
    BY <2>1, <2>2, PrioritiesAreNumbers, TasksAssumption
  <2> QED BY <2>1, <2>2, <2>3 DEF EventValue
<1>4. Spec => []Queued
  BY <1>1, <1>2, HomesInvariant, PTL DEF Spec
<1> QED BY <1>3, <1>4, HomesInvariant, PTL
-----------------------------------------------------------------------------
(* The task states that the lists implement.                               *)

\* The lists y is in, apart from the ready lists, where it is just if it is nowhere else.
Alike(y) ==
    /\ Contains(delayed', y) <=> Contains(delayed, y)
    /\ Contains(overflow', y) <=> Contains(overflow, y)
    /\ Contains(terminating', y) <=> Contains(terminating, y)
    /\ Contains(pending', y) <=> Contains(pending, y)
    /\ Contains(waiting', y) <=> Contains(waiting, y)
    /\ y \in suspended' <=> y \in suspended
    /\ pc'[y] = "none" <=> pc[y] = "none"

\* Which state each list stands for.
LEMMA StateOfLists ==
    ASSUME Homes, NEW y \in Task
    PROVE  /\ TaskState(y) \in {"none", "ready", "asleep", "suspended", "deleted"}
           /\ TaskState(y) = "none" <=> pc[y] = "none"
           /\ TaskState(y) = "ready" <=> Ready(y)
           /\ TaskState(y) = "asleep" <=> Contains(delayed, y) \/ Contains(overflow, y)
           /\ TaskState(y) = "suspended" <=> y \in suspended
           /\ TaskState(y) = "deleted" <=> Contains(terminating, y)
           /\ ~Contains(delayed, y) /\ ~Contains(overflow, y) => TicksLeft(y) = 0
           /\ y \notin suspended /\ TaskState(y) # "asleep" => Event(y) = "none"
<1>1. HomeOK(y)
  BY DEF Homes
<1> QED BY <1>1 DEF HomeOK, TaskState, Delayed, TicksLeft, Event

\* The same of the next state.
LEMMA NextStateOfLists ==
    ASSUME Homes', NEW y \in Task
    PROVE  /\ TaskState(y)' \in {"none", "ready", "asleep", "suspended", "deleted"}
           /\ TaskState(y)' = "none" <=> pc'[y] = "none"
           /\ TaskState(y)' = "ready" <=> Ready(y)'
           /\ TaskState(y)' = "asleep" <=> Contains(delayed', y) \/ Contains(overflow', y)
           /\ TaskState(y)' = "suspended" <=> y \in suspended'
           /\ TaskState(y)' = "deleted" <=> Contains(terminating', y)
           /\ ~Contains(delayed', y) /\ ~Contains(overflow', y) => TicksLeft(y)' = 0
           /\ y \notin suspended' /\ TaskState(y)' # "asleep" => Event(y)' = "none"
<1>1. HomeOK(y)'
  BY DEF Homes
<1> QED BY <1>1 DEF HomeOK, TaskState, Delayed, TicksLeft, Event

\* A task that stays in its lists stays in its state.
LEMMA ViewKept ==
    ASSUME Homes, Homes', NEW y \in Task, Alike(y), UNCHANGED xTickCount, wake'[y] = wake[y]
    PROVE  TaskState(y)' = TaskState(y) /\ TicksLeft(y)' = TicksLeft(y) /\ Event(y)' = Event(y)
<1>1. TaskState(y)' = TaskState(y)
  BY StateOfLists, NextStateOfLists DEF Alike
<1>2. TicksLeft(y)' = TicksLeft(y) /\ Event(y)' = Event(y)
  BY DEF Alike, TicksLeft, Event
<1> QED BY <1>1, <1>2

LEMMA ViewsAre ==
    /\ \A y \in Task : States[y] = TaskState(y) /\ Lefts[y] = TicksLeft(y) /\ Events[y] = Event(y)
    /\ \A y \in Task : /\ States'[y] = TaskState(y)' /\ Lefts'[y] = TicksLeft(y)'
                       /\ Events'[y] = Event(y)'
BY DEF States, Lefts, Events

\* A step that changes one task at most.
LEMMA OneChanges ==
    ASSUME Homes, Homes', NEW u \in Task, UNCHANGED xTickCount,
           \A y \in Task : y # u => Alike(y) /\ wake'[y] = wake[y]
    PROVE  /\ States' = [States EXCEPT ![u] = TaskState(u)']
           /\ Lefts' = [Lefts EXCEPT ![u] = TicksLeft(u)']
           /\ Events' = [Events EXCEPT ![u] = Event(u)']
BY ViewKept DEF States, Lefts, Events

\* One that changes none.
LEMMA NoneChanges ==
    ASSUME Homes, Homes', UNCHANGED <<xTickCount, wake>>, \A y \in Task : Alike(y)
    PROVE  UNCHANGED <<States, Lefts, Events>>
BY ViewKept DEF States, Lefts, Events

\* A task comes to a state in which it waits for nothing.
LEMMA Becoming ==
    ASSUME Homes, Homes', NEW u \in Task, UNCHANGED <<xTickCount, wake>>,
           \A y \in Task : y # u => Alike(y),
           ~Contains(delayed', u), ~Contains(overflow', u),
           ~Contains(waiting', u), ~Contains(pending', u)
    PROVE  Abstract!Becomes(u, TaskState(u)')
<1>1. TicksLeft(u)' = 0 /\ Event(u)' = "none"
  BY NextStateOfLists DEF Event
<1> QED BY <1>1, OneChanges DEF Abstract!Becomes
-----------------------------------------------------------------------------
(* What each step does to the task states.                                 *)

\* Whoever exists goes on existing, and nobody is made.
SameTasks == \A y \in Task : pc'[y] = "none" <=> pc[y] = "none"

\* What TaskStates sees of the tasks.
Views == <<States, Lefts, Events>>

\* Steps that move no item between the lists of blocked tasks.
LEMMA StillSteps ==
    ASSUME HInv, HInv', NEW t \in Task,
           \/ ExitCritical(t) \/ EnterResumeAll(t) \/ DrainEnd(t) \/ AfterSuspend(t)
           \/ AfterDelete(t) \/ Compare(t) \/ AllocateFails(t) \/ xTaskResumeAll(t)
           \/ xTaskCreate(t) \/ AllocateTCB(t) \/ vTaskSuspendAll(t) \/ BlockingCall(t)
           \/ YieldWithinAPI(t) \/ TaskYield(t) \/ LeaveResumeAll(t) \/ TickSlice
           \/ IdleLoop \/ IdleCheck \/ IdleFree
           \/ \E u \in AppTask, p \in Priority : vTaskPrioritySet(t, u, p)
    PROVE  UNCHANGED Views
<1> DEFINE cur == pxCurrentTCB
<1>1. /\ cur \in Task /\ pc \in [Task -> PC] /\ ret \in [Task -> ReturnPoint]
      /\ Homes /\ Homes'
  BY DEF HInv, Inv, TypeOK
<1>2. UNCHANGED <<blockedLists, eventLists, terminating, xTickCount, wake>>
  BY DEF ExitCritical, EnterResumeAll, DrainEnd, AfterSuspend, AfterDelete, Compare,
         AllocateFails, xTaskResumeAll, xTaskCreate, AllocateTCB, vTaskSuspendAll, BlockingCall,
         YieldWithinAPI, TaskYield, LeaveResumeAll, TickSlice, IdleLoop, IdleCheck, IdleFree,
         SuspendAllThen, vTaskPrioritySet, vars
<1>3. pc' = pc \/ \E where \in PC \ {"none"} : pc[cur] # "none" /\ pc' = [pc EXCEPT ![cur] = where]
  <2> USE DEF At, Goto, Call, Return
  <2>1. CASE \/ ExitCritical(t) \/ EnterResumeAll(t) \/ DrainEnd(t) \/ AfterSuspend(t)
             \/ AfterDelete(t) \/ Compare(t) \/ AllocateFails(t) \/ xTaskResumeAll(t)
    BY <1>1, <2>1 DEF ExitCritical, EnterResumeAll, DrainEnd, AfterSuspend, AfterDelete, Compare,
       AllocateFails, xTaskResumeAll, AfterDrain, PC, ReturnPoint
  <2>2. CASE \/ xTaskCreate(t) \/ AllocateTCB(t) \/ vTaskSuspendAll(t) \/ BlockingCall(t)
             \/ IdleLoop \/ IdleCheck \/ IdleFree
    BY <1>1, <2>2 DEF xTaskCreate, AllocateTCB, vTaskSuspendAll, BlockingCall, IdleLoop, IdleCheck,
       IdleFree, SuspendAllThen, PC, vars
  <2>3. CASE YieldWithinAPI(t) \/ TaskYield(t) \/ LeaveResumeAll(t)
    BY <1>1, <2>3 DEF YieldWithinAPI, TaskYield, LeaveResumeAll, PC, ReturnPoint
  <2>4. CASE TickSlice
    BY <1>1, <2>4 DEF TickSlice, PC
  <2>5. CASE \E u \in AppTask, p \in Priority : vTaskPrioritySet(t, u, p)
    BY <1>1, <2>5 DEF vTaskPrioritySet, Target, EndCritical, PC
  <2> QED BY <2>1, <2>2, <2>3, <2>4, <2>5
<1>4. \A y \in Task : Alike(y)
  <2>1. SameTasks
    BY <1>1, <1>3 DEF SameTasks
  <2> QED BY <1>2, <2>1 DEF Alike, SameTasks
<1> QED BY <1>1, <1>2, <1>4, NoneChanges DEF Views

\* A blocked task leaves every list it is in, and is ready.
LEMMA WakingChanges ==
    ASSUME HInv, HInv', NEW u \in Task,
           Contains(delayed, u) \/ Contains(overflow, u) \/ u \in suspended,
           LeaveBlocked(u),
           LeaveEventLists(u) \/ /\ ~Contains(pending, u) /\ ~Contains(waiting, u)
                                 /\ UNCHANGED eventLists,
           UNCHANGED <<terminating, xTickCount, wake>>, SameTasks
    PROVE  Abstract!Becomes(u, "ready")
<1>1. Homes /\ Homes' /\ HomeOK(u)
  BY DEF HInv, Homes
<1>2. /\ \A y : Contains(delayed', y) <=> Contains(delayed, y) /\ y # u
      /\ \A y : Contains(overflow', y) <=> Contains(overflow, y) /\ y # u
      /\ suspended' = suspended \ {u}
  BY LeaveBlockedExact
<1>3. /\ \A y : Contains(pending', y) <=> Contains(pending, y) /\ y # u
      /\ \A y : Contains(waiting', y) <=> Contains(waiting, y) /\ y # u
  BY LeaveEventListsExact
<1>4. \A y \in Task : y # u => Alike(y)
  BY <1>2, <1>3 DEF Alike, SameTasks
<1>5. Abstract!Becomes(u, TaskState(u)')
  BY <1>1, <1>2, <1>3, <1>4, Becoming
<1>6. TaskState(u)' = "ready"
  <2>1. pc'[u] # "none" /\ ~Contains(terminating', u)
    BY <1>1 DEF HomeOK, SameTasks
  <2> QED BY <1>1, <1>2, <2>1, NextStateOfLists
<1> QED BY <1>5, <1>6

\* A task wakes for its event, or for its time.
LEMMA WakeUps ==
    ASSUME HInv, HInv', Times, NEW t \in Task, Drain(t) \/ TickUnblock
    PROVE  (\E u \in Task : Abstract!WakeUp(u)) \/ UNCHANGED Views
<1>1. Homes /\ Homes' /\ pc \in [Task -> PC] /\ t \in Task /\ pending \in Seq(Task)
      /\ delayed \in Seq(Task) /\ IsInjective(pending) /\ IsInjective(delayed)
  BY DEF HInv, Inv, TypeOK, Homes, Distinct
<1>2. ASSUME NEW u \in Task, Abstract!Becomes(u, "ready"),
             Contains(delayed, u) \/ Contains(overflow, u) \/ u \in suspended,
             Event(u) # "none" \/ (TaskState(u) = "asleep" /\ TicksLeft(u) = 0)
      PROVE  Abstract!WakeUp(u)
  <2>1. TaskState(u) \in {"asleep", "suspended"}
    BY <1>1, <1>2, StateOfLists
  <2> QED BY <1>2, <2>1, ViewsAre DEF Abstract!WakeUp
<1>3. CASE Drain(t)
  <2>1. PICK u \in Task : u = Head(pending) /\ Contains(pending, u)
    BY <1>1, <1>3, TailExact DEF Drain
  <2>2. /\ Contains(delayed, u) \/ Contains(overflow, u) \/ u \in suspended
        /\ Event(u) # "none"
    BY <1>1, <2>1 DEF Homes, HomeOK, Event
  <2>3. /\ LeaveBlocked(u) /\ LeaveEventLists(u)
        /\ UNCHANGED <<terminating, xTickCount, wake>> /\ SameTasks
    BY <1>1, <1>3, <2>1 DEF Drain, At, Goto, SameTasks
  <2>4. Abstract!Becomes(u, "ready")
    BY <2>2, <2>3, WakingChanges
  <2> QED BY <1>2, <2>2, <2>4
<1>4. CASE TickUnblock /\ Due
  <2>1. PICK u \in Task : u = Head(delayed) /\ Contains(delayed, u)
    BY <1>1, <1>4, TailExact DEF Due
  <2>2. /\ LeaveBlocked(u) /\ LeaveEventLists(u)
        /\ UNCHANGED <<terminating, xTickCount, wake>> /\ SameTasks
    BY <1>4, <2>1 DEF TickUnblock, SameTasks
  <2>3. Abstract!Becomes(u, "ready")
    BY <2>1, <2>2, WakingChanges
  <2>4. TaskState(u) = "asleep" /\ TicksLeft(u) = 0
    <3>1. wake[u] >= xTickCount /\ xTickCount >= wake[u]
      BY <1>4, <2>1 DEF Times, TickUnblock, Due
    <3>2. wake[u] \in Int /\ xTickCount \in Int
      BY TimesAreNumbers
    <3>3. wake[u] - xTickCount = 0
      BY <3>1, <3>2
    <3>4. ~Contains(overflow, u)
      BY <1>1, <2>1 DEF Homes, HomeOK
    <3>5. TicksLeft(u) = 0
      BY <2>1, <3>3, <3>4 DEF TicksLeft
    <3> QED BY <1>1, <2>1, <3>5, StateOfLists
  <2> QED BY <1>2, <2>1, <2>3, <2>4
<1>5. CASE TickUnblock /\ ~Due
  <2>1. /\ UNCHANGED <<blockedLists, eventLists, terminating, xTickCount, wake, pc>>
    BY <1>5 DEF TickUnblock
  <2> QED BY <1>1, <2>1, NoneChanges DEF Views, Alike
<1> QED BY <1>3, <1>4, <1>5

\* While the scheduler is suspended a wake-up moves the event item alone.
LEMMA PendingChanges ==
    ASSUME HInv, HInv', NEW u \in Task,
           Contains(delayed, u) \/ Contains(overflow, u) \/ u \in suspended,
           ~Contains(pending, u), pending' = Append(pending, u),
           \/ waiting # <<>> /\ u = Head(waiting) /\ waiting' = Tail(waiting)
           \/ ~Contains(waiting, u) /\ u \in suspended /\ UNCHANGED waiting,
           UNCHANGED <<blockedLists, terminating, xTickCount, wake>>, SameTasks
    PROVE  Abstract!Posted(u)
<1>1. /\ Homes /\ Homes' /\ HomeOK(u) /\ Distinct
      /\ pending \in Seq(Task) /\ waiting \in Seq(Task)
  BY DEF HInv, Inv, TypeOK, Homes
<1>2. \A y : Contains(pending', y) <=> y = u \/ Contains(pending, y)
  BY <1>1, AppendExact DEF Distinct
<1>3. /\ \A y : Contains(waiting', y) <=> Contains(waiting, y) /\ y # u
      /\ Event(u) = "waiting" \/ (TaskState(u) = "suspended" /\ Event(u) = "none")
  <2>1. CASE waiting # <<>> /\ u = Head(waiting) /\ waiting' = Tail(waiting)
    <3>1. Contains(waiting, u) /\ \A y : Contains(waiting', y) <=> Contains(waiting, y) /\ y # u
      BY <1>1, <2>1, TailExact DEF Distinct
    <3> QED BY <3>1 DEF Event
  <2>2. CASE ~Contains(waiting, u) /\ u \in suspended /\ UNCHANGED waiting
    BY <1>1, <2>2, StateOfLists DEF Event
  <2> QED BY <2>1, <2>2
<1>4. \A y \in Task : y # u => Alike(y)
  BY <1>2, <1>3 DEF Alike, SameTasks
<1>5. TaskState(u)' = TaskState(u) /\ TicksLeft(u)' = TicksLeft(u)
  <2>1. TaskState(u)' = TaskState(u)
    BY <1>1, StateOfLists, NextStateOfLists DEF SameTasks
  <2> QED BY <2>1 DEF TicksLeft
<1>6. Event(u)' = "posted"
  BY <1>2, <1>3 DEF Event
<1>7. /\ States' = [States EXCEPT ![u] = TaskState(u)]
      /\ Lefts' = [Lefts EXCEPT ![u] = TicksLeft(u)]
      /\ Events' = [Events EXCEPT ![u] = "posted"]
  BY <1>1, <1>4, <1>5, <1>6, OneChanges
<1>8. States' = States /\ Lefts' = Lefts
  BY <1>7, ViewsAre DEF States, Lefts
<1> QED BY <1>3, <1>7, <1>8, ViewsAre DEF Abstract!Posted

\* A task or a handler posts an event.
LEMMA PostChanges ==
    ASSUME HInv, HInv', NEW t \in Task, Post(t) \/ PostFromISR
    PROVE  \E u \in Task : Abstract!WakeUp(u) \/ Abstract!Posted(u)
<1>1. /\ waiting # <<>> /\ xTaskRemoveFromEventList
      /\ UNCHANGED <<terminating, xTickCount, wake>>
  BY DEF Post, PostFromISR
<1>2. SameTasks
  <2>1. CASE Post(t)
    <3>1. pc' = pc \/ (pc[t] # "none" /\ pc' = [pc EXCEPT ![t] = "exit"])
      BY <2>1 DEF Post, EndCritical, Call, At
    <3> QED BY <3>1 DEF SameTasks, HInv, Inv, TypeOK
  <2>2. CASE PostFromISR
    BY <2>2 DEF PostFromISR, SameTasks
  <2> QED BY <2>1, <2>2
<1>3. PICK u \in Task : u = Woken /\ u = Head(waiting)
  BY <1>1, WokenIsBlocked DEF Woken
<1>4. /\ Contains(waiting, u) /\ ~Contains(pending, u)
      /\ Contains(delayed, u) \/ Contains(overflow, u) \/ u \in suspended
  BY <1>1, <1>3, WokenIsBlocked
<1>5. Homes /\ Event(u) = "waiting" /\ TaskState(u) \in {"asleep", "suspended"}
  BY <1>4, StateOfLists DEF Event, HInv
<1>6. CASE uxSchedulerSuspended = 0
  <2>1. LeaveBlocked(u) /\ LeaveEventLists(u)
    BY <1>1, <1>3, <1>6 DEF xTaskRemoveFromEventList
  <2>2. Abstract!Becomes(u, "ready")
    BY <1>1, <1>2, <1>4, <2>1, WakingChanges
  <2>3. Abstract!WakeUp(u)
    BY <1>5, <2>2, ViewsAre DEF Abstract!WakeUp
  <2> QED BY <2>3
<1>7. CASE uxSchedulerSuspended # 0
  <2>1. /\ waiting' = Tail(waiting) /\ pending' = Append(pending, u)
        /\ UNCHANGED blockedLists
    BY <1>1, <1>3, <1>7 DEF xTaskRemoveFromEventList
  <2>2. Abstract!Posted(u)
    BY <1>1, <1>2, <1>3, <1>4, <2>1, PendingChanges
  <2> QED BY <2>2
<1> QED BY <1>6, <1>7

\* A task or a handler resumes a suspended task.
LEMMA ResumeChanges ==
    ASSUME HInv, HInv', NEW t \in Task, NEW u \in AppTask,
           vTaskResume(t, u) \/ xTaskResumeFromISR(u)
    PROVE  Abstract!Resume(u) \/ Abstract!Posted(u)
<1>1. /\ u \in Task /\ u \in suspended /\ ~Contains(pending, u) /\ ~Contains(waiting, u)
      /\ UNCHANGED <<terminating, xTickCount, wake>>
  BY DEF vTaskResume, xTaskResumeFromISR, TaskIsSuspended, AppTask
<1>2. SameTasks
  <2>1. CASE vTaskResume(t, u)
    <3>1. pc' = pc \/ (pc[t] # "none" /\ pc' = [pc EXCEPT ![t] = "exit"])
      BY <2>1 DEF vTaskResume, Target, EndCritical, Call, At
    <3> QED BY <3>1 DEF SameTasks, HInv, Inv, TypeOK
  <2>2. CASE xTaskResumeFromISR(u)
    BY <2>2 DEF xTaskResumeFromISR, SameTasks
  <2> QED BY <2>1, <2>2
<1>3. TaskState(u) = "suspended" /\ Event(u) = "none"
  BY <1>1, StateOfLists DEF Event, HInv
<1>4. CASE LeaveBlocked(u) /\ UNCHANGED eventLists
  <2>1. Abstract!Becomes(u, "ready")
    BY <1>1, <1>2, <1>4, WakingChanges
  <2> QED BY <1>1, <1>3, <2>1, ViewsAre DEF Abstract!Resume
<1>5. CASE /\ pending' = Append(pending, u) /\ UNCHANGED blockedLists /\ UNCHANGED waiting
  BY <1>1, <1>2, <1>5, PendingChanges
<1> QED BY <1>4, <1>5 DEF vTaskResume, xTaskResumeFromISR

\* A task leaves every list of blocked tasks but the one it comes to.
LEMMA LeavingChanges ==
    ASSUME HInv, HInv', NEW u \in Task, LeaveEventLists(u), UNCHANGED <<xTickCount, wake>>,
           \/ delayed' = Without(delayed, u) /\ overflow' = Without(overflow, u)
           \/ ~Contains(delayed, u) /\ ~Contains(overflow, u) /\ UNCHANGED <<delayed, overflow>>,
           \A y \in Task : y # u =>
             /\ y \in suspended' <=> y \in suspended
             /\ Contains(terminating', y) <=> Contains(terminating, y)
             /\ pc'[y] = "none" <=> pc[y] = "none"
    PROVE  /\ Abstract!Becomes(u, TaskState(u)')
           /\ ~Contains(delayed', u) /\ ~Contains(overflow', u)
<1>1. /\ Homes /\ Homes' /\ delayed \in Seq(Task) /\ overflow \in Seq(Task)
      /\ IsInjective(delayed) /\ IsInjective(overflow)
  BY DEF HInv, Inv, TypeOK, Homes, Distinct
<1>2. /\ \A y : Contains(delayed', y) <=> Contains(delayed, y) /\ y # u
      /\ \A y : Contains(overflow', y) <=> Contains(overflow, y) /\ y # u
  BY <1>1, WithoutExact
<1>3. /\ \A y : Contains(pending', y) <=> Contains(pending, y) /\ y # u
      /\ \A y : Contains(waiting', y) <=> Contains(waiting, y) /\ y # u
  BY LeaveEventListsExact
<1>4. \A y \in Task : y # u => Alike(y)
  BY <1>2, <1>3 DEF Alike
<1> QED BY <1>1, <1>2, <1>3, <1>4, Becoming

\* A task is suspended or deleted.
LEMMA SuspendChanges ==
    ASSUME HInv, HInv', NEW t \in Task, NEW u \in AppTask, vTaskSuspend(t, u)
    PROVE  Abstract!Suspend(u)
<1>1. /\ u \in Task /\ u # Idle /\ pc \in [Task -> PC] /\ pc[t] # "none" /\ Homes /\ Homes'
      /\ pc[u] # "none" /\ ~Contains(terminating, u)
  BY DEF vTaskSuspend, Target, Live, At, AppTask, HInv, Inv, TypeOK
<1>2. /\ LeaveEventLists(u) /\ UNCHANGED <<xTickCount, wake, terminating>>
      /\ delayed' = Without(delayed, u) /\ overflow' = Without(overflow, u)
      /\ suspended' = suspended \cup {u} /\ pc' = [pc EXCEPT ![t] = "reset"]
  BY DEF vTaskSuspend, Call
<1>3. Abstract!Becomes(u, TaskState(u)')
  BY <1>1, <1>2, LeavingChanges
<1>4. /\ TaskState(u) \in {"ready", "asleep", "suspended"}
      /\ TaskState(u)' = "suspended"
  BY <1>1, <1>2, StateOfLists, NextStateOfLists
<1> QED BY <1>1, <1>3, <1>4, ViewsAre DEF Abstract!Suspend

LEMMA DeleteChanges ==
    ASSUME HInv, HInv', NEW t \in Task,
           DeleteSelf(t) \/ \E u \in AppTask : vTaskDelete(t, u)
    PROVE  \E u \in Task : Abstract!Delete(u)
<1>1. Homes /\ Homes' /\ pc \in [Task -> PC] /\ terminating \in Seq(Task)
  BY DEF HInv, Inv, TypeOK
<1>2. CASE DeleteSelf(t)
  <2>1. /\ t = pxCurrentTCB /\ pc[t] = "run" /\ pc' = [pc EXCEPT ![t] = "yield"] /\ t # Idle
        /\ LeaveEventLists(t) /\ UNCHANGED <<blockedLists, xTickCount, wake>>
        /\ terminating' = Append(terminating, t)
    BY <1>2 DEF DeleteSelf, At, Goto
  <2>2. Ready(t)
    BY <2>1, RunningIsReady DEF Resuming
  <2>3. /\ ~Contains(delayed, t) /\ ~Contains(overflow, t) /\ ~Contains(terminating, t)
        /\ IsInjective(terminating)
    BY <1>1, <2>2 DEF Homes, HomeOK, Distinct
  <2>4. \A y : Contains(terminating', y) <=> y = t \/ Contains(terminating, y)
    BY <1>1, <2>1, <2>3, AppendExact
  <2>5. Abstract!Becomes(t, TaskState(t)')
    BY <1>1, <2>1, <2>3, <2>4, LeavingChanges
  <2>6. TaskState(t) = "ready" /\ TaskState(t)' = "deleted"
    BY <1>1, <2>2, <2>4, StateOfLists, NextStateOfLists
  <2>7. Abstract!Delete(t)
    BY <2>1, <2>5, <2>6, ViewsAre DEF Abstract!Delete
  <2> QED BY <2>7
<1>3. ASSUME NEW u \in AppTask, vTaskDelete(t, u) PROVE Abstract!Delete(u) /\ u \in Task
  <2>1. /\ u \in Task /\ u # Idle /\ u # t /\ t = pxCurrentTCB /\ pc[t] # "none"
        /\ pc[u] # "none" /\ ~Contains(terminating, u)
        /\ LeaveEventLists(u) /\ UNCHANGED <<xTickCount, wake, terminating>>
        /\ delayed' = Without(delayed, u) /\ overflow' = Without(overflow, u)
        /\ suspended' = suspended \ {u}
    BY <1>3 DEF vTaskDelete, Target, Live, At, AppTask
  <2>2. \/ pc' = [pc EXCEPT ![u] = "none", ![t] = "exit"]
        \/ pc' = [pc EXCEPT ![u] = "none"]
    BY <1>3 DEF vTaskDelete
  <2>3. Abstract!Becomes(u, TaskState(u)')
    BY <1>1, <2>1, <2>2, LeavingChanges
  <2>4. TaskState(u) \in {"ready", "asleep", "suspended"} /\ TaskState(u)' = "none"
    BY <1>1, <2>1, <2>2, StateOfLists, NextStateOfLists
  <2> QED BY <2>1, <2>3, <2>4, ViewsAre DEF Abstract!Delete
<1> QED BY <1>2, <1>3
-----------------------------------------------------------------------------
(* Who runs.                                                               *)

\* Whom vTaskSwitchContext switches in is ready, whatever legal lists it is given.
LEMMA SwitchedInIsReady ==
    ASSUME HInv', NEW lists, LegalLists(lists), NEW top \in Priority, SwitchContext(lists, top)
    PROVE  pxCurrentTCB' = pxCurrentTCB \/ Ready(pxCurrentTCB)'
<1>1. CASE uxSchedulerSuspended # 0
  BY <1>1 DEF SwitchContext, GoOn
<1>2. CASE uxSchedulerSuspended = 0
  <2>1. PICK h : h = HighestReady(lists, top)
    OBVIOUS
  <2>2. /\ pxReadyTasksLists' = [lists EXCEPT ![h] = Advance(@)]
        /\ pxCurrentTCB' = lists[h].items[NextIndex(lists[h])]
    BY <1>2, <2>1 DEF SwitchContext
  <2>3. h \in Priority /\ lists[h].items # <<>> /\ IsList(lists[h], Task)
        /\ lists \in [Priority -> [items : Seq(Task), index : Nat]]
    BY <2>1, HighestReadyFound DEF LegalLists
  <2>4. Advance(lists[h]).items = lists[h].items
    BY <2>3, AdvanceProperties
  <2>5. pxReadyTasksLists'[h].items = lists[h].items
    BY <2>2, <2>3, <2>4
  <2>6. pxCurrentTCB' \in Task /\ Contains(lists[h].items, pxCurrentTCB')
    <3>1. PICK s \in Seq(Task) : s = lists[h].items /\ s # <<>>
      BY <2>3
    <3>2. Len(s) \in Nat \ {0} /\ lists[h].index \in Nat
      BY <2>3, <3>1, EmptySeq, LenProperties
    <3>3. NextIndex(lists[h]) \in 1 .. Len(s)
      BY <3>1, <3>2 DEF NextIndex
    <3> QED BY <2>2, <3>1, <3>3, ElementOfSeq DEF Contains
  <2>7. Ordered(pxReadyTasksLists, uxPriority, uxTopReadyPriority)'
    BY DEF HInv, Homes
  <2>8. uxPriority'[pxCurrentTCB'] = h
    BY <2>3, <2>5, <2>6, <2>7 DEF Ordered
  <2> QED BY <2>5, <2>6, <2>8 DEF Ready
<1> QED BY <1>1, <1>2

\* The lists that are handed to it.
LEMMA ListsHandedOver ==
    ASSUME HInv
    PROVE  /\ LegalLists(pxReadyTasksLists) /\ uxTopReadyPriority \in Priority
           /\ \A u \in Task, p \in Priority : u # Idle =>
                /\ LegalLists(NotReady(u)) /\ LegalLists(ReadyAt(u, p)) /\ Record(p) \in Priority
           /\ \A u \in Task : /\ LegalLists(ReadyAt(u, uxPriority[u]))
                              /\ Record(uxPriority[u]) \in Priority
<1>1. /\ Inv /\ LegalLists(pxReadyTasksLists) /\ uxTopReadyPriority \in Priority
      /\ uxPriority \in [Task -> Priority] /\ uxPriority[Idle] = 0
  BY DEF HInv, Inv, IdleStays, TypeOK
<1> QED BY <1>1, NotReadyLegal, ReadyAtLegal, RecordType

LEMMA EndCriticalSwitches ==
    ASSUME HInv', NEW t, NEW lists, LegalLists(lists), NEW top \in Priority, NEW yields,
           EndCritical(t, lists, top, yields)
    PROVE  pxCurrentTCB' = pxCurrentTCB \/ Ready(pxCurrentTCB)'
<1>1. CASE SwitchContext(lists, top)
  BY <1>1, SwitchedInIsReady
<1>2. CASE GoOn(lists, top)
  BY <1>2 DEF GoOn
<1> QED BY <1>1, <1>2 DEF EndCritical

\* Whoever is switched in is ready.
LEMMA WhoRuns ==
    ASSUME HInv, HInv', Next
    PROVE  pxCurrentTCB' = pxCurrentTCB \/ Ready(pxCurrentTCB)'
<1> DEFINE Goal == pxCurrentTCB' = pxCurrentTCB \/ Ready(pxCurrentTCB)'
<1>1. ASSUME NEW t \in Task,
             \/ ExitCritical(t) \/ EnterResumeAll(t) \/ Drain(t) \/ DrainEnd(t)
             \/ ReplayTick(t) \/ AfterSuspend(t) \/ AfterDelete(t) \/ AllocateTCB(t)
             \/ AllocateFails(t) \/ Compare(t) \/ vTaskSuspendAll(t) \/ BlockingCall(t)
             \/ xTaskCreate(t) \/ DeleteSelf(t) \/ xTaskResumeAll(t)
      PROVE  UNCHANGED pxCurrentTCB
  BY <1>1 DEF ExitCritical, EnterResumeAll, Drain, DrainEnd, ReplayTick, AfterSuspend,
     AfterDelete, AllocateTCB, AllocateFails, Compare, vTaskSuspendAll, BlockingCall, xTaskCreate,
     DeleteSelf, xTaskResumeAll, SuspendAllThen, GoOn
<1>2. ASSUME NEW t \in Task,
             \/ \E n \in 1 .. portMAX_DELAY : vTaskDelay(t, n) \/ vTaskPlaceOnEventList(t, n)
             \/ \E u \in AppTask, p \in Priority : AddNewTask(t, u, p)
             \/ \E u \in AppTask : vTaskSuspend(t, u)
             \/ IdleLoop \/ IdleCheck \/ IdleClean \/ IdleFree \/ TickInterrupt \/ TickUnblock
      PROVE  UNCHANGED pxCurrentTCB
  BY <1>2 DEF vTaskDelay, vTaskPlaceOnEventList, Blocked, AddNewTask, vTaskSuspend, IdleLoop,
     IdleCheck, IdleClean, IdleFree, TickInterrupt, TickUnblock, SuspendAllThen, GoOn, vars
<1>3. ASSUME NEW t \in Task, YieldWithinAPI(t) \/ TaskYield(t) \/ LeaveResumeAll(t) \/ TickSlice
      PROVE  Goal
  <2>1. \/ SwitchContext(pxReadyTasksLists, uxTopReadyPriority) \/ UNCHANGED pxCurrentTCB
    BY <1>3 DEF YieldWithinAPI, TaskYield, LeaveResumeAll, TickSlice
  <2> QED BY <2>1, ListsHandedOver, SwitchedInIsReady
<1>4. ASSUME NEW t \in Task, Post(t) \/ PostFromISR PROVE Goal
  <2>1. Woken \in Task
    BY <1>4, WokenIsBlocked DEF Post, PostFromISR
  <2>2. LegalLists(ListsAfterWake) /\ TopAfterWake \in Priority
    BY <2>1, ListsHandedOver DEF ListsAfterWake, TopAfterWake
  <2>3. CASE Post(t)
    BY <2>2, <2>3, EndCriticalSwitches DEF Post
  <2>4. CASE PostFromISR
    <3>1. \/ SwitchContext(ListsAfterWake, TopAfterWake)
          \/ GoOn(ListsAfterWake, TopAfterWake)
      BY <2>4 DEF PostFromISR
    <3>2. CASE GoOn(ListsAfterWake, TopAfterWake)
      BY <3>2 DEF GoOn
    <3> QED BY <2>2, <3>1, <3>2, SwitchedInIsReady
  <2> QED BY <1>4, <2>3, <2>4
<1>5. ASSUME NEW t \in Task, NEW u \in AppTask, vTaskResume(t, u) \/ xTaskResumeFromISR(u)
      PROVE  Goal
  <2>1. PICK lists, top : lists = ReadyAt(u, uxPriority[u]) /\ top = Record(uxPriority[u])
    OBVIOUS
  <2>2. LegalLists(lists) /\ top \in Priority
    BY <2>1, ListsHandedOver DEF AppTask
  <2>3. CASE vTaskResume(t, u)
    BY <2>1, <2>2, <2>3, EndCriticalSwitches DEF vTaskResume
  <2>4. CASE xTaskResumeFromISR(u)
    <3>1. SwitchContext(lists, top) \/ UNCHANGED pxCurrentTCB
      BY <2>1, <2>4 DEF xTaskResumeFromISR, GoOn
    <3> QED BY <2>2, <3>1, SwitchedInIsReady
  <2> QED BY <1>5, <2>3, <2>4
<1>6. ASSUME NEW t \in Task, NEW u \in AppTask, NEW p \in Priority, vTaskPrioritySet(t, u, p)
      PROVE  Goal
  <2>1. PICK lists, top, yields :
          /\ EndCritical(t, lists, top, yields)
          /\ \/ lists = ReadyAt(u, p) /\ top = Record(p)
             \/ lists = pxReadyTasksLists /\ top = uxTopReadyPriority
    BY <1>6 DEF vTaskPrioritySet
  <2>2. LegalLists(lists) /\ top \in Priority
    BY <2>1, ListsHandedOver DEF AppTask
  <2> QED BY <2>1, <2>2, EndCriticalSwitches
<1>7. ASSUME NEW t \in Task, NEW u \in AppTask, vTaskDelete(t, u) PROVE Goal
  <2>1. \/ SwitchContext(NotReady(u), uxTopReadyPriority) \/ UNCHANGED pxCurrentTCB
    BY <1>7 DEF vTaskDelete, GoOn
  <2>2. LegalLists(NotReady(u)) /\ uxTopReadyPriority \in Priority
    BY ListsHandedOver, PriorityIsNat DEF AppTask
  <2> QED BY <2>1, <2>2, SwitchedInIsReady
<1>8. ASSUME NEW t \in Task, Proceed(t) \/ CallAPI(t) \/ xTaskResumeAll(t) PROVE Goal
  BY <1>1, <1>2, <1>3, <1>4, <1>5, <1>6, <1>7, <1>8 DEF Proceed, CallAPI
<1>9. ASSUME IdleTask \/ TickInterrupt \/ InTick PROVE Goal
  BY <1>2, <1>3, <1>9, PriorityIsNat DEF IdleTask, InTick
<1>10. ASSUME PostFromISR \/ \E u \in AppTask : xTaskResumeFromISR(u) PROVE Goal
  BY <1>4, <1>5, <1>10, PriorityIsNat
<1> QED BY <1>8, <1>9, <1>10 DEF Next
-----------------------------------------------------------------------------
(* Tasks that begin, end or block, and the tick.                           *)

\* prvAddNewTaskToReadyList: the new task waits for nothing.
LEMMA CreateChanges ==
    ASSUME HInv, HInv', NEW t \in Task, NEW u \in AppTask, NEW p \in Priority,
           AddNewTask(t, u, p)
    PROVE  Abstract!Create(u)
<1>1. /\ Homes /\ Homes' /\ HomeOK(u) /\ u \in Task /\ pc \in [Task -> PC]
      /\ pc[u] = "none" /\ u # t /\ pc[t] = "insert"
      /\ UNCHANGED <<blockedLists, eventLists, deletionVars, wake, xTickCount>>
      /\ pc' = [pc EXCEPT ![u] = "run", ![t] = "compare"]
  BY DEF AddNewTask, At, HInv, Inv, TypeOK, Homes, AppTask
<1>2. /\ ~Contains(delayed, u) /\ ~Contains(overflow, u) /\ ~Contains(terminating, u)
      /\ u \notin suspended /\ ~Contains(pending, u) /\ ~Contains(waiting, u)
  BY <1>1 DEF HomeOK
<1>3. \A y \in Task : y # u => Alike(y)
  BY <1>1 DEF Alike
<1>4. Abstract!Becomes(u, TaskState(u)')
  BY <1>1, <1>2, <1>3, Becoming
<1>5. TaskState(u) = "none" /\ TaskState(u)' = "ready"
  BY <1>1, <1>2, StateOfLists, NextStateOfLists
<1> QED BY <1>1, <1>4, <1>5, ViewsAre DEF Abstract!Create

\* prvCheckTasksWaitingTermination: a task that deleted itself is gone.
LEMMA FreeChanges ==
    ASSUME HInv, HInv', IdleClean
    PROVE  \E u \in Task : Abstract!Free(u)
<1>1. /\ Idle = pxCurrentTCB /\ pc \in [Task -> PC] /\ pc[Idle] = "clean"
      /\ terminating \in Seq(Task) /\ terminating # <<>> /\ Idle \in Task
      /\ terminating' = Tail(terminating)
      /\ UNCHANGED <<blockedLists, eventLists, wake, xTickCount>>
      /\ Homes /\ Homes' /\ Distinct /\ Ready(Idle) /\ HomeOK(Idle)
  BY RunningIsReady DEF IdleClean, HInv, Inv, TypeOK, Homes, At, Resuming
<1>2. PICK u \in Task : u = Head(terminating) /\ Contains(terminating, u)
  BY <1>1, TailExact DEF Distinct
<1>3. \A y : Contains(terminating', y) <=> Contains(terminating, y) /\ y # u
  BY <1>1, <1>2, TailExact DEF Distinct
<1>4. u # Idle /\ pc' = [pc EXCEPT ![u] = "none", ![Idle] = "freeStack"]
  BY <1>1, <1>2 DEF HomeOK, IdleClean
<1>5. /\ ~Contains(delayed, u) /\ ~Contains(overflow, u)
      /\ ~Contains(pending, u) /\ ~Contains(waiting, u)
  BY <1>1, <1>2 DEF Homes, HomeOK
<1>6. \A y \in Task : y # u => Alike(y)
  BY <1>1, <1>3, <1>4 DEF Alike
<1>7. Abstract!Becomes(u, TaskState(u)')
  BY <1>1, <1>5, <1>6, Becoming
<1>8. TaskState(u) = "deleted" /\ TaskState(u)' = "none"
  BY <1>1, <1>2, <1>4, StateOfLists, NextStateOfLists
<1>9. Abstract!Free(u)
  BY <1>1, <1>4, <1>7, <1>8, ViewsAre DEF Abstract!Free
<1> QED BY <1>9

\* The wake time of a task that blocks is as many ticks ahead as it asked for, across
\* the wrap if it is before the tick count.
LEMMA TimeToSleep ==
    ASSUME NEW now \in Tick, NEW ticks \in 1 .. portMAX_DELAY,
           NEW then, then = (now + ticks) % TickModulus
    PROVE  /\ then < now => then + TickModulus - now = ticks
           /\ ~(then < now) => then - now = ticks
<1> DEFINE M == TickModulus
<1>1. M \in Nat \ {0, 1} /\ now \in 0 .. M - 1 /\ ticks \in 1 .. M - 1
  BY ModulusPositive DEF Tick, portMAX_DELAY
<1> HIDE DEF M
<1>2. CASE now + ticks < M
  <2>1. (now + ticks) % M = now + ticks
    BY <1>1, <1>2
  <2> QED BY <1>1, <1>2, <2>1 DEF M
<1>3. CASE now + ticks >= M
  <2>1. PICK r : r = now + ticks - M
    OBVIOUS
  <2>2. r \in 0 .. M - 1 /\ now + ticks = M * 1 + r
    BY <1>1, <1>3, <2>1
  <2>3. (now + ticks) % M = r
    BY <1>1, <2>2
  <2>4. then = r
    BY <2>3 DEF M
  <2> QED BY <1>1, <2>1, <2>4 DEF M
<1> QED BY <1>1, <1>2, <1>3

\* vTaskDelay and vTaskPlaceOnEventList: the running task sleeps for the ticks it asked
\* for, or waits without a limit.
LEMMA BlockChanges ==
    ASSUME HInv, HInv', NEW t \in Task, NEW n \in 1 .. portMAX_DELAY,
           vTaskDelay(t, n) \/ vTaskPlaceOnEventList(t, n)
    PROVE  \/ \E e \in {"none", "waiting"} : Abstract!Sleep(t, n, e)
           \/ Abstract!WaitForever(t)
<1>1. /\ t = pxCurrentTCB /\ pc[t] = "block" /\ pc \in [Task -> PC] /\ t # Idle
      /\ Ready(t) /\ Homes /\ Homes' /\ Distinct /\ HomeOK(t)
      /\ waiting \in Seq(Task) /\ wake \in [Task -> Tick]
  BY DEF vTaskDelay, vTaskPlaceOnEventList, At, HInv, Inv, TypeOK, Blocking, IdleStays, Homes
<1>2. /\ UNCHANGED <<pending, deletionVars, xTickCount>>
      /\ pc' = [pc EXCEPT ![t] = "resumeAll"]
      /\ \/ vTaskDelay(t, n) /\ waiting' = waiting
         \/ vTaskPlaceOnEventList(t, n) /\ waiting' = InsertSorted(waiting, EventValue, t)
  BY DEF vTaskDelay, vTaskPlaceOnEventList, Blocked, Goto
<1>3. /\ ~Contains(pending, t) /\ ~Contains(waiting, t) /\ ~Contains(terminating, t)
      /\ ~Contains(delayed, t) /\ ~Contains(overflow, t) /\ t \notin suspended
  BY <1>1 DEF HomeOK
<1>4. \E e \in {"none", "waiting"} :
        /\ \A y \in Task : Contains(waiting', y)
                             <=> Contains(waiting, y) \/ (y = t /\ e = "waiting")
        /\ AddCurrentToDelayedList(t, n, e = "waiting")
  <2>1. CASE vTaskDelay(t, n) /\ waiting' = waiting
    <3>1. AddCurrentToDelayedList(t, n, FALSE) /\ "none" # "waiting"
      BY <2>1 DEF vTaskDelay
    <3>2. AddCurrentToDelayedList(t, n, "none" = "waiting")
      BY <3>1 DEF AddCurrentToDelayedList
    <3> QED BY <2>1, <3>2
  <2>2. CASE vTaskPlaceOnEventList(t, n) /\ waiting' = InsertSorted(waiting, EventValue, t)
    <3>1. AddCurrentToDelayedList(t, n, "waiting" = "waiting")
      BY <2>2 DEF vTaskPlaceOnEventList, AddCurrentToDelayedList
    <3>2. \A y : Contains(waiting', y) <=> y = t \/ Contains(waiting, y)
      BY <1>1, <2>2, InsertSortedExact
    <3> QED BY <3>1, <3>2
  <2> QED BY <1>2, <2>1, <2>2
<1>5. PICK e \in {"none", "waiting"} :
        /\ \A y \in Task : Contains(waiting', y)
                             <=> Contains(waiting, y) \/ (y = t /\ e = "waiting")
        /\ AddCurrentToDelayedList(t, n, e = "waiting")
  BY <1>4
<1>6. /\ \A y : y # t => /\ Contains(delayed', y) <=> Contains(delayed, y)
                         /\ Contains(overflow', y) <=> Contains(overflow, y)
                         /\ y \in suspended' <=> y \in suspended
      /\ \/ Contains(delayed', t) /\ ~Contains(overflow', t) /\ t \notin suspended'
         \/ ~Contains(delayed', t) /\ Contains(overflow', t) /\ t \notin suspended'
         \/ ~Contains(delayed', t) /\ ~Contains(overflow', t) /\ t \in suspended'
  BY <1>1, <1>5, AddCurrentExact
<1>7. \A y \in Task : y # t => Alike(y)
  BY <1>1, <1>2, <1>5, <1>6 DEF Alike
<1>8. Event(t)' = e
  BY <1>2, <1>3, <1>5 DEF Event
<1>9. \A y \in Task : y # t => wake'[y] = wake[y]
  BY <1>1, <1>5 DEF AddCurrentToDelayedList
<1>10. /\ States' = [States EXCEPT ![t] = TaskState(t)']
       /\ Lefts' = [Lefts EXCEPT ![t] = TicksLeft(t)']
       /\ Events' = [Events EXCEPT ![t] = e]
  BY <1>1, <1>2, <1>7, <1>8, <1>9, OneChanges
<1>11. States[t] = "ready" /\ Lefts[t] = 0
  BY <1>1, <1>3, StateOfLists, ViewsAre
<1>12. CASE n = portMAX_DELAY /\ e = "waiting"
  <2>1. t \in suspended'
    BY <1>5, <1>12 DEF AddCurrentToDelayedList
  <2>2. TaskState(t)' = "suspended" /\ TicksLeft(t)' = 0
    BY <1>1, <1>6, <2>1, NextStateOfLists
  <2>3. UNCHANGED Lefts
    BY <1>10, <1>11, <2>2 DEF Lefts
  <2> QED BY <1>1, <1>10, <1>11, <1>12, <2>2, <2>3 DEF Abstract!WaitForever
<1>13. CASE ~(n = portMAX_DELAY /\ e = "waiting")
  <2>1. PICK then : then = (xTickCount + n) % TickModulus
    OBVIOUS
  <2>2. /\ wake' = [wake EXCEPT ![t] = then] /\ wake'[t] = then
        /\ IF then < xTickCount THEN overflow' = InsertSorted(overflow, wake', t)
           ELSE delayed' = InsertSorted(delayed, wake', t)
    <3>1. /\ wake' = [wake EXCEPT ![t] = then]
          /\ IF wake'[t] < xTickCount THEN overflow' = InsertSorted(overflow, wake', t)
             ELSE delayed' = InsertSorted(delayed, wake', t)
      BY <1>5, <1>13, <2>1 DEF AddCurrentToDelayedList
    <3>2. wake'[t] = then
      BY <1>1, <3>1
    <3> QED BY <3>1, <3>2
  <2>3. /\ then < xTickCount => then + TickModulus - xTickCount = n
        /\ ~(then < xTickCount) => then - xTickCount = n
    BY <2>1, TimeToSleep, TimesAreNumbers
  <2>4. CASE then < xTickCount
    <3>1. Contains(overflow', t)
      BY <2>2, <2>4, InsertSortedExact, TimesAreNumbers
    <3>2. TaskState(t)' = "asleep" /\ TicksLeft(t)' = n
      BY <1>1, <1>2, <1>6, <2>2, <2>3, <2>4, <3>1, NextStateOfLists DEF TicksLeft
    <3> QED BY <1>1, <1>10, <1>11, <3>2 DEF Abstract!Sleep
  <2>5. CASE ~(then < xTickCount)
    <3>1. Contains(delayed', t)
      BY <2>2, <2>5, InsertSortedExact, TimesAreNumbers
    <3>2. TaskState(t)' = "asleep" /\ TicksLeft(t)' = n
      BY <1>1, <1>2, <1>6, <2>2, <2>3, <2>5, <3>1, NextStateOfLists DEF TicksLeft
    <3> QED BY <1>1, <1>10, <1>11, <3>2 DEF Abstract!Sleep
  <2> QED BY <2>4, <2>5
<1> QED BY <1>12, <1>13

\* xTaskIncrementTick up to its loop: everybody who sleeps has a tick less to sleep, and
\* had one left, also when the count wraps and the lists change places.
LEMMA TickChanges ==
    ASSUME HInv, HInv', Times, inTick = "no", BeginTick,
           UNCHANGED <<suspended, eventLists, terminating, wake, pc>>
    PROVE  Abstract!CountTick
<1>1. PICK now : now = (xTickCount + 1) % TickModulus
  OBVIOUS
<1>2. /\ xTickCount' = now
      /\ IF now = 0 THEN delayed' = overflow /\ overflow' = delayed
         ELSE UNCHANGED <<delayed, overflow>>
  BY <1>1 DEF BeginTick
<1>3. /\ xTickCount \in Nat /\ TickModulus \in Nat /\ xTickCount < TickModulus
      /\ \A y \in Task : wake[y] \in Nat /\ wake[y] < TickModulus
      /\ \/ now = xTickCount + 1 /\ now # 0
         \/ now = 0 /\ xTickCount + 1 = TickModulus
  <2> DEFINE M == TickModulus
  <2>1. M \in Nat \ {0, 1} /\ xTickCount \in 0 .. M - 1
        /\ \A y \in Task : wake[y] \in 0 .. M - 1
    BY ModulusPositive, TimesAreNumbers DEF Tick
  <2>2. now = (xTickCount + 1) % M
    BY <1>1
  <2> HIDE DEF M
  <2>3. CASE xTickCount + 1 < M
    <3>1. now = xTickCount + 1
      BY <2>1, <2>2, <2>3
    <3> QED BY <2>1, <3>1 DEF M
  <2>4. CASE xTickCount + 1 = M
    <3>1. now = 0
      BY <2>1, <2>2, <2>4
    <3> QED BY <2>1, <2>4, <3>1 DEF M
  <2> QED BY <2>1, <2>3, <2>4
<1>4. /\ Homes /\ Homes'
      /\ \A y \in Task : Contains(delayed, y) => wake[y] > xTickCount /\ ~Contains(overflow, y)
      /\ \A y \in Task : Contains(overflow, y) => wake[y] < xTickCount
  BY DEF HInv, Homes, HomeOK, Times
<1>5. now = 0 => \A y \in Task : ~Contains(delayed, y)
  <2> SUFFICES ASSUME now = 0, NEW y \in Task, Contains(delayed, y) PROVE FALSE
    OBVIOUS
  <2> QED BY <1>3, <1>4
<1>6. \A y \in Task : /\ Contains(delayed', y) \/ Contains(overflow', y)
                         <=> Contains(delayed, y) \/ Contains(overflow, y)
                      /\ Event(y)' = Event(y)
  BY <1>2 DEF Event
<1>7. \A y \in Task : TaskState(y)' = TaskState(y)
  BY <1>4, <1>6, StateOfLists, NextStateOfLists
<1>8. ASSUME NEW y \in Task
      PROVE  IF TaskState(y) = "asleep"
             THEN TicksLeft(y) > 0 /\ TicksLeft(y)' = TicksLeft(y) - 1
             ELSE TicksLeft(y)' = TicksLeft(y)
  <2>1. CASE ~Contains(delayed, y) /\ ~Contains(overflow, y)
    BY <1>4, <1>6, <2>1, StateOfLists DEF TicksLeft
  <2>2. CASE Contains(delayed, y)
    <3>1. TicksLeft(y) = wake[y] - xTickCount /\ TicksLeft(y)' = wake[y] - now
      BY <1>2, <1>4, <1>5, <2>2 DEF TicksLeft
    <3> QED BY <1>3, <1>4, <1>5, <2>2, <3>1, StateOfLists
  <2>3. CASE Contains(overflow, y) /\ now # 0
    <3>1. ~Contains(delayed, y)
      BY <1>4, <2>3
    <3>2. /\ TicksLeft(y) = wake[y] + TickModulus - xTickCount
          /\ TicksLeft(y)' = wake[y] + TickModulus - now
      BY <1>2, <2>3, <3>1 DEF TicksLeft
    <3>3. now = xTickCount + 1
      BY <1>3, <2>3
    <3> QED BY <1>3, <1>4, <2>3, <3>2, <3>3, StateOfLists
  <2>4. CASE Contains(overflow, y) /\ now = 0
    <3>1. ~Contains(delayed, y)
      BY <1>4, <2>4
    <3>2. /\ TicksLeft(y) = wake[y] + TickModulus - xTickCount
          /\ TicksLeft(y)' = wake[y] - now
      BY <1>2, <2>4, <3>1 DEF TicksLeft
    <3> QED BY <1>3, <1>4, <2>4, <3>2, StateOfLists
  <2> QED BY <2>1, <2>2, <2>3, <2>4
<1>9. States' = States /\ Events' = Events
  BY <1>6, <1>7 DEF States, Events
<1>10. Lefts' = [y \in Task |-> IF States[y] = "asleep" THEN Lefts[y] - 1 ELSE Lefts[y]]
  BY <1>8 DEF Lefts, States
<1>11. \A y \in Task : States[y] = "asleep" => Lefts[y] > 0
  BY <1>8, ViewsAre
<1> QED BY <1>9, <1>10, <1>11 DEF Abstract!CountTick

\* The ticks that are counted at once, and those that wait for xTaskResumeAll.
LEMMA TickIsCounted ==
    ASSUME HInv, HInv', Times, NEW t \in Task, TickInterrupt \/ ReplayTick(t)
    PROVE  Abstract!CountTick \/ UNCHANGED Views
<1>1. CASE ReplayTick(t)
  BY <1>1, TickChanges DEF ReplayTick, At
<1>2. CASE TickInterrupt /\ uxSchedulerSuspended = 0
  BY <1>2, TickChanges DEF TickInterrupt
<1>3. CASE TickInterrupt /\ uxSchedulerSuspended # 0
  <2>1. UNCHANGED <<blockedLists, eventLists, terminating, xTickCount, wake, pc>>
    BY <1>3 DEF TickInterrupt
  <2> QED BY <2>1, NoneChanges DEF Views, Alike, HInv
<1> QED BY <1>1, <1>2, <1>3
-----------------------------------------------------------------------------
(* The task states are implemented.                                        *)

\* The tasks of the start are ready, and one of them runs.
LEMMA InitRefines == Init => Abstract!AbsInit
<1> SUFFICES ASSUME Init PROVE Abstract!AbsInit
  OBVIOUS
<1>1. Homes /\ uxPriority \in [Task -> Priority]
  BY InitHomes DEF HInv, Inv, TypeOK
<1>2. /\ \A p \in Priority : pxReadyTasksLists[p].items = InitialReady[p]
      /\ delayed = <<>> /\ overflow = <<>> /\ pending = <<>> /\ waiting = <<>>
      /\ \A y \in Task : pc[y] # "none" <=> Created(y)
  BY DEF Init
<1>3. \A y : ~Contains(<<>>, y)
  BY EmptySeq DEF Contains
<1>4. ASSUME NEW y \in Task
      PROVE  /\ TaskState(y) = IF Created(y) THEN "ready" ELSE "none"
             /\ TicksLeft(y) = 0 /\ Event(y) = "none"
  <2>1. Ready(y) <=> Created(y)
    BY <1>1, <1>2, InitLists DEF Ready
  <2>2. TicksLeft(y) = 0 /\ Event(y) = "none"
    BY <1>2, <1>3 DEF TicksLeft, Event
  <2> QED BY <1>1, <1>2, <2>1, <2>2, StateOfLists
<1>5. pxCurrentTCB \in Task /\ Created(pxCurrentTCB)
  <2>1. /\ pxCurrentTCB \in Task /\ uxTopReadyPriority \in Priority
        /\ Contains(InitialReady[uxTopReadyPriority], pxCurrentTCB)
        /\ uxPriority[pxCurrentTCB] = uxTopReadyPriority
    BY InitLists
  <2> QED BY <2>1, InitLists
<1>6. /\ States = [y \in Task |-> IF y \in {u \in Task : Created(u)} THEN "ready" ELSE "none"]
      /\ Lefts = [y \in Task |-> 0] /\ Events = [y \in Task |-> "none"]
  BY <1>4 DEF States, Lefts, Events
<1> QED BY <1>5, <1>6 DEF Abstract!AbsInit

\* Every step of the kernel is a step of one task state, a tick, or none.
LEMMA NextRefines ==
    HInv /\ HInv' /\ Times /\ [Next]_vars => [Abstract!AbsNext]_(Abstract!absVars)
<1> DEFINE Goal == \/ Abstract!CountTick
                   \/ \E u \in Task : Abstract!Change(u)
                   \/ UNCHANGED Views
<1> SUFFICES ASSUME HInv, HInv', Times, [Next]_vars
             PROVE  [Abstract!AbsNext]_(Abstract!absVars)
  OBVIOUS
<1>1. ASSUME UNCHANGED vars PROVE UNCHANGED <<Views, pxCurrentTCB>>
  <2>1. UNCHANGED <<blockedLists, eventLists, terminating, xTickCount, wake, pc, pxCurrentTCB>>
    BY <1>1 DEF vars
  <2> QED BY <2>1, NoneChanges DEF Views, Alike, HInv
<1>2. ASSUME NEW t \in Task, Proceed(t) PROVE Goal
  <2>1. CASE \/ ExitCritical(t) \/ YieldWithinAPI(t) \/ EnterResumeAll(t) \/ DrainEnd(t)
             \/ LeaveResumeAll(t) \/ AfterSuspend(t) \/ AfterDelete(t) \/ AllocateTCB(t)
             \/ AllocateFails(t) \/ Compare(t)
    BY <2>1, StillSteps
  <2>2. CASE Drain(t)
    BY <2>2, WakeUps DEF Abstract!Change
  <2>3. CASE ReplayTick(t)
    BY <2>3, TickIsCounted
  <2>4. ASSUME NEW n \in 1 .. portMAX_DELAY, vTaskDelay(t, n) \/ vTaskPlaceOnEventList(t, n)
        PROVE  Abstract!Change(t)
    BY <2>4, BlockChanges DEF Abstract!Change
  <2>5. ASSUME NEW u \in AppTask, NEW p \in Priority, AddNewTask(t, u, p)
        PROVE  Abstract!Change(u) /\ u \in Task
    BY <2>5, CreateChanges DEF Abstract!Change, AppTask
  <2> QED BY <1>2, <2>1, <2>2, <2>3, <2>4, <2>5 DEF Proceed
<1>3. ASSUME NEW t \in Task, CallAPI(t) PROVE Goal
  <2>1. CASE \/ TaskYield(t) \/ vTaskSuspendAll(t) \/ BlockingCall(t) \/ xTaskCreate(t)
             \/ \E u \in AppTask, p \in Priority : vTaskPrioritySet(t, u, p)
    BY <2>1, StillSteps
  <2>2. CASE Post(t)
    BY <2>2, PostChanges DEF Abstract!Change
  <2>3. CASE DeleteSelf(t) \/ \E u \in AppTask : vTaskDelete(t, u)
    BY <2>3, DeleteChanges DEF Abstract!Change
  <2>4. ASSUME NEW u \in AppTask, vTaskSuspend(t, u) PROVE Abstract!Change(u) /\ u \in Task
    BY <2>4, SuspendChanges DEF Abstract!Change, AppTask
  <2>5. ASSUME NEW u \in AppTask, vTaskResume(t, u) PROVE Abstract!Change(u) /\ u \in Task
    BY <2>5, ResumeChanges DEF Abstract!Change, AppTask
  <2> QED BY <1>3, <2>1, <2>2, <2>3, <2>4, <2>5 DEF CallAPI
<1>4. ASSUME NEW t \in Task, xTaskResumeAll(t) PROVE Goal
  BY <1>4, StillSteps
<1>5. ASSUME IdleTask PROVE Goal
  <2>1. CASE IdleLoop \/ IdleCheck \/ IdleFree
    BY <2>1, StillSteps, PriorityIsNat
  <2>2. CASE IdleClean
    BY <2>2, FreeChanges DEF Abstract!Change
  <2> QED BY <1>5, <2>1, <2>2 DEF IdleTask
<1>6. ASSUME TickInterrupt \/ InTick PROVE Goal
  <2>1. CASE TickInterrupt
    BY <2>1, TickIsCounted, PriorityIsNat
  <2>2. CASE TickUnblock
    BY <2>2, WakeUps, PriorityIsNat DEF Abstract!Change
  <2>3. CASE TickSlice
    BY <2>3, StillSteps, PriorityIsNat
  <2> QED BY <1>6, <2>1, <2>2, <2>3 DEF InTick
<1>7. ASSUME PostFromISR \/ \E u \in AppTask : xTaskResumeFromISR(u) PROVE Goal
  <2>1. CASE PostFromISR
    BY <2>1, PostChanges, PriorityIsNat DEF Abstract!Change
  <2>2. ASSUME NEW u \in AppTask, xTaskResumeFromISR(u) PROVE Abstract!Change(u) /\ u \in Task
    BY <2>2, ResumeChanges, PriorityIsNat DEF Abstract!Change, AppTask
  <2> QED BY <1>7, <2>1, <2>2
<1>8. ASSUME Next PROVE Abstract!AbsNext
  <2>1. Goal
    BY <1>2, <1>3, <1>4, <1>5, <1>6, <1>7, <1>8 DEF Next
  <2>2. Abstract!Switch
    <3>1. pxCurrentTCB \in Task /\ pxCurrentTCB' \in Task /\ Homes'
      BY DEF HInv, Inv, TypeOK
    <3>2. Ready(pxCurrentTCB)' => States'[pxCurrentTCB'] = "ready"
      <4>1. \A y \in Task : States'[y] = "ready" <=> Ready(y)'
        BY <3>1, ViewsAre, NextStateOfLists
      <4> QED BY <3>1, <4>1 DEF Ready
    <3> QED BY <1>8, <3>2, WhoRuns DEF Abstract!Switch
  <2> QED BY <2>1, <2>2 DEF Abstract!AbsNext, Views
<1> QED BY <1>1, <1>8 DEF Abstract!absVars, Views

\* The scheduler implements the task states, for any tasks, priorities, width of the tick
\* count and calls: a task sleeps for exactly the ticks it asked for, across the wrap of
\* the count and the suspensions of the scheduler, wakes for its event or its time only
\* (or is resumed), and whoever is switched in is ready.
THEOREM SchedulerImplementsTaskStates == Spec => ImplementsTaskStates
BY InitRefines, NextRefines, HomesInvariant, TimesInvariant, PTL
   DEF Spec, ImplementsTaskStates, Abstract!AbsSpec
=============================================================================
