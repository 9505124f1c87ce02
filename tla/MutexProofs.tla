---------------------------- MODULE MutexProofs ----------------------------
(***************************************************************************)
(* Theorems about Mutex, for any tasks, mutexes, priorities, changes of    *)
(* priority and time limits: types, that what a task has inherited is gone *)
(* with its last mutex, and that a holder is as urgent as those that wait  *)
(* for it.                                                                 *)
(***************************************************************************)
EXTENDS Mutex, ListTheorems, FiniteSetTheorems

USE DEF historyVars

\* The types, in the parts that actions disturb together.
ControlTypes ==
    /\ pxCurrentTCB \in Task
    /\ blocked \in [Task -> BOOLEAN] /\ ~blocked[Idle]
    /\ pc \in [Task -> PC]
    /\ target \in [Task -> SUBSET Mutex] /\ target[Idle] = {}
    /\ wait \in [Task -> {"none", "limited", "forever", "expired"}]
    /\ changed \in BOOLEAN /\ missed \in BOOLEAN

PriorityTypes ==
    /\ uxPriority \in [Task -> Priority] /\ uxBasePriority \in [Task -> Priority]
    /\ eventValue \in [Task -> 1 .. MaxPriorities]

MutexTypes ==
    /\ uxMutexesHeld \in [Task -> Nat]
    /\ pxMutexHolder \in [Mutex -> AppTask \cup {NoTask}]

ListTypes == xTasksWaitingToReceive \in [Mutex -> Seq(AppTask)]

\* uxMutexesHeld counts the mutexes whose pxMutexHolder is the task.
HeldCounted == \A t \in Task : uxMutexesHeld[t] = Cardinality(Held(t))

\* A priority differs from the base priority only while a mutex is held.
BaseWithoutMutex == \A t \in Task : uxMutexesHeld[t] = 0 => uxPriority[t] = uxBasePriority[t]

\* A task at its base priority has the event item value of it.
ItemsMatch ==
    \A t \in Task : uxPriority[t] = uxBasePriority[t] => eventValue[t] = Urgency(uxBasePriority[t])

Inv ==
    /\ ControlTypes /\ PriorityTypes /\ MutexTypes /\ ListTypes
    /\ HeldCounted /\ BaseWithoutMutex /\ ItemsMatch

-----------------------------------------------------------------------------
\* A task holds finitely many mutexes, at most all of them.
LEMMA HeldFinite ==
    ASSUME NEW t
    PROVE  /\ IsFiniteSet(Held(t)) /\ Cardinality(Held(t)) \in Nat
           /\ Cardinality(Held(t)) <= Cardinality(Mutex) /\ Cardinality(Mutex) \in Nat
<1>1. Held(t) \subseteq Mutex /\ IsFiniteSet(Mutex)
  BY MutexAssumption DEF Held
<1> QED BY <1>1, FS_Subset, FS_CardinalityType

\* A priority has an event item value.
LEMMA UrgencyType == ASSUME NEW p \in Priority PROVE Urgency(p) \in 1 .. MaxPriorities
BY MutexAssumption DEF Urgency, Priority

\* Inv gives the types and the property the runs check.
LEMMA InvGives == Inv => TypeOK /\ RaisedOnlyWhileHolding
<1> SUFFICES ASSUME Inv PROVE TypeOK /\ RaisedOnlyWhileHolding
  OBVIOUS
<1>1. uxMutexesHeld \in [Task -> 0 .. Cardinality(Mutex)]
  <2>1. \A t \in Task : uxMutexesHeld[t] \in 0 .. Cardinality(Mutex)
    BY HeldFinite DEF Inv, HeldCounted
  <2> QED BY <2>1 DEF Inv, MutexTypes
<1>2. TypeOK
  BY <1>1 DEF Inv, ControlTypes, PriorityTypes, MutexTypes, ListTypes, TypeOK
<1>3. RaisedOnlyWhileHolding
  BY DEF Inv, HeldCounted, BaseWithoutMutex, ItemsMatch, RaisedOnlyWhileHolding
<1> QED BY <1>2, <1>3

LEMMA InitInv == Init => Inv
<1> SUFFICES ASSUME Init PROVE Inv
  OBVIOUS
<1>1. ControlTypes
  BY MutexAssumption DEF Init, ControlTypes, MostUrgent, PC
<1>2. PriorityTypes
  BY MutexAssumption, UrgencyType DEF Init, PriorityTypes
<1>3. MutexTypes /\ ListTypes
  BY DEF Init, MutexTypes, ListTypes
<1>4. HeldCounted
  <2> SUFFICES ASSUME NEW t \in Task PROVE uxMutexesHeld[t] = Cardinality(Held(t))
    BY DEF HeldCounted
  <2>1. Held(t) = {}
    BY MutexAssumption DEF Held, Init
  <2> QED BY <2>1, FS_EmptySet DEF Init
<1>5. BaseWithoutMutex /\ ItemsMatch
  BY DEF Init, BaseWithoutMutex, ItemsMatch
<1> QED BY <1>1, <1>2, <1>3, <1>4, <1>5 DEF Inv

-----------------------------------------------------------------------------
\* A step that leaves the holders and their counts alone keeps what is said of them.
LEMMA CountsStay ==
    ASSUME HeldCounted, UNCHANGED <<pxMutexHolder, uxMutexesHeld>>
    PROVE  HeldCounted'
<1>1. \A t : Held(t)' = Held(t)
  BY DEF Held
<1> QED BY <1>1 DEF HeldCounted

\* A step that leaves the priorities alone as well keeps all but the control.
LEMMA MutexesStay ==
    ASSUME Inv, UNCHANGED <<priorityVars, mutexVars>>
    PROVE  /\ PriorityTypes' /\ MutexTypes' /\ ListTypes'
           /\ HeldCounted' /\ BaseWithoutMutex' /\ ItemsMatch'
<1>1. HeldCounted'
  BY CountsStay DEF Inv, mutexVars
<1>2. PriorityTypes' /\ MutexTypes' /\ ListTypes' /\ BaseWithoutMutex' /\ ItemsMatch'
  BY DEF Inv, priorityVars, mutexVars, PriorityTypes, MutexTypes, ListTypes, BaseWithoutMutex,
         ItemsMatch
<1> QED BY <1>1, <1>2

\* KeepHistory keeps the types of the history variables.
LEMMA HistoryType ==
    KeepHistory /\ changed \in BOOLEAN /\ missed \in BOOLEAN
        => changed' \in BOOLEAN /\ missed' \in BOOLEAN
BY DEF KeepHistory

\* A call of xSemaphoreTake begins.
LEMMA TakeKeepsInv ==
    ASSUME Inv, NEW t \in Task, NEW m \in Mutex, NEW limit \in Limits, Take(t, m, limit)
    PROVE  Inv'
<1>1. limit \in {"none", "limited", "forever", "expired"}
  BY MutexAssumption
<1>2. ControlTypes'
  BY <1>1 DEF Take, Enter, Inv, ControlTypes, PC
<1> QED BY <1>2, MutexesStay DEF Take, Inv

\* The steps of a call that touch neither the priorities nor the mutexes.
LEMMA CallKeepsInv ==
    ASSUME Inv, NEW t \in Task, NEW m \in Mutex,
           NotNow(t, m) \/ DoNotWait(t, m) \/ Recheck(t, m)
    PROVE  Inv'
<1>1. UNCHANGED <<priorityVars, mutexVars, pxCurrentTCB, blocked>>
  BY DEF NotNow, DoNotWait, Recheck
<1>2. ControlTypes'
  <2>1. CASE NotNow(t, m)
    <3>1. changed' \in BOOLEAN /\ missed' \in BOOLEAN
      BY <2>1, HistoryType DEF NotNow, Inv, ControlTypes
    <3>2. CASE Return(t)
      BY <3>1, <3>2, <1>1 DEF Return, Enter, Inv, ControlTypes, PC
    <3>3. CASE Goto(t, "block")
      BY <3>1, <3>3, <1>1 DEF Goto, Inv, ControlTypes, PC
    <3> QED BY <2>1, <3>2, <3>3 DEF NotNow
  <2>2. CASE DoNotWait(t, m)
    BY <2>2 DEF DoNotWait, Goto, Inv, ControlTypes, PC
  <2>3. CASE Recheck(t, m)
    <3>1. changed' \in BOOLEAN /\ missed' \in BOOLEAN
      BY <2>3, HistoryType DEF Recheck, Inv, ControlTypes
    <3>2. CASE Return(t)
      BY <3>1, <3>2, <1>1 DEF Return, Enter, Inv, ControlTypes, PC
    <3>3. CASE Goto(t, "look")
      BY <3>1, <3>3, <1>1 DEF Goto, Inv, ControlTypes, PC
    <3> QED BY <2>3, <3>2, <3>3 DEF Recheck
  <2> QED BY <2>1, <2>2, <2>3
<1> QED BY <1>1, <1>2, MutexesStay DEF Inv


\* A mutex is taken: its holder has one more, and is counted with one more.
LEMMA TakeNowKeepsInv ==
    ASSUME Inv, NEW t \in Task, NEW m \in Mutex, TakeNow(t, m)
    PROVE  Inv'
<1>1. t \in AppTask
  BY DEF TakeNow, Inv, ControlTypes, AppTask
<1>2. ControlTypes'
  BY DEF TakeNow, Return, Enter, Inv, ControlTypes, PC
<1>3. PriorityTypes' /\ MutexTypes' /\ ListTypes' /\ ItemsMatch'
  BY <1>1 DEF TakeNow, Inv, priorityVars, PriorityTypes, MutexTypes, ListTypes, ItemsMatch
<1>4. HeldCounted'
  <2> SUFFICES ASSUME NEW u \in Task PROVE uxMutexesHeld'[u] = Cardinality(Held(u)')
    BY DEF HeldCounted
  <2>1. CASE u = t
    <3>1. Held(t)' = Held(t) \cup {m} /\ m \notin Held(t)
      BY <1>1, MutexAssumption DEF TakeNow, Held, Inv, MutexTypes, AppTask
    <3>2. Cardinality(Held(t)') = Cardinality(Held(t)) + 1
      BY <3>1, HeldFinite, FS_AddElement
    <3> QED BY <2>1, <3>2 DEF TakeNow, Inv, MutexTypes, HeldCounted
  <2>2. CASE u # t
    <3>1. Held(u)' = Held(u)
      BY <2>2, MutexAssumption DEF TakeNow, Held, Inv, MutexTypes
    <3> QED BY <2>2, <3>1 DEF TakeNow, Inv, MutexTypes, HeldCounted
  <2> QED BY <2>1, <2>2
<1>5. BaseWithoutMutex'
  BY DEF TakeNow, priorityVars, Inv, MutexTypes, BaseWithoutMutex
<1> QED BY <1>2, <1>3, <1>4, <1>5 DEF Inv

\* Placing the task on the event list of the mutex changes lists and the control only.
LEMMA PlaceTypes ==
    ASSUME Inv, NEW t \in Task, NEW m \in Mutex, Place(t, m)
    PROVE  /\ blocked' \in [Task -> BOOLEAN] /\ ~blocked'[Idle]
           /\ pc' \in [Task -> PC]
           /\ ListTypes'
<1>1. t \in AppTask /\ t # Idle
  BY DEF Place, Inv, ControlTypes, AppTask
<1>2. InsertSorted(xTasksWaitingToReceive[m], eventValue, t) \in Seq(AppTask)
  BY <1>1, InsertSortedProperties DEF Inv, ListTypes
<1>3. ListTypes'
  BY <1>2 DEF Place, Inv, ListTypes
<1> QED BY <1>1, <1>3 DEF Place, Goto, Inv, ControlTypes, PC

\* A holder that inherits holds a mutex, and its event item follows its priority.
LEMMA WaitKeepsInv ==
    ASSUME Inv, NEW t \in Task, NEW m \in Mutex, Wait(t, m)
    PROVE  Inv'
<1> DEFINE h == pxMutexHolder[m]
<1>1. Place(t, m) /\ vTaskPriorityInherit(h, t) /\ pxCurrentTCB' \in MostUrgent'
  BY DEF Wait, Switch
<1>2. h \in Task /\ h \in AppTask
  BY <1>1 DEF Place, Inv, MutexTypes, AppTask
<1>3. ControlTypes'
  BY <1>1, PlaceTypes DEF Place, Goto, MostUrgent, Inv, ControlTypes
<1>4. PriorityTypes'
  BY <1>1, <1>2, UrgencyType DEF Place, vTaskPriorityInherit, Inv, PriorityTypes
<1>5. MutexTypes' /\ ListTypes'
  BY <1>1, PlaceTypes DEF Place, Inv, MutexTypes
<1>6. HeldCounted'
  BY <1>1, CountsStay DEF Place, Inv
<1>7. uxMutexesHeld[h] # 0
  <2>1. m \in Held(h)
    BY DEF Held
  <2>2. Cardinality(Held(h)) # 0
    BY <2>1, HeldFinite, FS_EmptySet
  <2> QED BY <1>2, <2>2 DEF Inv, HeldCounted
<1>8. BaseWithoutMutex'
  BY <1>1, <1>2, <1>7 DEF Place, vTaskPriorityInherit, Inv, PriorityTypes, BaseWithoutMutex
<1>9. ItemsMatch'
  BY <1>1, <1>2 DEF Place, vTaskPriorityInherit, Inv, PriorityTypes, ItemsMatch
<1> QED BY <1>3, <1>4, <1>5, <1>6, <1>8, <1>9 DEF Inv

\* With its last mutex a task returns to its base priority.
LEMMA GiveKeepsInv ==
    ASSUME Inv, NEW t \in Task, NEW m \in Mutex, Give(t, m)
    PROVE  Inv'
<1> DEFINE waiters == xTasksWaitingToReceive[m]
           first == Head(waiters)
<1>1. /\ pxMutexHolder[m] = t /\ xTaskPriorityDisinherit(t)
      /\ pxMutexHolder' = [pxMutexHolder EXCEPT ![m] = NoTask]
      /\ UNCHANGED callVars
  BY DEF Give
<1>2. t \in Task /\ t # NoTask
  BY MutexAssumption
<1>3. waiters \in Seq(AppTask)
  BY DEF Inv, ListTypes
<1>4. ListTypes' /\ blocked' \in [Task -> BOOLEAN] /\ ~blocked'[Idle]
  <2>1. CASE waiters # <<>>
    <3>1. first \in AppTask /\ Tail(waiters) \in Seq(AppTask)
      BY <1>3, <2>1, HeadTailProperties
    <3>2. /\ xTasksWaitingToReceive' = [xTasksWaitingToReceive EXCEPT ![m] = Tail(@)]
          /\ blocked' = [blocked EXCEPT ![first] = FALSE]
      BY <2>1 DEF Give
    <3>3. ListTypes'
      BY <3>1, <3>2 DEF Inv, ListTypes
    <3>4. blocked' \in [Task -> BOOLEAN] /\ ~blocked'[Idle]
      BY <3>1, <3>2 DEF Inv, ControlTypes, AppTask
    <3> QED BY <3>3, <3>4
  <2>2. CASE waiters = <<>>
    BY <2>2 DEF Give, Inv, ListTypes, ControlTypes
  <2> QED BY <2>1, <2>2
<1>5. pxCurrentTCB' \in Task
  BY DEF Give, Switch, MostUrgent, Inv, ControlTypes
<1>6. ControlTypes'
  BY <1>1, <1>4, <1>5 DEF Give, callVars, Inv, ControlTypes
<1>7. uxMutexesHeld[t] = Cardinality(Held(t)) /\ uxMutexesHeld[t] \in Nat \ {0}
  <2>1. m \in Held(t)
    BY <1>1 DEF Held
  <2>2. Cardinality(Held(t)) # 0
    BY <2>1, HeldFinite, FS_EmptySet
  <2> QED BY <2>2 DEF Inv, HeldCounted, MutexTypes
<1>8. MutexTypes'
  BY <1>1, <1>7 DEF xTaskPriorityDisinherit, Inv, MutexTypes
<1>9. PriorityTypes'
  BY <1>1, UrgencyType DEF xTaskPriorityDisinherit, Inv, PriorityTypes
<1>10. HeldCounted'
  <2> SUFFICES ASSUME NEW u \in Task PROVE uxMutexesHeld'[u] = Cardinality(Held(u)')
    BY DEF HeldCounted
  <2>1. CASE u = t
    <3>1. Held(t)' = Held(t) \ {m} /\ m \in Held(t)
      BY <1>1, <1>2 DEF Held, Inv, MutexTypes
    <3>2. Cardinality(Held(t)') = Cardinality(Held(t)) - 1
      BY <3>1, HeldFinite, FS_RemoveElement
    <3> QED BY <2>1, <3>2, <1>1, <1>7 DEF xTaskPriorityDisinherit, Inv, MutexTypes
  <2>2. CASE u # t
    <3>1. Held(u)' = Held(u)
      BY <2>2, <1>1, MutexAssumption DEF Held, Inv, MutexTypes
    <3> QED BY <2>2, <3>1, <1>1 DEF xTaskPriorityDisinherit, Inv, MutexTypes, HeldCounted
  <2> QED BY <2>1, <2>2
<1>11. BaseWithoutMutex'
  <2> SUFFICES ASSUME NEW u \in Task, uxMutexesHeld'[u] = 0
               PROVE  uxPriority'[u] = uxBasePriority'[u]
    BY DEF BaseWithoutMutex
  <2>1. CASE u = t
    BY <2>1, <1>1, <1>7 DEF xTaskPriorityDisinherit, Disinherits, Inv, MutexTypes, PriorityTypes
  <2>2. CASE u # t
    BY <2>2, <1>1 DEF xTaskPriorityDisinherit, Inv, MutexTypes, PriorityTypes, BaseWithoutMutex
  <2> QED BY <2>1, <2>2
<1>12. ItemsMatch'
  BY <1>1 DEF xTaskPriorityDisinherit, Inv, PriorityTypes, ItemsMatch
<1> QED BY <1>4, <1>6, <1>8, <1>9, <1>10, <1>11, <1>12 DEF Inv

\* A priority is set: at once without inheritance, the base priority alone with it.
LEMMA PrioritySetKeepsInv ==
    ASSUME Inv, NEW t \in Task, NEW u \in Task, NEW p \in NewPriorities[u],
           vTaskPrioritySet(t, u, p)
    PROVE  Inv'
<1>1. p \in Priority
  BY MutexAssumption
<1>2. ControlTypes'
  <2>1. changed' \in BOOLEAN /\ missed' \in BOOLEAN
    BY DEF vTaskPrioritySet, SomeInvolved, Inv, ControlTypes
  <2>2. pxCurrentTCB' \in Task
    BY DEF vTaskPrioritySet, Switch, MostUrgent, Inv, ControlTypes
  <2> QED BY <2>1, <2>2 DEF vTaskPrioritySet, callVars, Inv, ControlTypes
<1>3. PriorityTypes'
  BY <1>1, UrgencyType DEF vTaskPrioritySet, Inv, PriorityTypes
<1>4. MutexTypes' /\ ListTypes'
  BY DEF vTaskPrioritySet, mutexVars, Inv, MutexTypes, ListTypes
<1>5. HeldCounted'
  BY CountsStay DEF vTaskPrioritySet, mutexVars, Inv
<1>6. BaseWithoutMutex' /\ ItemsMatch'
  BY DEF vTaskPrioritySet, SetsPriority, mutexVars, Inv, PriorityTypes, BaseWithoutMutex, ItemsMatch
<1> QED BY <1>2, <1>3, <1>4, <1>5, <1>6 DEF Inv

LEMMA DelayKeepsInv ==
    ASSUME Inv, NEW t \in Task, vTaskDelay(t)
    PROVE  Inv'
<1>1. ControlTypes'
  BY DEF vTaskDelay, Enter, Switch, MostUrgent, Inv, ControlTypes, PC
<1> QED BY <1>1, MutexesStay DEF vTaskDelay, Inv

\* The tick that ends a wait takes the task out of the event list of the mutex.
LEMMA TimePassesKeepsInv ==
    ASSUME Inv, NEW u \in Task, TimePasses(u)
    PROVE  Inv'
<1>1. ListTypes'
  <2>1. \A m \in Mutex : Without(xTasksWaitingToReceive[m], u) \in Seq(AppTask)
    BY WithoutProperties DEF Inv, ListTypes
  <2> QED BY <2>1 DEF TimePasses, ListTypes
<1>2. pxCurrentTCB' \in Task
  BY DEF TimePasses, Switch, MostUrgent, Inv, ControlTypes
<1>3. ControlTypes'
  <2>1. blocked' \in [Task -> BOOLEAN] /\ ~blocked'[Idle] /\ changed' \in BOOLEAN /\ missed' \in BOOLEAN
    BY DEF TimePasses, historyVars, Inv, ControlTypes
  <2>2. CASE Return(u)
    BY <1>2, <2>1, <2>2 DEF Return, Enter, Inv, ControlTypes, PC
  <2>3. CASE Enter(u, pc[u], target[u], "expired")
    BY <1>2, <2>1, <2>3 DEF Enter, Inv, ControlTypes
  <2> QED BY <2>2, <2>3 DEF TimePasses
<1>4. HeldCounted'
  BY CountsStay DEF TimePasses, Inv
<1>5. PriorityTypes' /\ MutexTypes' /\ BaseWithoutMutex' /\ ItemsMatch'
  BY DEF TimePasses, priorityVars, Inv, PriorityTypes, MutexTypes, BaseWithoutMutex, ItemsMatch
<1> QED BY <1>1, <1>3, <1>4, <1>5 DEF Inv

LEMMA TimeSliceKeepsInv == ASSUME Inv, TimeSlice PROVE Inv'
<1>1. ControlTypes'
  BY DEF TimeSlice, callVars, Switch, MostUrgent, Inv, ControlTypes
<1> QED BY <1>1, MutexesStay DEF TimeSlice, Inv

LEMMA StepKeepsInv == Inv /\ [Next]_vars => Inv'
<1> SUFFICES ASSUME Inv, [Next]_vars PROVE Inv'
  OBVIOUS
<1>1. CASE \E t \in Task : Proceed(t)
  <2> PICK t \in Task, m \in Mutex :
         TakeNow(t, m) \/ NotNow(t, m) \/ DoNotWait(t, m) \/ Wait(t, m) \/ Recheck(t, m)
    BY <1>1 DEF Proceed
  <2> QED BY TakeNowKeepsInv, CallKeepsInv, WaitKeepsInv
<1>2. CASE \E t \in Task : vTaskDelay(t) \/ TimePasses(t)
  BY <1>2, DelayKeepsInv, TimePassesKeepsInv
<1>3. CASE \E t \in Task, m \in Mutex : Give(t, m)
  BY <1>3, GiveKeepsInv
<1>4. CASE \E t \in Task, m \in Mutex, limit \in Limits : Take(t, m, limit)
  BY <1>4, TakeKeepsInv
<1>5. CASE \E t, u \in Task : \E p \in NewPriorities[u] : vTaskPrioritySet(t, u, p)
  BY <1>5, PrioritySetKeepsInv
<1>6. CASE TimeSlice
  BY <1>6, TimeSliceKeepsInv
<1>7. CASE UNCHANGED vars
  <2>1. ControlTypes'
    BY <1>7 DEF vars, callVars, Inv, ControlTypes
  <2> QED BY <1>7, <2>1, MutexesStay DEF vars, Inv
<1> QED BY <1>1, <1>2, <1>3, <1>4, <1>5, <1>6, <1>7 DEF Next

-----------------------------------------------------------------------------
\* Inv holds of every reachable state.
THEOREM MutexInvariant == Spec => []Inv
<1> QED BY InitInv, StepKeepsInv, PTL DEF Spec

\* Every variable keeps its type: among others, no count of mutexes goes below zero
\* or above the number of mutexes, and the idle task never blocks.
THEOREM TypesKept == Spec => []TypeOK
<1> QED BY MutexInvariant, InvGives, PTL

\* xTaskPriorityDisinherit, whatever order mutexes are given in and whatever
\* vTaskPrioritySet and time-outs did meanwhile, leaves a task without mutexes at its
\* base priority, with the event item value that belongs to it.
THEOREM InheritanceEnds == Spec => []RaisedOnlyWhileHolding
<1> QED BY MutexInvariant, InvGives, PTL

-----------------------------------------------------------------------------
(* A holder is no less urgent than the tasks that wait for it.             *)

OwnUrgency == [t \in Task |-> Urgency(uxBasePriority[t])]

\* Whoever is in a call of xSemaphoreTake has one mutex to take, and is blocked only
\* while it waits for it or delays.
CallsFit ==
    /\ ~blocked[pxCurrentTCB]
    /\ \A t \in Task :
         /\ \A m, n \in target[t] : m = n
         /\ target[t] = {} <=> pc[t] \in {"out", "delay"}
         /\ blocked[t] => pc[t] \in {"look", "delay"}

\* The tasks of an event list wait for its mutex, each in one place.
ListsFit ==
    \A m \in Mutex :
        /\ IsInjective(xTasksWaitingToReceive[m])
        /\ \A w \in AppTask : Contains(xTasksWaitingToReceive[m], w) =>
             blocked[w] /\ pc[w] = "look" /\ target[w] = {m}

Shape == CallsFit /\ ListsFit

\* A missed switch is noted as long as it may matter: a task that does not run takes part.
MissesNoted ==
    \/ RunningIsMostUrgent
    \/ missed /\ \E x \in Task \ {pxCurrentTCB} : target[x] # {}

\* Nobody is below its base priority; the event items follow the priorities; and nobody
\* in an event list is, by its value, behind one that it should be ahead of.
Raised ==
    \A t \in Task :
        uxBasePriority[t] <= uxPriority[t] /\ eventValue[t] = Urgency(uxPriority[t])

WaitersInOrder == \A m \in Mutex : Below(xTasksWaitingToReceive[m], eventValue, OwnUrgency)

\* The one to whom a waiter loses nothing: the holder, or while there is none a task that
\* was woken, and is going to look for the mutex.
Defends(x, m) ==
    \/ pxMutexHolder[m] = x
    \/ pxMutexHolder[m] = NoTask /\ ~blocked[x] /\ target[x] = {m}

Served ==
    \A m \in Mutex, w \in AppTask : Contains(xTasksWaitingToReceive[m], w) =>
        \E x \in Task : Defends(x, m) /\ uxPriority[x] >= uxBasePriority[w]

Inherits ==
    /\ ~changed => Raised /\ WaitersInOrder
    /\ ~changed /\ ~missed => Served

IInv == Inv /\ Shape /\ MissesNoted /\ Inherits

\* Priorities are numbers, and a more urgent one has a smaller value.
LEMMA Numbers ==
    ASSUME Inv
    PROVE  /\ \A t \in Task : uxPriority[t] \in Nat /\ uxBasePriority[t] \in Nat
           /\ \A t \in Task : eventValue[t] \in Nat /\ OwnUrgency[t] \in Int
           /\ \A t \in Task : OwnUrgency[t] = MaxPriorities - uxBasePriority[t]
           /\ MaxPriorities \in Nat
BY MutexAssumption DEF Inv, PriorityTypes, OwnUrgency, Urgency, Priority

\* Served is what HolderInherits says.
LEMMA ServedGives == IInv => HolderInherits
<1> SUFFICES ASSUME IInv, NEW m \in Mutex, NEW i \in DOMAIN xTasksWaitingToReceive[m],
                    pxMutexHolder[m] # NoTask, ~changed, ~missed
             PROVE  uxPriority[pxMutexHolder[m]]
                      >= uxBasePriority[xTasksWaitingToReceive[m][i]]
  BY DEF HolderInherits
<1> DEFINE w == xTasksWaitingToReceive[m][i]
<1>1. xTasksWaitingToReceive[m] \in Seq(AppTask)
  BY DEF IInv, Inv, ListTypes
<1>2. w \in AppTask /\ Contains(xTasksWaitingToReceive[m], w)
  BY <1>1, LenProperties, ElementOfSeq DEF Contains
<1>3. PICK x \in Task : Defends(x, m) /\ uxPriority[x] >= uxBasePriority[w]
  BY <1>2 DEF IInv, Inherits, Served
<1> QED BY <1>3 DEF Defends

\* While nobody has to do with a mutex, nobody waits and all have their own priorities.
LEMMA Quiet ==
    Inv /\ Shape /\ ~SomeInvolved =>
        /\ Raised /\ WaitersInOrder /\ Served
        /\ \A m \in Mutex : xTasksWaitingToReceive[m] = <<>>
<1> SUFFICES ASSUME Inv, Shape, ~SomeInvolved
             PROVE  /\ Raised /\ WaitersInOrder /\ Served
                    /\ \A m \in Mutex : xTasksWaitingToReceive[m] = <<>>
  OBVIOUS
<1>1. \A t \in Task : Held(t) = {} /\ target[t] = {}
  BY DEF SomeInvolved, Involved
<1>2. Raised
  <2> SUFFICES ASSUME NEW t \in Task
               PROVE  uxBasePriority[t] <= uxPriority[t] /\ eventValue[t] = Urgency(uxPriority[t])
    BY DEF Raised
  <2>1. uxMutexesHeld[t] = 0
    BY <1>1, FS_EmptySet DEF Inv, HeldCounted
  <2>2. uxPriority[t] = uxBasePriority[t] /\ eventValue[t] = Urgency(uxBasePriority[t])
    BY <2>1 DEF Inv, BaseWithoutMutex, ItemsMatch
  <2> QED BY <2>2, Numbers
<1>3. ASSUME NEW m \in Mutex PROVE xTasksWaitingToReceive[m] = <<>>
  <2>1. xTasksWaitingToReceive[m] \in Seq(AppTask)
    BY DEF Inv, ListTypes
  <2>2. \A w \in AppTask : ~Contains(xTasksWaitingToReceive[m], w)
    BY <1>1 DEF Shape, ListsFit, AppTask
  <2> QED
    <3> SUFFICES ASSUME xTasksWaitingToReceive[m] # <<>> PROVE FALSE
      OBVIOUS
    <3>1. /\ Head(xTasksWaitingToReceive[m]) \in AppTask
          /\ Contains(xTasksWaitingToReceive[m], Head(xTasksWaitingToReceive[m]))
      BY <2>1, TailExact DEF Shape, ListsFit
    <3> QED BY <2>2, <3>1
<1>4. WaitersInOrder
  BY <1>3, EmptySeq DEF WaitersInOrder, Below
<1>5. Served
  BY <1>3, EmptySeq DEF Served, Contains
<1> QED BY <1>2, <1>3, <1>4, <1>5

-----------------------------------------------------------------------------
(* Shape.                                                                  *)

\* A switch is to a task that is ready, and no other changes who runs.
LEMMA SwitchReady ==
    ASSUME NEW yields \in BOOLEAN, Switch(yields),
           yields \/ ~blocked'[pxCurrentTCB]
    PROVE  ~blocked'[pxCurrentTCB']
BY DEF Switch, MostUrgent

\* The waiting lists, each a sequence.
LEMMA ListsTyped ==
    ASSUME Inv
    PROVE  /\ \A m \in Mutex : xTasksWaitingToReceive[m] \in Seq(AppTask)
           /\ AppTask \subseteq Task /\ pxCurrentTCB \in Task
           /\ \A m \in Mutex : pxMutexHolder[m] \in Task \cup {NoTask}
           /\ NoTask \notin Task
BY MutexAssumption DEF Inv, ListTypes, MutexTypes, ControlTypes, AppTask

\* The steps of a call that leave the lists and who is blocked alone.
LEMMA CallKeepsShape ==
    ASSUME Inv, Shape, NEW t \in Task, NEW m \in Mutex,
           \/ \E limit \in Limits : Take(t, m, limit)
           \/ TakeNow(t, m) \/ NotNow(t, m) \/ DoNotWait(t, m) \/ Recheck(t, m)
    PROVE  Shape'
<1>1. /\ pxCurrentTCB = t /\ UNCHANGED <<pxCurrentTCB, blocked, xTasksWaitingToReceive>>
      /\ \/ pc[t] = "out" /\ \E limit \in Limits : Enter(t, "look", {m}, limit)
         \/ m \in target[t] /\ Return(t)
         \/ m \in target[t] /\ \E where \in {"look", "block", "recheck"} : Goto(t, where)
  BY DEF Take, TakeNow, NotNow, DoNotWait, Recheck, At, mutexVars
<1>2. /\ pc' = [pc EXCEPT ![t] = pc'[t]] /\ target' = [target EXCEPT ![t] = target'[t]]
      /\ target'[t] \in {{}, {m}, target[t]}
      /\ target'[t] = {} <=> pc'[t] \in {"out", "delay"}
  BY <1>1 DEF Return, Enter, Goto, Shape, CallsFit, Inv, ControlTypes
<1>3. CallsFit'
  BY <1>1, <1>2 DEF Shape, CallsFit, Inv, ControlTypes
<1>4. ListsFit'
  BY <1>1, <1>2, ListsTyped DEF Shape, CallsFit, ListsFit, Inv, ControlTypes
<1> QED BY <1>3, <1>4 DEF Shape

\* The task goes into the event list of the mutex it waits for, where it was not.
LEMMA WaitKeepsShape ==
    ASSUME Inv, Shape, NEW t \in Task, NEW m \in Mutex, Wait(t, m)
    PROVE  Shape'
<1>1. /\ pxCurrentTCB = t /\ pc[t] = "block" /\ m \in target[t] /\ Switch(TRUE)
      /\ xTasksWaitingToReceive' =
           [xTasksWaitingToReceive EXCEPT ![m] = InsertSorted(@, eventValue, t)]
      /\ blocked' = [blocked EXCEPT ![t] = TRUE]
      /\ pc' = [pc EXCEPT ![t] = "look"] /\ UNCHANGED target
  BY DEF Wait, Place, At, Goto
<1>2. t \in AppTask /\ target[t] = {m}
  BY <1>1 DEF Shape, CallsFit, Inv, ControlTypes, AppTask
<1>3. ~blocked'[pxCurrentTCB']
  BY <1>1, SwitchReady
<1>4. CallsFit'
  BY <1>1, <1>2, <1>3 DEF Shape, CallsFit, Inv, ControlTypes
<1>5. ASSUME NEW n \in Mutex
      PROVE  /\ IsInjective(xTasksWaitingToReceive[n])'
             /\ \A w \in AppTask : Contains(xTasksWaitingToReceive'[n], w) =>
                  blocked'[w] /\ pc'[w] = "look" /\ target'[w] = {n}
  <2>1. /\ xTasksWaitingToReceive[n] \in Seq(AppTask) /\ IsInjective(xTasksWaitingToReceive[n])
        /\ ~Contains(xTasksWaitingToReceive[n], t)
    BY <1>1, <1>2, ListsTyped DEF Shape, ListsFit, CallsFit
  <2>2. \A w \in AppTask : Contains(xTasksWaitingToReceive[n], w) =>
          blocked'[w] /\ pc'[w] = "look" /\ target'[w] = {n}
    BY <1>1, <1>2, <2>1 DEF Shape, ListsFit, Inv, ControlTypes, AppTask
  <2>3. CASE n = m
    <3>1. xTasksWaitingToReceive'[n] = InsertSorted(xTasksWaitingToReceive[n], eventValue, t)
      BY <1>1, <2>3 DEF Inv, ListTypes
    <3>2. IsInjective(xTasksWaitingToReceive[n])'
      BY <3>1, <2>1, <1>2, InsertSortedExact
    <3>3. \A w \in AppTask : Contains(xTasksWaitingToReceive'[n], w) =>
            w = t \/ Contains(xTasksWaitingToReceive[n], w)
      BY <3>1, <2>1, <1>2, InsertSortedExact
    <3>4. blocked'[t] /\ pc'[t] = "look" /\ target'[t] = {n}
      BY <1>1, <1>2, <2>3 DEF Inv, ControlTypes
    <3> QED BY <2>2, <3>2, <3>3, <3>4
  <2>4. CASE n # m
    <3>1. xTasksWaitingToReceive'[n] = xTasksWaitingToReceive[n]
      BY <1>1, <2>4 DEF Inv, ListTypes
    <3> QED BY <2>1, <2>2, <3>1
  <2> QED BY <2>3, <2>4
<1> QED BY <1>4, <1>5 DEF Shape, ListsFit

\* Where lists only lose the tasks that are not blocked any more.
LEMMA LeavingKeepsLists ==
    ASSUME Inv, Shape, NEW u \in Task,
           \A m \in Mutex :
             /\ IsInjective(xTasksWaitingToReceive'[m])
             /\ \A w \in AppTask : Contains(xTasksWaitingToReceive'[m], w) =>
                  Contains(xTasksWaitingToReceive[m], w) /\ w # u,
           \A w \in Task \ {u} :
             blocked'[w] = blocked[w] /\ pc'[w] = pc[w] /\ target'[w] = target[w]
    PROVE  ListsFit'
BY ListsTyped DEF Shape, ListsFit

\* The first waiter leaves the list and is ready.
LEMMA GiveKeepsShape ==
    ASSUME Inv, Shape, NEW t \in Task, NEW m \in Mutex, Give(t, m)
    PROVE  Shape'
<1> DEFINE waiters == xTasksWaitingToReceive[m]
           first == Head(waiters)
<1>1. pxCurrentTCB = t /\ UNCHANGED <<pc, target>>
  BY DEF Give, At, callVars
<1>2. waiters \in Seq(AppTask) /\ IsInjective(waiters)
  BY ListsTyped DEF Shape, ListsFit
<1>3. CASE waiters # <<>>
  <2>1. /\ first \in AppTask /\ Contains(waiters, first)
        /\ \A y : Contains(Tail(waiters), y) <=> Contains(waiters, y) /\ y # first
        /\ IsInjective(Tail(waiters))
    BY <1>2, <1>3, TailExact
  <2>2. /\ xTasksWaitingToReceive' = [xTasksWaitingToReceive EXCEPT ![m] = Tail(@)]
        /\ blocked' = [blocked EXCEPT ![first] = FALSE]
        /\ Switch(uxPriority'[first] > uxPriority'[t])
    BY <1>3 DEF Give
  <2>3. first \in Task /\ target[first] = {m}
    BY <2>1, ListsTyped DEF Shape, ListsFit
  <2>4. ListsFit'
    <3>1. ASSUME NEW n \in Mutex
          PROVE  /\ IsInjective(xTasksWaitingToReceive'[n])
                 /\ \A w \in AppTask : Contains(xTasksWaitingToReceive'[n], w) =>
                      Contains(xTasksWaitingToReceive[n], w) /\ w # first
      <4>1. CASE n = m
        <5>1. xTasksWaitingToReceive'[n] = Tail(waiters)
          BY <2>2, <4>1 DEF Inv, ListTypes
        <5> QED BY <2>1, <4>1, <5>1
      <4>2. CASE n # m
        <5>1. xTasksWaitingToReceive'[n] = xTasksWaitingToReceive[n]
          BY <2>2, <4>2 DEF Inv, ListTypes
        <5>2. IsInjective(xTasksWaitingToReceive[n])
          BY DEF Shape, ListsFit
        <5>3. ~Contains(xTasksWaitingToReceive[n], first)
          BY <2>1, <2>3, <4>2 DEF Shape, ListsFit
        <5> QED BY <5>1, <5>2, <5>3
      <4> QED BY <4>1, <4>2
    <3>2. \A w \in Task \ {first} :
            blocked'[w] = blocked[w] /\ pc'[w] = pc[w] /\ target'[w] = target[w]
      BY <1>1, <2>2 DEF Inv, ControlTypes
    <3> QED BY <2>3, <3>1, <3>2, LeavingKeepsLists
  <2>5. \A w \in Task : blocked'[w] => blocked[w]
    BY <2>2 DEF Inv, ControlTypes
  <2>6. ~blocked'[pxCurrentTCB']
    BY <1>1, <2>2, <2>5, ListsTyped DEF Switch, MostUrgent, Shape, CallsFit
  <2>7. CallsFit'
    BY <1>1, <2>5, <2>6 DEF Shape, CallsFit
  <2> QED BY <2>4, <2>7 DEF Shape
<1>4. CASE waiters = <<>>
  <2>1. UNCHANGED <<xTasksWaitingToReceive, blocked>> /\ Switch(Disinherits(t))
    BY <1>4, EmptySeq DEF Give
  <2>2. ~blocked'[pxCurrentTCB']
    BY <1>1, <2>1 DEF Switch, MostUrgent, Shape, CallsFit
  <2> QED BY <1>1, <2>1, <2>2 DEF Shape, CallsFit, ListsFit
<1> QED BY <1>3, <1>4

LEMMA DelayKeepsShape ==
    ASSUME Inv, Shape, NEW t \in Task, vTaskDelay(t)
    PROVE  Shape'
<1>1. /\ pxCurrentTCB = t /\ pc[t] = "out" /\ Switch(TRUE)
      /\ pc' = [pc EXCEPT ![t] = "delay"] /\ target' = [target EXCEPT ![t] = {}]
      /\ blocked' = [blocked EXCEPT ![t] = TRUE] /\ UNCHANGED xTasksWaitingToReceive
  BY DEF vTaskDelay, At, Enter, mutexVars
<1>2. ~blocked'[pxCurrentTCB']
  BY <1>1, SwitchReady
<1>3. CallsFit'
  BY <1>1, <1>2 DEF Shape, CallsFit, Inv, ControlTypes
<1>4. ListsFit'
  BY <1>1, ListsTyped DEF Shape, CallsFit, ListsFit, Inv, ControlTypes
<1> QED BY <1>3, <1>4 DEF Shape

LEMMA PrioritySetKeepsShape ==
    ASSUME Inv, Shape, NEW t \in Task, NEW u \in Task, NEW p \in NewPriorities[u],
           vTaskPrioritySet(t, u, p)
    PROVE  Shape'
<1>1. /\ UNCHANGED <<pc, target, blocked, xTasksWaitingToReceive>>
      /\ Switch(IF p > uxBasePriority[u] THEN u # t /\ p >= uxPriority[t] ELSE u = t)
  BY DEF vTaskPrioritySet, callVars, mutexVars
<1>2. ~blocked'[pxCurrentTCB']
  BY <1>1 DEF Switch, MostUrgent, Shape, CallsFit
<1> QED BY <1>1, <1>2 DEF Shape, CallsFit, ListsFit

\* The task whose time has come leaves its event list.
LEMMA TimePassesKeepsShape ==
    ASSUME Inv, Shape, NEW u \in Task, TimePasses(u)
    PROVE  Shape'
<1>1. /\ blocked' = [blocked EXCEPT ![u] = FALSE]
      /\ xTasksWaitingToReceive' = [m \in Mutex |-> Without(xTasksWaitingToReceive[m], u)]
      /\ Switch(Sharing \/ (blocked[u] /\ uxPriority[u] >= uxPriority[pxCurrentTCB]))
  BY DEF TimePasses
<1>2. /\ UNCHANGED target
      /\ pc' = [pc EXCEPT ![u] = IF pc[u] = "delay" THEN "out" ELSE pc[u]]
  <2>1. CASE pc[u] = "delay"
    <3>1. target[u] = {}
      BY <2>1 DEF Shape, CallsFit
    <3>2. pc' = [pc EXCEPT ![u] = "out"] /\ target' = [target EXCEPT ![u] = {}]
      BY <2>1 DEF TimePasses, Return, Enter
    <3> QED BY <2>1, <3>1, <3>2 DEF Inv, ControlTypes
  <2>2. CASE pc[u] # "delay"
    BY <2>2 DEF TimePasses, Enter, Inv, ControlTypes
  <2> QED BY <2>1, <2>2
<1>3. \A w \in Task : blocked'[w] => blocked[w]
  BY <1>1 DEF Inv, ControlTypes
<1>4. ~blocked'[pxCurrentTCB']
  BY <1>1, <1>3, ListsTyped DEF Switch, MostUrgent, Shape, CallsFit
<1>5. CallsFit'
  BY <1>1, <1>2, <1>3, <1>4 DEF Shape, CallsFit, Inv, ControlTypes
<1>6. ASSUME NEW m \in Mutex
      PROVE  /\ IsInjective(xTasksWaitingToReceive'[m])
             /\ \A w \in AppTask : Contains(xTasksWaitingToReceive'[m], w) =>
                  Contains(xTasksWaitingToReceive[m], w) /\ w # u
  <2>1. xTasksWaitingToReceive[m] \in Seq(AppTask) /\ IsInjective(xTasksWaitingToReceive[m])
    BY ListsTyped DEF Shape, ListsFit
  <2>2. xTasksWaitingToReceive'[m] = Without(xTasksWaitingToReceive[m], u)
    BY <1>1
  <2> QED BY <2>1, <2>2, WithoutExact
<1>7. \A w \in Task \ {u} :
        blocked'[w] = blocked[w] /\ pc'[w] = pc[w] /\ target'[w] = target[w]
  BY <1>1, <1>2 DEF Inv, ControlTypes
<1>8. ListsFit'
  BY <1>6, <1>7, LeavingKeepsLists
<1> QED BY <1>5, <1>8 DEF Shape

LEMMA StepKeepsShape == Inv /\ Shape /\ [Next]_vars => Shape'
<1> SUFFICES ASSUME Inv, Shape, [Next]_vars PROVE Shape'
  OBVIOUS
<1>1. CASE \E t \in Task : Proceed(t)
  <2> PICK t \in Task, m \in Mutex :
         TakeNow(t, m) \/ NotNow(t, m) \/ DoNotWait(t, m) \/ Wait(t, m) \/ Recheck(t, m)
    BY <1>1 DEF Proceed
  <2> QED BY CallKeepsShape, WaitKeepsShape
<1>2. CASE \E t \in Task : vTaskDelay(t) \/ TimePasses(t)
  BY <1>2, DelayKeepsShape, TimePassesKeepsShape
<1>3. CASE \E t \in Task, m \in Mutex : Give(t, m)
  BY <1>3, GiveKeepsShape
<1>4. CASE \E t \in Task, m \in Mutex, limit \in Limits : Take(t, m, limit)
  BY <1>4, CallKeepsShape
<1>5. CASE \E t, u \in Task : \E p \in NewPriorities[u] : vTaskPrioritySet(t, u, p)
  BY <1>5, PrioritySetKeepsShape
<1>6. CASE TimeSlice
  <2>1. UNCHANGED <<pc, target, blocked, xTasksWaitingToReceive>>
    BY <1>6 DEF TimeSlice, callVars, mutexVars
  <2>2. pxCurrentTCB' \in MostUrgent'
    BY <1>6 DEF TimeSlice, Switch
  <2>3. ~blocked'[pxCurrentTCB']
    BY <2>2 DEF MostUrgent
  <2> QED BY <2>1, <2>3 DEF Shape, CallsFit, ListsFit
<1>7. CASE UNCHANGED vars
  BY <1>7 DEF vars, callVars, mutexVars, Shape, CallsFit, ListsFit
<1> QED BY <1>1, <1>2, <1>3, <1>4, <1>5, <1>6, <1>7 DEF Next

-----------------------------------------------------------------------------
(* Missed switches.                                                        *)

\* A step that lets the task go on and neither blocks, readies nor changes a priority.
LEMMA SameIsNoted ==
    ASSUME Inv, MissesNoted, UNCHANGED <<pxCurrentTCB, blocked, uxPriority>>,
           \A x \in Task \ {pxCurrentTCB} : target'[x] = target[x],
           missed' = missed \/ missed' = (missed /\ SomeInvolved')
                            \/ missed' = ((missed \/ ~RunningIsMostUrgent') /\ SomeInvolved')
    PROVE  MissesNoted'
<1>1. RunningIsMostUrgent' <=> RunningIsMostUrgent
  BY DEF RunningIsMostUrgent, MostUrgent
<1>2. ASSUME ~RunningIsMostUrgent PROVE MissesNoted'
  <2>1. PICK x \in Task \ {pxCurrentTCB} : missed /\ target[x] # {}
    BY <1>2 DEF MissesNoted
  <2>2. SomeInvolved'
    BY <2>1 DEF SomeInvolved, Involved
  <2>3. missed'
    BY <2>1, <2>2
  <2>4. target'[x] # {} /\ x \in Task \ {pxCurrentTCB'}
    BY <2>1
  <2> QED BY <2>3, <2>4 DEF MissesNoted
<1> QED BY <1>1, <1>2 DEF MissesNoted

\* A switch is to a most urgent task.
LEMMA SwitchIsNoted == Switch(TRUE) => MissesNoted'
BY DEF Switch, MissesNoted, RunningIsMostUrgent

\* Where a priority is set, a task that goes on stays most urgent.
LEMMA PrioritySetIsNoted ==
    ASSUME Inv, Shape, MissesNoted, NEW t \in Task, NEW u \in Task, NEW p \in NewPriorities[u],
           vTaskPrioritySet(t, u, p)
    PROVE  MissesNoted'
<1> DEFINE yields == IF p > uxBasePriority[u] THEN u # t /\ p >= uxPriority[t] ELSE u = t
<1>1. /\ pxCurrentTCB = t /\ p # uxBasePriority[u] /\ Switch(yields)
      /\ UNCHANGED <<target, blocked, missed>>
      /\ uxPriority' = IF SetsPriority(u) THEN [uxPriority EXCEPT ![u] = p] ELSE uxPriority
  BY DEF vTaskPrioritySet, At, callVars
<1>2. CASE yields
  BY <1>1, <1>2 DEF Switch, MissesNoted, RunningIsMostUrgent
<1>3. CASE ~yields
  <2>1. UNCHANGED pxCurrentTCB
    BY <1>1, <1>3 DEF Switch
  <2>2. ASSUME ~RunningIsMostUrgent PROVE MissesNoted'
    BY <1>1, <2>1, <2>2 DEF MissesNoted
  <2>3. ASSUME RunningIsMostUrgent PROVE RunningIsMostUrgent'
    <3>1. /\ uxPriority \in [Task -> Nat] /\ uxBasePriority[u] \in Nat /\ p \in Nat
      BY Numbers, MutexAssumption DEF Inv, PriorityTypes, Priority
    <3>2. ~blocked[t] /\ \A x \in Task : ~blocked[x] => uxPriority[x] <= uxPriority[t]
      BY <1>1, <2>3 DEF RunningIsMostUrgent, MostUrgent
    <3>3. CASE uxPriority' = uxPriority
      BY <1>1, <2>1, <3>2, <3>3 DEF RunningIsMostUrgent, MostUrgent
    <3>4. CASE uxPriority' # uxPriority
      <4>1. uxPriority' = [uxPriority EXCEPT ![u] = p] /\ uxBasePriority[u] = uxPriority[u]
        BY <1>1, <3>4 DEF SetsPriority
      <4>2. \/ u = t /\ p > uxPriority[t]
            \/ u # t /\ (p < uxPriority[t] \/ p < uxPriority[u])
        BY <1>1, <1>3, <3>1, <4>1
      <4>3. \A x \in Task : ~blocked[x] => uxPriority'[x] <= uxPriority'[t]
        BY <3>1, <3>2, <4>1, <4>2
      <4> QED BY <1>1, <2>1, <3>2, <4>3 DEF RunningIsMostUrgent, MostUrgent
    <3> QED BY <3>3, <3>4
  <2> QED BY <2>2, <2>3 DEF MissesNoted
<1> QED BY <1>2, <1>3

\* At a tick a task goes on unless the one whose time has come is as urgent.
LEMMA TimePassesIsNoted ==
    ASSUME Inv, Shape, MissesNoted, NEW u \in Task, TimePasses(u)
    PROVE  MissesNoted'
<1> DEFINE yields == Sharing \/ (blocked[u] /\ uxPriority[u] >= uxPriority[pxCurrentTCB])
<1>1. /\ Switch(yields) /\ UNCHANGED <<uxPriority, missed>>
      /\ blocked' = [blocked EXCEPT ![u] = FALSE]
  BY DEF TimePasses, priorityVars
<1>2. UNCHANGED target
  <2>1. pc[u] = "delay" => target[u] = {}
    BY DEF Shape, CallsFit
  <2> QED BY <2>1 DEF TimePasses, Return, Enter, Inv, ControlTypes
<1>3. CASE yields
  BY <1>1, <1>3 DEF Switch, MissesNoted, RunningIsMostUrgent
<1>4. CASE ~yields
  <2>1. UNCHANGED pxCurrentTCB
    BY <1>1, <1>4 DEF Switch
  <2>2. ASSUME ~RunningIsMostUrgent PROVE MissesNoted'
    BY <1>1, <1>2, <2>1, <2>2 DEF MissesNoted
  <2>3. ASSUME RunningIsMostUrgent PROVE RunningIsMostUrgent'
    <3>1. \A x \in Task : ~blocked[x] => uxPriority[x] <= uxPriority[pxCurrentTCB]
      BY <2>3 DEF RunningIsMostUrgent, MostUrgent
    <3>2. ~blocked[pxCurrentTCB] /\ pxCurrentTCB \in Task
      BY ListsTyped DEF Shape, CallsFit
    <3>3. blocked[u] => uxPriority[u] <= uxPriority[pxCurrentTCB]
      BY <1>4, <3>2, Numbers
    <3>4. \A x \in Task : ~blocked'[x] => uxPriority[x] <= uxPriority[pxCurrentTCB]
      BY <1>1, <3>1, <3>3 DEF Inv, ControlTypes
    <3>5. ~blocked'[pxCurrentTCB]
      BY <1>1, <3>2 DEF Inv, ControlTypes
    <3> QED BY <1>1, <2>1, <3>2, <3>4, <3>5 DEF RunningIsMostUrgent, MostUrgent
  <2> QED BY <2>2, <2>3 DEF MissesNoted
<1> QED BY <1>3, <1>4

\* The first waiter, if it is no reason to switch, is a task that takes part and waits.
LEMMA GiveIsNoted ==
    ASSUME Inv, Shape, MissesNoted, NEW t \in Task, NEW m \in Mutex, Give(t, m)
    PROVE  MissesNoted'
<1> DEFINE waiters == xTasksWaitingToReceive[m]
           first == Head(waiters)
<1>1. /\ pxCurrentTCB = t /\ UNCHANGED <<pc, target>>
      /\ missed' = ((missed \/ ~RunningIsMostUrgent') /\ SomeInvolved')
  BY DEF Give, At, callVars
<1>2. CASE waiters # <<>>
  <2>1. first \in AppTask /\ Contains(waiters, first)
    BY <1>2, ListsTyped, TailExact DEF Shape, ListsFit
  <2>2. first \in Task /\ target[first] = {m} /\ first # t
    BY <1>1, <2>1, ListsTyped DEF Shape, ListsFit, CallsFit
  <2>3. Switch(uxPriority'[first] > uxPriority'[t])
    BY <1>2 DEF Give
  <2>4. CASE uxPriority'[first] > uxPriority'[t]
    BY <2>3, <2>4 DEF Switch, MissesNoted, RunningIsMostUrgent
  <2>5. CASE ~(uxPriority'[first] > uxPriority'[t])
    <3>1. pxCurrentTCB' = t
      BY <1>1, <2>3, <2>5 DEF Switch
    <3>2. SomeInvolved' /\ target'[first] # {}
      BY <1>1, <2>2 DEF SomeInvolved, Involved
    <3>3. ASSUME ~RunningIsMostUrgent' PROVE missed'
      BY <1>1, <3>2, <3>3
    <3> QED BY <2>2, <3>1, <3>2, <3>3 DEF MissesNoted
  <2> QED BY <2>4, <2>5
<1>3. CASE waiters = <<>>
  <2>1. UNCHANGED blocked /\ Switch(Disinherits(t)) /\ xTaskPriorityDisinherit(t)
    BY <1>3, EmptySeq DEF Give
  <2>2. CASE Disinherits(t)
    BY <2>1, <2>2 DEF Switch, MissesNoted, RunningIsMostUrgent
  <2>3. CASE ~Disinherits(t)
    <3>1. UNCHANGED <<pxCurrentTCB, uxPriority>>
      BY <2>1, <2>3 DEF Switch, xTaskPriorityDisinherit
    <3> QED BY <1>1, <2>1, <3>1, SameIsNoted
  <2> QED BY <2>2, <2>3
<1> QED BY <1>2, <1>3

LEMMA StepIsNoted == Inv /\ Shape /\ MissesNoted /\ [Next]_vars => MissesNoted'
<1> SUFFICES ASSUME Inv, Shape, MissesNoted, [Next]_vars PROVE MissesNoted'
  OBVIOUS
<1>1. CASE \E t \in Task, m \in Mutex :
             \/ \E limit \in Limits : Take(t, m, limit)
             \/ TakeNow(t, m) \/ NotNow(t, m) \/ DoNotWait(t, m) \/ Recheck(t, m)
  <2> PICK t \in Task, m \in Mutex :
             \/ \E limit \in Limits : Take(t, m, limit)
             \/ TakeNow(t, m) \/ NotNow(t, m) \/ DoNotWait(t, m) \/ Recheck(t, m)
    BY <1>1
  <2>1. /\ pxCurrentTCB = t /\ UNCHANGED <<pxCurrentTCB, blocked, uxPriority>>
        /\ missed' = missed \/ missed' = (missed /\ SomeInvolved')
    BY DEF Take, TakeNow, NotNow, DoNotWait, Recheck, At, priorityVars, KeepHistory
  <2>2. \A x \in Task \ {t} : target'[x] = target[x]
    BY DEF Take, TakeNow, NotNow, DoNotWait, Recheck, Return, Enter, Goto, Inv, ControlTypes
  <2> QED BY <2>1, <2>2, SameIsNoted
<1>2. CASE (\E t \in Task, m \in Mutex : Wait(t, m)) \/ (\E t \in Task : vTaskDelay(t)) \/ TimeSlice
  <2>1. pxCurrentTCB' \in MostUrgent'
    BY <1>2 DEF Wait, vTaskDelay, TimeSlice, Switch
  <2> QED BY <2>1 DEF MissesNoted, RunningIsMostUrgent
<1>3. CASE \E t \in Task : TimePasses(t)
  BY <1>3, TimePassesIsNoted
<1>4. CASE \E t \in Task, m \in Mutex : Give(t, m)
  BY <1>4, GiveIsNoted
<1>5. CASE \E t, u \in Task : \E p \in NewPriorities[u] : vTaskPrioritySet(t, u, p)
  BY <1>5, PrioritySetIsNoted
<1>6. CASE UNCHANGED vars
  BY <1>6 DEF vars, callVars, priorityVars, MissesNoted, RunningIsMostUrgent, MostUrgent
<1> QED BY <1>1, <1>2, <1>3, <1>4, <1>5, <1>6 DEF Next, Proceed

-----------------------------------------------------------------------------
(* Priorities and the order of the waiters.                                *)

\* Lists that only lose tasks, whose values do not grow, stay in order.
LEMMA OrderKept ==
    ASSUME Inv, Inv', NEW m \in Mutex,
           Below(xTasksWaitingToReceive[m], eventValue, OwnUrgency),
           KeepsOrder(xTasksWaitingToReceive'[m], xTasksWaitingToReceive[m]),
           \A w \in AppTask : Contains(xTasksWaitingToReceive'[m], w) =>
             eventValue'[w] <= eventValue[w],
           UNCHANGED uxBasePriority
    PROVE  Below(xTasksWaitingToReceive'[m], eventValue', OwnUrgency')
<1>1. xTasksWaitingToReceive[m] \in Seq(AppTask) /\ xTasksWaitingToReceive'[m] \in Seq(AppTask)
  BY DEF Inv, ListTypes
<1>2. OwnUrgency' = OwnUrgency
  BY DEF OwnUrgency
<1>3. \A y \in AppTask : /\ eventValue[y] \in Int /\ OwnUrgency[y] \in Int /\ eventValue'[y] \in Int
  BY Numbers DEF Inv, PriorityTypes, AppTask
<1> QED BY <1>1, <1>2, <1>3, BelowKept

\* A step that changes neither priorities nor lists.
LEMMA SameInOrder ==
    ASSUME Inv, Inv', Raised, WaitersInOrder,
           UNCHANGED <<priorityVars, xTasksWaitingToReceive>>
    PROVE  Raised' /\ WaitersInOrder'
BY DEF priorityVars, Raised, WaitersInOrder, OwnUrgency, Below

\* A holder that inherits has a smaller value, which spoils no order, and the new waiter
\* has its place by its own value.
LEMMA WaitKeepsOrder ==
    ASSUME Inv, Inv', Shape, Raised, WaitersInOrder, NEW t \in Task, NEW m \in Mutex, Wait(t, m)
    PROVE  Raised' /\ WaitersInOrder'
<1> DEFINE h == pxMutexHolder[m]
           new == InsertSorted(xTasksWaitingToReceive[m], eventValue, t)
<1>1. /\ h # NoTask /\ vTaskPriorityInherit(h, t) /\ pxCurrentTCB = t
      /\ xTasksWaitingToReceive' = [xTasksWaitingToReceive EXCEPT ![m] = new]
      /\ UNCHANGED uxBasePriority /\ pc[t] = "block"
  BY DEF Wait, Place, At
<1>2. h \in Task /\ t \in AppTask
  BY <1>1, ListsTyped DEF Inv, ControlTypes, AppTask, Shape, CallsFit, Wait, Place
<1>3. /\ \A x \in Task : uxPriority'[x] >= uxPriority[x] /\ eventValue'[x] <= eventValue[x]
      /\ Raised'
  <2>1. CASE uxPriority[h] < uxPriority[t]
    <3>1. /\ uxPriority' = [uxPriority EXCEPT ![h] = uxPriority[t]]
          /\ eventValue' = [eventValue EXCEPT ![h] = Urgency(uxPriority[t])]
      BY <1>1, <2>1 DEF vTaskPriorityInherit
    <3>2. \A x \in Task : uxPriority'[x] = IF x = h THEN uxPriority[t] ELSE uxPriority[x]
      BY <3>1 DEF Inv, PriorityTypes
    <3>3. \A x \in Task : eventValue'[x] = IF x = h THEN Urgency(uxPriority[t]) ELSE eventValue[x]
      BY <3>1 DEF Inv, PriorityTypes
    <3>4. Urgency(uxPriority[t]) <= eventValue[h]
      BY <1>2, <2>1, Numbers DEF Raised, Urgency
    <3>5. \A x \in Task : uxPriority'[x] >= uxPriority[x] /\ eventValue'[x] <= eventValue[x]
      BY <1>2, <2>1, <3>2, <3>3, <3>4, Numbers
    <3>6. ASSUME NEW x \in Task
          PROVE  uxBasePriority'[x] <= uxPriority'[x] /\ eventValue'[x] = Urgency(uxPriority'[x])
      <4>1. uxBasePriority[x] <= uxPriority[x] /\ eventValue[x] = Urgency(uxPriority[x])
        BY DEF Raised
      <4>2. uxBasePriority[x] <= uxPriority'[x]
        BY <3>2, <4>1, <2>1, <1>2, Numbers
      <4>3. eventValue'[x] = Urgency(uxPriority'[x])
        BY <3>2, <3>3, <4>1
      <4> QED BY <1>1, <4>2, <4>3
    <3>7. Raised'
      BY <3>6 DEF Raised, Urgency
    <3> QED BY <3>5, <3>7
  <2>2. CASE ~(uxPriority[h] < uxPriority[t])
    <3>1. UNCHANGED <<uxPriority, eventValue>>
      BY <1>1, <2>2 DEF vTaskPriorityInherit
    <3> QED BY <1>1, <3>1, Numbers DEF Raised
  <2> QED BY <2>1, <2>2
<1>4. ASSUME NEW n \in Mutex
      PROVE  Below(xTasksWaitingToReceive'[n], eventValue', OwnUrgency')
  <2>1. xTasksWaitingToReceive[n] \in Seq(AppTask) /\ xTasksWaitingToReceive'[n] \in Seq(AppTask)
    BY DEF Inv, ListTypes
  <2>2. Below(xTasksWaitingToReceive[n], eventValue, OwnUrgency)
    BY DEF WaitersInOrder
  <2>3. \A w \in AppTask : eventValue'[w] <= eventValue[w]
    BY <1>3 DEF AppTask
  <2>4. CASE n # m
    <3>1. xTasksWaitingToReceive'[n] = xTasksWaitingToReceive[n]
      BY <1>1, <2>4 DEF Inv, ListTypes
    <3>2. KeepsOrder(xTasksWaitingToReceive'[n], xTasksWaitingToReceive[n])
      BY <2>1, <3>1, KeepsOrderOfTail
    <3> QED BY <1>1, <2>2, <2>3, <3>2, OrderKept
  <2>5. CASE n = m
    <3>1. xTasksWaitingToReceive'[n] = new
      BY <1>1, <2>5 DEF Inv, ListTypes
    <3>2. \A y \in AppTask : /\ eventValue[y] \in Int /\ OwnUrgency[y] \in Int
                             /\ eventValue'[y] \in Int
      BY Numbers DEF Inv, PriorityTypes, AppTask
    <3>3. \A y \in AppTask : eventValue[y] <= OwnUrgency[y]
      BY Numbers DEF Raised, Urgency, AppTask
    <3>4. Below(new, eventValue, OwnUrgency)
      BY <1>2, <2>1, <2>2, <2>5, <3>2, <3>3, InsertSortedBelow
    <3>5. KeepsOrder(new, new) /\ new \in Seq(AppTask)
      BY <2>1, <3>1, KeepsOrderOfTail
    <3>6. OwnUrgency' = OwnUrgency
      BY <1>1 DEF OwnUrgency
    <3>7. Below(new, eventValue', OwnUrgency)
      <4> HIDE DEF new
      <4> QED BY <2>3, <3>2, <3>4, <3>5, BelowKept
    <3> QED BY <3>1, <3>6, <3>7
  <2> QED BY <2>4, <2>5
<1>5. WaitersInOrder'
  BY <1>4 DEF WaitersInOrder
<1> QED BY <1>3, <1>5

\* A task that gives a mutex is in no event list, and what it may lose is what it inherited.
LEMMA GiveKeepsOrder ==
    ASSUME Inv, Inv', Shape, Raised, WaitersInOrder, NEW t \in Task, NEW m \in Mutex, Give(t, m)
    PROVE  /\ Raised' /\ WaitersInOrder'
           /\ UNCHANGED uxBasePriority
           /\ \A x \in Task \ {t} : uxPriority'[x] = uxPriority[x]
<1>1. xTaskPriorityDisinherit(t) /\ pxCurrentTCB = t /\ UNCHANGED uxBasePriority
  BY DEF Give, At, xTaskPriorityDisinherit
<1>2. \A x \in Task \ {t} : uxPriority'[x] = uxPriority[x] /\ eventValue'[x] = eventValue[x]
  BY <1>1 DEF xTaskPriorityDisinherit, Inv, PriorityTypes
<1>3. uxBasePriority'[t] <= uxPriority'[t] /\ eventValue'[t] = Urgency(uxPriority'[t])
  <2>1. CASE Disinherits(t)
    <3>1. uxPriority'[t] = uxBasePriority[t] /\ eventValue'[t] = Urgency(uxBasePriority[t])
      BY <1>1, <2>1 DEF xTaskPriorityDisinherit, Inv, PriorityTypes
    <3> QED BY <1>1, <3>1, Numbers
  <2>2. CASE ~Disinherits(t)
    <3>1. UNCHANGED <<uxPriority, eventValue>>
      BY <1>1, <2>2 DEF xTaskPriorityDisinherit
    <3> QED BY <1>1, <3>1 DEF Raised
  <2> QED BY <2>1, <2>2
<1>4. Raised'
  BY <1>1, <1>2, <1>3 DEF Raised, Urgency
<1>5. ASSUME NEW n \in Mutex
      PROVE  Below(xTasksWaitingToReceive'[n], eventValue', OwnUrgency')
  <2>1. xTasksWaitingToReceive[n] \in Seq(AppTask) /\ IsInjective(xTasksWaitingToReceive[n])
    BY ListsTyped DEF Shape, ListsFit
  <2>2. Below(xTasksWaitingToReceive[n], eventValue, OwnUrgency)
    BY DEF WaitersInOrder
  <2>3. \/ xTasksWaitingToReceive'[n] = xTasksWaitingToReceive[n]
        \/ /\ xTasksWaitingToReceive[n] # <<>>
           /\ xTasksWaitingToReceive'[n] = Tail(xTasksWaitingToReceive[n])
    BY DEF Give, Inv, ListTypes
  <2>4. KeepsOrder(xTasksWaitingToReceive'[n], xTasksWaitingToReceive[n])
    BY <2>1, <2>3, KeepsOrderOfTail
  <2>5. \A w \in AppTask : Contains(xTasksWaitingToReceive'[n], w) =>
          Contains(xTasksWaitingToReceive[n], w)
    BY <2>1, <2>3, TailExact
  <2>6. \A w \in AppTask : Contains(xTasksWaitingToReceive'[n], w) => w # t
    BY <1>1, <2>5 DEF Shape, ListsFit, CallsFit
  <2>7. \A w \in AppTask : Contains(xTasksWaitingToReceive'[n], w) =>
          eventValue'[w] <= eventValue[w]
    BY <1>2, <2>6, Numbers DEF AppTask
  <2> QED BY <1>1, <2>2, <2>4, <2>7, OrderKept
<1>6. WaitersInOrder'
  BY <1>5 DEF WaitersInOrder
<1> QED BY <1>1, <1>2, <1>4, <1>6

LEMMA TimePassesKeepsOrder ==
    ASSUME Inv, Inv', Shape, Raised, WaitersInOrder, NEW u \in Task, TimePasses(u)
    PROVE  Raised' /\ WaitersInOrder'
<1>1. /\ UNCHANGED priorityVars
      /\ xTasksWaitingToReceive' = [m \in Mutex |-> Without(xTasksWaitingToReceive[m], u)]
  BY DEF TimePasses
<1>2. Raised'
  BY <1>1 DEF priorityVars, Raised
<1>3. ASSUME NEW n \in Mutex
      PROVE  Below(xTasksWaitingToReceive'[n], eventValue', OwnUrgency')
  <2>1. xTasksWaitingToReceive[n] \in Seq(AppTask) /\ IsInjective(xTasksWaitingToReceive[n])
    BY ListsTyped DEF Shape, ListsFit
  <2>2. Below(xTasksWaitingToReceive[n], eventValue, OwnUrgency)
    BY DEF WaitersInOrder
  <2>3. xTasksWaitingToReceive'[n] = Without(xTasksWaitingToReceive[n], u)
    BY <1>1
  <2>4. KeepsOrder(xTasksWaitingToReceive'[n], xTasksWaitingToReceive[n])
    BY <2>1, <2>3, WithoutExact
  <2>5. \A w \in AppTask : eventValue'[w] <= eventValue[w]
    BY <1>1, Numbers DEF priorityVars, AppTask
  <2> QED BY <1>1, <2>2, <2>4, <2>5, OrderKept DEF priorityVars
<1>4. WaitersInOrder'
  BY <1>3 DEF WaitersInOrder
<1> QED BY <1>2, <1>4

-----------------------------------------------------------------------------
(* What protects a waiter.                                                 *)

\* Who defends goes on doing so with no lower priority, and nobody begins to wait.
LEMMA ServedKept ==
    ASSUME Inv, Inv', Served, UNCHANGED uxBasePriority,
           \A m \in Mutex, w \in AppTask :
             Contains(xTasksWaitingToReceive'[m], w) => Contains(xTasksWaitingToReceive[m], w),
           \A m \in Mutex, x \in Task :
             Defends(x, m) => Defends(x, m)' /\ uxPriority'[x] >= uxPriority[x]
    PROVE  Served'
<1> SUFFICES ASSUME NEW m \in Mutex, NEW w \in AppTask, Contains(xTasksWaitingToReceive'[m], w)
             PROVE  \E x \in Task : Defends(x, m)' /\ uxPriority'[x] >= uxBasePriority'[w]
  BY DEF Served
<1>1. PICK x \in Task : Defends(x, m) /\ uxPriority[x] >= uxBasePriority[w]
  BY DEF Served
<1>2. Defends(x, m)' /\ uxPriority'[x] >= uxPriority[x]
  BY <1>1
<1>3. uxPriority'[x] \in Nat /\ uxPriority[x] \in Nat /\ uxBasePriority[w] \in Nat
  BY Numbers DEF Inv, PriorityTypes, Priority, AppTask
<1> QED BY <1>1, <1>2, <1>3

\* A call that only begins, goes on or ends without the mutex.  It ends while the mutex
\* has a holder.
LEMMA CallKeepsServed ==
    ASSUME Inv, Inv', Shape, Served, NEW t \in Task, NEW m \in Mutex,
           \/ \E limit \in Limits : Take(t, m, limit)
           \/ NotNow(t, m) \/ DoNotWait(t, m) \/ Recheck(t, m)
    PROVE  Served'
<1>1. /\ UNCHANGED <<blocked, pxMutexHolder, uxPriority, uxBasePriority, xTasksWaitingToReceive>>
      /\ \/ UNCHANGED target
         \/ pc[t] = "out" /\ \A x \in Task \ {t} : target'[x] = target[x]
         \/ /\ m \in target[t] /\ pxMutexHolder[m] # NoTask
            /\ \A x \in Task \ {t} : target'[x] = target[x]
  BY DEF Take, NotNow, DoNotWait, Recheck, At, Enter, Return, Goto, priorityVars, mutexVars,
         Inv, ControlTypes
<1>2. ASSUME NEW n \in Mutex, NEW x \in Task, Defends(x, n)
      PROVE  Defends(x, n)' /\ uxPriority'[x] >= uxPriority[x]
  <2>1. CASE pxMutexHolder[n] = x
    BY <1>1, <2>1, Numbers DEF Defends
  <2>2. CASE pxMutexHolder[n] = NoTask /\ ~blocked[x] /\ target[x] = {n}
    <3>1. target'[x] = target[x]
      BY <1>1, <2>2 DEF Shape, CallsFit
    <3> QED BY <1>1, <2>2, <3>1, Numbers DEF Defends
  <2> QED BY <1>2, <2>1, <2>2 DEF Defends
<1> QED BY <1>1, <1>2, ServedKept

\* The task that takes the mutex is most urgent, so no less than whoever was woken for it.
LEMMA TakeNowKeepsServed ==
    ASSUME Inv, Inv', Shape, Served, RunningIsMostUrgent,
           NEW t \in Task, NEW m \in Mutex, TakeNow(t, m)
    PROVE  Served'
<1>1. /\ UNCHANGED <<blocked, uxPriority, uxBasePriority, xTasksWaitingToReceive>>
      /\ pxCurrentTCB = t /\ m \in target[t] /\ pxMutexHolder[m] = NoTask
      /\ pxMutexHolder' = [pxMutexHolder EXCEPT ![m] = t]
      /\ target' = [target EXCEPT ![t] = {}]
  BY DEF TakeNow, At, Return, Enter, priorityVars
<1> SUFFICES ASSUME NEW n \in Mutex, NEW w \in AppTask, Contains(xTasksWaitingToReceive'[n], w)
             PROVE  \E x \in Task : Defends(x, n)' /\ uxPriority'[x] >= uxBasePriority'[w]
  BY DEF Served
<1>2. PICK x \in Task : Defends(x, n) /\ uxPriority[x] >= uxBasePriority[w]
  BY <1>1 DEF Served
<1>3. CASE n = m
  <2>1. ~blocked[x]
    BY <1>1, <1>2, <1>3, ListsTyped DEF Defends
  <2>2. uxPriority[x] <= uxPriority[t]
    BY <1>1, <2>1 DEF RunningIsMostUrgent, MostUrgent
  <2>3. uxPriority[t] >= uxBasePriority[w]
    BY <1>2, <2>2, Numbers DEF AppTask
  <2>4. Defends(t, n)'
    BY <1>1, <1>3 DEF Defends, Inv, MutexTypes
  <2> QED BY <1>1, <2>3, <2>4
<1>4. CASE n # m
  <2>1. pxMutexHolder'[n] = pxMutexHolder[n]
    BY <1>1, <1>4 DEF Inv, MutexTypes
  <2>2. CASE pxMutexHolder[n] = x
    BY <1>1, <1>2, <2>1, <2>2 DEF Defends
  <2>3. CASE pxMutexHolder[n] = NoTask /\ ~blocked[x] /\ target[x] = {n}
    <3>1. x # t
      BY <1>1, <1>4, <2>3
    <3>2. target'[x] = target[x]
      BY <1>1, <3>1 DEF Inv, ControlTypes
    <3> QED BY <1>1, <1>2, <2>1, <2>3, <3>2 DEF Defends
  <2> QED BY <1>2, <2>2, <2>3 DEF Defends
<1> QED BY <1>3, <1>4

\* A task that begins to wait raises the holder to its priority.
LEMMA WaitKeepsServed ==
    ASSUME Inv, Inv', Shape, Raised, Served, NEW t \in Task, NEW m \in Mutex, Wait(t, m)
    PROVE  Served'
<1>0. PICK h : h = pxMutexHolder[m]
  OBVIOUS
<1>1. /\ h # NoTask /\ vTaskPriorityInherit(h, t) /\ m \in target[t] /\ pxCurrentTCB = t
      /\ xTasksWaitingToReceive' =
           [xTasksWaitingToReceive EXCEPT ![m] = InsertSorted(@, eventValue, t)]
      /\ blocked' = [blocked EXCEPT ![t] = TRUE]
      /\ UNCHANGED <<uxBasePriority, pxMutexHolder, target>>
  BY <1>0 DEF Wait, Place, At, Goto
<1>2. h \in Task
  BY <1>0, <1>1, ListsTyped
<1>3. /\ \A x \in Task : uxPriority'[x] >= uxPriority[x]
      /\ uxPriority'[h] >= uxPriority[t]
  <2>1. CASE uxPriority[h] < uxPriority[t]
    <3>1. uxPriority' = [uxPriority EXCEPT ![h] = uxPriority[t]]
      BY <1>1, <2>1 DEF vTaskPriorityInherit
    <3>2. \A x \in Task : uxPriority'[x] = IF x = h THEN uxPriority[t] ELSE uxPriority[x]
      BY <3>1 DEF Inv, PriorityTypes
    <3> QED BY <1>2, <2>1, <3>2, Numbers
  <2>2. CASE ~(uxPriority[h] < uxPriority[t])
    <3>1. UNCHANGED uxPriority
      BY <1>1, <2>2 DEF vTaskPriorityInherit
    <3> QED BY <1>2, <2>2, <3>1, Numbers
  <2> QED BY <2>1, <2>2
<1>4. ASSUME NEW n \in Mutex, NEW x \in Task, Defends(x, n) PROVE Defends(x, n)'
  <2>1. CASE pxMutexHolder[n] = x
    BY <1>1, <2>1 DEF Defends
  <2>2. CASE pxMutexHolder[n] = NoTask /\ ~blocked[x] /\ target[x] = {n}
    <3>1. x # t
      BY <1>0, <1>1, <2>2
    <3>2. ~blocked'[x]
      BY <1>1, <2>2, <3>1 DEF Inv, ControlTypes
    <3> QED BY <1>1, <2>2, <3>2 DEF Defends
  <2> QED BY <1>4, <2>1, <2>2 DEF Defends
<1> SUFFICES ASSUME NEW n \in Mutex, NEW w \in AppTask, Contains(xTasksWaitingToReceive'[n], w)
             PROVE  \E x \in Task : Defends(x, n)' /\ uxPriority'[x] >= uxBasePriority'[w]
  BY DEF Served
<1>5. CASE Contains(xTasksWaitingToReceive[n], w)
  <2>1. PICK x \in Task : Defends(x, n) /\ uxPriority[x] >= uxBasePriority[w]
    BY <1>5 DEF Served
  <2>2. uxPriority'[x] \in Nat /\ uxPriority[x] \in Nat /\ uxBasePriority[w] \in Nat
    BY Numbers DEF Inv, PriorityTypes, Priority, AppTask
  <2>3. uxPriority'[x] >= uxBasePriority[w]
    BY <1>3, <2>1, <2>2
  <2> QED BY <1>1, <1>4, <2>1, <2>3
<1>6. CASE ~Contains(xTasksWaitingToReceive[n], w)
  <2>1. n = m
    BY <1>1, <1>6 DEF Inv, ListTypes
  <2>2. xTasksWaitingToReceive'[n] = InsertSorted(xTasksWaitingToReceive[n], eventValue, t)
    BY <1>1, <2>1 DEF Inv, ListTypes
  <2>3. xTasksWaitingToReceive[n] \in Seq(Task)
    BY ListsTyped
  <2>4. w = t
    BY <1>6, <2>2, <2>3, InsertSortedExact
  <2>5. uxPriority[t] >= uxBasePriority[t]
    BY Numbers DEF Raised
  <2>6. uxPriority'[h] \in Nat
    BY <1>2 DEF Inv, PriorityTypes, Priority
  <2>7. uxPriority'[h] >= uxBasePriority'[w]
    BY <1>1, <1>3, <2>4, <2>5, <2>6, Numbers
  <2>8. Defends(h, n)'
    BY <1>0, <1>1, <2>1 DEF Defends
  <2> QED BY <1>2, <2>7, <2>8
<1> QED BY <1>5, <1>6

\* A task that holds a second mutex does not lose what it inherited with the first.
LEMMA TwoHeld ==
    ASSUME Inv, NEW t \in Task, NEW m \in Mutex, NEW n \in Mutex, m # n,
           pxMutexHolder[m] = t, pxMutexHolder[n] = t
    PROVE  uxMutexesHeld[t] # 1
<1>1. m \in Held(t) /\ n \in Held(t)
  BY DEF Held
<1>2. SUFFICES ASSUME Cardinality(Held(t)) = 1 PROVE FALSE
  BY DEF Inv, HeldCounted
<1>3. IsFiniteSet(Held(t))
  BY HeldFinite
<1>4. IsFiniteSet(Held(t) \ {m}) /\ Cardinality(Held(t) \ {m}) = 0
  BY <1>1, <1>2, <1>3, FS_RemoveElement
<1>5. Held(t) \ {m} = {}
  BY <1>4, FS_EmptySet
<1> QED BY <1>1, <1>5

\* The first waiter, made ready, protects the others: none of them is more urgent.
LEMMA GiveKeepsServed ==
    ASSUME Inv, Inv', Shape, Raised, WaitersInOrder, Served,
           NEW t \in Task, NEW m \in Mutex, Give(t, m)
    PROVE  Served'
<1>1. /\ pxMutexHolder[m] = t /\ xTaskPriorityDisinherit(t) /\ pxCurrentTCB = t
      /\ pxMutexHolder' = [pxMutexHolder EXCEPT ![m] = NoTask]
      /\ UNCHANGED target /\ pc[t] = "out"
  BY DEF Give, At, callVars
<1>2. UNCHANGED uxBasePriority /\ \A x \in Task \ {t} : uxPriority'[x] = uxPriority[x]
  BY GiveKeepsOrder
<1>3. target[t] = {} /\ ~blocked[t]
  BY <1>1 DEF Shape, CallsFit
<1>4. \A n \in Mutex : xTasksWaitingToReceive[n] \in Seq(AppTask) /\ IsInjective(xTasksWaitingToReceive[n])
  BY ListsTyped DEF Shape, ListsFit
<1>5. \A x \in Task : ~blocked[x] => ~blocked'[x]
  BY DEF Give, Inv, ControlTypes
<1> SUFFICES ASSUME NEW n \in Mutex, NEW w \in AppTask, Contains(xTasksWaitingToReceive'[n], w)
             PROVE  \E x \in Task : Defends(x, n)' /\ uxPriority'[x] >= uxBasePriority'[w]
  BY DEF Served
<1>6. \/ xTasksWaitingToReceive'[n] = xTasksWaitingToReceive[n]
      \/ /\ n = m /\ xTasksWaitingToReceive[n] # <<>>
         /\ xTasksWaitingToReceive'[n] = Tail(xTasksWaitingToReceive[n])
  BY DEF Give, Inv, ListTypes
<1>7. Contains(xTasksWaitingToReceive[n], w)
  BY <1>4, <1>6, TailExact
<1>8. CASE n # m
  <2>1. PICK x \in Task : Defends(x, n) /\ uxPriority[x] >= uxBasePriority[w]
    BY <1>7 DEF Served
  <2>2. pxMutexHolder'[n] = pxMutexHolder[n]
    BY <1>1, <1>8 DEF Inv, MutexTypes
  <2>3. Defends(x, n)'
    BY <1>1, <1>5, <2>1, <2>2 DEF Defends
  <2>4. uxPriority'[x] = uxPriority[x]
    <3>1. CASE x # t
      BY <1>2, <3>1
    <3>2. CASE x = t
      <4>1. pxMutexHolder[n] = t
        BY <1>3, <2>1, <3>2 DEF Defends
      <4>2. uxMutexesHeld[t] # 1
        BY <1>1, <1>8, <4>1, TwoHeld
      <4>3. UNCHANGED uxPriority
        BY <1>1, <4>2 DEF xTaskPriorityDisinherit, Disinherits
      <4> QED BY <4>3
    <3> QED BY <3>1, <3>2
  <2> QED BY <1>2, <2>1, <2>3, <2>4
<1>9. CASE n = m
  <2> DEFINE waiters == xTasksWaitingToReceive[m]
  <2>0. PICK first : first = Head(waiters)
    OBVIOUS
  <2>1. waiters # <<>>
    BY <1>7, <1>9, EmptySeq DEF Contains
  <2>2. /\ xTasksWaitingToReceive'[m] = Tail(waiters)
        /\ blocked' = [blocked EXCEPT ![first] = FALSE]
    BY <2>0, <2>1 DEF Give, Inv, ListTypes
  <2>3. first \in AppTask /\ Contains(waiters, first)
    BY <1>4, <2>0, <2>1, TailExact
  <2>4. first \in Task /\ first # t /\ target[first] = {m}
    BY <1>3, <2>3, ListsTyped DEF Shape, ListsFit
  <2>5. Defends(first, n)'
    BY <1>1, <1>9, <2>2, <2>4 DEF Defends, Inv, MutexTypes, ControlTypes
  <2>6. eventValue[first] <= OwnUrgency[w]
    <3>1. /\ Contains(Tail(waiters), w) /\ Len(waiters) \in Nat \ {0}
          /\ Len(Tail(waiters)) = Len(waiters) - 1
          /\ \A a \in 1 .. Len(waiters) - 1 : Tail(waiters)[a] = waiters[a + 1]
          /\ first = waiters[1] /\ DOMAIN waiters = 1 .. Len(waiters)
      BY <1>4, <1>9, <2>0, <2>1, <2>2, TailExact, EmptySeq, HeadTailProperties, LenProperties
    <3>2. PICK a \in 1 .. Len(waiters) - 1 : waiters[a + 1] = w
      BY <3>1 DEF Contains
    <3>3. 1 \in DOMAIN waiters /\ a + 1 \in DOMAIN waiters /\ 1 < a + 1
      BY <3>1, <3>2
    <3>4. Below(waiters, eventValue, OwnUrgency)
      BY DEF WaitersInOrder
    <3>5. eventValue[waiters[1]] <= OwnUrgency[waiters[a + 1]]
      BY <3>3, <3>4 DEF Below
    <3> QED BY <3>1, <3>2, <3>5
  <2>7. uxPriority[first] >= uxBasePriority[w]
    <3>1. eventValue[first] = MaxPriorities - uxPriority[first]
      BY <2>4 DEF Raised, Urgency
    <3>2. OwnUrgency[w] = MaxPriorities - uxBasePriority[w]
      BY Numbers DEF AppTask
    <3>3. /\ uxPriority[first] \in Nat /\ uxBasePriority[w] \in Nat /\ MaxPriorities \in Nat
      BY <2>4, Numbers DEF AppTask
    <3> QED BY <2>6, <3>1, <3>2, <3>3
  <2>8. uxPriority'[first] = uxPriority[first]
    BY <1>2, <2>4
  <2> QED BY <1>2, <2>4, <2>5, <2>7, <2>8
<1> QED BY <1>8, <1>9

\* Delays, ticks and time slices leave those that protect ready.
LEMMA OthersKeepServed ==
    ASSUME Inv, Inv', Shape, Served,
           \/ \E t \in Task : vTaskDelay(t) \/ TimePasses(t)
           \/ TimeSlice
    PROVE  Served'
<1>1. UNCHANGED <<uxBasePriority, uxPriority, pxMutexHolder>>
  BY DEF vTaskDelay, TimePasses, TimeSlice, priorityVars, mutexVars
<1>2. ASSUME NEW m \in Mutex, NEW w \in AppTask, Contains(xTasksWaitingToReceive'[m], w)
      PROVE  Contains(xTasksWaitingToReceive[m], w)
  <2>1. CASE UNCHANGED xTasksWaitingToReceive
    BY <1>2, <2>1
  <2>2. CASE \E u \in Task : TimePasses(u)
    <3>1. PICK u \in Task : xTasksWaitingToReceive'[m] = Without(xTasksWaitingToReceive[m], u)
      BY <2>2 DEF TimePasses
    <3>2. xTasksWaitingToReceive[m] \in Seq(AppTask)
      BY ListsTyped
    <3> QED BY <1>2, <3>1, <3>2, WithoutProperties
  <2> QED BY <2>1, <2>2 DEF vTaskDelay, TimeSlice, mutexVars
<1>3. ASSUME NEW x \in Task, target[x] # {}, ~blocked[x]
      PROVE  target'[x] = target[x] /\ ~blocked'[x]
  <2>1. CASE \E t \in Task : vTaskDelay(t)
    <3>1. PICK t \in Task : vTaskDelay(t)
      BY <2>1
    <3>2. target[t] = {}
      BY <3>1 DEF vTaskDelay, At, Shape, CallsFit
    <3>3. x # t
      BY <1>3, <3>2
    <3> QED BY <1>3, <3>1, <3>3 DEF vTaskDelay, Enter, Inv, ControlTypes
  <2>2. CASE \E t \in Task : TimePasses(t)
    <3>1. PICK t \in Task : TimePasses(t)
      BY <2>2
    <3>2. pc[t] = "delay" => target[t] = {}
      BY DEF Shape, CallsFit
    <3>3. target'[x] = target[x]
      BY <3>1, <3>2 DEF TimePasses, Return, Enter, Inv, ControlTypes
    <3>4. ~blocked'[x]
      BY <1>3, <3>1 DEF TimePasses, Inv, ControlTypes
    <3> QED BY <3>3, <3>4
  <2>3. CASE TimeSlice
    BY <1>3, <2>3 DEF TimeSlice, callVars
  <2> QED BY <2>1, <2>2, <2>3
<1>4. ASSUME NEW n \in Mutex, NEW x \in Task, Defends(x, n)
      PROVE  Defends(x, n)' /\ uxPriority'[x] >= uxPriority[x]
  <2>1. Defends(x, n)'
    BY <1>1, <1>3, <1>4 DEF Defends
  <2> QED BY <1>1, <2>1, Numbers
<1> QED BY <1>1, <1>2, <1>4, ServedKept

-----------------------------------------------------------------------------
(* The theorem.                                                            *)

LEMMA StepKeepsOrder ==
    Inv /\ Inv' /\ Shape /\ Raised /\ WaitersInOrder
      /\ [Next]_vars /\ ~(\E t, u \in Task : \E p \in NewPriorities[u] : vTaskPrioritySet(t, u, p))
        => Raised' /\ WaitersInOrder'
<1> SUFFICES ASSUME Inv, Inv', Shape, Raised, WaitersInOrder, [Next]_vars,
                    ~(\E t, u \in Task : \E p \in NewPriorities[u] : vTaskPrioritySet(t, u, p))
             PROVE  Raised' /\ WaitersInOrder'
  OBVIOUS
<1>1. CASE \/ \E t \in Task, m \in Mutex :
                 \/ \E limit \in Limits : Take(t, m, limit)
                 \/ TakeNow(t, m) \/ NotNow(t, m) \/ DoNotWait(t, m) \/ Recheck(t, m)
           \/ \E t \in Task : vTaskDelay(t)
           \/ TimeSlice
           \/ UNCHANGED vars
  <2>1. UNCHANGED <<priorityVars, xTasksWaitingToReceive>>
    BY <1>1 DEF Take, TakeNow, NotNow, DoNotWait, Recheck, vTaskDelay, TimeSlice, vars, mutexVars
  <2> QED BY <2>1, SameInOrder
<1>2. CASE \E t \in Task, m \in Mutex : Wait(t, m)
  BY <1>2, WaitKeepsOrder
<1>3. CASE \E t \in Task, m \in Mutex : Give(t, m)
  BY <1>3, GiveKeepsOrder
<1>4. CASE \E u \in Task : TimePasses(u)
  BY <1>4, TimePassesKeepsOrder
<1> QED BY <1>1, <1>2, <1>3, <1>4 DEF Next, Proceed

LEMMA StepKeepsServed ==
    Inv /\ Inv' /\ Shape /\ Raised /\ WaitersInOrder /\ Served /\ RunningIsMostUrgent
      /\ [Next]_vars /\ ~(\E t, u \in Task : \E p \in NewPriorities[u] : vTaskPrioritySet(t, u, p))
        => Served'
<1> SUFFICES ASSUME Inv, Inv', Shape, Raised, WaitersInOrder, Served, RunningIsMostUrgent,
                    [Next]_vars,
                    ~(\E t, u \in Task : \E p \in NewPriorities[u] : vTaskPrioritySet(t, u, p))
             PROVE  Served'
  OBVIOUS
<1>1. CASE \E t \in Task, m \in Mutex :
             \/ \E limit \in Limits : Take(t, m, limit)
             \/ NotNow(t, m) \/ DoNotWait(t, m) \/ Recheck(t, m)
  BY <1>1, CallKeepsServed
<1>2. CASE \E t \in Task, m \in Mutex : TakeNow(t, m)
  BY <1>2, TakeNowKeepsServed
<1>3. CASE \E t \in Task, m \in Mutex : Wait(t, m)
  BY <1>3, WaitKeepsServed
<1>4. CASE \E t \in Task, m \in Mutex : Give(t, m)
  BY <1>4, GiveKeepsServed
<1>5. CASE (\E t \in Task : vTaskDelay(t) \/ TimePasses(t)) \/ TimeSlice
  BY <1>5, OthersKeepServed
<1>6. CASE UNCHANGED vars
  BY <1>6 DEF vars, callVars, priorityVars, mutexVars, Served, Defends
<1> QED BY <1>1, <1>2, <1>3, <1>4, <1>5, <1>6 DEF Next, Proceed

\* The history variables are cleared only when nobody has to do with a mutex.
LEMMA HistoryCleared ==
    ASSUME Inv, [Next]_vars,
           ~(\E t, u \in Task : \E p \in NewPriorities[u] : vTaskPrioritySet(t, u, p))
    PROVE  /\ changed' = changed \/ (changed' = (changed /\ SomeInvolved'))
           /\ missed /\ ~missed' => ~SomeInvolved'
<1>1. changed \in BOOLEAN /\ missed \in BOOLEAN
  BY DEF Inv, ControlTypes
<1>2. ASSUME UNCHANGED historyVars
      PROVE  /\ changed' = changed \/ (changed' = (changed /\ SomeInvolved'))
             /\ missed /\ ~missed' => ~SomeInvolved'
  BY <1>2
<1>3. ASSUME changed' = (changed /\ SomeInvolved'),
             missed' = (missed /\ SomeInvolved')
               \/ missed' = ((missed \/ ~RunningIsMostUrgent') /\ SomeInvolved')
      PROVE  /\ changed' = changed \/ (changed' = (changed /\ SomeInvolved'))
             /\ missed /\ ~missed' => ~SomeInvolved'
  BY <1>1, <1>3
<1>4. CASE \E t \in Task, m \in Mutex : NotNow(t, m) \/ Recheck(t, m)
  BY <1>3, <1>4 DEF NotNow, Recheck, KeepHistory
<1>5. CASE \E t \in Task, m \in Mutex : Give(t, m)
  BY <1>3, <1>5 DEF Give
<1>6. CASE \E t \in Task, m \in Mutex :
             \/ TakeNow(t, m) \/ DoNotWait(t, m) \/ Wait(t, m)
             \/ \E limit \in Limits : Take(t, m, limit)
  <2>1. UNCHANGED historyVars
    BY <1>6 DEF TakeNow, DoNotWait, Wait, Place, Take
  <2> QED BY <1>2, <2>1
<1>7. CASE \/ \E t \in Task : vTaskDelay(t) \/ TimePasses(t)
           \/ TimeSlice \/ UNCHANGED vars
  <2>1. UNCHANGED historyVars
    BY <1>7 DEF vTaskDelay, TimePasses, TimeSlice, vars
  <2> QED BY <1>2, <2>1
<1> QED BY <1>4, <1>5, <1>6, <1>7 DEF Next, Proceed

LEMMA QuietNext == Inv' /\ Shape' /\ ~SomeInvolved' => Raised' /\ WaitersInOrder' /\ Served'
BY Quiet, PTL

LEMMA StepInherits == IInv /\ Inv' /\ Shape' /\ MissesNoted' /\ [Next]_vars => Inherits'
<1> SUFFICES ASSUME IInv, Inv', Shape', MissesNoted', [Next]_vars PROVE Inherits'
  OBVIOUS
<1>1. CASE \E t, u \in Task : \E p \in NewPriorities[u] : vTaskPrioritySet(t, u, p)
  <2>1. PICK t, u \in Task : \E p \in NewPriorities[u] : vTaskPrioritySet(t, u, p)
    BY <1>1
  <2> SUFFICES ASSUME ~changed' PROVE Raised' /\ WaitersInOrder' /\ Served'
    BY DEF Inherits
  <2>2. ~changed /\ ~SomeInvolved
    BY <2>1 DEF vTaskPrioritySet
  <2>3. \A m \in Mutex : xTasksWaitingToReceive[m] = <<>>
    BY <2>2, Quiet DEF IInv
  <2>4. \A t1 \in Task : Held(t1)' = Held(t1) /\ target'[t1] = target[t1]
    BY <2>1 DEF vTaskPrioritySet, Held, mutexVars, callVars
  <2>5. ~SomeInvolved'
    BY <2>2, <2>4 DEF SomeInvolved, Involved
  <2> QED BY <2>5, QuietNext
<1>2. CASE ~(\E t, u \in Task : \E p \in NewPriorities[u] : vTaskPrioritySet(t, u, p))
  <2>1. CASE ~SomeInvolved'
    BY <2>1, QuietNext DEF Inherits
  <2>2. CASE SomeInvolved'
    <3>1. changed \in BOOLEAN /\ missed \in BOOLEAN
      BY DEF IInv, Inv, ControlTypes
    <3>2. (~changed' => ~changed) /\ (~missed' => ~missed)
      BY <1>2, <2>2, <3>1, HistoryCleared DEF IInv
    <3>3. ASSUME ~changed' PROVE Raised' /\ WaitersInOrder'
      BY <1>2, <3>2, <3>3, StepKeepsOrder DEF IInv, Inherits
    <3>4. ASSUME ~changed', ~missed' PROVE Served'
      <4>1. RunningIsMostUrgent
        BY <3>2, <3>4 DEF IInv, MissesNoted
      <4> QED BY <1>2, <3>2, <3>4, <4>1, StepKeepsServed DEF IInv, Inherits
    <3> QED BY <3>3, <3>4 DEF Inherits
  <2> QED BY <2>1, <2>2
<1> QED BY <1>1, <1>2

LEMMA StepKeepsIInv == IInv /\ [Next]_vars => IInv'
<1> SUFFICES ASSUME IInv, [Next]_vars PROVE IInv'
  OBVIOUS
<1>1. Inv'
  BY StepKeepsInv DEF IInv
<1>2. Shape'
  BY StepKeepsShape DEF IInv
<1>3. MissesNoted'
  BY StepIsNoted DEF IInv
<1>4. Inherits'
  BY <1>1, <1>2, <1>3, StepInherits
<1> QED BY <1>1, <1>2, <1>3, <1>4 DEF IInv

LEMMA InitIInv == Init => IInv
<1> SUFFICES ASSUME Init PROVE IInv
  OBVIOUS
<1>1. Inv
  BY InitInv
<1>2. Shape
  <2>1. CallsFit
    BY DEF Init, CallsFit, MostUrgent
  <2>2. ASSUME NEW m \in Mutex
        PROVE  /\ IsInjective(xTasksWaitingToReceive[m])
               /\ \A w \in AppTask : ~Contains(xTasksWaitingToReceive[m], w)
    <3>1. xTasksWaitingToReceive[m] = <<>>
      BY DEF Init
    <3> QED BY <3>1, EmptySeq DEF IsInjective, Contains
  <2> QED BY <2>1, <2>2 DEF Shape, ListsFit
<1>3. MissesNoted
  BY DEF Init, MissesNoted, RunningIsMostUrgent
<1>4. ~SomeInvolved
  BY MutexAssumption DEF Init, SomeInvolved, Involved, Held
<1> QED BY <1>1, <1>2, <1>3, <1>4, Quiet DEF IInv, Inherits

\* IInv holds of every reachable state.
THEOREM InheritanceInvariant == Spec => []IInv
<1> QED BY InitIInv, StepKeepsIInv, PTL DEF Spec

\* vTaskPriorityInherit keeps the holder of a mutex no less urgent than any task in the
\* event list, for any number of mutexes held at once, time-outs and wake-ups by
\* xSemaphoreGive, as long as no base priority was set and no switch was missed.
THEOREM HolderIsUrgent == Spec => []HolderInherits
<1> QED BY InheritanceInvariant, ServedGives, PTL
=============================================================================
