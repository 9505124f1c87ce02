------------------------------- MODULE Queue -------------------------------
(***************************************************************************)
(* A queue of queue.c with the tasks and the interrupt handlers that use   *)
(* it.  A semaphore is the queue whose messages are all alike; a mutex is  *)
(* left to a module of its own.                                            *)
(*                                                                         *)
(* pc[t] is where a task stands in the loop of xQueueGenericSend or        *)
(* xQueueGenericReceive.  A critical section is one step.  Between two     *)
(* steps any task that is not blocked may run, unless one holds the        *)
(* scheduler suspended, and an interrupt handler may always run: this      *)
(* is every schedule the priorities allow, and more.                       *)
(*                                                                         *)
(* A task in an event list is blocked.  Woken while the scheduler is       *)
(* suspended, it stays blocked, in xPendingReadyList, until the scheduler  *)
(* is resumed.                                                             *)
(*                                                                         *)
(* Time is abstract: the time limit of a call passes at some moment when   *)
(* the tick is counted, that is, while the scheduler is not suspended.     *)
(*                                                                         *)
(* UnlockForgets and the like are faulty forms of the operators after      *)
(* them, to see that a property notices.                                   *)
(***************************************************************************)
EXTENDS Lists, FiniteSets

CONSTANTS Task, NoTask,
          Message, NoMessage,
          Length,        \* uxLength
          EventValue,    \* [Task -> value of its event list item], from its priority
          Int8Max,       \* the largest int8_t: 127 in the code
          MaxLockCount,  \* bound: handlers add to a lock count that is below it
          Ops            \* the operations the tasks perform

SendOps == {"sendBack", "sendFront", "overwrite"}
ReceiveOps == {"receive", "peek"}
Slot == 0 .. Length - 1

queueUNLOCKED == -1
queueLOCKED_UNMODIFIED == 0

ASSUME QueueAssumption ==
    /\ IsFiniteSet(Task) /\ NoTask \notin Task
    /\ NoMessage \notin Message
    /\ Length \in Nat \ {0}
    /\ EventValue \in [Task -> Nat]
    /\ Int8Max \in Nat \ {0}
    /\ MaxLockCount \in Nat
    /\ Ops \subseteq SendOps \cup ReceiveOps \cup {"reset"}
    /\ "overwrite" \in Ops => Length = 1

PC == {"out", "look", "suspend", "lock", "test", "place", "unlockTx", "unlockRx", "resume",
       "recheck"}

VARIABLES
    storage,                \* [Slot -> Message or NoMessage], between pcHead and pcTail
    pcWriteTo, pcReadFrom,  \* slots: the next to write, the last that was read
    uxMessagesWaiting,
    cTxLock, cRxLock,
    xTasksWaitingToSend, xTasksWaitingToReceive,
    pending,                \* xPendingReadyList
    blocked,                \* [Task -> BOOLEAN]: not in a ready list
    holder,                 \* the task that called vTaskSuspendAll, if any
    pc,
    op,                     \* [Task -> the operation of its call]
    wait,                   \* [Task -> its time limit]: "none", "limited", "forever",
                            \* or "expired" once a limited one has passed
    delivered,              \* what the last receive or peek copied to its caller
    resetRoom               \* history: the queue was not full since it was reset

dataVars == <<storage, pcWriteTo, pcReadFrom, uxMessagesWaiting>>
lockVars == <<cTxLock, cRxLock>>
listVars == <<xTasksWaitingToSend, xTasksWaitingToReceive, pending, blocked>>
callVars == <<op, wait>>
vars == <<dataVars, lockVars, listVars, callVars, holder, pc, delivered, resetRoom>>

Sending(t) == op[t] \in SendOps
Full == uxMessagesWaiting = Length
Empty == uxMessagesWaiting = 0

\* t runs, and its code stands at `where`.
At(t, where) == pc[t] = where /\ holder \in {NoTask, t} /\ (holder = t \/ ~blocked[t])
Goto(t, where) == pc' = [pc EXCEPT ![t] = where] /\ UNCHANGED callVars

\* The call returns, and its local variables are gone.
Return(t) ==
    /\ pc' = [pc EXCEPT ![t] = "out"]
    /\ op' = [op EXCEPT ![t] = "none"]
    /\ wait' = [wait EXCEPT ![t] = "none"]
-----------------------------------------------------------------------------
(* The storage.                                                            *)

After(slot) == (slot + 1) % Length
Before(slot) == (slot - 1) % Length

\* prvCopyDataToQueue.
prvCopyDataToQueue(m, position) ==
    /\ IF position = "sendBack"
       THEN /\ storage' = [storage EXCEPT ![pcWriteTo] = m]
            /\ pcWriteTo' = After(pcWriteTo)
            /\ UNCHANGED pcReadFrom
       ELSE /\ storage' = [storage EXCEPT ![pcReadFrom] = m]
            /\ pcReadFrom' = Before(pcReadFrom)
            /\ UNCHANGED pcWriteTo
    /\ uxMessagesWaiting' =
         IF position = "overwrite" /\ ~Empty THEN uxMessagesWaiting
         ELSE uxMessagesWaiting + 1

\* prvCopyDataFromQueue for a caller that takes the message.
Take ==
    /\ delivered' = storage[After(pcReadFrom)]
    /\ pcReadFrom' = After(pcReadFrom)
    /\ uxMessagesWaiting' = uxMessagesWaiting - 1
    /\ UNCHANGED <<storage, pcWriteTo>>

\* For one that peeks: pcReadFrom is put back.
LookAtForgotten ==
    /\ delivered' = storage[After(pcReadFrom)]
    /\ pcReadFrom' = After(pcReadFrom)
    /\ UNCHANGED <<storage, pcWriteTo, uxMessagesWaiting>>

LookAt ==
    /\ delivered' = storage[After(pcReadFrom)]
    /\ UNCHANGED dataVars

RoomOffByOne(position) == uxMessagesWaiting <= Length \/ position = "overwrite"

Room(position) == ~Full \/ position = "overwrite"

\* History: room that a reset made and that no full queue has ended yet.
KeepRoom == resetRoom' = (resetRoom /\ uxMessagesWaiting' < Length)
-----------------------------------------------------------------------------
(* Waking.                                                                 *)

\* xTaskRemoveFromEventList for each task of `woken`.
Wake(woken) ==
    IF holder = NoTask
    THEN /\ blocked' = [t \in Task |-> blocked[t] /\ t \notin woken]
         /\ UNCHANGED pending
    ELSE /\ pending' = pending \cup woken
         /\ UNCHANGED blocked

FirstOf(list, n) == {list[i] : i \in 1 .. Min({n, Len(list)})}
RestOf(list, n) == SubSeq(list, Min({n, Len(list)}) + 1, Len(list))

WakeReceivers(n) ==
    /\ Wake(FirstOf(xTasksWaitingToReceive, n))
    /\ xTasksWaitingToReceive' = RestOf(xTasksWaitingToReceive, n)
    /\ UNCHANGED xTasksWaitingToSend

WakeSenders(n) ==
    /\ Wake(FirstOf(xTasksWaitingToSend, n))
    /\ xTasksWaitingToSend' = RestOf(xTasksWaitingToSend, n)
    /\ UNCHANGED xTasksWaitingToReceive
-----------------------------------------------------------------------------
(* Calls from tasks.                                                       *)

\* A call of xQueueGenericSend or xQueueGenericReceive begins.
Call(t, o, w) ==
    /\ At(t, "out") /\ o \in Ops \ {"reset"}
    /\ pc' = [pc EXCEPT ![t] = "look"]
    /\ op' = [op EXCEPT ![t] = o]
    /\ wait' = [wait EXCEPT ![t] = w]
    /\ UNCHANGED <<dataVars, lockVars, listVars, holder, delivered, resetRoom>>

\* The critical section at the top of the loop.
SendNow(t, m) ==
    /\ At(t, "look") /\ Sending(t) /\ Room(op[t])
    /\ prvCopyDataToQueue(m, op[t])
    /\ WakeReceivers(1)
    /\ KeepRoom
    /\ Return(t)
    /\ UNCHANGED <<lockVars, holder, delivered>>

ReceiveNow(t) ==
    /\ At(t, "look") /\ op[t] = "receive" /\ ~Empty
    /\ Take
    /\ WakeSenders(1)
    /\ Return(t)
    /\ UNCHANGED <<lockVars, holder, resetRoom>>

\* The message stays: another receiver may have it.
PeekTellsNobody(t) ==
    /\ At(t, "look") /\ op[t] = "peek" /\ ~Empty
    /\ LookAt
    /\ Return(t)
    /\ UNCHANGED <<lockVars, listVars, holder, resetRoom>>

PeekNow(t) ==
    /\ At(t, "look") /\ op[t] = "peek" /\ ~Empty
    /\ LookAt
    /\ WakeReceivers(1)
    /\ Return(t)
    /\ UNCHANGED <<lockVars, holder, resetRoom>>

NotNow(t) ==
    /\ At(t, "look")
    /\ IF Sending(t) THEN ~Room(op[t]) ELSE Empty
    /\ IF wait[t] = "none" THEN Return(t) ELSE Goto(t, "suspend")
    /\ UNCHANGED <<dataVars, lockVars, listVars, holder, delivered, resetRoom>>

vTaskSuspendAll(t) ==
    /\ At(t, "suspend")
    /\ holder' = t
    /\ Goto(t, "lock")
    /\ UNCHANGED <<dataVars, lockVars, listVars, delivered, resetRoom>>

Locked(lock) == IF lock = queueUNLOCKED THEN queueLOCKED_UNMODIFIED ELSE lock

\* prvLockQueue, and xTaskCheckForTimeOut: no tick is counted meanwhile.
LockNeverExpires(t) ==
    /\ At(t, "lock")
    /\ cTxLock' = Locked(cTxLock)
    /\ cRxLock' = Locked(cRxLock)
    /\ Goto(t, "test")
    /\ UNCHANGED <<dataVars, listVars, holder, delivered, resetRoom>>

prvLockQueue(t) ==
    /\ At(t, "lock")
    /\ cTxLock' = Locked(cTxLock)
    /\ cRxLock' = Locked(cRxLock)
    /\ Goto(t, IF wait[t] = "expired" THEN "unlockTx" ELSE "test")
    /\ UNCHANGED <<dataVars, listVars, holder, delivered, resetRoom>>

\* prvIsQueueFull, prvIsQueueEmpty.
Test(t) ==
    /\ At(t, "test")
    /\ Goto(t, IF (IF Sending(t) THEN Full ELSE Empty) THEN "place" ELSE "unlockTx")
    /\ UNCHANGED <<dataVars, lockVars, listVars, holder, delivered, resetRoom>>

vTaskPlaceOnEventList(t) ==
    /\ At(t, "place")
    /\ IF Sending(t)
       THEN /\ xTasksWaitingToSend' = InsertSorted(xTasksWaitingToSend, EventValue, t)
            /\ UNCHANGED xTasksWaitingToReceive
       ELSE /\ xTasksWaitingToReceive' = InsertSorted(xTasksWaitingToReceive, EventValue, t)
            /\ UNCHANGED xTasksWaitingToSend
    /\ blocked' = [blocked EXCEPT ![t] = TRUE]
    /\ Goto(t, "unlockTx")
    /\ UNCHANGED <<dataVars, lockVars, pending, holder, delivered, resetRoom>>

\* prvUnlockQueue, two critical sections.  Each wakes a task for every message that
\* came, or went, while the queue was locked.
UnlockTxForgets(t) ==
    /\ At(t, "unlockTx")
    /\ WakeReceivers(IF cTxLock > queueLOCKED_UNMODIFIED THEN 1 ELSE 0)
    /\ cTxLock' = queueUNLOCKED
    /\ Goto(t, "unlockRx")
    /\ UNCHANGED <<dataVars, cRxLock, holder, delivered, resetRoom>>

UnlockTx(t) ==
    /\ At(t, "unlockTx")
    /\ WakeReceivers(Max({cTxLock, queueLOCKED_UNMODIFIED}))
    /\ cTxLock' = queueUNLOCKED
    /\ Goto(t, "unlockRx")
    /\ UNCHANGED <<dataVars, cRxLock, holder, delivered, resetRoom>>

UnlockRxForgets(t) ==
    /\ At(t, "unlockRx")
    /\ cRxLock' = queueUNLOCKED
    /\ Goto(t, "resume")
    /\ UNCHANGED <<dataVars, cTxLock, listVars, holder, delivered, resetRoom>>

UnlockRx(t) ==
    /\ At(t, "unlockRx")
    /\ WakeSenders(Max({cRxLock, queueLOCKED_UNMODIFIED}))
    /\ cRxLock' = queueUNLOCKED
    /\ Goto(t, "resume")
    /\ UNCHANGED <<dataVars, cTxLock, holder, delivered, resetRoom>>

\* xTaskResumeAll.  Then a sender whose time has passed returns errQUEUE_FULL at
\* once, a receiver looks again whether the queue is empty, and the others retry.
xTaskResumeAll(t) ==
    /\ At(t, "resume")
    /\ holder' = NoTask
    /\ blocked' = [u \in Task |-> blocked[u] /\ u \notin pending]
    /\ pending' = {}
    /\ \/ wait[t] # "expired" /\ Goto(t, "look")
       \/ wait[t] = "expired" /\ Sending(t) /\ Return(t)
       \/ wait[t] = "expired" /\ ~Sending(t) /\ Goto(t, "recheck")
    /\ UNCHANGED <<dataVars, lockVars, xTasksWaitingToSend, xTasksWaitingToReceive,
                   delivered, resetRoom>>

Recheck(t) ==
    /\ At(t, "recheck")
    /\ IF Empty THEN Return(t) ELSE Goto(t, "look")
    /\ UNCHANGED <<dataVars, lockVars, listVars, holder, delivered, resetRoom>>

\* xQueueGenericReset wakes one sender, however much room it makes.
xQueueGenericReset(t) ==
    /\ At(t, "out") /\ "reset" \in Ops
    /\ uxMessagesWaiting' = 0
    /\ pcWriteTo' = 0
    /\ pcReadFrom' = Length - 1
    /\ cRxLock' = queueUNLOCKED
    /\ cTxLock' = queueUNLOCKED
    /\ WakeSenders(1)
    /\ resetRoom' = TRUE
    /\ UNCHANGED <<storage, callVars, holder, pc, delivered>>

\* The time limit of a call passes.  When its task is blocked, the tick takes it out
\* of the event list and makes it ready.
TimePasses(t) ==
    /\ holder = NoTask
    /\ pc[t] # "out" /\ wait[t] = "limited"
    /\ wait' = [wait EXCEPT ![t] = "expired"]
    /\ blocked' = [blocked EXCEPT ![t] = FALSE]
    /\ xTasksWaitingToSend' = Without(xTasksWaitingToSend, t)
    /\ xTasksWaitingToReceive' = Without(xTasksWaitingToReceive, t)
    /\ UNCHANGED <<dataVars, lockVars, op, pending, holder, pc, delivered, resetRoom>>
-----------------------------------------------------------------------------
(* Calls from interrupt handlers.                                          *)

Int8(n) == ((n + Int8Max + 1) % (2 * (Int8Max + 1))) - (Int8Max + 1)

xQueueGenericSendFromISR(m, position) ==
    /\ position \in Ops \cap SendOps /\ Room(position)
    /\ cTxLock < MaxLockCount
    /\ prvCopyDataToQueue(m, position)
    /\ IF cTxLock = queueUNLOCKED
       THEN WakeReceivers(1) /\ UNCHANGED cTxLock
       ELSE cTxLock' = Int8(cTxLock + 1) /\ UNCHANGED listVars
    /\ KeepRoom
    /\ UNCHANGED <<cRxLock, callVars, holder, pc, delivered>>

xQueueReceiveFromISR ==
    /\ "receive" \in Ops /\ ~Empty
    /\ cRxLock < MaxLockCount
    /\ Take
    /\ IF cRxLock = queueUNLOCKED
       THEN WakeSenders(1) /\ UNCHANGED cRxLock
       ELSE cRxLock' = Int8(cRxLock + 1) /\ UNCHANGED listVars
    /\ UNCHANGED <<cTxLock, callVars, holder, pc, resetRoom>>
-----------------------------------------------------------------------------
Init ==
    /\ storage = [s \in Slot |-> NoMessage]
    /\ pcWriteTo = 0 /\ pcReadFrom = Length - 1
    /\ uxMessagesWaiting = 0
    /\ cTxLock = queueUNLOCKED /\ cRxLock = queueUNLOCKED
    /\ xTasksWaitingToSend = <<>> /\ xTasksWaitingToReceive = <<>>
    /\ pending = {}
    /\ blocked = [t \in Task |-> FALSE]
    /\ holder = NoTask
    /\ pc = [t \in Task |-> "out"]
    /\ op = [t \in Task |-> "none"]
    /\ wait = [t \in Task |-> "none"]
    /\ delivered = NoMessage
    /\ resetRoom = FALSE

\* A task goes on in the call it is in.
Proceed(t) ==
    \/ \E m \in Message : SendNow(t, m)
    \/ ReceiveNow(t) \/ PeekNow(t) \/ NotNow(t)
    \/ vTaskSuspendAll(t) \/ prvLockQueue(t) \/ Test(t) \/ vTaskPlaceOnEventList(t)
    \/ UnlockTx(t) \/ UnlockRx(t) \/ xTaskResumeAll(t) \/ Recheck(t)

Next ==
    \/ \E t \in Task :
         \/ \E o \in Ops, w \in {"none", "limited", "forever"} : Call(t, o, w)
         \/ Proceed(t) \/ xQueueGenericReset(t) \/ TimePasses(t)
    \/ \E m \in Message, o \in Ops : xQueueGenericSendFromISR(m, o)
    \/ xQueueReceiveFromISR

Spec == Init /\ [][Next]_vars

\* A task that stays ready in a call runs again and again (among tasks of equal
\* priority that is TimeIsShared of Tasks), and time passes.
FairSpec ==
    /\ Spec
    /\ \A t \in Task : SF_vars(Proceed(t)) /\ SF_vars(TimePasses(t))
-----------------------------------------------------------------------------
Lock == -(Int8Max + 1) .. Int8Max

TypeOK ==
    /\ storage \in [Slot -> Message \cup {NoMessage}]
    /\ pcWriteTo \in Slot /\ pcReadFrom \in Slot
    /\ uxMessagesWaiting \in 0 .. Length
    /\ cTxLock \in Lock /\ cRxLock \in Lock
    /\ xTasksWaitingToSend \in Seq(Task) /\ xTasksWaitingToReceive \in Seq(Task)
    /\ pending \in SUBSET Task
    /\ blocked \in [Task -> BOOLEAN]
    /\ holder \in Task \cup {NoTask}
    /\ pc \in [Task -> PC]
    /\ op \in [Task -> (Ops \ {"reset"}) \cup {"none"}]
    /\ wait \in [Task -> {"none", "limited", "forever", "expired"}]
    /\ delivered \in Message \cup {NoMessage}
    /\ resetRoom \in BOOLEAN

\* Tasks that will look at the queue before they wait again or give up.
WillLook(list) == {t \in Task : ~Contains(list, t) /\ (pc[t] = "look" \/ t \in pending)}

\* No receiver is left asleep beside a message: for every message there is a receiver on
\* its way to the queue, or one that prvUnlockQueue is about to wake.
NoReceiverForgotten ==
    xTasksWaitingToReceive # <<>> =>
        uxMessagesWaiting <=
            Cardinality({t \in WillLook(xTasksWaitingToReceive) : ~Sending(t)})
              + Max({cTxLock, 0})

\* No sender is left asleep beside a free slot, except for the room that
\* xQueueGenericReset makes, for which it wakes one sender only.
NoSenderForgotten ==
    xTasksWaitingToSend # <<>> /\ ~resetRoom =>
        Length - uxMessagesWaiting <=
            Cardinality({t \in WillLook(xTasksWaitingToSend) : Sending(t)})
              + Max({cRxLock, 0})

\* A send with a time limit ends: it gives up when its time has passed.  A receive
\* does not give up while there is a message: it ends unless a message comes, and is
\* taken by somebody else, again and again.
LimitedCallsEnd ==
    \A t \in Task :
        /\ Sending(t) /\ wait[t] = "limited" ~> pc[t] = "out"
        /\ \/ []<>Empty /\ []<>~Empty
           \/ pc[t] # "out" /\ wait[t] = "limited" ~> pc[t] = "out"

\* No receiver waits for ever beside a queue that is not empty any more (in a queue of
\* length one: beside a message that stays).
ReceiversServed ==
    <>[]~Empty => \A t \in Task : op[t] = "receive" ~> pc[t] = "out"
-----------------------------------------------------------------------------
(* Queue implements QueueSpec.                                             *)

\* The messages, in the order in which they will be received.
Contents == [k \in 1 .. uxMessagesWaiting |-> storage[(pcReadFrom + k) % Length]]

Abstract == INSTANCE QueueSpec WITH contents <- Contents

\* The ring with its two pointers and the operations of tasks and handlers
\* implement a bounded sequence: no message is lost, doubled or reordered.
ImplementsQueueSpec == Abstract!AbsSpec

\* The slot to write is the one after the last message.
PointersAgree == pcWriteTo = After((pcReadFrom + uxMessagesWaiting) % Length)
=============================================================================
