---------------------------- MODULE EventGroups ----------------------------
(***************************************************************************)
(* One event group of event_groups.c.  Members meet in xEventGroupSync,    *)
(* round after round and without a time limit, each with bits of its own;  *)
(* visitors wait for, set and clear further bits of the group, with and    *)
(* without a limit; an interrupt handler has the timer task set or clear   *)
(* them; the group may be deleted.                                         *)
(*                                                                         *)
(* A call does all its work with the scheduler suspended or in a critical  *)
(* section, and handlers do not touch event groups, so a call is one step, *)
(* and a call that blocked has another when its task runs again.           *)
(***************************************************************************)
EXTENDS Naturals, FiniteSets, Sequences

CONSTANTS
    Member,        \* tasks that call xEventGroupSync for ever
    MemberBits,    \* the bits each of them sets
    Visitor,       \* tasks that make the other calls
    VisitorBits,   \* the bits they use
    GroupLimits,   \* the time limits of visitors: "none", "limited", "forever"
    PendedCalls    \* bound on the function calls pended to the timer task

GroupTask == Member \union Visitor
Rendezvous == UNION {MemberBits[m] : m \in Member}
Bits == Rendezvous \union VisitorBits

ASSUME EventGroupsAssumption ==
    /\ Member \intersect Visitor = {}
    /\ \A m \in Member : MemberBits[m] # {}
    /\ \A m, n \in Member : m # n => MemberBits[m] \intersect MemberBits[n] = {}
    /\ Rendezvous \intersect VisitorBits = {}
    /\ GroupLimits \subseteq {"none", "limited", "forever"}
    /\ PendedCalls \in Nat

VARIABLES
    uxEventBits,           \* the bits that are set
    xTasksWaitingForBits,  \* the unordered list: the tasks in it
    eventItem,             \* the value of each task's event item, and its call
    groupPc,               \* "out" of a call, "blocked", or "woken" and not yet run
    pended,                \* function calls in the queue of the timer task
    deleted,               \* the group has been deleted and its memory freed
    round                  \* of each member, the rounds it has finished, modulo 4

groupVars == <<uxEventBits, xTasksWaitingForBits, eventItem, groupPc, pended, deleted, round>>

(* The value of an event item: bits and the three control bits; limit is   *)
(* the xTicksToWait of the call.  wanted keeps the parameter after the     *)
(* value was overwritten.                                                  *)
Item(bits, clear, all, limit) ==
    [bits |-> bits, wanted |-> bits, clear |-> clear, all |-> all, unblocked |-> FALSE,
     limit |-> limit]
NoItem == Item({}, FALSE, FALSE, "none")

prvTestWaitCondition(current, bits, all) ==
    IF all THEN bits \subseteq current ELSE bits \intersect current # {}

GroupInit ==
    /\ uxEventBits = {} /\ xTasksWaitingForBits = {}
    /\ eventItem = [t \in GroupTask |-> NoItem]
    /\ groupPc = [t \in GroupTask |-> "out"]
    /\ pended = <<>> /\ deleted = FALSE
    /\ round = [m \in Member |-> 0]

Out(t) == groupPc[t] = "out" /\ ~deleted

-----------------------------------------------------------------------------
(* xEventGroupSetBits: every waiting task whose condition the new value    *)
(* meets is unblocked with that value; what they asked to have cleared is  *)
(* cleared after the walk.                                                 *)
NewValue(bits) == uxEventBits \union bits

Matched(bits) == {t \in xTasksWaitingForBits :
    prvTestWaitCondition(NewValue(bits), eventItem[t].bits, eventItem[t].all)}

\* Mutant: the walk ends at the first task that clears the bits it waited for.
UnblockedUpToClear(bits) ==
    IF \E t \in Matched(bits) : eventItem[t].clear
    THEN {CHOOSE t \in Matched(bits) : eventItem[t].clear} ELSE Matched(bits)

Unblocked(bits) == Matched(bits)

BitsToClear(bits) == UNION {eventItem[t].bits : t \in {u \in Unblocked(bits) : eventItem[u].clear}}

\* The items of the tasks unblocked by setting bits.
Delivered(bits) == [t \in GroupTask |->
    IF t \in Unblocked(bits) THEN [eventItem[t] EXCEPT !.bits = NewValue(bits), !.unblocked = TRUE]
                             ELSE eventItem[t]]

Wake(tasks) == [t \in GroupTask |-> IF t \in tasks THEN "woken" ELSE groupPc[t]]

SetBits(bits) ==
    /\ uxEventBits' = NewValue(bits) \ BitsToClear(bits)
    /\ xTasksWaitingForBits' = xTasksWaitingForBits \ Unblocked(bits)
    /\ eventItem' = Delivered(bits)
    /\ groupPc' = Wake(Unblocked(bits))

xEventGroupSetBits(t) ==
    /\ Out(t)
    /\ \E bits \in SUBSET VisitorBits \ {{}} : SetBits(bits)
    /\ UNCHANGED <<pended, deleted, round>>

xEventGroupClearBits(t) ==
    /\ Out(t)
    /\ \E bits \in SUBSET VisitorBits \ {{}} : uxEventBits' = uxEventBits \ bits
    /\ UNCHANGED <<xTasksWaitingForBits, eventItem, groupPc, pended, deleted, round>>

\* A visitor may also watch the rendezvous, without clearing its bits.
Watched == (SUBSET VisitorBits \ {{}}) \union {Rendezvous}

(* xEventGroupWaitBits: a condition that is met ends the call, and so does *)
(* the limit 0; otherwise the task is placed in the list.                  *)
xEventGroupWaitBits(t) ==
    /\ Out(t)
    /\ \E bits \in Watched, clear, all \in BOOLEAN, limit \in GroupLimits :
        /\ clear => bits \subseteq VisitorBits
        /\ \/ /\ prvTestWaitCondition(uxEventBits, bits, all)
              /\ uxEventBits' = IF clear THEN uxEventBits \ bits ELSE uxEventBits
              /\ UNCHANGED <<xTasksWaitingForBits, eventItem, groupPc>>
           \/ /\ ~prvTestWaitCondition(uxEventBits, bits, all) /\ limit # "none"
              /\ xTasksWaitingForBits' = xTasksWaitingForBits \union {t}
              /\ eventItem' = [eventItem EXCEPT ![t] = Item(bits, clear, all, limit)]
              /\ groupPc' = [groupPc EXCEPT ![t] = "blocked"]
              /\ UNCHANGED uxEventBits
    /\ UNCHANGED <<pended, deleted, round>>

\* Mutant: any bit of the rendezvous ends the wait.
RendezvousAny == Item(Rendezvous, TRUE, FALSE, "forever")

RendezvousItem == Item(Rendezvous, TRUE, TRUE, "forever")

(* xEventGroupSync: the bits are set first, which may unblock the others   *)
(* and clear the bits; whether all have come is told from the value before *)
(* and the bits set.                                                       *)
xEventGroupSync(m) ==
    /\ Out(m)
    /\ \/ /\ Rendezvous \subseteq NewValue(MemberBits[m])
          /\ uxEventBits' = (NewValue(MemberBits[m]) \ BitsToClear(MemberBits[m])) \ Rendezvous
          /\ xTasksWaitingForBits' = xTasksWaitingForBits \ Unblocked(MemberBits[m])
          /\ eventItem' = Delivered(MemberBits[m])
          /\ groupPc' = Wake(Unblocked(MemberBits[m]))
          /\ round' = [round EXCEPT ![m] = (@ + 1) % 4]
       \/ /\ ~(Rendezvous \subseteq NewValue(MemberBits[m]))
          /\ uxEventBits' = NewValue(MemberBits[m]) \ BitsToClear(MemberBits[m])
          /\ xTasksWaitingForBits' = (xTasksWaitingForBits \ Unblocked(MemberBits[m])) \union {m}
          /\ eventItem' = [Delivered(MemberBits[m]) EXCEPT ![m] = RendezvousItem]
          /\ groupPc' = [Wake(Unblocked(MemberBits[m])) EXCEPT ![m] = "blocked"]
          /\ UNCHANGED round
    /\ UNCHANGED <<pended, deleted>>

(* The time limit of a waiting task has come: the tick takes it out of the *)
(* list and leaves its event item as it is.                                *)
GroupTimeOut(t) ==
    /\ t \in xTasksWaitingForBits /\ eventItem[t].limit = "limited"
    /\ xTasksWaitingForBits' = xTasksWaitingForBits \ {t}
    /\ groupPc' = Wake({t})
    /\ UNCHANGED <<uxEventBits, eventItem, pended, deleted, round>>

(* The task runs again.  If bits unblocked it, they are in its event item; *)
(* if not, it looks at the group again, which may be gone.                 *)
GroupResume(t) ==
    /\ groupPc[t] = "woken"
    /\ LET item == eventItem[t]
       IN  \/ /\ item.unblocked
              /\ round' = IF t \in Member /\ Rendezvous \subseteq item.bits
                          THEN [round EXCEPT ![t] = (@ + 1) % 4] ELSE round
              /\ UNCHANGED uxEventBits
           \/ /\ ~item.unblocked
              /\ uxEventBits' = IF item.clear /\ prvTestWaitCondition(uxEventBits, item.wanted, item.all)
                                THEN uxEventBits \ item.wanted ELSE uxEventBits
              /\ UNCHANGED round
    /\ eventItem' = [eventItem EXCEPT ![t] = NoItem]
    /\ groupPc' = [groupPc EXCEPT ![t] = "out"]
    /\ UNCHANGED <<xTasksWaitingForBits, pended, deleted>>

\* The waiting tasks are unblocked with no bits and the memory is freed.
vEventGroupDelete(t) ==
    /\ Out(t)
    /\ eventItem' = [u \in GroupTask |->
            IF u \in xTasksWaitingForBits THEN [eventItem[u] EXCEPT !.bits = {}, !.unblocked = TRUE]
                                          ELSE eventItem[u]]
    /\ groupPc' = Wake(xTasksWaitingForBits)
    /\ xTasksWaitingForBits' = {} /\ deleted' = TRUE
    /\ UNCHANGED <<uxEventBits, pended, round>>

(* An interrupt handler leaves setting and clearing bits to the timer task. *)
xTimerPendFunctionCallFromISR ==
    /\ Len(pended) < PendedCalls /\ ~deleted
    /\ \E function \in {"set", "clear"}, bits \in SUBSET VisitorBits \ {{}} :
            pended' = Append(pended, [function |-> function, bits |-> bits])
    /\ UNCHANGED <<uxEventBits, xTasksWaitingForBits, eventItem, groupPc, deleted, round>>

ExecutePended ==
    /\ pended # <<>>
    /\ pended' = Tail(pended)
    /\ IF Head(pended).function = "set"
       THEN SetBits(Head(pended).bits)
       ELSE /\ uxEventBits' = uxEventBits \ Head(pended).bits
            /\ UNCHANGED <<xTasksWaitingForBits, eventItem, groupPc>>
    /\ UNCHANGED <<deleted, round>>

GroupTaskStep(t) ==
    \/ t \in Member /\ xEventGroupSync(t)
    \/ GroupResume(t)

VisitorCall(t) ==
    xEventGroupSetBits(t) \/ xEventGroupClearBits(t) \/ xEventGroupWaitBits(t) \/ vEventGroupDelete(t)

GroupNext ==
    \/ \E t \in GroupTask : GroupTaskStep(t) \/ GroupTimeOut(t)
    \/ \E t \in Visitor : VisitorCall(t)
    \/ xTimerPendFunctionCallFromISR \/ ExecutePended

-----------------------------------------------------------------------------
(* A rendezvous lets all its members go in the same step or none: counting *)
(* the round of a member that was let go and has not run yet, all members  *)
(* have been through the same number of rounds.  (xEventGroupSync,         *)
(* event_groups.c:208, of which only the last to come sees all bits at     *)
(* once, and the others get them through their event items)                *)
LetGo(m) == groupPc[m] = "woken" /\ eventItem[m].unblocked /\ Rendezvous \subseteq eventItem[m].bits
RoundsThrough(m) == IF LetGo(m) THEN (round[m] + 1) % 4 ELSE round[m]
ReleasedTogether == \A m, n \in Member : RoundsThrough(m) = RoundsThrough(n)

(* The members go round after round, and together: after a round that all  *)
(* have finished comes a moment at which all have finished the next and    *)
(* none has got further, until the group is deleted, whatever visitors and *)
(* handlers do to the other bits.  A bit that is cleared before every task *)
(* in the list was looked at would stop a member for ever; a bit that is   *)
(* left set, or a member let go too early, would put it a round ahead.     *)
(* (xEventGroupSync, event_groups.c:208; the walk of xEventGroupSetBits,   *)
(* event_groups.c:530)                                                     *)
AllFinished(k) == \A m \in Member : round[m] = k
RoundsInStep == AllFinished(0) ~> (AllFinished(1) \/ deleted)
=============================================================================
