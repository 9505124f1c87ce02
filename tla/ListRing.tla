------------------------------ MODULE ListRing ------------------------------
(***************************************************************************)
(* list.c at the level of its pointers: each list is a doubly linked ring  *)
(* through its xListEnd.  The list l stands for its own xListEnd.          *)
(*                                                                         *)
(* vListInsert walks the list one node at a time.  The kernel calls it     *)
(* with the scheduler suspended but interrupts enabled (for instance from  *)
(* vTaskPlaceOnEventList), so interrupt handlers may run the other         *)
(* operations on other lists in the middle of the walk.  At most one walk  *)
(* is under way: the interrupt handlers of the kernel only call            *)
(* vListInsertEnd and uxListRemove.                                        *)
(*                                                                         *)
(* LinkAfterOneWay and the like are faulty forms of the operator after     *)
(* them, to see that a property notices.                                   *)
(***************************************************************************)
EXTENDS Integers, FiniteSets

CONSTANTS List, Item, MaxValue,
          NoList,     \* a NULL pvContainer
          NoWalk      \* no vListInsert is under way

Node == List \cup Item

ASSUME ListRingAssumption ==
    /\ MaxValue \in Nat
    /\ List \cap Item = {}
    /\ NoList \notin List
    /\ IsFiniteSet(Item)
    /\ NoWalk \notin [list : List, item : Item, at : Node]

VARIABLES pxNext,      \* [Node -> Node]
          pxPrevious,  \* [Node -> Node]
          pvContainer, \* [Item -> list or NoList]
          pxIndex,     \* [List -> Node]
          uxNumberOfItems,
          xItemValue,  \* [Item -> value]; xListEnd has MaxValue
          walk         \* the vListInsert under way: its list, its item, pxIterator

vars == <<pxNext, pxPrevious, pvContainer, pxIndex, uxNumberOfItems, xItemValue, walk>>

NodeValue(n) == IF n \in List THEN MaxValue ELSE xItemValue[n]

\* The ring a node belongs to.
RingOf(n) == IF n \in List THEN n ELSE pvContainer[n]

\* A list that is being walked is left alone, and so is the item on its way in:
\* the scheduler suspension or the queue lock keep everybody else away.
AlwaysFree(l) == TRUE
Free(l) == walk # NoWalk => walk.list # l
Unused(x) == pvContainer[x] = NoList /\ (walk # NoWalk => walk.item # x)

Init == /\ pxNext = [n \in Node |-> n]
        /\ pxPrevious = [n \in Node |-> n]
        /\ pvContainer = [x \in Item |-> NoList]
        /\ pxIndex = [l \in List |-> l]
        /\ uxNumberOfItems = [l \in List |-> 0]
        /\ xItemValue = [x \in Item |-> 0]
        /\ walk = NoWalk

\* The four assignments that put x between `before` and the node after it, in the
\* order of the code: each one reads what the ones above it wrote.
LinkAfterOneWay(before, x, l) ==
    /\ pxNext' = [pxNext EXCEPT ![x] = pxNext[before], ![before] = x]
    /\ pxPrevious' = [pxPrevious EXCEPT ![x] = before]
    /\ pvContainer' = [pvContainer EXCEPT ![x] = l]
    /\ uxNumberOfItems' = [uxNumberOfItems EXCEPT ![l] = @ + 1]

LinkAfterUncounted(before, x, l) ==
    LET after == pxNext[before]
    IN  /\ pxNext' = [pxNext EXCEPT ![x] = after, ![before] = x]
        /\ pxPrevious' = [pxPrevious EXCEPT ![after] = x, ![x] = before]
        /\ pvContainer' = [pvContainer EXCEPT ![x] = l]
        /\ UNCHANGED uxNumberOfItems

LinkAfterUncontained(before, x, l) ==
    LET after == pxNext[before]
    IN  /\ pxNext' = [pxNext EXCEPT ![x] = after, ![before] = x]
        /\ pxPrevious' = [pxPrevious EXCEPT ![after] = x, ![x] = before]
        /\ uxNumberOfItems' = [uxNumberOfItems EXCEPT ![l] = @ + 1]
        /\ UNCHANGED pvContainer

LinkAfter(before, x, l) ==
    LET after == pxNext[before]
    IN  /\ pxNext' = [pxNext EXCEPT ![x] = after, ![before] = x]
        /\ pxPrevious' = [pxPrevious EXCEPT ![after] = x, ![x] = before]
        /\ pvContainer' = [pvContainer EXCEPT ![x] = l]
        /\ uxNumberOfItems' = [uxNumberOfItems EXCEPT ![l] = @ + 1]

\* vListInsertEnd links before pxIndex, whatever it points at.
InsertEnd(l, x) ==
    /\ Unused(x) /\ Free(l)
    /\ LET node == pxIndex[l]
           last == pxPrevious[node]
       IN  /\ pxNext' = [pxNext EXCEPT ![x] = node, ![last] = x]
           /\ pxPrevious' = [pxPrevious EXCEPT ![x] = last, ![node] = x]
    /\ pvContainer' = [pvContainer EXCEPT ![x] = l]
    /\ uxNumberOfItems' = [uxNumberOfItems EXCEPT ![l] = @ + 1]
    /\ UNCHANGED <<pxIndex, xItemValue, walk>>

\* vListInsert, first part: an item of value portMAX_DELAY starts at the last
\* node, since the walk would otherwise never stop at xListEnd.
InsertBegin(l, x) ==
    /\ walk = NoWalk
    /\ pvContainer[x] = NoList
    /\ pxIndex[l] = l
    /\ walk' = [list |-> l, item |-> x,
                at |-> IF xItemValue[x] = MaxValue THEN pxPrevious[l] ELSE l]
    /\ UNCHANGED <<pxNext, pxPrevious, pvContainer, pxIndex, uxNumberOfItems, xItemValue>>

WalksOnAnyValue == NodeValue(pxNext[walk.at]) <= xItemValue[walk.item]

WalksOnStrictly == /\ xItemValue[walk.item] # MaxValue
                   /\ NodeValue(pxNext[walk.at]) < xItemValue[walk.item]

WalksOn == /\ xItemValue[walk.item] # MaxValue
           /\ NodeValue(pxNext[walk.at]) <= xItemValue[walk.item]

InsertStep ==
    /\ walk # NoWalk /\ WalksOn
    /\ walk' = [walk EXCEPT !.at = pxNext[@]]
    /\ UNCHANGED <<pxNext, pxPrevious, pvContainer, pxIndex, uxNumberOfItems, xItemValue>>

InsertLink ==
    /\ walk # NoWalk /\ ~WalksOn
    /\ LinkAfter(walk.at, walk.item, walk.list)
    /\ walk' = NoWalk
    /\ UNCHANGED <<pxIndex, xItemValue>>

\* uxListRemove.
RemoveKeepIndex(x) ==
    /\ pvContainer[x] # NoList
    /\ Free(pvContainer[x])
    /\ pxPrevious' = [pxPrevious EXCEPT ![pxNext[x]] = pxPrevious[x]]
    /\ pxNext' = [pxNext EXCEPT ![pxPrevious[x]] = pxNext[x]]
    /\ uxNumberOfItems' = [uxNumberOfItems EXCEPT ![pvContainer[x]] = @ - 1]
    /\ pvContainer' = [pvContainer EXCEPT ![x] = NoList]
    /\ UNCHANGED <<pxIndex, xItemValue, walk>>

Remove(x) ==
    /\ pvContainer[x] # NoList
    /\ Free(pvContainer[x])
    /\ LET l == pvContainer[x]
       IN  /\ pxPrevious' = [pxPrevious EXCEPT ![pxNext[x]] = pxPrevious[x]]
           /\ pxNext' = [pxNext EXCEPT ![pxPrevious[x]] = pxNext[x]]
           /\ pxIndex' = IF pxIndex[l] = x
                         THEN [pxIndex EXCEPT ![l] = pxPrevious[x]] ELSE pxIndex
           /\ uxNumberOfItems' = [uxNumberOfItems EXCEPT ![l] = @ - 1]
    /\ pvContainer' = [pvContainer EXCEPT ![x] = NoList]
    /\ UNCHANGED <<xItemValue, walk>>

\* listGET_OWNER_OF_NEXT_ENTRY, on a list its caller found not empty.
NextEntry(l) ==
    /\ uxNumberOfItems[l] > 0
    /\ Free(l)
    /\ LET step == pxNext[pxIndex[l]]
       IN  pxIndex' = [pxIndex EXCEPT ![l] = IF step = l THEN pxNext[step] ELSE step]
    /\ UNCHANGED <<pxNext, pxPrevious, pvContainer, uxNumberOfItems, xItemValue, walk>>

\* listSET_LIST_ITEM_VALUE, also on an item that is in a list (vTaskPrioritySet).
SetItemValue(x, v) ==
    /\ walk # NoWalk => walk.item # x /\ walk.list # pvContainer[x]
    /\ xItemValue' = [xItemValue EXCEPT ![x] = v]
    /\ UNCHANGED <<pxNext, pxPrevious, pvContainer, pxIndex, uxNumberOfItems, walk>>

Next ==
    \/ \E l \in List, x \in Item : InsertEnd(l, x) \/ InsertBegin(l, x)
    \/ InsertStep
    \/ InsertLink
    \/ \E x \in Item : Remove(x)
    \/ \E l \in List : NextEntry(l)
    \/ \E x \in Item, v \in 0 .. MaxValue : SetItemValue(x, v)

Spec == Init /\ [][Next]_vars /\ WF_vars(InsertStep \/ InsertLink)
-----------------------------------------------------------------------------
TypeOK ==
    /\ pxNext \in [Node -> Node]
    /\ pxPrevious \in [Node -> Node]
    /\ pvContainer \in [Item -> List \cup {NoList}]
    /\ pxIndex \in [List -> Node]
    /\ uxNumberOfItems \in [List -> Nat]
    /\ xItemValue \in [Item -> 0 .. MaxValue]
    /\ walk \in [list : List, item : Item, at : Node] \cup {NoWalk}

Attached(n) == n \in List \/ pvContainer[n] # NoList

\* The two directions of every ring agree, so that removing a node by its own
\* pointers (uxListRemove) detaches it from both neighbours.
RingsInverse ==
    \A n \in Node : Attached(n) =>
        /\ pxPrevious[pxNext[n]] = n
        /\ pxNext[pxPrevious[n]] = n

\* Following pxNext or pxPrevious never leaves the list: a node and its
\* neighbours have the same pvContainer.
RingsClosed ==
    \A n \in Node : Attached(n) =>
        /\ Attached(pxNext[n]) /\ RingOf(pxNext[n]) = RingOf(n)
        /\ Attached(pxPrevious[n]) /\ RingOf(pxPrevious[n]) = RingOf(n)

\* pxIndex never points into another list or at an item that was removed, which
\* listGET_OWNER_OF_NEXT_ENTRY would hand to the scheduler as a task to run.
IndexInOwnRing ==
    \A l \in List : Attached(pxIndex[l]) /\ RingOf(pxIndex[l]) = l

\* uxNumberOfItems, which listLIST_IS_EMPTY trusts, counts the items whose
\* pvContainer is the list.
CountsAgree ==
    \A l \in List : uxNumberOfItems[l] = Cardinality({x \in Item : pvContainer[x] = l})

\* A walk in progress stands on a node of its list, whatever the interrupt
\* handlers do to the other lists meanwhile.
WalkInOwnRing ==
    walk # NoWalk => /\ Attached(walk.at) /\ RingOf(walk.at) = walk.list
                     /\ pvContainer[walk.item] = NoList

\* The walk of vListInsert ends: xListEnd stops it, except for an item of value
\* portMAX_DELAY, which is why that value does not walk.
WalkEnds == walk # NoWalk ~> walk = NoWalk
=============================================================================
