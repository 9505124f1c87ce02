------------------------------ MODULE ListSpec ------------------------------
(***************************************************************************)
(* What list.c promises, with no pointers: every list is a sequence of     *)
(* items with a position in it, an item is in at most one list, and each   *)
(* operation is one step.  ListRing implements this specification.         *)
(***************************************************************************)
EXTENDS Lists

CONSTANTS List,       \* the lists (List_t)
          Item,       \* the list items (ListItem_t)
          MaxValue    \* portMAX_DELAY, the value of every xListEnd

VARIABLES lists,      \* [List -> list record]
          value       \* [Item -> xItemValue]

absVars == <<lists, value>>

In(l, x) == Contains(lists[l].items, x)
Linked(x) == \E l \in List : In(l, x)

AbsInit == /\ lists = [l \in List |-> EmptyList]
           /\ value = [x \in Item |-> 0]

AbsInsertEnd(l, x) ==
    /\ UNCHANGED value
    /\ ~Linked(x)
    /\ lists' = [lists EXCEPT ![l] = InsertEnd(@, x)]

\* The lists kept in order of value are not walked, so pxIndex is at xListEnd.
AbsInsert(l, x) ==
    /\ UNCHANGED value
    /\ ~Linked(x)
    /\ lists[l].index = 0
    /\ lists' = [lists EXCEPT ![l].items = InsertSorted(@, value, x)]

AbsRemove(x) ==
    /\ UNCHANGED value
    /\ Linked(x)
    /\ lists' = [l \in List |-> Unlink(lists[l], x)]

AbsNextEntry(l) ==
    /\ UNCHANGED value
    /\ lists[l].items # <<>>
    /\ lists' = [lists EXCEPT ![l] = Advance(@)]

AbsSetValue(x, v) ==
    /\ value' = [value EXCEPT ![x] = v]
    /\ UNCHANGED lists

AbsNext ==
    \/ \E l \in List, x \in Item : AbsInsertEnd(l, x) \/ AbsInsert(l, x)
    \/ \E x \in Item : AbsRemove(x)
    \/ \E l \in List : AbsNextEntry(l)
    \/ \E x \in Item, v \in 0 .. MaxValue : AbsSetValue(x, v)

AbsSpec == AbsInit /\ [][AbsNext]_absVars
=============================================================================
