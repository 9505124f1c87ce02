------------------------------- MODULE Lists -------------------------------
(***************************************************************************)
(* The lists of list.c as the rest of the kernel sees them.                *)
(*                                                                         *)
(* A List_t is a record [items, index]: items is the sequence of the list  *)
(* items in ring order, starting after xListEnd, and index is the position *)
(* pxIndex points at, 0 standing for xListEnd.  The list item and the TCB  *)
(* that owns it are the same value.  Module ListRing has the pointers, and *)
(* shows that they implement these operators.                              *)
(*                                                                         *)
(* Lists that nothing walks with pxIndex (all but the ready lists) are     *)
(* plain sequences: InsertSorted and Without are vListInsert and           *)
(* uxListRemove on those.                                                  *)
(*                                                                         *)
(* InsertUnsorted is a faulty form of the operator after it, to see that a *)
(* property notices.                                                       *)
(***************************************************************************)
EXTENDS SequencesExt, Integers

EmptyList == [items |-> <<>>, index |-> 0]

\* vListInsertEnd: the new item goes just before the one pxIndex points at, so
\* it is the last one a walk that starts at pxIndex meets; before xListEnd that
\* is the end of the sequence.
InsertEnd(list, x) ==
    IF list.index = 0
    THEN [list EXCEPT !.items = Append(@, x)]
    ELSE [items |-> InsertAt(list.items, list.index, x), index |-> list.index + 1]

\* The place vListInsert finds: before the first item with a greater value.
\* Items of an equal value stay ahead of the new one.
SortedPosition(seq, value, v) ==
    Min({i \in 1 .. Len(seq) : value[seq[i]] > v} \cup {Len(seq) + 1})

InsertUnsorted(seq, value, x) == Append(seq, x)
InsertSorted(seq, value, x) == InsertAt(seq, SortedPosition(seq, value, value[x]), x)

Position(seq, x) == CHOOSE i \in 1 .. Len(seq) : seq[i] = x

Without(seq, x) == IF Contains(seq, x) THEN RemoveAt(seq, Position(seq, x)) ELSE seq

\* uxListRemove: pxIndex moves back when it points at the item that leaves.  An
\* item that is not in the list leaves it as it is, so that "remove u from the
\* list its pvContainer names" is the same operator applied to every list.
Unlink(list, x) ==
    IF Contains(list.items, x)
    THEN [items |-> Without(list.items, x),
          index |-> IF Position(list.items, x) <= list.index
                    THEN list.index - 1 ELSE list.index]
    ELSE list

\* listGET_OWNER_OF_NEXT_ENTRY advances pxIndex and skips xListEnd.
NextIndex(list) == IF list.index < Len(list.items) THEN list.index + 1 ELSE 1

Advance(list) == [list EXCEPT !.index = NextIndex(list)]

\* pxIndex always points at xListEnd or at an item of its own list.
IsList(list, Item) ==
    /\ list \in [items : Seq(Item), index : Nat]
    /\ list.index <= Len(list.items)
=============================================================================
