----------------------------- MODULE MCListRing -----------------------------
(***************************************************************************)
(* Two lists and three items, with three values of which the largest is    *)
(* portMAX_DELAY.  The refinement mapping reads each list off its ring.    *)
(***************************************************************************)
EXTENDS ListRing, Sequences

CONSTANTS l1, l2, x1, x2, x3

MCList == {l1, l2}
MCItem == {x1, x2, x3}

\* The node k steps after xListEnd of list l.
NodeAt(l) == LET at[k \in 0 .. Cardinality(Item)] ==
                     IF k = 0 THEN l ELSE pxNext[at[k - 1]]
             IN  at

ListRecord(l) ==
    LET n == uxNumberOfItems[l]
        at == NodeAt(l)
    IN  [items |-> [k \in 1 .. n |-> at[k]],
         index |-> CHOOSE k \in 0 .. n : at[k] = pxIndex[l]]

Abstract == INSTANCE ListSpec
            WITH lists <- [l \in List |-> ListRecord(l)], value <- xItemValue

\* list.c implements the lists the scheduler is written against: each operation
\* on the rings is one operation on the sequences, vListInsert at its last step.
ImplementsListSpec == Abstract!AbsSpec
=============================================================================
