--------------------------- MODULE ListRingProofs ---------------------------
(***************************************************************************)
(* The rings of list.c stay well formed for any number of lists and items. *)
(*                                                                         *)
(* The inductive invariant is the conjunction of the invariants that the   *)
(* run list_ring checks, each of which alone is not inductive, and one     *)
(* more: the nodes can be ranked so that pxNext climbs until it comes back *)
(* to xListEnd.  Without it two items could form a ring of their own, and  *)
(* uxListRemove would leave pxIndex on an item that is in no list.         *)
(***************************************************************************)
EXTENDS ListRing, FiniteSetTheorems, TLAPS

RanksNodes(rank) ==
    \A n \in Node : Attached(n) /\ pxNext[n] \notin List => rank[n] < rank[pxNext[n]]

RingsOrdered == \E rank \in [Node -> Int] : RanksNodes(rank)

RingInv ==
    /\ TypeOK
    /\ RingsOrdered
    /\ RingsInverse
    /\ RingsClosed
    /\ IndexInOwnRing
    /\ WalkInOwnRing
    /\ CountsAgree

Members(l) == {x \in Item : pvContainer[x] = l}

\* The four assignments of a link between two neighbours of the ring of l, for
\* both vListInsertEnd and vListInsert.
Linking(before, after, x, l) ==
    /\ pxNext' = [pxNext EXCEPT ![x] = after, ![before] = x]
    /\ pxPrevious' = [pxPrevious EXCEPT ![x] = before, ![after] = x]
    /\ pvContainer' = [pvContainer EXCEPT ![x] = l]
    /\ uxNumberOfItems' = [uxNumberOfItems EXCEPT ![l] = @ + 1]

\* Linking an unattached item between neighbours keeps the rings inverse and
\* closed and the counts right.
LEMMA LinkingKeepsRings ==
    ASSUME RingInv, NEW l \in List, NEW x \in Item, pvContainer[x] = NoList,
           NEW before \in Node, NEW after \in Node,
           Attached(before), RingOf(before) = l, after = pxNext[before],
           Linking(before, after, x, l)
    PROVE  /\ pxNext' \in [Node -> Node]
           /\ pxPrevious' \in [Node -> Node]
           /\ pvContainer' \in [Item -> List \cup {NoList}]
           /\ uxNumberOfItems' \in [List -> Nat]
           /\ RingsInverse' /\ RingsClosed' /\ RingsOrdered' /\ CountsAgree'
           /\ \A n \in Node : Attached(n) => /\ Attached(n)' 
                                             /\ RingOf(n)' = RingOf(n)
<1>1. /\ x \in Node /\ x \notin List /\ before # x /\ after # x
      /\ Attached(after) /\ RingOf(after) = l /\ pxPrevious[after] = before
  BY ListRingAssumption DEF RingInv, TypeOK, RingsInverse, RingsClosed, Attached, RingOf, Node
<1>2. /\ pxNext' \in [Node -> Node]
      /\ pxPrevious' \in [Node -> Node]
      /\ pvContainer' \in [Item -> List \cup {NoList}]
      /\ uxNumberOfItems' \in [List -> Nat]
  BY <1>1 DEF RingInv, TypeOK, Linking
<1>3. \A n \in Node : Attached(n) => /\ n # x 
                                     /\ Attached(n)'
                                     /\ RingOf(n)' = RingOf(n)
  BY <1>1, <1>2, ListRingAssumption DEF RingInv, TypeOK, Linking, Attached, RingOf, Node
<1>4. \A n \in Node : Attached(n)' => n = x \/ Attached(n)
  BY <1>1, <1>2 DEF RingInv, TypeOK, Linking, Attached, Node
<1>5. Attached(x)' /\ RingOf(x)' = l
  BY <1>1, <1>2, ListRingAssumption DEF RingInv, TypeOK, Linking, Attached, RingOf
<1>6. \A n \in Node : /\ pxNext'[n] = IF n = before THEN x ELSE IF n = x THEN after ELSE pxNext[n]
                      /\ pxPrevious'[n] = IF n = after THEN x ELSE IF n = x THEN before ELSE pxPrevious[n]
  BY <1>1 DEF RingInv, TypeOK, Linking
<1>7. \A n \in Node : Attached(n) => pxNext[n] # x /\ pxPrevious[n] # x
  BY <1>1 DEF RingInv, RingsClosed, TypeOK, Attached
<1>8. RingsInverse'
  <2> SUFFICES ASSUME NEW n \in Node, Attached(n)'
               PROVE  pxPrevious'[pxNext'[n]] = n /\ pxNext'[pxPrevious'[n]] = n
    BY DEF RingsInverse
  <2>1. CASE n = x
    BY <2>1, <1>1, <1>6
  <2>2. CASE n # x
    <3>1. /\ Attached(n) /\ pxNext[n] \in Node /\ pxPrevious[n] \in Node
          /\ pxPrevious[pxNext[n]] = n /\ pxNext[pxPrevious[n]] = n
          /\ pxNext[n] # x /\ pxPrevious[n] # x
      BY <2>2, <1>4, <1>7 DEF RingInv, TypeOK, RingsInverse
    <3>2. pxPrevious'[pxNext'[n]] = n
      BY <3>1, <2>2, <1>1, <1>6
    <3>3. pxNext'[pxPrevious'[n]] = n
      BY <3>1, <2>2, <1>1, <1>6
    <3> QED BY <3>2, <3>3
  <2> QED BY <2>1, <2>2
<1>9. RingsClosed'
  <2> SUFFICES ASSUME NEW n \in Node, Attached(n)'
               PROVE  /\ Attached(pxNext[n])' /\ (RingOf(pxNext[n]) = RingOf(n))'
                      /\ Attached(pxPrevious[n])' /\ (RingOf(pxPrevious[n]) = RingOf(n))'
    BY DEF RingsClosed
  <2>0. \A m \in Node : /\ Attached(m)' <=> (m = x \/ Attached(m))
                        /\ Attached(m) => RingOf(m)' = RingOf(m)
    BY <1>3, <1>4, <1>5
  <2>1. CASE n = x
    <3>1. pxNext'[n] = after /\ pxPrevious'[n] = before
      BY <2>1, <1>1, <1>6
    <3> QED BY <3>1, <2>1, <1>1, <1>3, <1>5 DEF Attached, RingOf
  <2>2. CASE n # x
    <3>1. /\ Attached(n) /\ pxNext[n] \in Node /\ pxPrevious[n] \in Node
          /\ Attached(pxNext[n]) /\ RingOf(pxNext[n]) = RingOf(n)
          /\ Attached(pxPrevious[n]) /\ RingOf(pxPrevious[n]) = RingOf(n)
      BY <2>2, <1>4 DEF RingInv, TypeOK, RingsClosed
    <3>2. Attached(pxNext[n])' /\ (RingOf(pxNext[n]) = RingOf(n))'
      <4>1. CASE n = before
        <5>1. pxNext'[n] = x BY <4>1, <2>2, <1>6
        <5> QED BY <5>1, <4>1, <1>3, <1>5, <3>1 DEF Attached, RingOf
      <4>2. CASE n # before
        <5>1. pxNext'[n] = pxNext[n] BY <4>2, <2>2, <1>6
        <5> QED BY <5>1, <1>3, <3>1 DEF Attached, RingOf
      <4> QED BY <4>1, <4>2
    <3>3. Attached(pxPrevious[n])' /\ (RingOf(pxPrevious[n]) = RingOf(n))'
      <4>1. CASE n = after
        <5>1. pxPrevious'[n] = x BY <4>1, <2>2, <1>6
        <5> QED BY <5>1, <4>1, <1>1, <1>3, <1>5, <3>1 DEF Attached, RingOf
      <4>2. CASE n # after
        <5>1. pxPrevious'[n] = pxPrevious[n] BY <4>2, <2>2, <1>6
        <5> QED BY <5>1, <1>3, <3>1 DEF Attached, RingOf
      <4> QED BY <4>1, <4>2
    <3> QED BY <3>2, <3>3
  <2> QED BY <2>1, <2>2
<1>10. CountsAgree'
  <2>1. \A m \in List : IsFiniteSet(Members(m))
    BY ListRingAssumption, FS_Subset DEF Members
  <2>2. Members(l)' = Members(l) \cup {x} /\ x \notin Members(l)
    BY ListRingAssumption, <1>2 DEF Members, Linking, RingInv, TypeOK
  <2>3. \A m \in List \ {l} : Members(m)' = Members(m)
    BY ListRingAssumption, <1>2 DEF Members, Linking, RingInv, TypeOK
  <2>4. Cardinality(Members(l)') = Cardinality(Members(l)) + 1
    BY <2>1, <2>2, FS_AddElement
  <2>5. \A m \in List : uxNumberOfItems'[m] = IF m = l THEN uxNumberOfItems[m] + 1
                                                       ELSE uxNumberOfItems[m]
    BY DEF Linking, RingInv, TypeOK
  <2>6. \A m \in List : uxNumberOfItems[m] = Cardinality(Members(m))
    BY DEF RingInv, CountsAgree, Members
  <2>7. \A m \in List : uxNumberOfItems'[m] = Cardinality(Members(m)')
    BY <2>3, <2>4, <2>5, <2>6
  <2> QED BY <2>7 DEF CountsAgree, Members
<1>11. RingsOrdered'
  <2>1. PICK rank \in [Node -> Int] : RanksNodes(rank)
    BY DEF RingInv, RingsOrdered
  <2> DEFINE rank2 == [n \in Node |-> IF n = x THEN 2 * rank[before] + 1 ELSE 2 * rank[n]]
  <2>2. rank2 \in [Node -> Int]
    BY <2>1
  <2>3. ASSUME NEW n \in Node, Attached(n)', pxNext'[n] \notin List
        PROVE  rank2[n] < rank2[pxNext'[n]]
    <3>1. CASE n = x
      <4>1. pxNext'[n] = after /\ rank[before] < rank[after]
        BY <3>1, <2>3, <2>1, <1>1, <1>6 DEF RanksNodes
      <4>2. rank[before] \in Int /\ rank[after] \in Int
        BY <2>1
      <4> QED BY <3>1, <4>1, <4>2, <1>1
    <3>2. CASE n = before
      <4>1. pxNext'[n] = x /\ rank[before] \in Int
        BY <3>2, <2>1, <1>1, <1>6
      <4> QED BY <3>2, <4>1, <1>1
    <3>3. CASE n # x /\ n # before
      <4>1. pxNext'[n] = pxNext[n] /\ pxNext[n] \in Node /\ Attached(n) /\ pxNext[n] # x
        BY <3>3, <2>3, <1>4, <1>6, <1>7 DEF RingInv, TypeOK
      <4>2. rank[n] < rank[pxNext[n]] /\ rank[n] \in Int /\ rank[pxNext[n]] \in Int
        BY <4>1, <2>1, <2>3 DEF RanksNodes
      <4> QED BY <4>1, <4>2, <3>3
    <3> QED BY <3>1, <3>2, <3>3
  <2> HIDE DEF rank2
  <2> QED BY <2>2, <2>3 DEF RingsOrdered, RanksNodes
<1> QED BY <1>2, <1>3, <1>8, <1>9, <1>10, <1>11

-----------------------------------------------------------------------------
\* vListInsertEnd and the last step of vListInsert are such links.
LEMMA InsertEndKeeps ==
    ASSUME RingInv, NEW l \in List, NEW x \in Item, InsertEnd(l, x)
    PROVE  RingInv'
<1>0. PICK before \in Node, after \in Node : after = pxIndex[l] /\ before = pxPrevious[after]
  BY DEF RingInv, TypeOK
<1>1. /\ Attached(after) /\ RingOf(after) = l
      /\ Attached(before) /\ RingOf(before) = l
      /\ pxNext[before] = after
      /\ pvContainer[x] = NoList
  BY <1>0 DEF RingInv, TypeOK, IndexInOwnRing, RingsClosed, RingsInverse, InsertEnd, Unused
<1>2. Linking(before, after, x, l)
  BY <1>0 DEF InsertEnd, Linking
<1>3. /\ pxNext' \in [Node -> Node] /\ pxPrevious' \in [Node -> Node]
      /\ pvContainer' \in [Item -> List \cup {NoList}]
      /\ uxNumberOfItems' \in [List -> Nat]
      /\ RingsInverse' /\ RingsClosed' /\ RingsOrdered' /\ CountsAgree'
      /\ \A n \in Node : Attached(n) => Attached(n)' /\ RingOf(n)' = RingOf(n)
  BY <1>1, <1>2, LinkingKeepsRings
<1>4. UNCHANGED <<pxIndex, xItemValue, walk>>
  BY DEF InsertEnd
<1>5. TypeOK'
  BY <1>3, <1>4 DEF RingInv, TypeOK
<1>6. IndexInOwnRing'
  BY <1>3, <1>4 DEF RingInv, TypeOK, IndexInOwnRing, Attached, RingOf
<1>7. WalkInOwnRing'
  <2> SUFFICES ASSUME walk # NoWalk
               PROVE  /\ Attached(walk.at)' /\ RingOf(walk.at)' = walk.list
                      /\ pvContainer'[walk.item] = NoList
    BY <1>4 DEF WalkInOwnRing, Attached, RingOf
  <2>1. walk \in [list : List, item : Item, at : Node] /\ walk.item # x
    BY DEF RingInv, TypeOK, InsertEnd, Unused
  <2>2. pvContainer'[walk.item] = pvContainer[walk.item]
    BY <2>1 DEF InsertEnd, RingInv, TypeOK
  <2> QED BY <2>1, <2>2, <1>3, <1>4 DEF RingInv, WalkInOwnRing
<1> QED BY <1>3, <1>5, <1>6, <1>7 DEF RingInv

\* vListInsert links the item where its walk ended.
LEMMA InsertLinkKeeps ==
    ASSUME RingInv, InsertLink
    PROVE  RingInv'
<1>0. PICK l \in List, x \in Item, before \in Node, after \in Node :
         /\ walk.list = l /\ walk.item = x
         /\ walk.at = before /\ after = pxNext[before]
  BY DEF RingInv, TypeOK, InsertLink
<1>1. /\ Attached(before) /\ RingOf(before) = l
      /\ pvContainer[x] = NoList
  BY <1>0 DEF RingInv, TypeOK, WalkInOwnRing, InsertLink
<1>2. Linking(before, after, x, l)
  <2>1. before # x /\ after # x
    BY <1>0, <1>1, ListRingAssumption DEF Attached, RingInv, RingsClosed
  <2> QED BY <2>1, <1>0, <1>1 DEF InsertLink, LinkAfter, Linking, RingInv, TypeOK
<1>4. UNCHANGED <<pxIndex, xItemValue>> /\ walk' = NoWalk
  BY DEF InsertLink
<1>3. /\ pxNext' \in [Node -> Node] /\ pxPrevious' \in [Node -> Node]
      /\ pvContainer' \in [Item -> List \cup {NoList}]
      /\ uxNumberOfItems' \in [List -> Nat]
      /\ RingsInverse' /\ RingsClosed' /\ RingsOrdered' /\ CountsAgree'
      /\ \A n \in Node : Attached(n) => Attached(n)' /\ RingOf(n)' = RingOf(n)
  BY <1>0, <1>1, <1>2, LinkingKeepsRings
<1>5. TypeOK'
  BY <1>3, <1>4 DEF RingInv, TypeOK
<1>6. IndexInOwnRing'
  BY <1>3, <1>4 DEF RingInv, TypeOK, IndexInOwnRing, Attached, RingOf
<1>7. WalkInOwnRing'
  BY <1>4 DEF WalkInOwnRing
<1> QED BY <1>3, <1>5, <1>6, <1>7 DEF RingInv

\* uxListRemove joins the two neighbours of the item, and moves pxIndex off it.
LEMMA RemoveKeeps ==
    ASSUME RingInv, NEW x \in Item, Remove(x)
    PROVE  RingInv'
<1>0. PICK l \in List, before \in Node, after \in Node :
         l = pvContainer[x] /\ before = pxPrevious[x] /\ after = pxNext[x]
  BY DEF Remove, RingInv, TypeOK, Node
<1>1. /\ x \in Node /\ x \notin List /\ Attached(x) /\ RingOf(x) = l
      /\ pxNext[x] = after /\ pxPrevious[x] = before
      /\ Attached(before) /\ RingOf(before) = l
      /\ Attached(after) /\ RingOf(after) = l
      /\ pxNext[before] = x /\ pxPrevious[after] = x
  BY <1>0, ListRingAssumption DEF Remove, RingInv, TypeOK, RingsClosed, RingsInverse, Attached, RingOf, Node
<1>2. before # x /\ after # x /\ (before = after => after \in List)
  <2>1. PICK rank \in [Node -> Int] : RanksNodes(rank)
    BY DEF RingInv, RingsOrdered
  <2>2. rank[before] < rank[x] /\ (after \notin List => rank[x] < rank[after])
    BY <2>1, <1>1 DEF RanksNodes
  <2>3. rank[before] \in Int /\ rank[x] \in Int /\ rank[after] \in Int
    BY <2>1, <1>1
  <2> QED BY <2>2, <2>3, <1>1
<1>3. /\ pxNext' = [pxNext EXCEPT ![before] = after]
      /\ pxPrevious' = [pxPrevious EXCEPT ![after] = before]
      /\ pvContainer' = [pvContainer EXCEPT ![x] = NoList]
      /\ uxNumberOfItems' = [uxNumberOfItems EXCEPT ![l] = @ - 1]
      /\ pxIndex' = IF pxIndex[l] = x THEN [pxIndex EXCEPT ![l] = before] ELSE pxIndex
      /\ UNCHANGED <<xItemValue, walk>> /\ (walk # NoWalk => walk.list # l)
  BY <1>0 DEF Remove, Free
<1>4. /\ pxNext' \in [Node -> Node]
      /\ pxPrevious' \in [Node -> Node]
      /\ pvContainer' \in [Item -> List \cup {NoList}]
      /\ \A n \in Node : /\ pxNext'[n] = IF n = before THEN after ELSE pxNext[n]
                         /\ pxPrevious'[n] = IF n = after THEN before ELSE pxPrevious[n]
  BY <1>1, <1>3 DEF RingInv, TypeOK
<1>5. \A n \in Node : Attached(n)' <=> (n # x /\ Attached(n))
  BY <1>1, <1>3, ListRingAssumption DEF RingInv, TypeOK, Attached, Node
<1>6. \A n \in Node : n # x => RingOf(n)' = RingOf(n)
  BY <1>1, <1>3 DEF RingInv, TypeOK, RingOf, Node
<1>7. RingsInverse'
  <2> SUFFICES ASSUME NEW n \in Node, n # x, Attached(n)
               PROVE  pxPrevious'[pxNext'[n]] = n /\ pxNext'[pxPrevious'[n]] = n
    BY <1>5 DEF RingsInverse
  <2>1. /\ pxNext[n] \in Node /\ pxPrevious[n] \in Node
        /\ pxPrevious[pxNext[n]] = n /\ pxNext[pxPrevious[n]] = n
    BY DEF RingInv, TypeOK, RingsInverse
  <2>2. pxPrevious'[pxNext'[n]] = n
    BY <2>1, <1>1, <1>2, <1>4
  <2>3. pxNext'[pxPrevious'[n]] = n
    BY <2>1, <1>1, <1>2, <1>4
  <2> QED BY <2>2, <2>3
<1>8. RingsClosed'
  <2> SUFFICES ASSUME NEW n \in Node, n # x, Attached(n)
               PROVE  /\ Attached(pxNext[n])' /\ (RingOf(pxNext[n]) = RingOf(n))'
                      /\ Attached(pxPrevious[n])' /\ (RingOf(pxPrevious[n]) = RingOf(n))'
    BY <1>5 DEF RingsClosed
  <2>1. /\ pxNext[n] \in Node /\ pxPrevious[n] \in Node
        /\ Attached(pxNext[n]) /\ RingOf(pxNext[n]) = RingOf(n)
        /\ Attached(pxPrevious[n]) /\ RingOf(pxPrevious[n]) = RingOf(n)
        /\ pxPrevious[pxNext[n]] = n /\ pxNext[pxPrevious[n]] = n
    BY DEF RingInv, TypeOK, RingsClosed, RingsInverse
  <2>2. Attached(pxNext[n])' /\ (RingOf(pxNext[n]) = RingOf(n))'
    <3>1. pxNext'[n] \in Node /\ pxNext'[n] # x
          /\ Attached(pxNext'[n]) /\ RingOf(pxNext'[n]) = RingOf(n)
      BY <2>1, <1>1, <1>2, <1>4
    <3> QED BY <3>1, <1>5, <1>6 DEF Attached, RingOf
  <2>3. Attached(pxPrevious[n])' /\ (RingOf(pxPrevious[n]) = RingOf(n))'
    <3>1. pxPrevious'[n] \in Node /\ pxPrevious'[n] # x
          /\ Attached(pxPrevious'[n]) /\ RingOf(pxPrevious'[n]) = RingOf(n)
      BY <2>1, <1>1, <1>2, <1>4
    <3> QED BY <3>1, <1>5, <1>6 DEF Attached, RingOf
  <2> QED BY <2>2, <2>3
<1>9. RingsOrdered'
  <2>1. PICK rank \in [Node -> Int] : RanksNodes(rank)
    BY DEF RingInv, RingsOrdered
  <2>2. ASSUME NEW n \in Node, Attached(n)', pxNext'[n] \notin List
        PROVE  rank[n] < rank[pxNext'[n]]
    <3>1. CASE n = before
      <4>1. rank[before] < rank[x] /\ rank[x] < rank[after]
        BY <3>1, <2>1, <2>2, <1>1, <1>4 DEF RanksNodes
      <4>2. rank[before] \in Int /\ rank[x] \in Int /\ rank[after] \in Int
        BY <2>1, <1>1
      <4> QED BY <3>1, <4>1, <4>2, <1>4
    <3>2. CASE n # before
      BY <3>2, <2>1, <2>2, <1>4, <1>5 DEF RanksNodes
    <3> QED BY <3>1, <3>2
  <2> QED BY <2>1, <2>2 DEF RingsOrdered, RanksNodes
<1>10. CountsAgree' /\ uxNumberOfItems' \in [List -> Nat]
  <2>1. \A m \in List : IsFiniteSet(Members(m)) /\ uxNumberOfItems[m] = Cardinality(Members(m))
    BY ListRingAssumption, FS_Subset DEF Members, RingInv, CountsAgree
  <2>2. x \in Members(l) /\ Members(l)' = Members(l) \ {x}
    BY <1>1, <1>3, ListRingAssumption DEF Members, RingInv, TypeOK, RingOf
  <2>3. \A m \in List \ {l} : Members(m)' = Members(m)
    BY <1>1, <1>3, ListRingAssumption DEF Members, RingInv, TypeOK, RingOf
  <2>4. Cardinality(Members(l)') = Cardinality(Members(l)) - 1 /\ Cardinality(Members(l)') \in Nat
    BY <2>1, <2>2, <1>1, FS_RemoveElement, FS_CardinalityType
  <2>5. \A m \in List : uxNumberOfItems'[m] = IF m = l THEN uxNumberOfItems[m] - 1
                                                       ELSE uxNumberOfItems[m]
    BY <1>3 DEF RingInv, TypeOK
  <2>6. \A m \in List : uxNumberOfItems'[m] = Cardinality(Members(m)')
    BY <2>1, <2>3, <2>4, <2>5
  <2>7. uxNumberOfItems' \in [List -> Nat]
    BY <1>1, <1>3, <2>4, <2>6 DEF RingInv, TypeOK
  <2> QED BY <2>6, <2>7 DEF CountsAgree, Members
<1>11. TypeOK'
  BY <1>1, <1>3, <1>4, <1>10 DEF RingInv, TypeOK
<1>12. IndexInOwnRing'
  <2> SUFFICES ASSUME NEW m \in List
               PROVE  Attached(pxIndex[m])' /\ RingOf(pxIndex[m])' = m
    BY DEF IndexInOwnRing
  <2>1. pxIndex[m] \in Node /\ Attached(pxIndex[m]) /\ RingOf(pxIndex[m]) = m
    BY DEF RingInv, TypeOK, IndexInOwnRing
  <2>2. pxIndex'[m] \in Node /\ pxIndex'[m] # x
        /\ Attached(pxIndex'[m]) /\ RingOf(pxIndex'[m]) = m
    BY <2>1, <1>1, <1>2, <1>3 DEF RingInv, TypeOK
  <2> QED BY <2>2, <1>5, <1>6 DEF Attached, RingOf
<1>13. WalkInOwnRing'
  <2> SUFFICES ASSUME walk # NoWalk
               PROVE  /\ Attached(walk.at)' /\ RingOf(walk.at)' = walk.list
                      /\ pvContainer'[walk.item] = NoList
    BY <1>3 DEF WalkInOwnRing, Attached, RingOf
  <2>1. /\ walk.at \in Node /\ walk.item \in Item /\ Attached(walk.at)
        /\ RingOf(walk.at) = walk.list /\ pvContainer[walk.item] = NoList /\ walk.list # l
    BY <1>3 DEF RingInv, TypeOK, WalkInOwnRing
  <2>2. walk.at # x
    BY <2>1, <1>1
  <2>3. Attached(walk.at)' /\ RingOf(walk.at)' = walk.list
    BY <2>1, <2>2, <1>3, <1>5, <1>6 DEF Attached, RingOf
  <2> QED BY <2>1, <2>3, <1>3 DEF RingInv, TypeOK
<1> QED BY <1>7, <1>8, <1>9, <1>10, <1>11, <1>12, <1>13 DEF RingInv
-----------------------------------------------------------------------------
\* The walk of vListInsert stays in the ring of its list.
LEMMA WalkKeeps ==
    ASSUME RingInv,
           InsertStep \/ \E l \in List, x \in Item : InsertBegin(l, x)
    PROVE  RingInv'
<1>1. UNCHANGED <<pxNext, pxPrevious, pvContainer, pxIndex, uxNumberOfItems, xItemValue>>
  BY DEF InsertStep, InsertBegin
<1>2. RingsInverse' /\ RingsClosed' /\ RingsOrdered' /\ CountsAgree' /\ IndexInOwnRing'
  BY <1>1 DEF RingInv, RingsInverse, RingsClosed, RingsOrdered, RanksNodes, CountsAgree,
              IndexInOwnRing, Attached, RingOf
<1>3. /\ walk' \in [list : List, item : Item, at : Node]
      /\ Attached(walk'.at) /\ RingOf(walk'.at) = walk'.list
      /\ pvContainer[walk'.item] = NoList
  <2>1. CASE InsertStep
    BY <2>1 DEF InsertStep, RingInv, TypeOK, WalkInOwnRing, RingsClosed
  <2>2. ASSUME NEW l \in List, NEW x \in Item, InsertBegin(l, x)
        PROVE  /\ walk' \in [list : List, item : Item, at : Node]
               /\ Attached(walk'.at) /\ RingOf(walk'.at) = walk'.list
               /\ pvContainer[walk'.item] = NoList
    <3>1. l \in Node /\ Attached(l) /\ RingOf(l) = l
      BY DEF Node, Attached, RingOf
    <3>2. /\ pxPrevious[l] \in Node /\ Attached(pxPrevious[l])
          /\ RingOf(pxPrevious[l]) = l
      BY <3>1 DEF RingInv, TypeOK, RingsClosed
    <3> QED BY <2>2, <3>1, <3>2 DEF InsertBegin
  <2> QED BY <2>1, <2>2
<1>4. WalkInOwnRing'
  BY <1>1, <1>3 DEF WalkInOwnRing, Attached, RingOf
<1>5. TypeOK'
  BY <1>1, <1>3 DEF RingInv, TypeOK
<1> QED BY <1>2, <1>4, <1>5 DEF RingInv

\* listGET_OWNER_OF_NEXT_ENTRY leaves pxIndex in the ring.
LEMMA NextEntryKeeps ==
    ASSUME RingInv, NEW l \in List, NextEntry(l)
    PROVE  RingInv'
<1>1. UNCHANGED <<pxNext, pxPrevious, pvContainer, uxNumberOfItems, xItemValue, walk>>
  BY DEF NextEntry
<1>2. /\ RingsInverse' /\ RingsClosed' /\ RingsOrdered' /\ CountsAgree' /\ WalkInOwnRing'
  BY <1>1 DEF RingInv, RingsInverse, RingsClosed, RingsOrdered, RanksNodes, CountsAgree,
              WalkInOwnRing, Attached, RingOf
<1>3. PICK step \in Node : /\ step = pxNext[pxIndex[l]] /\ Attached(step) /\ RingOf(step) = l
                           /\ pxNext[step] \in Node /\ Attached(pxNext[step])
                           /\ RingOf(pxNext[step]) = l
  BY DEF RingInv, TypeOK, IndexInOwnRing, RingsClosed
<1>4. pxIndex' = [pxIndex EXCEPT ![l] = IF step = l THEN pxNext[step] ELSE step]
  BY <1>3 DEF NextEntry
<1>5. TypeOK'
  BY <1>1, <1>3, <1>4 DEF RingInv, TypeOK
<1>6. IndexInOwnRing'
  BY <1>1, <1>3, <1>4 DEF RingInv, TypeOK, IndexInOwnRing, Attached, RingOf
<1> QED BY <1>2, <1>5, <1>6 DEF RingInv

\* Neither a new value nor a step that changes nothing touches the rings.
LEMMA OthersKeep ==
    ASSUME RingInv,
           UNCHANGED vars \/ \E x \in Item, v \in 0 .. MaxValue : SetItemValue(x, v)
    PROVE  RingInv'
<1>1. UNCHANGED <<pxNext, pxPrevious, pvContainer, pxIndex, uxNumberOfItems, walk>>
  BY DEF vars, SetItemValue
<1>2. xItemValue' \in [Item -> 0 .. MaxValue]
  BY DEF vars, SetItemValue, RingInv, TypeOK
<1> QED BY <1>1, <1>2 DEF RingInv, TypeOK, RingsInverse, RingsClosed, RingsOrdered,
              RanksNodes, CountsAgree, IndexInOwnRing, WalkInOwnRing, Attached, RingOf

\* vListInitialise and vListInitialiseItem leave rings.
LEMMA InitRings == Init => RingInv
<1> SUFFICES ASSUME Init PROVE RingInv
  OBVIOUS
<1>1. TypeOK
  BY ListRingAssumption DEF Init, TypeOK, Node
<1>2. \A n \in Node : Attached(n) => n \in List
  BY DEF Init, Attached, Node
<1>3. RingsInverse /\ RingsClosed /\ IndexInOwnRing
  BY <1>2 DEF Init, RingsInverse, RingsClosed, IndexInOwnRing, Attached, RingOf, Node
<1>4. RingsOrdered
  <2>1. [n \in Node |-> 0] \in [Node -> Int] /\ RanksNodes([n \in Node |-> 0])
    BY <1>2 DEF RanksNodes, Init
  <2> QED BY <2>1 DEF RingsOrdered
<1>5. CountsAgree
  <2>1. \A l \in List : {x \in Item : pvContainer[x] = l} = {}
    BY ListRingAssumption DEF Init
  <2> QED BY <2>1, FS_EmptySet DEF CountsAgree, Init
<1>6. WalkInOwnRing
  BY DEF Init, WalkInOwnRing
<1> QED BY <1>1, <1>3, <1>4, <1>5, <1>6 DEF RingInv

\* Every operation keeps the rings.
LEMMA NextKeepsRings == RingInv /\ [Next]_vars => RingInv'
<1> SUFFICES ASSUME RingInv, [Next]_vars PROVE RingInv'
  OBVIOUS
<1>1. ASSUME NEW l \in List, NEW x \in Item, InsertEnd(l, x) PROVE RingInv'
  BY <1>1, InsertEndKeeps
<1>2. ASSUME NEW l \in List, NEW x \in Item, InsertBegin(l, x) PROVE RingInv'
  BY <1>2, WalkKeeps
<1>3. CASE InsertStep
  BY <1>3, WalkKeeps
<1>4. CASE InsertLink
  BY <1>4, InsertLinkKeeps
<1>5. ASSUME NEW x \in Item, Remove(x) PROVE RingInv'
  BY <1>5, RemoveKeeps
<1>6. ASSUME NEW l \in List, NextEntry(l) PROVE RingInv'
  BY <1>6, NextEntryKeeps
<1>7. ASSUME NEW x \in Item, NEW v \in 0 .. MaxValue, SetItemValue(x, v) PROVE RingInv'
  BY <1>7, OthersKeep
<1>8. CASE UNCHANGED vars
  BY <1>8, OthersKeep
<1> QED BY <1>1, <1>2, <1>3, <1>4, <1>5, <1>6, <1>7, <1>8 DEF Next

\* The inductive invariant holds of every behaviour of the list operations.
THEOREM RingInvariant == Spec => []RingInv
<1>1. RingInv /\ [Next]_vars => RingInv'
  BY NextKeepsRings
<1> QED BY <1>1, InitRings, PTL DEF Spec

\* The pointers, the containers and the walk keep their types.
THEOREM TypesKept == Spec => []TypeOK
<1>1. RingInv => TypeOK
  BY DEF RingInv
<1> QED BY <1>1, RingInvariant, PTL

\* uxListRemove can trust the two pointers of the item it removes, whatever the number
\* of lists and items.
THEOREM RingsAreInverse == Spec => []RingsInverse
<1>1. RingInv => RingsInverse
  BY DEF RingInv
<1> QED BY <1>1, RingInvariant, PTL

\* Following the pointers of a list never leaves it, whatever the interleaving of a
\* vListInsert with operations on other lists.
THEOREM RingsAreClosed == Spec => []RingsClosed
<1>1. RingInv => RingsClosed
  BY DEF RingInv
<1> QED BY <1>1, RingInvariant, PTL

\* The walk of vListInsert never stands on a node that has left its list.
THEOREM WalkStaysInRing == Spec => []WalkInOwnRing
<1>1. RingInv => WalkInOwnRing
  BY DEF RingInv
<1> QED BY <1>1, RingInvariant, PTL

\* pxIndex, from which the scheduler takes the next task to run, always stands in
\* the ring of its own list.
THEOREM IndexNeverDangles == Spec => []IndexInOwnRing
<1>1. RingInv => IndexInOwnRing
  BY DEF RingInv
<1> QED BY <1>1, RingInvariant, PTL

\* uxNumberOfItems is the number of items of the list.
THEOREM CountsAreExact == Spec => []CountsAgree
<1>1. RingInv => CountsAgree
  BY DEF RingInv
<1> QED BY <1>1, RingInvariant, PTL
=============================================================================
