---------------------------- MODULE ListTheorems ----------------------------
(***************************************************************************)
(* What the operators of Lists return, for every list: the lemmas the      *)
(* proofs about the scheduler rest on.                                     *)
(***************************************************************************)
EXTENDS Lists, SequenceTheorems, WellFoundedInduction, TLAPS

\* The order of the natural numbers as a relation, for the library's WFMin.
Less == {ss \in Nat \X Nat : ss[1] < ss[2]}

\* Counting down in the natural numbers ends.
LEMMA LessWellFounded == IsWellFoundedOn(Less, Nat)
BY NatLessThanWellFounded DEF Less, OpToRel

\* A set of natural numbers that is not empty has a least element.
LEMMA MinExists ==
    ASSUME NEW S \in SUBSET Nat, S # {}
    PROVE  Min(S) \in S /\ \A y \in S : Min(S) <= y
<1>1. PICK z \in S : \A y \in S : <<y, z>> \notin Less
  BY WFMin, LessWellFounded
<1>2. \A y \in S : z <= y
  <2> TAKE y \in S
  <2>1. y \in Nat /\ z \in Nat
    OBVIOUS
  <2>2. ~(y < z)
    BY <1>1, <2>1 DEF Less
  <2> QED BY <2>1, <2>2
<1> QED BY <1>2 DEF Min

\* A bounded set of natural numbers that is not empty has a greatest element.
LEMMA MaxExists ==
    ASSUME NEW n \in Nat, NEW S \in SUBSET (0 .. n), S # {}
    PROVE  Max(S) \in S /\ \A y \in S : Max(S) >= y
<1> DEFINE T == {n - y : y \in S}
<1>1. T \in SUBSET Nat /\ T # {}
  <2>1. \A y \in S : n - y \in Nat
    OBVIOUS
  <2> QED BY <2>1, Zenon
<1>2. PICK z \in T : \A y \in T : z <= y
  <2> HIDE DEF T
  <2> QED BY <1>1, MinExists
<1>3. PICK x \in S : z = n - x
  BY <1>2
<1>4. \A y \in S : x >= y
  <2> TAKE y \in S
  <2>1. n - y \in T
    OBVIOUS
  <2>2. n - x <= n - y
    BY <2>1, <1>2, <1>3
  <2>3. x \in 0 .. n /\ y \in 0 .. n
    OBVIOUS
  <2> HIDE DEF T
  <2> QED BY <2>2, <2>3
<1> QED BY <1>4 DEF Max

\* The lesser of two numbers is one of them.
LEMMA MinOfTwo ==
    ASSUME NEW a \in Nat, NEW b \in Nat
    PROVE  Min({a, b}) \in {a, b} /\ Min({a, b}) <= a /\ Min({a, b}) <= b
<1>1. {a, b} \in SUBSET Nat /\ {a, b} # {}
  OBVIOUS
<1> QED BY <1>1, MinExists

\* Putting an item at a place keeps the others, in a sequence one longer.
LEMMA InsertAtProperties ==
    ASSUME NEW S, NEW seq \in Seq(S), NEW i \in 1 .. Len(seq) + 1, NEW x \in S
    PROVE  /\ InsertAt(seq, i, x) \in Seq(S)
           /\ Len(InsertAt(seq, i, x)) = Len(seq) + 1
           /\ InsertAt(seq, i, x)[i] = x
           /\ \A k \in 1 .. Len(seq) :
                InsertAt(seq, i, x)[IF k < i THEN k ELSE k + 1] = seq[k]
<1> DEFINE s1 == SubSeq(seq, 1, i - 1)
           s2 == SubSeq(seq, i, Len(seq))
           s == s1 \o <<x>>
<1>0. Len(seq) \in Nat /\ \A k \in 1 .. Len(seq) : seq[k] \in S
  BY LenProperties, ElementOfSeq
<1>1. /\ s1 \in Seq(S) /\ Len(s1) = i - 1
      /\ \A k \in 1 .. i - 1 : s1[k] = seq[k]
  BY <1>0, SubSeqProperties
<1>2. /\ s2 \in Seq(S) /\ Len(s2) = Len(seq) - i + 1
      /\ \A k \in 1 .. Len(seq) - i + 1 : s2[k] = seq[k + i - 1]
  BY <1>0, SubSeqProperties
<1>3. <<x>> \in Seq(S) /\ Len(<<x>>) = 1 /\ <<x>>[1] = x
  OBVIOUS
<1> HIDE DEF s1, s2
<1>4. /\ s \in Seq(S) /\ Len(s) = i
      /\ \A k \in 1 .. i : s[k] = IF k <= i - 1 THEN s1[k] ELSE x
  BY <1>0, <1>1, <1>3, ConcatProperties
<1> HIDE DEF s
<1>5. /\ s \o s2 \in Seq(S) /\ Len(s \o s2) = Len(seq) + 1
      /\ \A k \in 1 .. Len(seq) + 1 : (s \o s2)[k] = IF k <= i THEN s[k] ELSE s2[k - i]
  BY <1>0, <1>2, <1>4, ConcatProperties
<1>6. InsertAt(seq, i, x) = s \o s2
  BY DEF InsertAt, s, s1, s2
<1>7. (s \o s2)[i] = x
  BY <1>0, <1>4, <1>5
<1> HIDE DEF s
<1>8. ASSUME NEW k \in 1 .. Len(seq)
      PROVE  (s \o s2)[IF k < i THEN k ELSE k + 1] = seq[k]
  <2>1. CASE k < i
    <3>1. (s \o s2)[k] = s[k]
      BY <1>0, <1>5, <2>1
    <3>2. s[k] = s1[k] /\ s1[k] = seq[k]
      BY <1>0, <1>1, <1>4, <2>1
    <3> QED BY <2>1, <3>1, <3>2
  <2>2. CASE k >= i
    <3>1. (s \o s2)[k + 1] = s2[k + 1 - i]
      <4>1. k + 1 \in 1 .. Len(seq) + 1 /\ ~(k + 1 <= i)
        BY <1>0, <2>2
      <4> QED BY <4>1, <1>5
    <3>2. s2[k + 1 - i] = seq[(k + 1 - i) + i - 1]
      BY <1>0, <1>2, <2>2
    <3>3. (k + 1 - i) + i - 1 = k /\ ~(k < i)
      BY <2>2, <1>0
    <3> QED BY <3>1, <3>2, <3>3
  <2>3. k < i \/ k >= i
    BY <1>0
  <2> QED BY <2>1, <2>2, <2>3
<1> QED BY <1>5, <1>6, <1>7, <1>8

\* Removing the item at a place keeps the others.
LEMMA RemoveAtProperties ==
    ASSUME NEW S, NEW seq \in Seq(S), NEW i \in 1 .. Len(seq)
    PROVE  /\ RemoveAt(seq, i) \in Seq(S)
           /\ Len(RemoveAt(seq, i)) = Len(seq) - 1
           /\ \A k \in 1 .. Len(seq) - 1 :
                RemoveAt(seq, i)[k] = seq[IF k < i THEN k ELSE k + 1]
<1> DEFINE s1 == SubSeq(seq, 1, i - 1)
           s2 == SubSeq(seq, i + 1, Len(seq))
<1>0. Len(seq) \in Nat /\ \A k \in 1 .. Len(seq) : seq[k] \in S
  BY LenProperties, ElementOfSeq
<1>1. /\ s1 \in Seq(S) /\ Len(s1) = i - 1
      /\ \A k \in 1 .. i - 1 : s1[k] = seq[k]
  BY <1>0, SubSeqProperties
<1>2. /\ s2 \in Seq(S) /\ Len(s2) = Len(seq) - i
      /\ \A k \in 1 .. Len(seq) - i : s2[k] = seq[k + i]
  BY <1>0, SubSeqProperties
<1> HIDE DEF s1, s2
<1>3. /\ s1 \o s2 \in Seq(S) /\ Len(s1 \o s2) = Len(s1) + Len(s2)
      /\ \A k \in 1 .. Len(s1) + Len(s2) :
           (s1 \o s2)[k] = IF k <= Len(s1) THEN s1[k] ELSE s2[k - Len(s1)]
  BY <1>1, <1>2, ConcatProperties
<1>4. RemoveAt(seq, i) = s1 \o s2
  BY DEF RemoveAt, s1, s2
<1>5. Len(s1) + Len(s2) = Len(seq) - 1
  BY <1>0, <1>1, <1>2
<1>6. ASSUME NEW k \in 1 .. Len(seq) - 1
      PROVE  (s1 \o s2)[k] = seq[IF k < i THEN k ELSE k + 1]
  <2>1. CASE k < i
    <3>1. (s1 \o s2)[k] = s1[k] /\ s1[k] = seq[k]
      BY <1>0, <1>1, <1>3, <1>5, <2>1
    <3> QED BY <2>1, <3>1
  <2>2. CASE k >= i
    <3>1. (s1 \o s2)[k] = s2[k - (i - 1)]
      BY <1>0, <1>1, <1>3, <1>5, <2>2
    <3>2. s2[k - (i - 1)] = seq[(k - (i - 1)) + i]
      BY <1>0, <1>2, <2>2
    <3>3. (k - (i - 1)) + i = k + 1 /\ ~(k < i)
      BY <1>0, <2>2
    <3> QED BY <3>1, <3>2, <3>3
  <2>3. k < i \/ k >= i
    BY <1>0
  <2> QED BY <2>1, <2>2, <2>3
<1> QED BY <1>3, <1>4, <1>5, <1>6

\* An item that is in a sequence has a position there.
LEMMA PositionOf ==
    ASSUME NEW S, NEW seq \in Seq(S), NEW x, Contains(seq, x)
    PROVE  Position(seq, x) \in 1 .. Len(seq) /\ seq[Position(seq, x)] = x
BY DEF Contains, Position

\* Taking x out leaves every other item in.
LEMMA WithoutProperties ==
    ASSUME NEW S, NEW seq \in Seq(S), NEW x
    PROVE  /\ Without(seq, x) \in Seq(S)
           /\ Len(Without(seq, x)) = IF Contains(seq, x) THEN Len(seq) - 1 ELSE Len(seq)
           /\ \A y : y # x /\ Contains(seq, y) => Contains(Without(seq, x), y)
           /\ \A y : Contains(Without(seq, x), y) => Contains(seq, y)
<1>1. CASE ~Contains(seq, x)
  BY <1>1 DEF Without
<1>2. CASE Contains(seq, x)
  <2>1. PICK i \in 1 .. Len(seq) : i = Position(seq, x) /\ seq[i] = x
    BY <1>2, PositionOf
  <2>2. Without(seq, x) = RemoveAt(seq, i)
    BY <1>2, <2>1 DEF Without
  <2>3. /\ RemoveAt(seq, i) \in Seq(S)
        /\ Len(RemoveAt(seq, i)) = Len(seq) - 1
        /\ \A k \in 1 .. Len(seq) - 1 :
             RemoveAt(seq, i)[k] = seq[IF k < i THEN k ELSE k + 1]
    BY RemoveAtProperties
  <2>4. Len(seq) \in Nat
    BY LenProperties
  <2>5. ASSUME NEW y, y # x, Contains(seq, y)
        PROVE  Contains(RemoveAt(seq, i), y)
    <3>1. PICK k \in 1 .. Len(seq) : seq[k] = y
      BY <2>5 DEF Contains
    <3>2. CASE k < i
      <4>1. k \in 1 .. Len(seq) - 1 /\ RemoveAt(seq, i)[k] = y
        BY <3>1, <3>2, <2>3, <2>4
      <4> QED BY <4>1, <2>3 DEF Contains
    <3>3. CASE k > i
      <4>1. k - 1 \in 1 .. Len(seq) - 1 /\ RemoveAt(seq, i)[k - 1] = y
        BY <3>1, <3>3, <2>3, <2>4
      <4> QED BY <4>1, <2>3 DEF Contains
    <3> QED BY <3>1, <3>2, <3>3, <2>1, <2>5, <2>4
  <2>6. ASSUME NEW y, Contains(RemoveAt(seq, i), y)
        PROVE  Contains(seq, y)
    <3>1. PICK k \in 1 .. Len(seq) - 1 : RemoveAt(seq, i)[k] = y
      BY <2>6, <2>3 DEF Contains
    <3>2. PICK j \in 1 .. Len(seq) : seq[j] = y
      <4>1. (IF k < i THEN k ELSE k + 1) \in 1 .. Len(seq)
        BY <2>4
      <4> QED BY <3>1, <2>3, <4>1
    <3> QED BY <3>2 DEF Contains
  <2> QED BY <1>2, <2>2, <2>3, <2>5, <2>6
<1> QED BY <1>1, <1>2

\* The place of vListInsert is in the sequence or right after it.
LEMMA SortedPositionType ==
    ASSUME NEW S, NEW seq \in Seq(S), NEW value, NEW v
    PROVE  SortedPosition(seq, value, v) \in 1 .. Len(seq) + 1
<1> DEFINE P == {i \in 1 .. Len(seq) : value[seq[i]] > v} \cup {Len(seq) + 1}
<1>1. Len(seq) \in Nat
  BY LenProperties
<1>2. P \in SUBSET Nat /\ P # {} /\ P \subseteq 1 .. Len(seq) + 1
  BY <1>1
<1>3. Min(P) \in P
  <2> HIDE DEF P
  <2> QED BY <1>2, MinExists
<1> QED BY <1>2, <1>3 DEF SortedPosition

\* vListInsert adds x and keeps the others.
LEMMA InsertSortedProperties ==
    ASSUME NEW S, NEW seq \in Seq(S), NEW value, NEW x \in S
    PROVE  /\ InsertSorted(seq, value, x) \in Seq(S)
           /\ Len(InsertSorted(seq, value, x)) = Len(seq) + 1
BY SortedPositionType, InsertAtProperties DEF InsertSorted

\* vListInsertEnd returns a list that contains x and all that was there.
LEMMA InsertEndProperties ==
    ASSUME NEW S, NEW list, IsList(list, S), NEW x \in S
    PROVE  /\ IsList(InsertEnd(list, x), S)
           /\ Contains(InsertEnd(list, x).items, x)
           /\ \A y : Contains(list.items, y) => Contains(InsertEnd(list, x).items, y)
<1> DEFINE seq == list.items
<1>1. seq \in Seq(S) /\ list.index \in 0 .. Len(seq) /\ Len(seq) \in Nat
      /\ list \in [items : Seq(S), index : Nat]
  BY LenProperties DEF IsList
<1>2. CASE list.index = 0
  <2>1. InsertEnd(list, x) = [list EXCEPT !.items = Append(seq, x)]
    BY <1>2 DEF InsertEnd
  <2>2. /\ Append(seq, x) \in Seq(S) /\ Len(Append(seq, x)) = Len(seq) + 1
        /\ \A i \in 1 .. Len(seq) : Append(seq, x)[i] = seq[i]
        /\ Append(seq, x)[Len(seq) + 1] = x
    BY <1>1, AppendProperties
  <2>3. InsertEnd(list, x).items = Append(seq, x) /\ InsertEnd(list, x).index = 0
        /\ InsertEnd(list, x) \in [items : Seq(S), index : Nat]
    BY <2>1, <2>2, <1>1, <1>2
  <2>4. Contains(Append(seq, x), x)
        /\ \A y : Contains(seq, y) => Contains(Append(seq, x), y)
    BY <2>2, <1>1 DEF Contains
  <2> QED BY <2>2, <2>3, <2>4, <1>1 DEF IsList
<1>3. CASE list.index # 0
  <2> DEFINE i == list.index
             new == InsertAt(seq, i, x)
  <2>1. InsertEnd(list, x) = [items |-> new, index |-> i + 1]
    BY <1>3 DEF InsertEnd
  <2>2. i \in 1 .. Len(seq) + 1 /\ i \in 1 .. Len(seq)
    BY <1>1, <1>3
  <2>3. /\ new \in Seq(S) /\ Len(new) = Len(seq) + 1 /\ new[i] = x
        /\ \A k \in 1 .. Len(seq) : new[IF k < i THEN k ELSE k + 1] = seq[k]
    BY <2>2, <1>1, InsertAtProperties
  <2> HIDE DEF new
  <2>4. Contains(new, x)
    BY <2>2, <2>3 DEF Contains
  <2>5. ASSUME NEW y, Contains(seq, y) PROVE Contains(new, y)
    <3>1. PICK k \in 1 .. Len(seq) : seq[k] = y
      BY <2>5 DEF Contains
    <3>2. (IF k < i THEN k ELSE k + 1) \in 1 .. Len(new)
      BY <1>1, <2>3
    <3> QED BY <3>1, <3>2, <2>3 DEF Contains
  <2> QED BY <2>1, <2>2, <2>3, <2>4, <2>5, <1>1 DEF IsList
<1> QED BY <1>2, <1>3

\* uxListRemove returns a list with all that was there but x.
LEMMA UnlinkProperties ==
    ASSUME NEW S, NEW list, IsList(list, S), NEW x
    PROVE  /\ IsList(Unlink(list, x), S)
           /\ \A y : y # x /\ Contains(list.items, y) => Contains(Unlink(list, x).items, y)
<1>1. CASE ~Contains(list.items, x)
  BY <1>1 DEF Unlink
<1>2. CASE Contains(list.items, x)
  <2> DEFINE i == Position(list.items, x)
             new == Without(list.items, x)
             k == IF i <= list.index THEN list.index - 1 ELSE list.index
  <2>1. list.items \in Seq(S) /\ list.index \in Nat /\ list.index <= Len(list.items)
        /\ Len(list.items) \in Nat
    BY LenProperties DEF IsList
  <2>2. i \in 1 .. Len(list.items)
    BY <1>2, <2>1, PositionOf
  <2>3. /\ new \in Seq(S) /\ Len(new) = Len(list.items) - 1
        /\ \A y : y # x /\ Contains(list.items, y) => Contains(new, y)
    BY <1>2, <2>1, WithoutProperties
  <2>4. Unlink(list, x) = [items |-> new, index |-> k]
    BY <1>2 DEF Unlink
  <2> HIDE DEF i, new
  <2>5. k \in Nat /\ k <= Len(new)
    BY <2>1, <2>2, <2>3
  <2> QED BY <2>3, <2>4, <2>5 DEF IsList
<1> QED BY <1>1, <1>2

\* listGET_OWNER_OF_NEXT_ENTRY finds an item of the list.
LEMMA AdvanceProperties ==
    ASSUME NEW S, NEW list, IsList(list, S), list.items # <<>>
    PROVE  /\ IsList(Advance(list), S)
           /\ Advance(list).items = list.items
           /\ list.items[NextIndex(list)] \in S
<1>1. list.items \in Seq(S) /\ list.index \in Nat /\ Len(list.items) \in Nat \ {0}
      /\ list \in [items : Seq(S), index : Nat]
  BY EmptySeq DEF IsList
<1>2. NextIndex(list) \in 1 .. Len(list.items)
  BY <1>1 DEF NextIndex
<1>3. list.items[NextIndex(list)] \in S
  BY <1>1, <1>2, ElementOfSeq
<1> QED BY <1>1, <1>2, <1>3 DEF Advance, IsList
-----------------------------------------------------------------------------
(* Exactly which items the operators leave in a list, each of them once.   *)

\* InsertAt adds x to the items and, when it was not among them, keeps each of them
\* in one place.
LEMMA InsertAtExact ==
    ASSUME NEW S, NEW seq \in Seq(S), NEW i \in 1 .. Len(seq) + 1, NEW x \in S
    PROVE  /\ \A y : Contains(InsertAt(seq, i, x), y) <=> y = x \/ Contains(seq, y)
           /\ IsInjective(seq) /\ ~Contains(seq, x) => IsInjective(InsertAt(seq, i, x))
<1> DEFINE new == InsertAt(seq, i, x)
<1>1. /\ new \in Seq(S) /\ Len(new) = Len(seq) + 1 /\ new[i] = x
      /\ \A k \in 1 .. Len(seq) : new[IF k < i THEN k ELSE k + 1] = seq[k]
  BY InsertAtProperties
<1>2. Len(seq) \in Nat
  BY LenProperties
<1> HIDE DEF new
<1>3. \A k \in 1 .. Len(new) :
         \/ k < i /\ k \in 1 .. Len(seq) /\ new[k] = seq[k]
         \/ k = i /\ new[k] = x
         \/ k > i /\ k - 1 \in 1 .. Len(seq) /\ new[k] = seq[k - 1]
  <2> TAKE k \in 1 .. Len(new)
  <2>1. CASE k < i
    <3>1. k \in 1 .. Len(seq)
      BY <1>1, <1>2, <2>1
    <3> QED BY <1>1, <2>1, <3>1
  <2>2. CASE k > i
    <3>1. PICK j : j = k - 1
      OBVIOUS
    <3>2. j \in 1 .. Len(seq) /\ ~(j < i) /\ j + 1 = k
      BY <1>1, <1>2, <2>2, <3>1
    <3>3. new[j + 1] = seq[j]
      BY <1>1, <3>2
    <3> QED BY <2>2, <3>1, <3>2, <3>3
  <2>3. k < i \/ k = i \/ k > i
    BY <1>1, <1>2
  <2> QED BY <1>1, <2>1, <2>2, <2>3
<1>4. ASSUME NEW y PROVE Contains(new, y) <=> y = x \/ Contains(seq, y)
  <2>1. ASSUME Contains(new, y) PROVE y = x \/ Contains(seq, y)
    <3>1. PICK k \in 1 .. Len(new) : new[k] = y
      BY <2>1 DEF Contains
    <3> QED BY <1>3, <3>1 DEF Contains
  <2>2. ASSUME Contains(seq, y) PROVE Contains(new, y)
    <3>1. PICK k \in 1 .. Len(seq) : seq[k] = y
      BY <2>2 DEF Contains
    <3>2. (IF k < i THEN k ELSE k + 1) \in 1 .. Len(new)
      BY <1>1, <1>2
    <3> QED BY <1>1, <3>1, <3>2 DEF Contains
  <2>3. Contains(new, x)
    BY <1>1, <1>2 DEF Contains
  <2> QED BY <2>1, <2>2, <2>3
<1>5. ASSUME IsInjective(seq), ~Contains(seq, x) PROVE IsInjective(new)
  <2>1. \A a, b \in 1 .. Len(seq) : seq[a] = seq[b] => a = b
    BY <1>2, <1>5 DEF IsInjective
  <2>2. \A a \in 1 .. Len(seq) : seq[a] # x
    BY <1>5 DEF Contains
  <2>3. ASSUME NEW a \in 1 .. Len(new), NEW b \in 1 .. Len(new), new[a] = new[b]
        PROVE  a = b
    <3>1. a \in Int /\ b \in Int
      BY <1>1, <1>2
    <3> QED BY <1>3, <2>1, <2>2, <2>3, <3>1
  <2>4. DOMAIN new = 1 .. Len(new)
    BY <1>1
  <2> QED BY <2>3, <2>4 DEF IsInjective
<1> QED BY <1>4, <1>5 DEF new

\* Items of new that follow one another do so in seq.
KeepsOrder(new, seq) ==
    \A a, b \in 1 .. Len(new) : a < b =>
        \E k, l \in 1 .. Len(seq) : k < l /\ new[a] = seq[k] /\ new[b] = seq[l]

\* RemoveAt keeps the order of the items it leaves, and leaves the others of a sequence
\* without repetitions in one place.
LEMMA RemoveAtExact ==
    ASSUME NEW S, NEW seq \in Seq(S), NEW i \in 1 .. Len(seq)
    PROVE  /\ KeepsOrder(RemoveAt(seq, i), seq)
           /\ IsInjective(seq) => /\ IsInjective(RemoveAt(seq, i))
                                  /\ ~Contains(RemoveAt(seq, i), seq[i])
<1>1. Len(seq) \in Nat /\ DOMAIN seq = 1 .. Len(seq)
  BY LenProperties
<1>2. PICK new : new = RemoveAt(seq, i)
  OBVIOUS
<1>3. /\ new \in Seq(S) /\ Len(new) = Len(seq) - 1 /\ DOMAIN new = 1 .. Len(seq) - 1
      /\ \A a \in 1 .. Len(seq) - 1 : new[a] = seq[IF a < i THEN a ELSE a + 1]
  BY <1>2, RemoveAtProperties
<1>4. ASSUME NEW a \in 1 .. Len(seq) - 1
      PROVE  \E k \in 1 .. Len(seq) : /\ new[a] = seq[k] /\ k # i
                                      /\ k = IF a < i THEN a ELSE a + 1
  <2>1. PICK k : k = IF a < i THEN a ELSE a + 1
    OBVIOUS
  <2>2. k \in 1 .. Len(seq) /\ k # i
    BY <1>1, <2>1
  <2>3. new[a] = seq[k]
    BY <1>3, <2>1
  <2> QED BY <2>1, <2>2, <2>3
<1>5. KeepsOrder(new, seq)
  <2> SUFFICES ASSUME NEW a \in 1 .. Len(new), NEW b \in 1 .. Len(new), a < b
               PROVE  \E k, l \in 1 .. Len(seq) :
                         k < l /\ new[a] = seq[k] /\ new[b] = seq[l]
    BY DEF KeepsOrder
  <2>0. a \in 1 .. Len(seq) - 1 /\ b \in 1 .. Len(seq) - 1
    BY <1>3
  <2>1. PICK k \in 1 .. Len(seq) : new[a] = seq[k] /\ k = IF a < i THEN a ELSE a + 1
    BY <1>4, <2>0
  <2>2. PICK l \in 1 .. Len(seq) : new[b] = seq[l] /\ l = IF b < i THEN b ELSE b + 1
    BY <1>4, <2>0
  <2>3. k < l
    BY <1>1, <2>0, <2>1, <2>2
  <2> QED BY <2>1, <2>2, <2>3
<1>7. ASSUME IsInjective(seq) PROVE IsInjective(new) /\ ~Contains(new, seq[i])
  <2>1. \A k, l \in 1 .. Len(seq) : seq[k] = seq[l] => k = l
    BY <1>1, <1>7 DEF IsInjective
  <2>2. ASSUME NEW a \in 1 .. Len(seq) - 1, NEW b \in 1 .. Len(seq) - 1, new[a] = new[b]
        PROVE  a = b
    <3>1. PICK k \in 1 .. Len(seq) : new[a] = seq[k] /\ k = IF a < i THEN a ELSE a + 1
      BY <1>4
    <3>2. PICK l \in 1 .. Len(seq) : new[b] = seq[l] /\ l = IF b < i THEN b ELSE b + 1
      BY <1>4
    <3>3. k = l
      BY <2>1, <2>2, <3>1, <3>2
    <3> QED BY <1>1, <3>1, <3>2, <3>3
  <2>3. ASSUME NEW a \in 1 .. Len(seq) - 1 PROVE new[a] # seq[i]
    BY <1>4, <2>1
  <2> QED BY <1>3, <2>2, <2>3 DEF IsInjective, Contains
<1> QED BY <1>2, <1>5, <1>7

\* Taking x out of a sequence without repetitions takes out x and nothing else, and
\* keeps the order of the others.
LEMMA WithoutExact ==
    ASSUME NEW S, NEW seq \in Seq(S), IsInjective(seq), NEW x
    PROVE  /\ \A y : Contains(Without(seq, x), y) <=> Contains(seq, y) /\ y # x
           /\ IsInjective(Without(seq, x))
           /\ KeepsOrder(Without(seq, x), seq)
<1>1. CASE ~Contains(seq, x)
  <2>1. Without(seq, x) = seq
    BY <1>1 DEF Without
  <2> QED BY <1>1, <2>1 DEF KeepsOrder
<1>2. CASE Contains(seq, x)
  <2>1. PICK i \in 1 .. Len(seq) : i = Position(seq, x) /\ seq[i] = x
    BY <1>2, PositionOf
  <2>2. Without(seq, x) = RemoveAt(seq, i)
    BY <1>2, <2>1 DEF Without
  <2>3. IsInjective(Without(seq, x)) /\ KeepsOrder(Without(seq, x), seq)
        /\ ~Contains(Without(seq, x), x)
    BY <2>1, <2>2, RemoveAtExact
  <2>4. \A y : Contains(Without(seq, x), y) => Contains(seq, y)
    BY WithoutProperties
  <2>5. \A y : y # x /\ Contains(seq, y) => Contains(Without(seq, x), y)
    BY WithoutProperties
  <2> QED BY <2>3, <2>4, <2>5
<1> QED BY <1>1, <1>2

\* The head leaves a sequence without repetitions, in order.
LEMMA TailExact ==
    ASSUME NEW S, NEW seq \in Seq(S), IsInjective(seq), seq # <<>>
    PROVE  /\ Head(seq) \in S /\ Contains(seq, Head(seq)) /\ Tail(seq) \in Seq(S)
           /\ \A y : Contains(Tail(seq), y) <=> Contains(seq, y) /\ y # Head(seq)
           /\ IsInjective(Tail(seq))
           /\ Len(Tail(seq)) = Len(seq) - 1
           /\ \A a \in 1 .. Len(seq) - 1 : Tail(seq)[a] = seq[a + 1]
<1>1. /\ Head(seq) \in S /\ Head(seq) = seq[1] /\ Len(seq) \in Nat \ {0}
      /\ Tail(seq) \in Seq(S) /\ Len(Tail(seq)) = Len(seq) - 1
      /\ \A a \in 1 .. Len(seq) - 1 : Tail(seq)[a] = seq[a + 1]
  BY EmptySeq, HeadTailProperties, LenProperties
<1>2. \A a, b \in 1 .. Len(seq) : seq[a] = seq[b] => a = b
  BY DEF IsInjective
<1>3. PICK new : new = Tail(seq)
  OBVIOUS
<1>4. new \in Seq(S) /\ Len(new) = Len(seq) - 1 /\ DOMAIN new = 1 .. Len(seq) - 1
      /\ \A a \in 1 .. Len(seq) - 1 : new[a] = seq[a + 1]
  BY <1>1, <1>3
<1>5. IsInjective(new)
  <2> SUFFICES ASSUME NEW a \in 1 .. Len(seq) - 1, NEW b \in 1 .. Len(seq) - 1,
                      new[a] = new[b]
               PROVE  a = b
    BY <1>4 DEF IsInjective
  <2>1. a + 1 \in 1 .. Len(seq) /\ b + 1 \in 1 .. Len(seq) /\ seq[a + 1] = seq[b + 1]
    BY <1>1, <1>4
  <2>2. a + 1 = b + 1
    BY <1>2, <2>1
  <2> QED BY <1>1, <2>2
<1>6. ASSUME NEW y PROVE Contains(new, y) <=> Contains(seq, y) /\ y # Head(seq)
  <2>1. ASSUME Contains(new, y) PROVE Contains(seq, y) /\ y # Head(seq)
    <3>1. PICK a \in 1 .. Len(seq) - 1 : new[a] = y
      BY <1>4, <2>1 DEF Contains
    <3>2. a + 1 \in 1 .. Len(seq) /\ seq[a + 1] = y /\ a + 1 # 1 /\ 1 \in 1 .. Len(seq)
      BY <1>1, <1>4, <3>1
    <3> QED BY <1>1, <1>2, <3>2 DEF Contains
  <2>2. ASSUME Contains(seq, y), y # Head(seq) PROVE Contains(new, y)
    <3>1. PICK a \in 1 .. Len(seq) : seq[a] = y
      BY <2>2 DEF Contains
    <3>2. PICK k : k = a - 1
      OBVIOUS
    <3>3. k \in 1 .. Len(seq) - 1 /\ k + 1 = a
      BY <1>1, <2>2, <3>1, <3>2
    <3> QED BY <1>4, <3>1, <3>3 DEF Contains
  <2> QED BY <2>1, <2>2
<1>7. Contains(seq, Head(seq))
  BY <1>1 DEF Contains
<1> QED BY <1>1, <1>3, <1>5, <1>6, <1>7

\* An item at the end.
LEMMA AppendExact ==
    ASSUME NEW S, NEW seq \in Seq(S), NEW x \in S
    PROVE  /\ Append(seq, x) \in Seq(S)
           /\ \A y : Contains(Append(seq, x), y) <=> y = x \/ Contains(seq, y)
           /\ IsInjective(seq) /\ ~Contains(seq, x) => IsInjective(Append(seq, x))
<1>1. PICK new : new = Append(seq, x)
  OBVIOUS
<1>2. /\ new \in Seq(S) /\ Len(new) = Len(seq) + 1 /\ new[Len(seq) + 1] = x
      /\ \A k \in 1 .. Len(seq) : new[k] = seq[k]
      /\ Len(seq) \in Nat /\ DOMAIN new = 1 .. Len(seq) + 1
  BY <1>1, AppendProperties, LenProperties
<1>3. \A k \in 1 .. Len(seq) + 1 : k \in 1 .. Len(seq) \/ k = Len(seq) + 1
  BY <1>2
<1>4. \A k \in 1 .. Len(seq) : k \in 1 .. Len(seq) + 1
  BY <1>2
<1>5. Len(seq) + 1 \in 1 .. Len(seq) + 1
  BY <1>2
<1>6. \A y : Contains(new, y) <=> y = x \/ Contains(seq, y)
  BY <1>2, <1>3, <1>4, <1>5 DEF Contains
<1>7. ASSUME IsInjective(seq), ~Contains(seq, x) PROVE IsInjective(new)
  <2>1. \A a, b \in 1 .. Len(seq) : seq[a] = seq[b] => a = b
    BY <1>2, <1>7 DEF IsInjective
  <2>2. \A a \in 1 .. Len(seq) : seq[a] # x
    BY <1>7 DEF Contains
  <2>3. \A a, b \in 1 .. Len(seq) + 1 : new[a] = new[b] => a = b
    BY <1>2, <1>3, <2>1, <2>2
  <2> QED BY <1>2, <2>3 DEF IsInjective
<1> QED BY <1>1, <1>2, <1>6, <1>7

\* vListInsertEnd adds x to the items, in one place.
LEMMA InsertEndExact ==
    ASSUME NEW S, NEW list, IsList(list, S), NEW x \in S
    PROVE  /\ \A y : Contains(InsertEnd(list, x).items, y)
                       <=> y = x \/ Contains(list.items, y)
           /\ IsInjective(list.items) /\ ~Contains(list.items, x)
                 => IsInjective(InsertEnd(list, x).items)
<1>1. /\ list.items \in Seq(S) /\ list.index \in 0 .. Len(list.items)
      /\ Len(list.items) \in Nat /\ list \in [items : Seq(S), index : Nat]
  BY LenProperties DEF IsList
<1>2. CASE list.index = 0
  <2>1. InsertEnd(list, x).items = Append(list.items, x)
    BY <1>1, <1>2 DEF InsertEnd
  <2> QED BY <1>1, <2>1, AppendExact
<1>3. CASE list.index # 0
  <2>1. InsertEnd(list, x).items = InsertAt(list.items, list.index, x)
    BY <1>3 DEF InsertEnd
  <2>2. list.index \in 1 .. Len(list.items) + 1
    BY <1>1, <1>3
  <2> QED BY <1>1, <2>1, <2>2, InsertAtExact
<1> QED BY <1>2, <1>3

\* uxListRemove takes x out of the items and nothing else.
LEMMA UnlinkExact ==
    ASSUME NEW S, NEW list, IsList(list, S), IsInjective(list.items), NEW x
    PROVE  /\ \A y : Contains(Unlink(list, x).items, y) <=> Contains(list.items, y) /\ y # x
           /\ IsInjective(Unlink(list, x).items)
<1>1. list.items \in Seq(S)
  BY DEF IsList
<1>2. Unlink(list, x).items = Without(list.items, x)
  BY DEF Unlink, Without
<1> QED BY <1>1, <1>2, WithoutExact

\* vListInsert adds x to the items, in one place.
LEMMA InsertSortedExact ==
    ASSUME NEW S, NEW seq \in Seq(S), NEW value, NEW x \in S
    PROVE  /\ \A y : Contains(InsertSorted(seq, value, x), y) <=> y = x \/ Contains(seq, y)
           /\ IsInjective(seq) /\ ~Contains(seq, x) => IsInjective(InsertSorted(seq, value, x))
BY SortedPositionType, InsertAtExact DEF InsertSorted
-----------------------------------------------------------------------------
(* Lists in order of a value.                                              *)

\* No item has a value above the bound of an item behind it.
Below(seq, value, bound) ==
    \A i, j \in DOMAIN seq : i < j => value[seq[i]] <= bound[seq[j]]

\* What is left of an ordered list is ordered, by smaller values too.
LEMMA BelowKept ==
    ASSUME NEW S, NEW seq \in Seq(S), NEW new \in Seq(S), KeepsOrder(new, seq),
           NEW value, NEW bound, Below(seq, value, bound), NEW smaller,
           \A y \in S : /\ value[y] \in Int /\ bound[y] \in Int /\ smaller[y] \in Int
                        /\ Contains(new, y) => smaller[y] <= value[y]
    PROVE  Below(new, smaller, bound)
<1>1. DOMAIN new = 1 .. Len(new) /\ DOMAIN seq = 1 .. Len(seq)
  BY LenProperties
<1> SUFFICES ASSUME NEW i \in 1 .. Len(new), NEW j \in 1 .. Len(new), i < j
             PROVE  smaller[new[i]] <= bound[new[j]]
  BY <1>1 DEF Below
<1>2. PICK k, l \in 1 .. Len(seq) : k < l /\ new[i] = seq[k] /\ new[j] = seq[l]
  BY DEF KeepsOrder
<1>3. value[seq[k]] <= bound[seq[l]]
  BY <1>1, <1>2 DEF Below
<1>4. new[i] \in S /\ new[j] \in S /\ Contains(new, new[i])
  BY <1>1, ElementOfSeq DEF Contains
<1>5. smaller[new[i]] <= value[new[i]]
  BY <1>4
<1> QED BY <1>2, <1>3, <1>4, <1>5

\* A list keeps its own order, and so does what follows its head.
LEMMA KeepsOrderOfTail ==
    ASSUME NEW S, NEW seq \in Seq(S)
    PROVE  KeepsOrder(seq, seq) /\ (seq # <<>> => KeepsOrder(Tail(seq), seq))
<1>1. KeepsOrder(seq, seq)
  BY DEF KeepsOrder
<1>2. ASSUME seq # <<>> PROVE KeepsOrder(Tail(seq), seq)
  <2>1. /\ Len(seq) \in Nat \ {0} /\ Len(Tail(seq)) = Len(seq) - 1
        /\ \A a \in 1 .. Len(seq) - 1 : Tail(seq)[a] = seq[a + 1]
    BY <1>2, EmptySeq, HeadTailProperties, LenProperties
  <2>2. \A a \in 1 .. Len(seq) - 1 : a + 1 \in 1 .. Len(seq)
    BY <2>1
  <2>3. \A a, b \in 1 .. Len(seq) - 1 : a < b => a + 1 < b + 1
    BY <2>1
  <2> QED BY <2>1, <2>2, <2>3 DEF KeepsOrder
<1> QED BY <1>1, <1>2

\* vListInsert puts x between items that are not above its bound and items above its
\* value, and so keeps a list ordered by value and bound.
LEMMA InsertSortedBelow ==
    ASSUME NEW S, NEW seq \in Seq(S), NEW value, NEW bound, NEW x \in S,
           \A y \in S : value[y] \in Int /\ bound[y] \in Int /\ value[y] <= bound[y],
           Below(seq, value, bound)
    PROVE  Below(InsertSorted(seq, value, x), value, bound)
<1> DEFINE P == {i \in 1 .. Len(seq) : value[seq[i]] > value[x]} \cup {Len(seq) + 1}
<1>1. /\ Len(seq) \in Nat /\ DOMAIN seq = 1 .. Len(seq)
      /\ \A k \in 1 .. Len(seq) : seq[k] \in S
  BY LenProperties, ElementOfSeq
<1>2. PICK pos : pos = SortedPosition(seq, value, value[x])
  OBVIOUS
<1>3. pos \in 1 .. Len(seq) + 1 /\ pos \in P /\ \A k \in P : pos <= k
  <2>1. P \in SUBSET Nat /\ P # {}
    BY <1>1
  <2>2. pos = Min(P)
    BY <1>2 DEF SortedPosition
  <2>3. pos \in P /\ \A k \in P : pos <= k
    <3> HIDE DEF P
    <3> QED BY <2>1, <2>2, MinExists
  <2> QED BY <1>1, <2>3
<1>4. \A k \in 1 .. Len(seq) : k < pos => value[seq[k]] <= value[x]
  BY <1>1, <1>3
<1>5. pos \in 1 .. Len(seq) => value[seq[pos]] > value[x]
  BY <1>1, <1>3
<1> HIDE DEF P
<1>6. \A k, l \in 1 .. Len(seq) : k <= l => value[seq[k]] <= bound[seq[l]]
  BY <1>1 DEF Below
<1>7. \A k \in 1 .. Len(seq) : k >= pos => value[x] <= bound[seq[k]]
  <2> TAKE k \in 1 .. Len(seq)
  <2> HAVE k >= pos
  <2>1. pos \in 1 .. Len(seq) /\ value[seq[pos]] <= bound[seq[k]]
    BY <1>1, <1>3, <1>6
  <2> QED BY <1>1, <1>5, <2>1
<1>8. PICK new : new = InsertSorted(seq, value, x)
  OBVIOUS
<1>9. /\ Len(new) = Len(seq) + 1 /\ DOMAIN new = 1 .. Len(new) /\ new[pos] = x
      /\ \A k \in 1 .. Len(seq) : new[IF k < pos THEN k ELSE k + 1] = seq[k]
  BY <1>2, <1>3, <1>8, InsertAtProperties, LenProperties DEF InsertSorted
<1>10. \A k \in 1 .. Len(new) :
          \/ k < pos /\ k \in 1 .. Len(seq) /\ new[k] = seq[k]
          \/ k = pos /\ new[k] = x
          \/ k > pos /\ k - 1 \in 1 .. Len(seq) /\ new[k] = seq[k - 1]
  <2> TAKE k \in 1 .. Len(new)
  <2>1. CASE k < pos
    <3>1. k \in 1 .. Len(seq)
      BY <1>1, <1>3, <1>9, <2>1
    <3> QED BY <1>9, <2>1, <3>1
  <2>2. CASE k = pos
    BY <1>9, <2>2
  <2>3. CASE k > pos
    <3>1. PICK m : m = k - 1
      OBVIOUS
    <3>2. m \in 1 .. Len(seq) /\ ~(m < pos) /\ m + 1 = k
      BY <1>1, <1>3, <1>9, <2>3, <3>1
    <3>3. new[k] = seq[m]
      BY <1>9, <3>2
    <3> QED BY <2>3, <3>1, <3>2, <3>3
  <2> QED BY <1>1, <1>3, <1>9, <2>1, <2>2, <2>3
<1>11. ASSUME NEW i \in 1 .. Len(new), NEW j \in 1 .. Len(new), i < j
       PROVE  value[new[i]] <= bound[new[j]]
  <2>0. i \in Int /\ j \in Int /\ pos \in Int /\ value[x] \in Int
        /\ bound[x] \in Int /\ value[x] <= bound[x]
        /\ \A k \in 1 .. Len(seq) : value[seq[k]] \in Int /\ bound[seq[k]] \in Int
    BY <1>1, <1>3, <1>9
  <2>1. CASE i < pos /\ j < pos
    BY <1>6, <1>10, <1>11, <2>0, <2>1
  <2>2. CASE i < pos /\ j = pos
    BY <1>4, <1>10, <2>0, <2>2
  <2>3. CASE i < pos /\ j > pos
    <3>1. i \in 1 .. Len(seq) /\ new[i] = seq[i] /\ value[seq[i]] <= value[x]
      BY <1>4, <1>10, <2>0, <2>3
    <3>2. j - 1 \in 1 .. Len(seq) /\ new[j] = seq[j - 1] /\ value[x] <= bound[seq[j - 1]]
      BY <1>7, <1>10, <2>0, <2>3
    <3> QED BY <2>0, <3>1, <3>2
  <2>4. CASE i = pos /\ j > pos
    <3>1. j - 1 \in 1 .. Len(seq) /\ new[j] = seq[j - 1] /\ value[x] <= bound[seq[j - 1]]
      BY <1>7, <1>10, <2>0, <2>4
    <3> QED BY <1>9, <2>4, <3>1
  <2>5. CASE i > pos /\ j > pos
    <3>1. i - 1 \in 1 .. Len(seq) /\ new[i] = seq[i - 1]
      BY <1>10, <2>0, <2>5
    <3>2. j - 1 \in 1 .. Len(seq) /\ new[j] = seq[j - 1]
      BY <1>10, <2>0, <2>5
    <3>3. i - 1 <= j - 1
      BY <1>11, <2>0
    <3> QED BY <1>6, <3>1, <3>2, <3>3
  <2> QED BY <1>11, <2>0, <2>1, <2>2, <2>3, <2>4, <2>5
<1> QED BY <1>8, <1>9, <1>11 DEF Below
=============================================================================
