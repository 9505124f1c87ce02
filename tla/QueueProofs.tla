---------------------------- MODULE QueueProofs ----------------------------
(***************************************************************************)
(* For any queue length, tasks, messages and bounds: the types and the     *)
(* pointers of Queue, that every step of Queue is a step of QueueSpec or   *)
(* leaves the messages alone, and, while the lock counts do not wrap, that *)
(* nobody is left asleep beside a message or a free slot.                  *)
(***************************************************************************)
EXTENDS Queue, ListTheorems, FiniteSetTheorems

\* There is at least one slot.
LEMMA LengthPositive == Length \in Nat /\ Length > 0
BY QueueAssumption
-----------------------------------------------------------------------------
(* Arithmetic on slots.                                                    *)

\* A number modulo n, around the range of the slots.
LEMMA ModSmall ==
    ASSUME NEW n \in Nat \ {0}, NEW x \in 0 .. n - 1
    PROVE  x % n = x
OBVIOUS

\* The same one turn further.
LEMMA ModOnce ==
    ASSUME NEW n \in Nat \ {0}, NEW x \in n .. 2 * n - 1
    PROVE  x % n = x - n
OBVIOUS

\* Any number modulo n is below n.
LEMMA ModRange ==
    ASSUME NEW n \in Nat \ {0}, NEW x \in Int
    PROVE  x % n \in 0 .. n - 1
OBVIOUS

\* The slot before the first is the last.
LEMMA ModLessOne ==
    ASSUME NEW n \in Nat \ {0}
    PROVE  (-1) % n = n - 1
OBVIOUS

\* The slot k places after slot s.
LEMMA SlotAhead ==
    ASSUME NEW s \in Slot, NEW k \in 0 .. Length
    PROVE  (s + k) % Length = IF s + k < Length THEN s + k ELSE s + k - Length
<1>1. Length \in Nat \ {0} /\ s \in 0 .. Length - 1
  BY LengthPositive DEF Slot
<1>2. CASE s + k < Length
  <2>1. s + k \in 0 .. Length - 1
    BY <1>1, <1>2
  <2>2. (s + k) % Length = s + k
    BY <1>1, <2>1, ModSmall
  <2> QED BY <1>2, <2>2
<1>3. CASE ~(s + k < Length)
  <2>1. s + k \in Length .. 2 * Length - 1
    BY <1>1, <1>3
  <2>2. (s + k) % Length = (s + k) - Length
    BY <1>1, <2>1, ModOnce
  <2> QED BY <1>1, <1>3, <2>2
<1> QED BY <1>2, <1>3

\* The next slot and the one before, at the ends of the storage too.
LEMMA SlotsAround ==
    ASSUME NEW s \in Slot
    PROVE  /\ After(s) \in Slot /\ After(s) = IF s + 1 < Length THEN s + 1 ELSE 0
           /\ Before(s) \in Slot /\ Before(s) = IF s = 0 THEN Length - 1 ELSE s - 1
<1>1. Length \in Nat \ {0} /\ s \in 0 .. Length - 1
  BY LengthPositive DEF Slot
<1>2. After(s) = IF s + 1 < Length THEN s + 1 ELSE 0
  BY <1>1, SlotAhead DEF After
<1>3. CASE s = 0
  <2>1. Before(s) = (-1) % Length
    BY <1>3 DEF Before
  <2>2. (-1) % Length = Length - 1
    BY <1>1, ModLessOne
  <2> QED BY <1>1, <1>2, <1>3, <2>1, <2>2 DEF Slot
<1>4. CASE s # 0
  <2>1. s - 1 \in 0 .. Length - 1
    BY <1>1, <1>4
  <2>2. Before(s) = s - 1
    BY <1>1, <2>1, ModSmall DEF Before
  <2> QED BY <1>1, <1>2, <1>4, <2>1, <2>2 DEF Slot
<1> QED BY <1>3, <1>4
\* After undoes Before.
LEMMA AroundAgain ==
    ASSUME NEW s \in Slot
    PROVE  Before(s) \in Slot /\ After(Before(s)) = s
<1>1. Before(s) \in Slot /\ Before(s) = IF s = 0 THEN Length - 1 ELSE s - 1
  BY SlotsAround
<1>2. After(Before(s)) = IF Before(s) + 1 < Length THEN Before(s) + 1 ELSE 0
  BY <1>1, SlotsAround
<1>3. s \in 0 .. Length - 1 /\ Length \in Nat
  BY LengthPositive DEF Slot
<1> QED BY <1>1, <1>2, <1>3

\* k places after the next slot, or the slot after those k places: k + 1 places ahead.
LEMMA AfterAhead ==
    ASSUME NEW s \in Slot, NEW k \in 0 .. Length - 1
    PROVE  /\ (s + k) % Length \in Slot
           /\ After((s + k) % Length) = (s + (k + 1)) % Length
           /\ (After(s) + k) % Length = (s + (k + 1)) % Length
<1>1. Length \in Nat \ {0} /\ s \in 0 .. Length - 1 /\ k \in 0 .. Length /\ k + 1 \in 0 .. Length
  BY LengthPositive DEF Slot
<1>2. (s + k) % Length = IF s + k < Length THEN s + k ELSE s + k - Length
  BY <1>1, SlotAhead
<1>3. (s + (k + 1)) % Length = IF s + (k + 1) < Length THEN s + (k + 1) ELSE s + (k + 1) - Length
  BY <1>1, SlotAhead
<1>4. (s + k) % Length \in Slot
  BY <1>1, <1>2 DEF Slot
<1>5. After((s + k) % Length)
        = IF ((s + k) % Length) + 1 < Length THEN ((s + k) % Length) + 1 ELSE 0
  BY <1>4, SlotsAround
<1>6. After((s + k) % Length) = (s + (k + 1)) % Length
  BY <1>1, <1>2, <1>3, <1>5
<1>7. After(s) \in Slot /\ After(s) = IF s + 1 < Length THEN s + 1 ELSE 0
  BY SlotsAround
<1>8. (After(s) + k) % Length = IF After(s) + k < Length THEN After(s) + k ELSE After(s) + k - Length
  BY <1>1, <1>7, SlotAhead
<1>9. (After(s) + k) % Length = (s + (k + 1)) % Length
  BY <1>1, <1>3, <1>7, <1>8
<1> QED BY <1>4, <1>6, <1>9

\* Different numbers of places ahead, fewer than Length apart, are different slots.
LEMMA AheadDiffers ==
    ASSUME NEW s \in Slot, NEW j \in 0 .. Length, NEW k \in 0 .. Length,
           j < k, k - j < Length
    PROVE  (s + j) % Length # (s + k) % Length
<1>1. Length \in Nat \ {0} /\ s \in 0 .. Length - 1
  BY LengthPositive DEF Slot
<1>2. (s + j) % Length = IF s + j < Length THEN s + j ELSE s + j - Length
  BY SlotAhead
<1>3. (s + k) % Length = IF s + k < Length THEN s + k ELSE s + k - Length
  BY SlotAhead
<1> QED BY <1>1, <1>2, <1>3

-----------------------------------------------------------------------------
(* The storage.                                                            *)

Stored == Message \cup {NoMessage}

DataOK ==
    /\ storage \in [Slot -> Stored]
    /\ pcWriteTo \in Slot /\ pcReadFrom \in Slot
    /\ uxMessagesWaiting \in 0 .. Length
    /\ PointersAgree

\* What Contents reads: n messages of ring, from the slot after `from` on.
Reading(ring, from, n) == [k \in 1 .. n |-> ring[(from + k) % Length]]

\* Contents, in this state and the next, is such a reading.
LEMMA ContentsIsReading ==
    /\ Contents = Reading(storage, pcReadFrom, uxMessagesWaiting)
    /\ Contents' = Reading(storage', pcReadFrom', uxMessagesWaiting')
BY DEF Contents, Reading

\* It is a sequence of stored messages, of the length the queue counts.
LEMMA ReadingType ==
    ASSUME NEW ring \in [Slot -> Stored], NEW from \in Slot, NEW n \in 0 .. Length
    PROVE  /\ Reading(ring, from, n) \in Seq(Stored)
           /\ Len(Reading(ring, from, n)) = n
           /\ \A k \in 1 .. n : Reading(ring, from, n)[k] = ring[(from + k) % Length]
<1>1. n \in Nat
  BY LengthPositive
<1>2. \A k \in 1 .. n : (from + k) % Length \in Slot
  BY <1>1, LengthPositive, SlotAhead DEF Slot
<1>3. \A k \in 1 .. n : ring[(from + k) % Length] \in Stored
  BY <1>2
<1>4. Reading(ring, from, n) \in Seq(Stored)
  BY <1>1, <1>3, IsASeq DEF Reading
<1> QED BY <1>1, <1>4 DEF Reading

\* A sequence that agrees with it in length and at every place is it.
LEMMA ReadingEqual ==
    ASSUME NEW ring \in [Slot -> Stored], NEW from \in Slot, NEW n \in 0 .. Length,
           NEW seq \in Seq(Stored), Len(seq) = n,
           \A k \in 1 .. n : seq[k] = ring[(from + k) % Length]
    PROVE  Reading(ring, from, n) = seq
BY ReadingType, SeqEqual

\* An empty queue, or a reset one, holds nothing.
LEMMA ReadingNothing ==
    ASSUME NEW ring \in [Slot -> Stored], NEW from \in Slot
    PROVE  Reading(ring, from, 0) = <<>>
<1>1. 0 \in 0 .. Length
  BY LengthPositive
<1>2. <<>> \in Seq(Stored) /\ Len(<<>>) = 0
  BY EmptySeq
<1>3. \A k \in 1 .. 0 : <<>>[k] = ring[(from + k) % Length]
  OBVIOUS
<1> QED BY <1>1, <1>2, <1>3, ReadingEqual

\* Writing after the last message appends it.
LEMMA WriteAppends ==
    ASSUME NEW ring \in [Slot -> Stored], NEW from \in Slot, NEW n \in 0 .. Length - 1,
           NEW m \in Stored
    PROVE  Reading([ring EXCEPT ![(from + (n + 1)) % Length] = m], from, n + 1)
             = Append(Reading(ring, from, n), m)
<1> DEFINE w == (from + (n + 1)) % Length
           new == [ring EXCEPT ![w] = m]
           old == Reading(ring, from, n)
<1>1. Length \in Nat /\ n \in Nat /\ n \in 0 .. Length /\ n + 1 \in 0 .. Length
  BY LengthPositive
<1>2. old \in Seq(Stored) /\ Len(old) = n /\ \A k \in 1 .. n : old[k] = ring[(from + k) % Length]
  BY <1>1, ReadingType
<1>3. w \in Slot
  BY LengthPositive, AfterAhead, SlotsAround
<1>4. new \in [Slot -> Stored] /\ new[w] = m
  BY <1>3
<1>5. \A k \in 1 .. n : new[(from + k) % Length] = ring[(from + k) % Length]
  <2> TAKE k \in 1 .. n
  <2>1. k \in 0 .. Length /\ k < n + 1 /\ (n + 1) - k < Length
    BY <1>1
  <2>2. (from + k) % Length # w
    BY <1>1, <2>1, AheadDiffers
  <2>3. (from + k) % Length \in Slot
    BY <1>1, <2>1, AfterAhead
  <2> QED BY <2>2, <2>3
<1> HIDE DEF w, new, old
<1>6. /\ Append(old, m) \in Seq(Stored) /\ Len(Append(old, m)) = n + 1
      /\ \A k \in 1 .. n : Append(old, m)[k] = old[k]
      /\ Append(old, m)[n + 1] = m
  BY <1>2, AppendProperties
<1>7. \A k \in 1 .. n + 1 : Append(old, m)[k] = new[(from + k) % Length]
  <2> TAKE k \in 1 .. n + 1
  <2>1. CASE k = n + 1
    BY <1>4, <1>6, <2>1 DEF w
  <2>2. CASE k # n + 1
    <3>1. k \in 1 .. n
      BY <1>1, <2>2
    <3> QED BY <1>2, <1>5, <1>6, <3>1
  <2> QED BY <2>1, <2>2
<1>8. Reading(new, from, n + 1) = Append(old, m)
  BY <1>1, <1>4, <1>6, <1>7, ReadingEqual
<1> QED BY <1>8 DEF new, old, w

\* Writing at the read pointer and stepping back puts a message in front.
LEMMA WritePrepends ==
    ASSUME NEW ring \in [Slot -> Stored], NEW from \in Slot, NEW n \in 0 .. Length - 1,
           NEW m \in Stored
    PROVE  Reading([ring EXCEPT ![from] = m], Before(from), n + 1)
             = <<m>> \o Reading(ring, from, n)
<1> DEFINE new == [ring EXCEPT ![from] = m]
           old == Reading(ring, from, n)
<1>1. Length \in Nat /\ n \in Nat /\ n \in 0 .. Length /\ n + 1 \in 0 .. Length
  BY LengthPositive
<1>2. old \in Seq(Stored) /\ Len(old) = n /\ \A k \in 1 .. n : old[k] = ring[(from + k) % Length]
  BY <1>1, ReadingType
<1>3. new \in [Slot -> Stored] /\ new[from] = m
  OBVIOUS
<1>4. Before(from) \in Slot /\ After(Before(from)) = from
  BY AroundAgain
<1>5. \A k \in 0 .. n : (Before(from) + (k + 1)) % Length = (from + k) % Length
  BY <1>1, <1>4, AfterAhead
<1>6. (from + 0) % Length = from
  <2>1. from \in 0 .. Length - 1 /\ Length \in Nat \ {0}
    BY LengthPositive DEF Slot
  <2>2. from + 0 = from
    BY <2>1
  <2>3. from % Length = from
    BY <2>1, ModSmall
  <2> QED BY <2>2, <2>3
<1>7. \A k \in 1 .. n : new[(from + k) % Length] = ring[(from + k) % Length]
  <2> TAKE k \in 1 .. n
  <2>1. 0 \in 0 .. Length /\ k \in 0 .. Length - 1 /\ k \in 0 .. Length /\ 0 < k /\ k - 0 < Length
    BY <1>1
  <2>2. (from + k) % Length # (from + 0) % Length
    BY <1>1, <2>1, AheadDiffers
  <2>4. (from + k) % Length \in Slot
    BY <2>1, AfterAhead
  <2> QED BY <1>6, <2>2, <2>4
<1> HIDE DEF new, old
<1>8. /\ <<m>> \o old \in Seq(Stored) /\ Len(<<m>> \o old) = n + 1
      /\ \A k \in 1 .. n + 1 : (<<m>> \o old)[k] = IF k = 1 THEN m ELSE old[k - 1]
  <2>1. <<m>> \in Seq(Stored) /\ Len(<<m>>) = 1 /\ <<m>>[1] = m
    OBVIOUS
  <2> QED BY <1>1, <1>2, <2>1, ConcatProperties
<1>9. \A k \in 1 .. n + 1 : (<<m>> \o old)[k] = new[(Before(from) + k) % Length]
  <2> TAKE k \in 1 .. n + 1
  <2> DEFINE j == k - 1
  <2>1. j \in 0 .. n /\ k = j + 1
    BY <1>1
  <2>2. (Before(from) + k) % Length = (from + j) % Length
    BY <1>5, <2>1
  <2>3. CASE k = 1
    BY <1>3, <1>6, <1>8, <2>1, <2>2, <2>3
  <2>4. CASE k # 1
    <3>1. j \in 1 .. n
      BY <1>1, <2>1, <2>4
    <3>2. (<<m>> \o old)[k] = old[j]
      BY <1>8, <2>4
    <3>3. old[j] = new[(from + j) % Length]
      BY <1>2, <1>7, <3>1
    <3> QED BY <2>2, <3>2, <3>3
  <2> QED BY <2>3, <2>4
<1>10. Reading(new, Before(from), n + 1) = <<m>> \o old
  BY <1>1, <1>3, <1>4, <1>8, <1>9, ReadingEqual
<1> QED BY <1>10 DEF new, old

\* Stepping the read pointer on drops the first message.
LEMMA ReadDrops ==
    ASSUME NEW ring \in [Slot -> Stored], NEW from \in Slot, NEW n \in 1 .. Length
    PROVE  /\ Reading(ring, from, n) # <<>>
           /\ Head(Reading(ring, from, n)) = ring[After(from)]
           /\ Reading(ring, After(from), n - 1) = Tail(Reading(ring, from, n))
<1> DEFINE old == Reading(ring, from, n)
<1>1. Length \in Nat /\ n \in Nat /\ n \in 0 .. Length /\ n - 1 \in 0 .. Length /\ n - 1 \in Nat
  BY LengthPositive
<1>2. old \in Seq(Stored) /\ Len(old) = n /\ \A k \in 1 .. n : old[k] = ring[(from + k) % Length]
  BY <1>1, ReadingType
<1> HIDE DEF old
<1>3. old # <<>>
  BY <1>2, EmptySeq
<1>4. Head(old) = ring[After(from)]
  <2>1. Head(old) = old[1]
    BY <1>2, <1>3
  <2> QED BY <1>1, <1>2, <2>1 DEF After
<1>5. Tail(old) \in Seq(Stored) /\ Len(Tail(old)) = n - 1 /\ \A k \in 1 .. n - 1 : Tail(old)[k] = old[k + 1]
  BY <1>2, <1>3, HeadTailProperties
<1>6. After(from) \in Slot
  BY SlotsAround
<1>7. \A k \in 1 .. n - 1 : Tail(old)[k] = ring[(After(from) + k) % Length]
  <2> TAKE k \in 1 .. n - 1
  <2>1. k \in 0 .. Length - 1 /\ k + 1 \in 1 .. n
    BY <1>1
  <2>2. (After(from) + k) % Length = (from + (k + 1)) % Length
    BY <2>1, AfterAhead
  <2> QED BY <1>2, <1>5, <2>1, <2>2
<1>8. Reading(ring, After(from), n - 1) = Tail(old)
  BY <1>1, <1>5, <1>6, <1>7, ReadingEqual
<1> QED BY <1>3, <1>4, <1>8 DEF old
-----------------------------------------------------------------------------
(* The operations on the storage, and the steps of QueueSpec they are.     *)

\* A step that leaves the storage alone leaves the messages alone.
LEMMA Untouched ==
    ASSUME DataOK, UNCHANGED dataVars
    PROVE  DataOK' /\ UNCHANGED Contents
BY DEF DataOK, dataVars, PointersAgree, Contents

\* prvCopyDataToQueue keeps the pointers together and adds one message to the sequence.
LEMMA CopyIsSend ==
    ASSUME DataOK, NEW m \in Message, NEW position \in SendOps, Room(position),
           position = "overwrite" => Length = 1,
           prvCopyDataToQueue(m, position)
    PROVE  /\ DataOK'
           /\ Abstract!SendToBack(m) \/ Abstract!SendToFront(m) \/ Abstract!Overwrite(m)
<1> DEFINE r == pcReadFrom
           n == uxMessagesWaiting
<1>1. /\ Length \in Nat /\ Length > 0 /\ n \in Nat /\ n <= Length /\ m \in Stored
      /\ storage \in [Slot -> Stored] /\ pcWriteTo \in Slot /\ r \in Slot
      /\ pcWriteTo = After((r + n) % Length)
  BY LengthPositive DEF DataOK, Stored, PointersAgree
<1>2. Len(Contents) = n
  BY <1>1, ContentsIsReading, ReadingType
<1>3. CASE position # "overwrite"
  <2>1. n \in 0 .. Length - 1 /\ n + 1 \in 0 .. Length /\ uxMessagesWaiting' = n + 1
    BY <1>1, <1>3 DEF Room, Full, prvCopyDataToQueue
  <2>2. pcWriteTo = (r + (n + 1)) % Length
    BY <1>1, <2>1, AfterAhead
  <2>3. CASE position = "sendBack"
    <3>1. /\ storage' = [storage EXCEPT ![pcWriteTo] = m]
          /\ pcWriteTo' = After(pcWriteTo) /\ pcReadFrom' = r
      BY <2>3 DEF prvCopyDataToQueue
    <3>2. storage' \in [Slot -> Stored] /\ pcWriteTo' \in Slot
      BY <1>1, <3>1, SlotsAround
    <3>3. Contents' = Append(Contents, m)
      BY <1>1, <2>1, <2>2, <3>1, WriteAppends, ContentsIsReading
    <3>4. DataOK'
      BY <1>1, <2>1, <2>2, <3>1, <3>2 DEF DataOK, PointersAgree
    <3> QED BY <1>1, <1>2, <2>1, <3>3, <3>4 DEF Abstract!SendToBack
  <2>4. CASE position # "sendBack"
    <3>1. /\ storage' = [storage EXCEPT ![r] = m]
          /\ pcWriteTo' = pcWriteTo /\ pcReadFrom' = Before(r)
      BY <2>4 DEF prvCopyDataToQueue
    <3>2. storage' \in [Slot -> Stored] /\ pcReadFrom' \in Slot
      BY <1>1, <3>1, SlotsAround
    <3>3. Contents' = <<m>> \o Contents
      BY <1>1, <2>1, <3>1, WritePrepends, ContentsIsReading
    <3>4. (Before(r) + (n + 1)) % Length = (r + n) % Length
      <4>1. Before(r) \in Slot /\ After(Before(r)) = r
        BY <1>1, AroundAgain
      <4> QED BY <2>1, <4>1, AfterAhead
    <3>5. DataOK'
      BY <1>1, <2>1, <3>1, <3>2, <3>4 DEF DataOK, PointersAgree
    <3> QED BY <1>1, <1>2, <2>1, <3>3, <3>5 DEF Abstract!SendToFront
  <2> QED BY <2>3, <2>4
<1>4. CASE position = "overwrite"
  <2>1. Length = 1 /\ Slot = {0} /\ n \in {0, 1}
    BY <1>1, <1>4 DEF Slot
  <2>2. /\ storage' = [storage EXCEPT ![r] = m]
        /\ pcWriteTo' = pcWriteTo /\ pcReadFrom' = Before(r)
        /\ uxMessagesWaiting' = 1
    BY <1>4, <2>1 DEF prvCopyDataToQueue, Empty
  <2>3. storage' \in [Slot -> Stored] /\ pcReadFrom' \in Slot /\ storage'[0] = m
    BY <1>1, <2>1, <2>2, SlotsAround
  <2>4. \A k \in 0 .. 1 : (pcReadFrom' + k) % Length = 0
    BY <2>1, <2>3, ModRange
  <2>5. Contents' = <<m>>
    <3>1. <<m>> \in Seq(Stored) /\ Len(<<m>>) = 1 /\ <<m>>[1] = m
      BY <1>1
    <3>2. \A k \in 1 .. 1 : <<m>>[k] = storage'[(pcReadFrom' + k) % Length]
      BY <2>3, <2>4, <3>1
    <3>3. Reading(storage', pcReadFrom', 1) = <<m>>
      BY <2>1, <2>3, <3>1, <3>2, ReadingEqual
    <3> QED BY <2>2, <3>3, ContentsIsReading
  <2>6. After(0) = 0 /\ pcWriteTo' = 0
    BY <1>1, <2>1, <2>2, SlotsAround
  <2>7. DataOK'
    BY <2>1, <2>2, <2>3, <2>4, <2>6 DEF DataOK, PointersAgree
  <2> QED BY <2>1, <2>5, <2>7 DEF Abstract!Overwrite
<1> QED BY <1>3, <1>4

\* Taking a message removes and delivers the head of the sequence.
LEMMA TakeIsReceive ==
    ASSUME DataOK, ~Empty, Take
    PROVE  DataOK' /\ delivered' \in Stored /\ Abstract!AbsReceive
<1> DEFINE r == pcReadFrom
           n == uxMessagesWaiting
<1>1. /\ n \in 1 .. Length /\ n - 1 \in 0 .. Length - 1 /\ n - 1 \in 0 .. Length /\ (n - 1) + 1 = n
      /\ storage \in [Slot -> Stored] /\ pcWriteTo \in Slot /\ r \in Slot
      /\ pcWriteTo = After((r + n) % Length)
  BY LengthPositive DEF DataOK, PointersAgree, Empty
<1>2. /\ delivered' = storage[After(r)] /\ pcReadFrom' = After(r)
      /\ uxMessagesWaiting' = n - 1 /\ storage' = storage /\ pcWriteTo' = pcWriteTo
  BY DEF Take
<1>3. After(r) \in Slot
  BY <1>1, SlotsAround
<1>4. (After(r) + (n - 1)) % Length = (r + n) % Length
  BY <1>1, AfterAhead
<1>5. DataOK'
  BY <1>1, <1>2, <1>3, <1>4 DEF DataOK, PointersAgree
<1>6. Contents # <<>> /\ delivered' = Head(Contents) /\ Contents' = Tail(Contents)
  BY <1>1, <1>2, ReadDrops, ContentsIsReading
<1> QED BY <1>1, <1>2, <1>3, <1>5, <1>6 DEF Abstract!AbsReceive

\* Looking at a message delivers the head and removes nothing.
LEMMA LookIsPeek ==
    ASSUME DataOK, ~Empty, LookAt
    PROVE  DataOK' /\ delivered' \in Stored /\ Abstract!AbsPeek
<1>1. /\ uxMessagesWaiting \in 1 .. Length /\ storage \in [Slot -> Stored] /\ pcReadFrom \in Slot
  BY LengthPositive DEF DataOK, Empty
<1>2. delivered' = storage[After(pcReadFrom)] /\ UNCHANGED dataVars
  BY DEF LookAt
<1>3. DataOK' /\ UNCHANGED Contents
  BY <1>2, Untouched
<1>4. Contents # <<>> /\ delivered' = Head(Contents)
  BY <1>1, <1>2, ReadDrops, ContentsIsReading
<1>5. delivered' \in Stored
  BY <1>1, <1>2, SlotsAround
<1> QED BY <1>3, <1>4, <1>5 DEF Abstract!AbsPeek

\* A reset empties the sequence.
LEMMA ResetIsReset ==
    ASSUME DataOK, NEW t \in Task, xQueueGenericReset(t)
    PROVE  DataOK' /\ Abstract!AbsReset
<1>1. /\ uxMessagesWaiting' = 0 /\ pcWriteTo' = 0 /\ pcReadFrom' = Length - 1
      /\ storage' = storage /\ delivered' = delivered
  BY DEF xQueueGenericReset
<1>2. Length \in Nat \ {0} /\ Length - 1 \in Slot /\ 0 \in Slot /\ storage \in [Slot -> Stored]
  BY LengthPositive DEF DataOK, Slot
<1>3. (Length - 1 + 0) % Length = Length - 1
  <2>1. Length - 1 + 0 = Length - 1 /\ Length - 1 \in 0 .. Length - 1
    BY <1>2
  <2> QED BY <1>2, <2>1, ModSmall
<1>4. After(Length - 1) = 0
  BY <1>2, SlotsAround
<1>5. DataOK'
  BY <1>1, <1>2, <1>3, <1>4 DEF DataOK, PointersAgree
<1>6. Contents' = <<>>
  BY <1>1, <1>2, ReadingNothing, ContentsIsReading
<1> QED BY <1>1, <1>5, <1>6 DEF Abstract!AbsReset
-----------------------------------------------------------------------------
(* Locks, event lists and wake-ups.                                        *)

LocksOK == cTxLock \in Lock /\ cRxLock \in Lock

ListsOK ==
    /\ xTasksWaitingToSend \in Seq(Task) /\ xTasksWaitingToReceive \in Seq(Task)
    /\ pending \in SUBSET Task
    /\ blocked \in [Task -> BOOLEAN]

\* Whatever int8_t makes of a number is a lock count.
LEMMA Int8Type == ASSUME NEW n \in Int PROVE Int8(n) \in Lock
<1>1. Int8Max \in Nat \ {0}
  BY QueueAssumption
<1>2. 2 * (Int8Max + 1) \in Nat \ {0} /\ n + Int8Max + 1 \in Int
  BY <1>1
<1>3. (n + Int8Max + 1) % (2 * (Int8Max + 1)) \in 0 .. (2 * (Int8Max + 1)) - 1
  BY <1>2, ModRange
<1> QED BY <1>1, <1>3 DEF Int8, Lock

\* The two named values of a lock are lock counts.
LEMMA LockType ==
    /\ queueUNLOCKED \in Lock /\ queueLOCKED_UNMODIFIED \in Lock
    /\ Lock \subseteq Int
BY QueueAssumption DEF Lock, queueUNLOCKED, queueLOCKED_UNMODIFIED

\* A negative lock count owes no wake-ups.
LEMMA OwedType ==
    ASSUME NEW lock \in Int
    PROVE  /\ Max({lock, 0}) = IF lock > 0 THEN lock ELSE 0
           /\ Max({lock, 0}) \in Nat
<1> DEFINE x == IF lock > 0 THEN lock ELSE 0
<1>1. x \in {lock, 0} /\ \A y \in {lock, 0} : x >= y
  OBVIOUS
<1>2. Max({lock, 0}) \in {lock, 0} /\ \A y \in {lock, 0} : Max({lock, 0}) >= y
  <2> HIDE DEF x
  <2> QED BY <1>1 DEF Max
<1>3. PICK z : z = Max({lock, 0})
  OBVIOUS
<1>4. z \in {lock, 0} /\ z >= lock /\ z >= 0
  BY <1>2, <1>3
<1>5. z = (IF lock > 0 THEN lock ELSE 0) /\ z \in Nat
  BY <1>4
<1> QED BY <1>3, <1>5

\* Waking n tasks of an event list leaves an event list.
LEMMA FirstAndRest ==
    ASSUME NEW list \in Seq(Task), NEW n \in Nat
    PROVE  FirstOf(list, n) \subseteq Task /\ RestOf(list, n) \in Seq(Task)
<1>1. Len(list) \in Nat /\ \A i \in 1 .. Len(list) : list[i] \in Task
  BY LenProperties, ElementOfSeq
<1>2. Min({n, Len(list)}) \in Nat /\ Min({n, Len(list)}) <= Len(list)
  BY <1>1, MinOfTwo
<1>3. FirstOf(list, n) \subseteq Task
  BY <1>1, <1>2 DEF FirstOf
<1>4. PICK k \in Nat : k = Min({n, Len(list)}) + 1
  BY <1>2
<1>5. SubSeq(list, k, Len(list)) \in Seq(Task)
  <2>1. \A i \in k .. Len(list) : list[i] \in Task
    BY <1>1, <1>2, <1>4
  <2>2. k \in Int /\ Len(list) \in Int
    BY <1>1
  <2> QED BY <2>1, <2>2, SubSeqProperties
<1>6. RestOf(list, n) = SubSeq(list, k, Len(list))
  BY <1>4 DEF RestOf
<1> QED BY <1>3, <1>5, <1>6

\* Waking tasks keeps the types of pending and blocked.
LEMMA WakeType ==
    ASSUME ListsOK, NEW woken \in SUBSET Task, Wake(woken)
    PROVE  pending' \in SUBSET Task /\ blocked' \in [Task -> BOOLEAN]
BY DEF ListsOK, Wake

\* Waking receivers, or senders, keeps the types of the lists.
LEMMA WakeReceiversType ==
    ASSUME ListsOK, NEW n \in Nat, WakeReceivers(n)
    PROVE  ListsOK'
BY FirstAndRest, WakeType DEF WakeReceivers, ListsOK

\* The same for senders.
LEMMA WakeSendersType ==
    ASSUME ListsOK, NEW n \in Nat, WakeSenders(n)
    PROVE  ListsOK'
BY FirstAndRest, WakeType DEF WakeSenders, ListsOK
-----------------------------------------------------------------------------
(* The invariant and the steps.                                            *)

Operation == (Ops \ {"reset"}) \cup {"none"}
Limit == {"none", "limited", "forever", "expired"}

CallsOK ==
    /\ pc \in [Task -> PC]
    /\ op \in [Task -> Operation]
    /\ wait \in [Task -> Limit]

RestOK ==
    /\ holder \in Task \cup {NoTask}
    /\ delivered \in Stored
    /\ resetRoom \in BOOLEAN

Inv == TypeOK /\ PointersAgree

\* The invariant in parts, in this state and the next.
LEMMA InvParts ==
    /\ Inv <=> DataOK /\ LocksOK /\ ListsOK /\ CallsOK /\ RestOK
    /\ Inv' <=> DataOK' /\ LocksOK' /\ ListsOK' /\ CallsOK' /\ RestOK'
BY DEF Inv, TypeOK, DataOK, LocksOK, ListsOK, CallsOK, RestOK, Stored, Operation, Limit

\* A step of Queue: the invariant is kept, and the step is one of QueueSpec or
\* changes neither the messages nor what was delivered.
Refines == Inv' /\ (Abstract!AbsNext \/ UNCHANGED <<Contents, delivered>>)

\* Going on in a call keeps the types of the calls.
LEMMA GotoType ==
    ASSUME CallsOK, NEW t \in Task, NEW where \in PC, Goto(t, where)
    PROVE  CallsOK'
BY DEF CallsOK, Goto, callVars

\* The same for a return.
LEMMA ReturnType ==
    ASSUME CallsOK, NEW t \in Task, Return(t)
    PROVE  CallsOK'
BY DEF CallsOK, Return, PC, Operation, Limit

\* What a step leaves alone keeps its type.
LEMMA RestKept ==
    ASSUME RestOK, UNCHANGED <<delivered, resetRoom>>,
           holder' \in Task \cup {NoTask}
    PROVE  RestOK'
BY DEF RestOK

\* The same for the calls,
LEMMA CallsKept == ASSUME CallsOK, UNCHANGED <<pc, callVars>> PROVE CallsOK'
BY DEF CallsOK, callVars

\* for the lists,
LEMMA ListsKept == ASSUME ListsOK, UNCHANGED listVars PROVE ListsOK'
BY DEF ListsOK, listVars

\* and for the locks.
LEMMA LocksKept == ASSUME LocksOK, UNCHANGED lockVars PROVE LocksOK'
BY DEF LocksOK, lockVars

\* A step that leaves the storage alone and delivers nothing.
LEMMA Quiet ==
    ASSUME Inv, UNCHANGED <<dataVars, delivered>>,
           LocksOK', ListsOK', CallsOK', RestOK'
    PROVE  Refines
BY InvParts, Untouched DEF Refines

\* Each operation of QueueSpec is a step of it.
LEMMA AbsSteps ==
    /\ \A m \in Message :
         /\ Abstract!SendToBack(m) \/ Abstract!SendToFront(m) \/ Abstract!Overwrite(m)
         /\ UNCHANGED delivered
         => Abstract!AbsNext
    /\ Abstract!AbsReceive \/ Abstract!AbsPeek \/ Abstract!AbsReset => Abstract!AbsNext
BY DEF Abstract!AbsNext, Abstract!AbsSend

\* The critical section in which a send succeeds is one send of QueueSpec.
LEMMA SendStep ==
    ASSUME Inv, NEW t \in Task, NEW m \in Message, SendNow(t, m)
    PROVE  Refines
<1>1. DataOK /\ LocksOK /\ ListsOK /\ CallsOK /\ RestOK
  BY InvParts
<1>2. op[t] \in SendOps /\ (op[t] = "overwrite" => Length = 1)
  BY <1>1, QueueAssumption DEF SendNow, Sending, CallsOK, Operation
<1>3. /\ DataOK'
      /\ Abstract!SendToBack(m) \/ Abstract!SendToFront(m) \/ Abstract!Overwrite(m)
  BY <1>1, <1>2, CopyIsSend DEF SendNow
<1>4. UNCHANGED <<lockVars, holder, delivered>> /\ resetRoom' \in BOOLEAN
  BY DEF SendNow, KeepRoom
<1>5. LocksOK' /\ RestOK'
  BY <1>1, <1>4, LocksKept DEF RestOK
<1>6. ListsOK'
  BY <1>1, WakeReceiversType DEF SendNow
<1>7. CallsOK'
  BY <1>1, ReturnType DEF SendNow
<1> QED BY <1>3, <1>4, <1>5, <1>6, <1>7, InvParts, AbsSteps DEF Refines

\* The one in which a receive succeeds is one receive.
LEMMA ReceiveStep ==
    ASSUME Inv, NEW t \in Task, ReceiveNow(t)
    PROVE  Refines
<1>1. DataOK /\ LocksOK /\ ListsOK /\ CallsOK /\ RestOK
  BY InvParts
<1>2. DataOK' /\ delivered' \in Stored /\ Abstract!AbsReceive
  BY <1>1, TakeIsReceive DEF ReceiveNow
<1>3. UNCHANGED <<lockVars, holder, resetRoom>>
  BY DEF ReceiveNow
<1>4. LocksOK' /\ RestOK'
  BY <1>1, <1>2, <1>3, LocksKept DEF RestOK
<1>5. ListsOK'
  BY <1>1, WakeSendersType DEF ReceiveNow
<1>6. CallsOK'
  BY <1>1, ReturnType DEF ReceiveNow
<1> QED BY <1>2, <1>4, <1>5, <1>6, InvParts, AbsSteps DEF Refines

\* The one in which a peek succeeds is one peek.
LEMMA PeekStep ==
    ASSUME Inv, NEW t \in Task, PeekNow(t)
    PROVE  Refines
<1>1. DataOK /\ LocksOK /\ ListsOK /\ CallsOK /\ RestOK
  BY InvParts
<1>2. DataOK' /\ delivered' \in Stored /\ Abstract!AbsPeek
  BY <1>1, LookIsPeek DEF PeekNow
<1>3. UNCHANGED <<lockVars, holder, resetRoom>>
  BY DEF PeekNow
<1>4. LocksOK' /\ RestOK'
  BY <1>1, <1>2, <1>3, LocksKept DEF RestOK
<1>5. ListsOK'
  BY <1>1, WakeReceiversType DEF PeekNow
<1>6. CallsOK'
  BY <1>1, ReturnType DEF PeekNow
<1> QED BY <1>2, <1>4, <1>5, <1>6, InvParts, AbsSteps DEF Refines

\* xQueueGenericReset is one reset.
LEMMA ResetStep ==
    ASSUME Inv, NEW t \in Task, xQueueGenericReset(t)
    PROVE  Refines
<1>1. DataOK /\ LocksOK /\ ListsOK /\ CallsOK /\ RestOK
  BY InvParts
<1>2. DataOK' /\ Abstract!AbsReset
  BY <1>1, ResetIsReset
<1>3. LocksOK'
  BY LockType DEF xQueueGenericReset, LocksOK
<1>4. RestOK'
  BY <1>1 DEF xQueueGenericReset, RestOK
<1>5. ListsOK'
  BY <1>1, WakeSendersType DEF xQueueGenericReset
<1>6. CallsOK'
  BY <1>1, CallsKept DEF xQueueGenericReset
<1> QED BY <1>2, <1>3, <1>4, <1>5, <1>6, InvParts, AbsSteps DEF Refines

\* A send from a handler is one send, locked or not.
LEMMA SendFromISRStep ==
    ASSUME Inv, NEW m \in Message, NEW position \in Ops, xQueueGenericSendFromISR(m, position)
    PROVE  Refines
<1>1. DataOK /\ LocksOK /\ ListsOK /\ CallsOK /\ RestOK
  BY InvParts
<1>2. position \in SendOps /\ (position = "overwrite" => Length = 1)
  BY QueueAssumption DEF xQueueGenericSendFromISR
<1>3. /\ DataOK'
      /\ Abstract!SendToBack(m) \/ Abstract!SendToFront(m) \/ Abstract!Overwrite(m)
  BY <1>1, <1>2, CopyIsSend DEF xQueueGenericSendFromISR
<1>4. UNCHANGED <<cRxLock, callVars, holder, pc, delivered>> /\ resetRoom' \in BOOLEAN
  BY DEF xQueueGenericSendFromISR, KeepRoom
<1>5. RestOK' /\ CallsOK'
  BY <1>1, <1>4, CallsKept DEF RestOK
<1>6. CASE cTxLock = queueUNLOCKED
  <2>1. WakeReceivers(1) /\ UNCHANGED cTxLock
    BY <1>6 DEF xQueueGenericSendFromISR
  <2> QED BY <1>1, <1>3, <1>4, <1>5, <2>1, WakeReceiversType, InvParts, AbsSteps
          DEF Refines, LocksOK
<1>7. CASE cTxLock # queueUNLOCKED
  <2>1. cTxLock' = Int8(cTxLock + 1) /\ UNCHANGED listVars
    BY <1>7 DEF xQueueGenericSendFromISR
  <2>2. LocksOK'
    BY <1>1, <1>4, <2>1, Int8Type, LockType DEF LocksOK
  <2> QED BY <1>1, <1>3, <1>4, <1>5, <2>1, <2>2, ListsKept, InvParts, AbsSteps DEF Refines
<1> QED BY <1>6, <1>7

\* A receive from a handler is one receive, locked or not.
LEMMA ReceiveFromISRStep ==
    ASSUME Inv, xQueueReceiveFromISR
    PROVE  Refines
<1>1. DataOK /\ LocksOK /\ ListsOK /\ CallsOK /\ RestOK
  BY InvParts
<1>2. DataOK' /\ delivered' \in Stored /\ Abstract!AbsReceive
  BY <1>1, TakeIsReceive DEF xQueueReceiveFromISR
<1>3. UNCHANGED <<cTxLock, callVars, holder, pc, resetRoom>>
  BY DEF xQueueReceiveFromISR
<1>4. RestOK' /\ CallsOK'
  BY <1>1, <1>2, <1>3, CallsKept DEF RestOK
<1>5. CASE cRxLock = queueUNLOCKED
  <2>1. WakeSenders(1) /\ UNCHANGED cRxLock
    BY <1>5 DEF xQueueReceiveFromISR
  <2> QED BY <1>1, <1>2, <1>3, <1>4, <2>1, WakeSendersType, InvParts, AbsSteps
          DEF Refines, LocksOK
<1>6. CASE cRxLock # queueUNLOCKED
  <2>1. cRxLock' = Int8(cRxLock + 1) /\ UNCHANGED listVars
    BY <1>6 DEF xQueueReceiveFromISR
  <2>2. LocksOK'
    BY <1>1, <1>3, <2>1, Int8Type, LockType DEF LocksOK
  <2> QED BY <1>1, <1>2, <1>4, <2>1, <2>2, ListsKept, InvParts, AbsSteps DEF Refines
<1> QED BY <1>5, <1>6

\* The steps of a call that leave the storage alone.
LEMMA WaitingStep ==
    ASSUME Inv, NEW t \in Task,
           \/ NotNow(t) \/ vTaskSuspendAll(t) \/ prvLockQueue(t) \/ Test(t)
           \/ vTaskPlaceOnEventList(t)
    PROVE  Refines
<1>1. DataOK /\ LocksOK /\ ListsOK /\ CallsOK /\ RestOK
  BY InvParts
<1>2. {"look", "suspend", "lock", "test", "place", "unlockTx", "unlockRx", "recheck"} \subseteq PC
  BY DEF PC
<1>3. CASE NotNow(t)
  <2>1. UNCHANGED <<dataVars, lockVars, listVars, holder, delivered, resetRoom>>
    BY <1>3 DEF NotNow
  <2>2. CallsOK'
    BY <1>1, <1>2, <1>3, GotoType, ReturnType DEF NotNow
  <2>3. LocksOK' /\ ListsOK' /\ RestOK'
    BY <1>1, <2>1, LocksKept, ListsKept DEF RestOK
  <2> QED BY <2>1, <2>2, <2>3, Quiet
<1>4. CASE vTaskSuspendAll(t)
  <2>1. UNCHANGED <<dataVars, lockVars, listVars, delivered, resetRoom>> /\ holder' = t
    BY <1>4 DEF vTaskSuspendAll
  <2>2. CallsOK'
    BY <1>1, <1>2, <1>4, GotoType DEF vTaskSuspendAll
  <2>3. LocksOK' /\ ListsOK' /\ RestOK'
    BY <1>1, <2>1, LocksKept, ListsKept DEF RestOK
  <2> QED BY <2>1, <2>2, <2>3, Quiet
<1>5. CASE prvLockQueue(t)
  <2>1. UNCHANGED <<dataVars, listVars, holder, delivered, resetRoom>>
    BY <1>5 DEF prvLockQueue
  <2>2. CallsOK'
    BY <1>1, <1>2, <1>5, GotoType DEF prvLockQueue
  <2>3. LocksOK'
    BY <1>1, <1>5, LockType DEF prvLockQueue, Locked, LocksOK
  <2>4. ListsOK' /\ RestOK'
    BY <1>1, <2>1, ListsKept DEF RestOK
  <2> QED BY <2>1, <2>2, <2>3, <2>4, Quiet
<1>6. CASE Test(t)
  <2>1. UNCHANGED <<dataVars, lockVars, listVars, holder, delivered, resetRoom>>
    BY <1>6 DEF Test
  <2>2. CallsOK'
    BY <1>1, <1>2, <1>6, GotoType DEF Test
  <2>3. LocksOK' /\ ListsOK' /\ RestOK'
    BY <1>1, <2>1, LocksKept, ListsKept DEF RestOK
  <2> QED BY <2>1, <2>2, <2>3, Quiet
<1>7. CASE vTaskPlaceOnEventList(t)
  <2>1. UNCHANGED <<dataVars, lockVars, pending, holder, delivered, resetRoom>>
    BY <1>7 DEF vTaskPlaceOnEventList
  <2>2. CallsOK'
    BY <1>1, <1>2, <1>7, GotoType DEF vTaskPlaceOnEventList
  <2>3. ListsOK'
    BY <1>1, <1>7, <2>1, InsertSortedProperties DEF vTaskPlaceOnEventList, ListsOK
  <2>4. LocksOK' /\ RestOK'
    BY <1>1, <2>1, LocksKept DEF RestOK
  <2> QED BY <2>1, <2>2, <2>3, <2>4, Quiet
<1> QED BY <1>3, <1>4, <1>5, <1>6, <1>7

\* The same for unlocking, resuming the scheduler and looking again.
LEMMA ResumingStep ==
    ASSUME Inv, NEW t \in Task,
           UnlockTx(t) \/ UnlockRx(t) \/ xTaskResumeAll(t) \/ Recheck(t)
    PROVE  Refines
<1>1. DataOK /\ LocksOK /\ ListsOK /\ CallsOK /\ RestOK
  BY InvParts
<1>2. {"look", "unlockRx", "resume", "recheck"} \subseteq PC
  BY DEF PC
<1>3. CASE UnlockTx(t)
  <2>1. UNCHANGED <<dataVars, cRxLock, holder, delivered, resetRoom>>
    BY <1>3 DEF UnlockTx
  <2>2. Max({cTxLock, queueLOCKED_UNMODIFIED}) \in Nat
    BY <1>1, LockType, OwedType DEF LocksOK, queueLOCKED_UNMODIFIED
  <2>3. ListsOK'
    BY <1>1, <1>3, <2>2, WakeReceiversType DEF UnlockTx
  <2>4. CallsOK'
    BY <1>1, <1>2, <1>3, GotoType DEF UnlockTx
  <2>5. LocksOK' /\ RestOK'
    BY <1>1, <1>3, <2>1, LockType DEF UnlockTx, LocksOK, RestOK
  <2> QED BY <2>1, <2>3, <2>4, <2>5, Quiet
<1>4. CASE UnlockRx(t)
  <2>1. UNCHANGED <<dataVars, cTxLock, holder, delivered, resetRoom>>
    BY <1>4 DEF UnlockRx
  <2>2. Max({cRxLock, queueLOCKED_UNMODIFIED}) \in Nat
    BY <1>1, LockType, OwedType DEF LocksOK, queueLOCKED_UNMODIFIED
  <2>3. ListsOK'
    BY <1>1, <1>4, <2>2, WakeSendersType DEF UnlockRx
  <2>4. CallsOK'
    BY <1>1, <1>2, <1>4, GotoType DEF UnlockRx
  <2>5. LocksOK' /\ RestOK'
    BY <1>1, <1>4, <2>1, LockType DEF UnlockRx, LocksOK, RestOK
  <2> QED BY <2>1, <2>3, <2>4, <2>5, Quiet
<1>5. CASE xTaskResumeAll(t)
  <2>1. /\ UNCHANGED <<dataVars, lockVars, xTasksWaitingToSend, xTasksWaitingToReceive,
                       delivered, resetRoom>>
        /\ holder' = NoTask
    BY <1>5 DEF xTaskResumeAll
  <2>2. ListsOK'
    BY <1>1, <1>5, <2>1 DEF xTaskResumeAll, ListsOK
  <2>3. CallsOK'
    BY <1>1, <1>2, <1>5, GotoType, ReturnType DEF xTaskResumeAll
  <2>4. LocksOK' /\ RestOK'
    BY <1>1, <2>1, LocksKept DEF RestOK
  <2> QED BY <2>1, <2>2, <2>3, <2>4, Quiet
<1>6. CASE Recheck(t)
  <2>1. UNCHANGED <<dataVars, lockVars, listVars, holder, delivered, resetRoom>>
    BY <1>6 DEF Recheck
  <2>2. CallsOK'
    BY <1>1, <1>2, <1>6, GotoType, ReturnType DEF Recheck
  <2>3. LocksOK' /\ ListsOK' /\ RestOK'
    BY <1>1, <2>1, LocksKept, ListsKept DEF RestOK
  <2> QED BY <2>1, <2>2, <2>3, Quiet
<1> QED BY <1>3, <1>4, <1>5, <1>6

\* The beginning of a call changes no message.
LEMMA CallStep ==
    ASSUME Inv, NEW t \in Task, NEW o \in Ops, NEW w \in {"none", "limited", "forever"},
           Call(t, o, w)
    PROVE  Refines
<1>1. DataOK /\ LocksOK /\ ListsOK /\ CallsOK /\ RestOK
  BY InvParts
<1>2. UNCHANGED <<dataVars, lockVars, listVars, holder, delivered, resetRoom>>
  BY DEF Call
<1>3. CallsOK'
  BY <1>1 DEF Call, CallsOK, PC, Operation, Limit
<1>4. LocksOK' /\ ListsOK' /\ RestOK'
  BY <1>1, <1>2, LocksKept, ListsKept DEF RestOK
<1> QED BY <1>2, <1>3, <1>4, Quiet

\* The passing of a time limit changes no message.
LEMMA TimeStep ==
    ASSUME Inv, NEW t \in Task, TimePasses(t)
    PROVE  Refines
<1>1. DataOK /\ LocksOK /\ ListsOK /\ CallsOK /\ RestOK
  BY InvParts
<1>2. UNCHANGED <<dataVars, lockVars, op, pending, holder, pc, delivered, resetRoom>>
  BY DEF TimePasses
<1>3. CallsOK'
  BY <1>1, <1>2 DEF TimePasses, CallsOK, Limit
<1>4. ListsOK'
  BY <1>1, <1>2, WithoutProperties DEF TimePasses, ListsOK
<1>5. LocksOK' /\ RestOK'
  BY <1>1, <1>2, LocksKept DEF RestOK
<1> QED BY <1>2, <1>3, <1>4, <1>5, Quiet

\* Every step keeps the invariant and is a step of QueueSpec or none.
LEMMA NextStep == ASSUME Inv, Next PROVE Refines
<1>1. ASSUME NEW t \in Task, Proceed(t) PROVE Refines
  BY <1>1, SendStep, ReceiveStep, PeekStep, WaitingStep, ResumingStep DEF Proceed
<1> QED BY <1>1, CallStep, ResetStep, TimeStep, SendFromISRStep, ReceiveFromISRStep DEF Next

\* A new queue satisfies the invariant and holds nothing.
LEMMA InitInv == Init => Inv /\ Abstract!AbsInit
<1> SUFFICES ASSUME Init PROVE Inv /\ Abstract!AbsInit
  OBVIOUS
<1>1. Length \in Nat \ {0} /\ Length - 1 \in Slot /\ 0 \in Slot
  BY LengthPositive DEF Slot
<1>2. (Length - 1 + 0) % Length = Length - 1
  <2>1. Length - 1 + 0 = Length - 1 /\ Length - 1 \in 0 .. Length - 1
    BY <1>1
  <2> QED BY <1>1, <2>1, ModSmall
<1>3. After(Length - 1) = 0
  BY <1>1, SlotsAround
<1>4. DataOK
  BY <1>1, <1>2, <1>3 DEF Init, DataOK, Stored, PointersAgree
<1>5. LocksOK /\ ListsOK
  BY LockType, EmptySeq DEF Init, LocksOK, ListsOK
<1>6. CallsOK /\ RestOK
  BY DEF Init, CallsOK, RestOK, PC, Operation, Limit, Stored
<1>7. Contents = <<>>
  BY <1>1, <1>4, ReadingNothing, ContentsIsReading DEF Init, DataOK
<1> QED BY <1>4, <1>5, <1>6, <1>7, InvParts DEF Init, Abstract!AbsInit

\* Doing nothing is doing nothing.
LEMMA StutterStep == ASSUME Inv, UNCHANGED vars PROVE Refines
<1>1. DataOK /\ LocksOK /\ ListsOK /\ CallsOK /\ RestOK
  BY InvParts
<1>2. /\ UNCHANGED <<dataVars, lockVars, listVars, callVars, pc, delivered, resetRoom>>
      /\ holder' = holder
  BY DEF vars
<1>3. LocksOK' /\ ListsOK' /\ CallsOK' /\ RestOK'
  BY <1>1, <1>2, LocksKept, ListsKept, CallsKept DEF RestOK
<1> QED BY <1>2, <1>3, Quiet

\* The invariant holds in every state of every queue.
THEOREM QueueInvariant == Spec => []Inv
<1>1. Inv /\ [Next]_vars => Inv'
  BY NextStep, StutterStep DEF Refines
<1> QED BY <1>1, InitInv, PTL DEF Spec

\* Types: the counter never leaves 0 .. uxLength, the pointers never leave the
\* storage, whatever the length and whoever sends and receives.
THEOREM TypesKept == Spec => []TypeOK
<1>1. Inv => TypeOK
  BY DEF Inv
<1> QED BY <1>1, QueueInvariant, PTL

\* A queue of any length with any tasks and handlers is a bounded sequence of
\* messages: the queue of queue.c implements QueueSpec.
THEOREM QueueImplementsSpec == Spec => ImplementsQueueSpec
<1>1. Inv /\ [Next]_vars => [Abstract!AbsNext]_(Abstract!absVars)
  BY NextStep, StutterStep DEF Refines, Abstract!absVars
<1> QED BY <1>1, InitInv, QueueInvariant, PTL DEF Spec, ImplementsQueueSpec, Abstract!AbsSpec
-----------------------------------------------------------------------------
(* Counting the tasks that are woken.                                      *)

\* Waking the first n of a list: they leave it, no other task does.
LEMMA WokenExact ==
    ASSUME NEW list \in Seq(Task), IsInjective(list), NEW n \in Nat
    PROVE  /\ FirstOf(list, n) \subseteq Task
           /\ RestOf(list, n) \in Seq(Task) /\ IsInjective(RestOf(list, n))
           /\ \A y : Contains(list, y)
                       <=> y \in FirstOf(list, n) \/ Contains(RestOf(list, n), y)
           /\ \A y \in FirstOf(list, n) : ~Contains(RestOf(list, n), y)
           /\ RestOf(list, n) # <<>> => Cardinality(FirstOf(list, n)) = n
<1>1. /\ Len(list) \in Nat /\ \A i \in 1 .. Len(list) : list[i] \in Task
      /\ \A i, j \in 1 .. Len(list) : list[i] = list[j] => i = j
  BY LenProperties, ElementOfSeq DEF IsInjective
<1>2. PICK m : m = Min({n, Len(list)})
  OBVIOUS
<1>3. m \in Nat /\ m <= n /\ m <= Len(list) /\ (m < Len(list) => m = n)
  BY <1>1, <1>2, MinOfTwo
<1>4. FirstOf(list, n) = {list[i] : i \in 1 .. m}
  BY <1>2 DEF FirstOf
<1>5. PICK rest : rest = SubSeq(list, m + 1, Len(list))
  OBVIOUS
<1>6. /\ rest \in Seq(Task) /\ Len(rest) = Len(list) - m
      /\ \A k \in 1 .. Len(list) - m : rest[k] = list[m + k]
  <2>1. \A i \in m + 1 .. Len(list) : list[i] \in Task
    BY <1>1, <1>3
  <2>2. m + 1 \in Int /\ Len(list) \in Int
    BY <1>1, <1>3
  <2>3. /\ SubSeq(list, m + 1, Len(list)) \in Seq(Task)
        /\ Len(SubSeq(list, m + 1, Len(list)))
             = IF m + 1 <= Len(list) THEN Len(list) - (m + 1) + 1 ELSE 0
        /\ \A i \in 1 .. Len(list) - (m + 1) + 1 :
             SubSeq(list, m + 1, Len(list))[i] = list[m + 1 + i - 1]
    BY <2>1, <2>2, SubSeqProperties
  <2> QED BY <1>1, <1>3, <1>5, <2>3
<1>7. RestOf(list, n) = rest
  BY <1>2, <1>5 DEF RestOf
<1>8. IsInjective(rest)
  <2>1. \A i, j \in 1 .. Len(rest) : rest[i] = rest[j] => i = j
    BY <1>1, <1>3, <1>6
  <2>2. DOMAIN rest = 1 .. Len(rest)
    BY <1>6, LenProperties
  <2> QED BY <2>1, <2>2 DEF IsInjective
<1>9. \A y : Contains(list, y) <=> y \in FirstOf(list, n) \/ Contains(rest, y)
  <2>1. ASSUME NEW i \in 1 .. Len(list)
        PROVE  \/ i \in 1 .. m
               \/ i - m \in 1 .. Len(rest) /\ rest[i - m] = list[i]
    BY <1>1, <1>3, <1>6
  <2>2. ASSUME NEW k \in 1 .. Len(rest)
        PROVE  m + k \in 1 .. Len(list) /\ rest[k] = list[m + k]
    BY <1>1, <1>3, <1>6
  <2>3. \A i \in 1 .. m : i \in 1 .. Len(list)
    BY <1>1, <1>3
  <2> QED BY <1>4, <2>1, <2>2, <2>3 DEF Contains
<1>10. \A y \in FirstOf(list, n) : ~Contains(rest, y)
  <2>1. ASSUME NEW i \in 1 .. m, NEW k \in 1 .. Len(rest), list[i] = rest[k]
        PROVE  FALSE
    BY <1>1, <1>3, <1>6, <2>1
  <2> QED BY <1>4, <2>1 DEF Contains
<1>11. ASSUME rest # <<>> PROVE Cardinality(FirstOf(list, n)) = n
  <2>1. m = n
    BY <1>3, <1>6, <1>11, EmptySeq
  <2>2. PICK f : f = [i \in 1 .. m |-> list[i]]
    OBVIOUS
  <2>3. f \in Bijection(1 .. m, FirstOf(list, n))
    BY <1>1, <1>3, <1>4, <2>2 DEF Bijection, Injection, Surjection, IsInjective
  <2>4. IsFiniteSet(1 .. m) /\ Cardinality(1 .. m) = m
    BY <1>3, FS_Interval
  <2>5. Cardinality(FirstOf(list, n)) = m
    BY <2>3, <2>4, FS_Bijection DEF ExistsBijection
  <2> QED BY <2>1, <2>5
<1> QED BY <1>1, <1>3, <1>4, <1>6, <1>7, <1>8, <1>9, <1>10, <1>11

\* A set that gains w and keeps all it had grows by the size of w,
LEMMA CountGrows ==
    ASSUME NEW A \in SUBSET Task, NEW W \in SUBSET Task, NEW B \in SUBSET Task,
           A \subseteq B, W \subseteq B, A \cap W = {}
    PROVE  /\ Cardinality(A) \in Nat /\ Cardinality(B) \in Nat /\ Cardinality(W) \in Nat
           /\ Cardinality(A) + Cardinality(W) <= Cardinality(B)
<1>1. IsFiniteSet(A) /\ IsFiniteSet(W) /\ IsFiniteSet(B)
  BY QueueAssumption, FS_Subset
<1>2. /\ IsFiniteSet(A \cup W) /\ IsFiniteSet(A \cap W)
      /\ Cardinality(A \cup W) = Cardinality(A) + Cardinality(W) - Cardinality(A \cap W)
  BY <1>1, FS_Union, FS_Subset
<1>3. Cardinality(A \cap W) = 0
  BY FS_EmptySet
<1>4. Cardinality(A \cup W) <= Cardinality(B)
  BY <1>1, FS_Subset
<1> QED BY <1>1, <1>2, <1>3, <1>4, FS_CardinalityType

\* or, if it loses one task, by one less.
LEMMA CountGrowsLessOne ==
    ASSUME NEW A \in SUBSET Task, NEW W \in SUBSET Task, NEW B \in SUBSET Task,
           NEW t, A \ {t} \subseteq B, W \subseteq B, A \cap W = {}
    PROVE  /\ Cardinality(A) \in Nat /\ Cardinality(B) \in Nat /\ Cardinality(W) \in Nat
           /\ Cardinality(A) + Cardinality(W) <= Cardinality(B) + 1
<1>1. IsFiniteSet(A)
  BY QueueAssumption, FS_Subset
<1>2. /\ Cardinality(A) \in Nat
      /\ Cardinality(A \ {t}) = IF t \in A THEN Cardinality(A) - 1 ELSE Cardinality(A)
  BY <1>1, FS_RemoveElement, FS_CardinalityType
<1>3. A \ {t} \in SUBSET Task /\ (A \ {t}) \cap W = {}
  OBVIOUS
<1>4. /\ Cardinality(A \ {t}) \in Nat /\ Cardinality(B) \in Nat /\ Cardinality(W) \in Nat
      /\ Cardinality(A \ {t}) + Cardinality(W) <= Cardinality(B)
  BY <1>3, CountGrows
<1> QED BY <1>2, <1>4
-----------------------------------------------------------------------------
(* No wake-up is forgotten.                                                *)

Suspending == {"lock", "test", "place", "unlockTx", "unlockRx", "resume"}

\* The task that called vTaskSuspendAll is the one between it and xTaskResumeAll, and
\* the two locks are held from prvLockQueue to the halves of prvUnlockQueue.
Locking ==
    /\ \A t \in Task : holder = t <=> pc[t] \in Suspending
    /\ cTxLock >= queueUNLOCKED /\ cRxLock >= queueUNLOCKED
    /\ cTxLock # queueUNLOCKED <=> \E t \in Task : pc[t] \in {"test", "place", "unlockTx"}
    /\ cRxLock # queueUNLOCKED
         <=> \E t \in Task : pc[t] \in {"test", "place", "unlockTx", "unlockRx"}

\* A task that was put to sleep, and has not been made ready since, looks at the queue
\* when it runs again.  It waits in one list only, and a list for what it does.
Asleep(t) ==
    \/ Contains(xTasksWaitingToSend, t)
    \/ Contains(xTasksWaitingToReceive, t)
    \/ t \in pending

Sleeping ==
    /\ \A t \in Task : Asleep(t) =>
         /\ blocked[t] /\ wait[t] # "expired"
         /\ pc[t] \in {"look", "unlockTx", "unlockRx", "resume"}
    /\ \A t \in pending : /\ ~Contains(xTasksWaitingToSend, t)
                          /\ ~Contains(xTasksWaitingToReceive, t)
    /\ \A t \in Task : Contains(xTasksWaitingToSend, t) => Sending(t)
    /\ \A t \in Task : Contains(xTasksWaitingToReceive, t) => ~Sending(t)
    /\ IsInjective(xTasksWaitingToSend) /\ IsInjective(xTasksWaitingToReceive)
    /\ holder = NoTask => pending = {}

\* A task that locked the queue to wait had time left, and what prvIsQueueFull or
\* prvIsQueueEmpty found for it, the handlers have changed since by no more than the lock
\* counts say.
Tested ==
    /\ \A t \in Task : pc[t] \in {"test", "place"} => wait[t] # "expired"
    /\ \A t \in Task : pc[t] = "place" =>
         IF Sending(t) THEN Length - uxMessagesWaiting <= cRxLock
         ELSE uxMessagesWaiting <= cTxLock

\* The receivers, and the senders, that will look at the queue.
Receivers == {t \in WillLook(xTasksWaitingToReceive) : ~Sending(t)}
Senders == {t \in WillLook(xTasksWaitingToSend) : Sending(t)}

Owed(lock) == IF lock > 0 THEN lock ELSE 0

\* What the inductive invariant adds to Inv.
Wakes == Locking /\ Sleeping /\ Tested /\ NoReceiverForgotten /\ NoSenderForgotten

\* The two properties with their counts.
LEMMA ForgottenParts ==
    ASSUME LocksOK, LocksOK'
    PROVE  /\ NoReceiverForgotten
                <=> (xTasksWaitingToReceive # <<>> =>
                       uxMessagesWaiting <= Cardinality(Receivers) + Owed(cTxLock))
           /\ NoReceiverForgotten'
                <=> (xTasksWaitingToReceive' # <<>> =>
                       uxMessagesWaiting' <= Cardinality(Receivers') + Owed(cTxLock'))
           /\ NoSenderForgotten
                <=> (xTasksWaitingToSend # <<>> /\ ~resetRoom =>
                       Length - uxMessagesWaiting <= Cardinality(Senders) + Owed(cRxLock))
           /\ NoSenderForgotten'
                <=> (xTasksWaitingToSend' # <<>> /\ ~resetRoom' =>
                       Length - uxMessagesWaiting' <= Cardinality(Senders') + Owed(cRxLock'))
<1>1. /\ cTxLock \in Int /\ cRxLock \in Int /\ cTxLock' \in Int /\ cRxLock' \in Int
  BY LockType DEF LocksOK
<1>2. /\ Max({cTxLock, 0}) = Owed(cTxLock) /\ Max({cRxLock, 0}) = Owed(cRxLock)
      /\ Max({cTxLock', 0}) = Owed(cTxLock') /\ Max({cRxLock', 0}) = Owed(cRxLock')
  BY <1>1, OwedType DEF Owed
<1> QED BY <1>2 DEF NoReceiverForgotten, NoSenderForgotten, Receivers, Senders

\* The sets are sets of tasks.
LEMMA LookersAreTasks ==
    /\ Receivers \in SUBSET Task /\ Receivers' \in SUBSET Task
    /\ Senders \in SUBSET Task /\ Senders' \in SUBSET Task
    /\ \A t : t \in Receivers <=> /\ t \in Task /\ ~Contains(xTasksWaitingToReceive, t)
                                  /\ ~Sending(t) /\ (pc[t] = "look" \/ t \in pending)
    /\ \A t : t \in Receivers' <=> /\ t \in Task /\ ~Contains(xTasksWaitingToReceive', t)
                                   /\ ~Sending(t)' /\ (pc'[t] = "look" \/ t \in pending')
    /\ \A t : t \in Senders <=> /\ t \in Task /\ ~Contains(xTasksWaitingToSend, t)
                                /\ Sending(t) /\ (pc[t] = "look" \/ t \in pending)
    /\ \A t : t \in Senders' <=> /\ t \in Task /\ ~Contains(xTasksWaitingToSend', t)
                                 /\ Sending(t)' /\ (pc'[t] = "look" \/ t \in pending')
BY DEF Receivers, Senders, WillLook

\* A task that runs holds the scheduler suspended, or nobody does; it is not asleep, but
\* for the one that has just put itself into an event list.
LEMMA WhoRuns ==
    ASSUME RestOK, Locking, Sleeping, NEW t \in Task, NEW where, At(t, where)
    PROVE  /\ where \in Suspending => holder = t
           /\ where \notin Suspending => holder = NoTask /\ pending = {}
           /\ where \notin {"unlockTx", "unlockRx", "resume"} => ~Asleep(t)
           /\ pc[t] = where
<1>1. pc[t] = where /\ (holder = t <=> where \in Suspending) /\ NoTask \notin Task
      /\ holder \in {NoTask, t} /\ (holder = t \/ ~blocked[t])
  BY QueueAssumption DEF At, Locking
<1>2. holder # t => holder = NoTask /\ pending = {}
  BY <1>1 DEF Sleeping
<1>3. Asleep(t) => blocked[t] /\ where \in {"look", "unlockTx", "unlockRx", "resume"}
  BY <1>1 DEF Sleeping
<1> QED BY <1>1, <1>2, <1>3 DEF Suspending

\* A step outside vTaskSuspendAll leaves the locks as they are.
LEMMA LockingSame ==
    ASSUME Locking, UNCHANGED <<holder, cTxLock, cRxLock>>,
           \A u \in Task : \/ pc'[u] = pc[u]
                           \/ pc[u] \notin Suspending /\ pc'[u] \notin Suspending
    PROVE  Locking'
<1>1. {"test", "place", "unlockTx", "unlockRx"} \subseteq Suspending
  BY DEF Suspending
<1>2. /\ \A u \in Task : pc'[u] \in Suspending <=> pc[u] \in Suspending
      /\ \A u \in Task : pc'[u] \in {"test", "place", "unlockTx"}
                           <=> pc[u] \in {"test", "place", "unlockTx"}
      /\ \A u \in Task : pc'[u] \in {"test", "place", "unlockTx", "unlockRx"}
                           <=> pc[u] \in {"test", "place", "unlockTx", "unlockRx"}
  BY <1>1
<1> QED BY <1>2 DEF Locking

\* A lock count that a handler adds to does not wrap.
LEMMA CountsUp ==
    ASSUME NEW n \in Nat, n <= Int8Max
    PROVE  Int8(n) = n
<1>1. Int8Max \in Nat \ {0}
  BY QueueAssumption
<1>2. 2 * (Int8Max + 1) \in Nat \ {0}
      /\ n + Int8Max + 1 \in 0 .. (2 * (Int8Max + 1)) - 1
  BY <1>1
<1>3. (n + Int8Max + 1) % (2 * (Int8Max + 1)) = n + Int8Max + 1
  BY <1>2, ModSmall
<1> QED BY <1>1, <1>3 DEF Int8

\* The lock counts in a step of a handler: nothing, or one more while locked.
LEMMA HandlerLocking ==
    ASSUME MaxLockCount <= Int8Max, LocksOK, Locking, UNCHANGED <<holder, pc>>,
           \/ UNCHANGED cTxLock
           \/ /\ cTxLock # queueUNLOCKED /\ cTxLock < MaxLockCount
              /\ cTxLock' = Int8(cTxLock + 1),
           \/ UNCHANGED cRxLock
           \/ /\ cRxLock # queueUNLOCKED /\ cRxLock < MaxLockCount
              /\ cRxLock' = Int8(cRxLock + 1)
    PROVE  /\ Locking'
           /\ cTxLock' = cTxLock \/ (cTxLock >= 0 /\ cTxLock' = cTxLock + 1)
           /\ cRxLock' = cRxLock \/ (cRxLock >= 0 /\ cRxLock' = cRxLock + 1)
<1>1. /\ cTxLock \in Int /\ cRxLock \in Int /\ MaxLockCount \in Nat /\ Int8Max \in Nat
      /\ queueUNLOCKED = -1
  BY LockType, QueueAssumption DEF LocksOK, queueUNLOCKED
<1>2. ASSUME NEW lock \in Int, lock >= queueUNLOCKED, lock # queueUNLOCKED,
             lock < MaxLockCount
      PROVE  lock >= 0 /\ Int8(lock + 1) = lock + 1
  <2>1. lock + 1 \in Nat /\ lock + 1 <= Int8Max /\ lock >= 0
    BY <1>1, <1>2
  <2> QED BY <2>1, CountsUp
<1>3. /\ cTxLock' = cTxLock \/ (cTxLock >= 0 /\ cTxLock' = cTxLock + 1)
      /\ cRxLock' = cRxLock \/ (cRxLock >= 0 /\ cRxLock' = cRxLock + 1)
  BY <1>1, <1>2 DEF Locking
<1>4. /\ cTxLock' >= queueUNLOCKED /\ cRxLock' >= queueUNLOCKED
      /\ cTxLock' # queueUNLOCKED <=> cTxLock # queueUNLOCKED
      /\ cRxLock' # queueUNLOCKED <=> cRxLock # queueUNLOCKED
  BY <1>1, <1>3 DEF Locking
<1> QED BY <1>3, <1>4 DEF Locking

\* The scheduler is suspended and the queue locked as Locking says, after every step.
LEMMA LockingKept ==
    ASSUME MaxLockCount <= Int8Max, Inv, Locking, Sleeping, Next
    PROVE  Locking'
<1>1. LocksOK /\ CallsOK /\ RestOK /\ NoTask \notin Task
  BY InvParts, QueueAssumption
<1>2. /\ queueUNLOCKED = -1 /\ queueLOCKED_UNMODIFIED = 0
      /\ cTxLock \in Int /\ cRxLock \in Int
  BY <1>1, LockType DEF LocksOK, queueUNLOCKED, queueLOCKED_UNMODIFIED
<1>3. ASSUME NEW t \in Task,
             \/ \E o \in Ops, w \in {"none", "limited", "forever"} : Call(t, o, w)
             \/ \E m \in Message : SendNow(t, m)
             \/ ReceiveNow(t) \/ PeekNow(t) \/ NotNow(t) \/ Recheck(t)
      PROVE  Locking'
  <2>1. /\ UNCHANGED <<holder, lockVars>>
        /\ pc[t] \in {"out", "look", "recheck"}
        /\ \E where \in {"out", "look", "recheck", "suspend"} : pc' = [pc EXCEPT ![t] = where]
    BY <1>3 DEF Call, SendNow, ReceiveNow, PeekNow, NotNow, Recheck, At, Goto, Return
  <2> QED BY <1>1, <2>1, LockingSame DEF lockVars, CallsOK, Suspending
<1>4. ASSUME NEW t \in Task, vTaskSuspendAll(t) PROVE Locking'
  <2>1. At(t, "suspend") /\ holder' = t /\ pc' = [pc EXCEPT ![t] = "lock"]
        /\ UNCHANGED <<cTxLock, cRxLock>>
    BY <1>4 DEF vTaskSuspendAll, Goto, lockVars
  <2>2. holder = NoTask /\ pc[t] = "suspend"
    BY <1>1, <2>1, WhoRuns DEF Suspending
  <2>3. \A u \in Task : holder' = u <=> pc'[u] \in Suspending
    BY <1>1, <2>1, <2>2 DEF Locking, CallsOK, Suspending
  <2>4. /\ \A u \in Task : pc'[u] \in {"test", "place", "unlockTx"}
                             <=> pc[u] \in {"test", "place", "unlockTx"}
        /\ \A u \in Task : pc'[u] \in {"test", "place", "unlockTx", "unlockRx"}
                             <=> pc[u] \in {"test", "place", "unlockTx", "unlockRx"}
    BY <1>1, <2>1, <2>2 DEF CallsOK
  <2> QED BY <2>1, <2>3, <2>4 DEF Locking
<1>5. ASSUME NEW t \in Task, prvLockQueue(t) PROVE Locking'
  <2>1. /\ At(t, "lock") /\ cTxLock' = Locked(cTxLock) /\ cRxLock' = Locked(cRxLock)
        /\ UNCHANGED holder
        /\ \E where \in {"test", "unlockTx"} : pc' = [pc EXCEPT ![t] = where]
    BY <1>5 DEF prvLockQueue, Goto
  <2>2. pc[t] = "lock" /\ pc'[t] \in {"test", "unlockTx"} /\ \A u \in Task \ {t} : pc'[u] = pc[u]
    BY <1>1, <2>1 DEF At, CallsOK
  <2>3. cTxLock' >= 0 /\ cRxLock' >= 0 /\ cTxLock' \in Int /\ cRxLock' \in Int
    BY <1>2, <2>1 DEF Locked, Locking
  <2>4. \A u \in Task : holder' = u <=> pc'[u] \in Suspending
    BY <2>1, <2>2 DEF Locking, Suspending
  <2> QED BY <1>2, <2>2, <2>3, <2>4 DEF Locking
<1>6. ASSUME NEW t \in Task, Test(t) \/ vTaskPlaceOnEventList(t) PROVE Locking'
  <2>1. /\ pc[t] \in {"test", "place"} /\ UNCHANGED <<holder, cTxLock, cRxLock>>
        /\ \E where \in {"place", "unlockTx"} : pc' = [pc EXCEPT ![t] = where]
    BY <1>6 DEF Test, vTaskPlaceOnEventList, Goto, At, lockVars
  <2>2. pc'[t] \in {"place", "unlockTx"} /\ \A u \in Task \ {t} : pc'[u] = pc[u]
    BY <1>1, <2>1 DEF CallsOK
  <2>3. \A u \in Task : holder' = u <=> pc'[u] \in Suspending
    BY <2>1, <2>2 DEF Locking, Suspending
  <2> QED BY <2>1, <2>2, <2>3 DEF Locking
<1>7. ASSUME NEW t \in Task, UnlockTx(t) PROVE Locking'
  <2>1. /\ pc[t] = "unlockTx" /\ UNCHANGED <<holder, cRxLock>> /\ cTxLock' = queueUNLOCKED
        /\ pc' = [pc EXCEPT ![t] = "unlockRx"]
    BY <1>7 DEF UnlockTx, Goto, At
  <2>2. pc'[t] = "unlockRx" /\ \A u \in Task \ {t} : pc'[u] = pc[u]
    BY <1>1, <2>1 DEF CallsOK
  <2>3. \A u \in Task : holder' = u <=> pc'[u] \in Suspending
    BY <2>1, <2>2 DEF Locking, Suspending
  <2>4. \A u \in Task : pc'[u] \notin {"test", "place", "unlockTx"}
    BY <2>1, <2>2 DEF Locking, Suspending
  <2> QED BY <1>2, <2>1, <2>2, <2>3, <2>4 DEF Locking
<1>8. ASSUME NEW t \in Task, UnlockRx(t) PROVE Locking'
  <2>1. /\ pc[t] = "unlockRx" /\ UNCHANGED <<holder, cTxLock>> /\ cRxLock' = queueUNLOCKED
        /\ pc' = [pc EXCEPT ![t] = "resume"]
    BY <1>8 DEF UnlockRx, Goto, At
  <2>2. pc'[t] = "resume" /\ \A u \in Task \ {t} : pc'[u] = pc[u]
    BY <1>1, <2>1 DEF CallsOK
  <2>3. \A u \in Task : holder' = u <=> pc'[u] \in Suspending
    BY <2>1, <2>2 DEF Locking, Suspending
  <2>4. \A u \in Task : pc'[u] \notin {"test", "place", "unlockTx", "unlockRx"}
    BY <2>1, <2>2 DEF Locking, Suspending
  <2>5. cTxLock' = queueUNLOCKED
    BY <2>1, <2>2, <2>4 DEF Locking, Suspending
  <2> QED BY <1>2, <2>1, <2>3, <2>4, <2>5 DEF Locking
<1>9. ASSUME NEW t \in Task, xTaskResumeAll(t) PROVE Locking'
  <2>1. /\ pc[t] = "resume" /\ UNCHANGED <<cTxLock, cRxLock>> /\ holder' = NoTask
        /\ \E where \in {"look", "out", "recheck"} : pc' = [pc EXCEPT ![t] = where]
    BY <1>9 DEF xTaskResumeAll, Goto, Return, At, lockVars
  <2>2. pc'[t] \in {"look", "out", "recheck"} /\ \A u \in Task \ {t} : pc'[u] = pc[u]
    BY <1>1, <2>1 DEF CallsOK
  <2>3. \A u \in Task : holder = u <=> u = t
    BY <2>1 DEF Locking, Suspending
  <2>4. \A u \in Task : holder' = u <=> pc'[u] \in Suspending
    BY <1>1, <2>1, <2>2, <2>3 DEF Locking, Suspending
  <2> QED BY <2>1, <2>2, <2>4 DEF Locking
<1>10. ASSUME NEW t \in Task, xQueueGenericReset(t) PROVE Locking'
  <2>1. At(t, "out") /\ UNCHANGED <<holder, pc>> /\ cTxLock' = queueUNLOCKED
        /\ cRxLock' = queueUNLOCKED
    BY <1>10 DEF xQueueGenericReset
  <2>2. holder = NoTask
    BY <1>1, <2>1, WhoRuns DEF Suspending
  <2>3. \A u \in Task : pc[u] \notin Suspending
    BY <1>1, <2>2 DEF Locking
  <2>4. \A u \in Task : pc[u] \notin {"test", "place", "unlockTx", "unlockRx"}
    BY <2>3 DEF Suspending
  <2> QED BY <1>2, <2>1, <2>4 DEF Locking
<1>11. ASSUME NEW t \in Task, TimePasses(t) PROVE Locking'
  BY <1>11 DEF TimePasses, lockVars, Locking
<1>12. ASSUME NEW m \in Message, NEW o \in Ops, xQueueGenericSendFromISR(m, o)
       PROVE  Locking'
  <2>1. /\ UNCHANGED <<holder, pc, cRxLock>>
        /\ \/ UNCHANGED cTxLock
           \/ /\ cTxLock # queueUNLOCKED /\ cTxLock < MaxLockCount
              /\ cTxLock' = Int8(cTxLock + 1)
    BY <1>12 DEF xQueueGenericSendFromISR
  <2> QED BY <1>1, <2>1, HandlerLocking
<1>13. CASE xQueueReceiveFromISR
  <2>1. /\ UNCHANGED <<holder, pc, cTxLock>>
        /\ \/ UNCHANGED cRxLock
           \/ /\ cRxLock # queueUNLOCKED /\ cRxLock < MaxLockCount
              /\ cRxLock' = Int8(cRxLock + 1)
    BY <1>13 DEF xQueueReceiveFromISR
  <2> QED BY <1>1, <2>1, HandlerLocking
<1> QED BY <1>3, <1>4, <1>5, <1>6, <1>7, <1>8, <1>9, <1>10, <1>11, <1>12, <1>13
        DEF Next, Proceed

\* The calls of the sleeping tasks stand still, but for the one that put itself to sleep.
Calm == \A u \in Task : Asleep(u) =>
          /\ op'[u] = op[u] /\ wait'[u] = wait[u]
          /\ pc'[u] \in {"look", "unlockTx", "unlockRx", "resume"}

\* Waking tasks leaves the others asleep.
LEMMA WakeSleeping ==
    ASSUME ListsOK, RestOK, Sleeping, Calm, UNCHANGED holder,
           NEW W \in SUBSET Task, Wake(W),
           \A u \in W : Asleep(u),
           \A u \in Task : Contains(xTasksWaitingToSend', u)
                             => Contains(xTasksWaitingToSend, u) /\ u \notin W,
           \A u \in Task : Contains(xTasksWaitingToReceive', u)
                             => Contains(xTasksWaitingToReceive, u) /\ u \notin W,
           IsInjective(xTasksWaitingToSend'), IsInjective(xTasksWaitingToReceive')
    PROVE  Sleeping'
<1>1. pending \in SUBSET Task /\ pending' \in SUBSET Task /\ pending' \subseteq pending \cup W
      /\ (holder = NoTask => pending' = {})
  BY DEF ListsOK, Wake, Sleeping
<1>2. ASSUME NEW u \in Task, Asleep(u)'
      PROVE  Asleep(u) /\ (u \in W => holder # NoTask)
  <2>1. CASE u \in pending'
    BY <1>1, <2>1 DEF Asleep
  <2>2. CASE u \notin pending'
    BY <1>2, <2>2 DEF Asleep
  <2> QED BY <2>1, <2>2
<1>3. ASSUME NEW u \in Task, Asleep(u)'
      PROVE  blocked'[u]
  <2>1. blocked[u]
    BY <1>2, <1>3 DEF Sleeping
  <2>2. CASE holder = NoTask
    <3>1. blocked' = [t \in Task |-> blocked[t] /\ t \notin W] /\ u \notin W
      BY <1>2, <1>3, <2>2 DEF Wake
    <3> QED BY <2>1, <3>1
  <2>3. CASE holder # NoTask
    BY <2>1, <2>3 DEF Wake
  <2> QED BY <2>2, <2>3
<1>4. ASSUME NEW u \in Task, Asleep(u)'
      PROVE  /\ blocked'[u] /\ wait'[u] # "expired"
             /\ pc'[u] \in {"look", "unlockTx", "unlockRx", "resume"}
  BY <1>2, <1>3, <1>4 DEF Sleeping, Calm
<1>5. \A u \in pending' : /\ ~Contains(xTasksWaitingToSend', u)
                          /\ ~Contains(xTasksWaitingToReceive', u)
  BY <1>1 DEF Sleeping
<1>6. ASSUME NEW u \in Task PROVE
        /\ Contains(xTasksWaitingToSend', u) => Sending(u)'
        /\ Contains(xTasksWaitingToReceive', u) => ~Sending(u)'
  BY DEF Sleeping, Sending, Calm, Asleep
<1>7. holder' = NoTask => pending' = {}
  BY <1>1
<1> QED BY <1>4, <1>5, <1>6, <1>7 DEF Sleeping

\* The same when nobody is woken.
LEMMA SleepersStay ==
    ASSUME ListsOK, Sleeping, Calm, UNCHANGED listVars, holder' = NoTask => pending = {}
    PROVE  Sleeping'
<1>1. UNCHANGED <<xTasksWaitingToSend, xTasksWaitingToReceive, pending, blocked>>
  BY DEF listVars
<1>2. \A u \in Task : Asleep(u)' <=> Asleep(u)
  BY <1>1 DEF Asleep
<1>3. ASSUME NEW u \in Task, Asleep(u)'
      PROVE  /\ blocked'[u] /\ wait'[u] # "expired"
             /\ pc'[u] \in {"look", "unlockTx", "unlockRx", "resume"}
  BY <1>1, <1>2, <1>3 DEF Sleeping, Calm
<1>4. ASSUME NEW u \in Task PROVE
        /\ Contains(xTasksWaitingToSend', u) => Sending(u)'
        /\ Contains(xTasksWaitingToReceive', u) => ~Sending(u)'
  BY <1>1 DEF Sleeping, Sending, Calm, Asleep
<1> QED BY <1>1, <1>3, <1>4 DEF Sleeping

\* A step of a task that is not asleep, in which no other call goes on, is calm.
LEMMA OneGoesOn ==
    ASSUME CallsOK, Sleeping, NEW t \in Task, ~Asleep(t),
           \E where, o, w : /\ pc' = [pc EXCEPT ![t] = where]
                            /\ op' = [op EXCEPT ![t] = o]
                            /\ wait' = [wait EXCEPT ![t] = w]
    PROVE  Calm
<1>1. \A u \in Task : u # t => pc'[u] = pc[u] /\ op'[u] = op[u] /\ wait'[u] = wait[u]
  BY DEF CallsOK
<1>2. ASSUME NEW u \in Task, Asleep(u)
      PROVE  /\ op'[u] = op[u] /\ wait'[u] = wait[u]
             /\ pc'[u] \in {"look", "unlockTx", "unlockRx", "resume"}
  <2>1. u # t
    BY <1>2
  <2> QED BY <1>1, <1>2, <2>1 DEF Sleeping
<1> QED BY <1>2 DEF Calm

\* Waking n receivers: what they are, and that the others sleep on.
LEMMA ReceiversWoken ==
    ASSUME ListsOK, RestOK, Sleeping, Calm, UNCHANGED holder,
           NEW n \in Nat, WakeReceivers(n)
    PROVE  /\ Sleeping'
           /\ UNCHANGED xTasksWaitingToSend
           /\ \E W \in SUBSET Task :
                /\ \A u \in Task : Contains(xTasksWaitingToReceive, u)
                                     <=> u \in W \/ Contains(xTasksWaitingToReceive', u)
                /\ \A u \in W : ~Contains(xTasksWaitingToReceive', u)
                /\ holder # NoTask => pending' = pending \cup W
                /\ holder = NoTask => pending' = pending
                /\ xTasksWaitingToReceive' # <<>> => Cardinality(W) = n
<1>1. PICK W : W = FirstOf(xTasksWaitingToReceive, n)
  OBVIOUS
<1>2. /\ xTasksWaitingToReceive \in Seq(Task) /\ IsInjective(xTasksWaitingToReceive)
      /\ xTasksWaitingToReceive' = RestOf(xTasksWaitingToReceive, n)
      /\ UNCHANGED xTasksWaitingToSend /\ Wake(W)
  BY <1>1 DEF WakeReceivers, ListsOK, Sleeping
<1>3. /\ W \in SUBSET Task /\ IsInjective(xTasksWaitingToReceive')
      /\ \A u : Contains(xTasksWaitingToReceive, u)
                  <=> u \in W \/ Contains(xTasksWaitingToReceive', u)
      /\ \A u \in W : ~Contains(xTasksWaitingToReceive', u)
      /\ xTasksWaitingToReceive' # <<>> => Cardinality(W) = n
  BY <1>1, <1>2, WokenExact
<1>4. /\ \A u \in W : Asleep(u)
      /\ \A u \in Task : Contains(xTasksWaitingToSend', u)
                           => Contains(xTasksWaitingToSend, u) /\ u \notin W
      /\ \A u \in Task : Contains(xTasksWaitingToReceive', u)
                           => Contains(xTasksWaitingToReceive, u) /\ u \notin W
      /\ IsInjective(xTasksWaitingToSend')
  BY <1>2, <1>3 DEF Sleeping, Asleep
<1>5. Sleeping'
  BY <1>2, <1>3, <1>4, WakeSleeping
<1>6. (holder # NoTask => pending' = pending \cup W) /\ (holder = NoTask => pending' = pending)
  BY <1>2 DEF Wake
<1> QED BY <1>2, <1>3, <1>5, <1>6

\* The same for senders.
LEMMA SendersWoken ==
    ASSUME ListsOK, RestOK, Sleeping, Calm, UNCHANGED holder,
           NEW n \in Nat, WakeSenders(n)
    PROVE  /\ Sleeping'
           /\ UNCHANGED xTasksWaitingToReceive
           /\ \E W \in SUBSET Task :
                /\ \A u \in Task : Contains(xTasksWaitingToSend, u)
                                     <=> u \in W \/ Contains(xTasksWaitingToSend', u)
                /\ \A u \in W : ~Contains(xTasksWaitingToSend', u)
                /\ holder # NoTask => pending' = pending \cup W
                /\ holder = NoTask => pending' = pending
                /\ xTasksWaitingToSend' # <<>> => Cardinality(W) = n
<1>1. PICK W : W = FirstOf(xTasksWaitingToSend, n)
  OBVIOUS
<1>2. /\ xTasksWaitingToSend \in Seq(Task) /\ IsInjective(xTasksWaitingToSend)
      /\ xTasksWaitingToSend' = RestOf(xTasksWaitingToSend, n)
      /\ UNCHANGED xTasksWaitingToReceive /\ Wake(W)
  BY <1>1 DEF WakeSenders, ListsOK, Sleeping
<1>3. /\ W \in SUBSET Task /\ IsInjective(xTasksWaitingToSend')
      /\ \A u : Contains(xTasksWaitingToSend, u)
                  <=> u \in W \/ Contains(xTasksWaitingToSend', u)
      /\ \A u \in W : ~Contains(xTasksWaitingToSend', u)
      /\ xTasksWaitingToSend' # <<>> => Cardinality(W) = n
  BY <1>1, <1>2, WokenExact
<1>4. /\ \A u \in W : Asleep(u)
      /\ \A u \in Task : Contains(xTasksWaitingToSend', u)
                           => Contains(xTasksWaitingToSend, u) /\ u \notin W
      /\ \A u \in Task : Contains(xTasksWaitingToReceive', u)
                           => Contains(xTasksWaitingToReceive, u) /\ u \notin W
      /\ IsInjective(xTasksWaitingToReceive')
  BY <1>2, <1>3 DEF Sleeping, Asleep
<1>5. Sleeping'
  BY <1>2, <1>3, <1>4, WakeSleeping
<1>6. (holder # NoTask => pending' = pending \cup W) /\ (holder = NoTask => pending' = pending)
  BY <1>2 DEF Wake
<1> QED BY <1>2, <1>3, <1>5, <1>6

\* A list with a task in it is not empty, and the other way round.
LEMMA SomebodyWaits ==
    ASSUME NEW list \in Seq(Task)
    PROVE  list # <<>> <=> \E u \in Task : Contains(list, u)
<1>1. Len(list) \in Nat /\ \A i \in 1 .. Len(list) : list[i] \in Task
  BY LenProperties, ElementOfSeq
<1>2. ASSUME list # <<>> PROVE \E u \in Task : Contains(list, u)
  <2>1. 1 \in 1 .. Len(list)
    BY <1>1, <1>2, EmptySeq
  <2> QED BY <1>1, <2>1 DEF Contains
<1>3. ASSUME NEW u \in Task, Contains(list, u) PROVE list # <<>>
  <2>1. Len(list) # 0
    BY <1>1, <1>3 DEF Contains
  <2> QED BY <2>1, EmptySeq
<1> QED BY <1>2, <1>3

\* Receivers that are woken become receivers that will look.
LEMMA ReceiversReturn ==
    ASSUME Inv, Inv', Sleeping, Calm, Locking', UNCHANGED holder,
           NEW n \in Nat, WakeReceivers(n)
    PROVE  /\ Sleeping'
           /\ UNCHANGED xTasksWaitingToSend
           /\ pending \subseteq pending'
           /\ \A u \in pending' \ pending : ~Sending(u)'
           /\ \A u \in Task : Contains(xTasksWaitingToReceive', u)
                                => Contains(xTasksWaitingToReceive, u)
           /\ \E W \in SUBSET Task :
                /\ W \subseteq Receivers' /\ W \cap Receivers = {}
                /\ xTasksWaitingToReceive' # <<>> => Cardinality(W) = n
<1>1. ListsOK /\ RestOK
  BY InvParts
<1>2. /\ Sleeping' /\ UNCHANGED xTasksWaitingToSend
      /\ \E W \in SUBSET Task :
           /\ \A u \in Task : Contains(xTasksWaitingToReceive, u)
                                <=> u \in W \/ Contains(xTasksWaitingToReceive', u)
           /\ \A u \in W : ~Contains(xTasksWaitingToReceive', u)
           /\ holder # NoTask => pending' = pending \cup W
           /\ holder = NoTask => pending' = pending
           /\ xTasksWaitingToReceive' # <<>> => Cardinality(W) = n
  BY <1>1, ReceiversWoken
<1>3. PICK W \in SUBSET Task :
           /\ \A u \in Task : Contains(xTasksWaitingToReceive, u)
                                <=> u \in W \/ Contains(xTasksWaitingToReceive', u)
           /\ \A u \in W : ~Contains(xTasksWaitingToReceive', u)
           /\ holder # NoTask => pending' = pending \cup W
           /\ holder = NoTask => pending' = pending
           /\ xTasksWaitingToReceive' # <<>> => Cardinality(W) = n
  BY <1>2
<1>4. ASSUME NEW u \in W
      PROVE  ~Sending(u)' /\ u \in Task /\ (holder = NoTask => pc'[u] = "look")
  <2>1. u \in Task /\ Contains(xTasksWaitingToReceive, u)
    BY <1>3
  <2>2. Asleep(u) /\ ~Sending(u)
    BY <2>1 DEF Sleeping, Asleep
  <2>3. op'[u] = op[u] /\ pc'[u] \in {"look", "unlockTx", "unlockRx", "resume"}
    BY <2>1, <2>2 DEF Calm
  <2>4. holder = NoTask => pc'[u] \notin Suspending
    BY <2>1, QueueAssumption DEF Locking
  <2> QED BY <2>1, <2>2, <2>3, <2>4 DEF Sending, Suspending
<1>5. W \subseteq Receivers' /\ W \cap Receivers = {}
  BY <1>3, <1>4, LookersAreTasks
<1>6. pending \subseteq pending' /\ \A u \in pending' \ pending : ~Sending(u)'
  BY <1>3, <1>4
<1> QED BY <1>2, <1>3, <1>5, <1>6

\* The same for senders.
LEMMA SendersReturn ==
    ASSUME Inv, Inv', Sleeping, Calm, Locking', UNCHANGED holder,
           NEW n \in Nat, WakeSenders(n)
    PROVE  /\ Sleeping'
           /\ UNCHANGED xTasksWaitingToReceive
           /\ pending \subseteq pending'
           /\ \A u \in pending' \ pending : Sending(u)'
           /\ \A u \in Task : Contains(xTasksWaitingToSend', u)
                                => Contains(xTasksWaitingToSend, u)
           /\ \E W \in SUBSET Task :
                /\ W \subseteq Senders' /\ W \cap Senders = {}
                /\ xTasksWaitingToSend' # <<>> => Cardinality(W) = n
<1>1. ListsOK /\ RestOK
  BY InvParts
<1>2. /\ Sleeping' /\ UNCHANGED xTasksWaitingToReceive
      /\ \E W \in SUBSET Task :
           /\ \A u \in Task : Contains(xTasksWaitingToSend, u)
                                <=> u \in W \/ Contains(xTasksWaitingToSend', u)
           /\ \A u \in W : ~Contains(xTasksWaitingToSend', u)
           /\ holder # NoTask => pending' = pending \cup W
           /\ holder = NoTask => pending' = pending
           /\ xTasksWaitingToSend' # <<>> => Cardinality(W) = n
  BY <1>1, SendersWoken
<1>3. PICK W \in SUBSET Task :
           /\ \A u \in Task : Contains(xTasksWaitingToSend, u)
                                <=> u \in W \/ Contains(xTasksWaitingToSend', u)
           /\ \A u \in W : ~Contains(xTasksWaitingToSend', u)
           /\ holder # NoTask => pending' = pending \cup W
           /\ holder = NoTask => pending' = pending
           /\ xTasksWaitingToSend' # <<>> => Cardinality(W) = n
  BY <1>2
<1>4. ASSUME NEW u \in W
      PROVE  Sending(u)' /\ u \in Task /\ (holder = NoTask => pc'[u] = "look")
  <2>1. u \in Task /\ Contains(xTasksWaitingToSend, u)
    BY <1>3
  <2>2. Asleep(u) /\ Sending(u)
    BY <2>1 DEF Sleeping, Asleep
  <2>3. op'[u] = op[u] /\ pc'[u] \in {"look", "unlockTx", "unlockRx", "resume"}
    BY <2>1, <2>2 DEF Calm
  <2>4. holder = NoTask => pc'[u] \notin Suspending
    BY <2>1, QueueAssumption DEF Locking
  <2> QED BY <2>1, <2>2, <2>3, <2>4 DEF Sending, Suspending
<1>5. W \subseteq Senders' /\ W \cap Senders = {}
  BY <1>3, <1>4, LookersAreTasks
<1>6. pending \subseteq pending' /\ \A u \in pending' \ pending : Sending(u)'
  BY <1>3, <1>4
<1> QED BY <1>2, <1>3, <1>5, <1>6

\* Receivers keep up with the messages when those that are woken, and the lock count,
\* make up for a message that comes and for a receiver t that goes.
LEMMA ReceiversKeepUp ==
    ASSUME Inv, Inv', NoReceiverForgotten,
           NEW W \in SUBSET Task, W \subseteq Receivers', W \cap Receivers = {},
           \A u \in Task : Contains(xTasksWaitingToReceive', u)
                             => Contains(xTasksWaitingToReceive, u),
           NEW t, Receivers \ {t} \subseteq Receivers',
           xTasksWaitingToReceive' # <<>> =>
             \/ /\ Receivers \subseteq Receivers'
                /\ uxMessagesWaiting' + Owed(cTxLock)
                     <= uxMessagesWaiting + Cardinality(W) + Owed(cTxLock')
             \/ uxMessagesWaiting' + Owed(cTxLock) + 1
                  <= uxMessagesWaiting + Cardinality(W) + Owed(cTxLock')
    PROVE  NoReceiverForgotten'
<1>1. /\ LocksOK /\ LocksOK' /\ ListsOK /\ ListsOK'
      /\ uxMessagesWaiting \in Int /\ uxMessagesWaiting' \in Int
  BY InvParts, LengthPositive DEF DataOK
<1>2. Owed(cTxLock) \in Int /\ Owed(cTxLock') \in Int
  BY <1>1, LockType DEF LocksOK, Owed
<1>3. xTasksWaitingToReceive' # <<>> => xTasksWaitingToReceive # <<>>
  BY <1>1, SomebodyWaits DEF ListsOK
<1>4. /\ Cardinality(Receivers) \in Nat /\ Cardinality(Receivers') \in Nat
      /\ Cardinality(W) \in Nat
      /\ Cardinality(Receivers) + Cardinality(W) <= Cardinality(Receivers') + 1
  <2>1. /\ Receivers \in SUBSET Task /\ Receivers' \in SUBSET Task
        /\ Receivers \cap W = {}
    BY LookersAreTasks
  <2> QED BY <2>1, CountGrowsLessOne
<1>5. Receivers \subseteq Receivers' =>
        Cardinality(Receivers) + Cardinality(W) <= Cardinality(Receivers')
  BY LookersAreTasks, CountGrows
<1>6. xTasksWaitingToReceive # <<>> =>
        uxMessagesWaiting <= Cardinality(Receivers) + Owed(cTxLock)
  BY <1>1, ForgottenParts
<1>7. xTasksWaitingToReceive' # <<>> =>
        uxMessagesWaiting' <= Cardinality(Receivers') + Owed(cTxLock')
  BY <1>1, <1>2, <1>3, <1>4, <1>5, <1>6
<1> QED BY <1>1, <1>7, ForgottenParts

\* Senders keep up with the free slots.
LEMMA SendersKeepUp ==
    ASSUME Inv, Inv', NoSenderForgotten,
           NEW W \in SUBSET Task, W \subseteq Senders', W \cap Senders = {},
           \A u \in Task : Contains(xTasksWaitingToSend', u)
                             => Contains(xTasksWaitingToSend, u),
           NEW t, Senders \ {t} \subseteq Senders',
           xTasksWaitingToSend' # <<>> /\ ~resetRoom' =>
             \/ uxMessagesWaiting' = Length
             \/ /\ ~resetRoom /\ Senders \subseteq Senders'
                /\ uxMessagesWaiting + Owed(cRxLock)
                     <= uxMessagesWaiting' + Cardinality(W) + Owed(cRxLock')
             \/ /\ ~resetRoom
                /\ uxMessagesWaiting + Owed(cRxLock) + 1
                     <= uxMessagesWaiting' + Cardinality(W) + Owed(cRxLock')
    PROVE  NoSenderForgotten'
<1>1. /\ LocksOK /\ LocksOK' /\ ListsOK /\ ListsOK'
      /\ uxMessagesWaiting \in Int /\ uxMessagesWaiting' \in Int /\ Length \in Int
  BY InvParts, LengthPositive DEF DataOK
<1>2. Owed(cRxLock) \in Int /\ Owed(cRxLock') \in Nat
  BY <1>1, LockType DEF LocksOK, Owed
<1>3. xTasksWaitingToSend' # <<>> => xTasksWaitingToSend # <<>>
  BY <1>1, SomebodyWaits DEF ListsOK
<1>4. /\ Cardinality(Senders) \in Nat /\ Cardinality(Senders') \in Nat
      /\ Cardinality(W) \in Nat
      /\ Cardinality(Senders) + Cardinality(W) <= Cardinality(Senders') + 1
  <2>1. /\ Senders \in SUBSET Task /\ Senders' \in SUBSET Task
        /\ Senders \cap W = {}
    BY LookersAreTasks
  <2> QED BY <2>1, CountGrowsLessOne
<1>5. Senders \subseteq Senders' =>
        Cardinality(Senders) + Cardinality(W) <= Cardinality(Senders')
  BY LookersAreTasks, CountGrows
<1>6. xTasksWaitingToSend # <<>> /\ ~resetRoom =>
        Length - uxMessagesWaiting <= Cardinality(Senders) + Owed(cRxLock)
  BY <1>1, ForgottenParts
<1>7. ASSUME xTasksWaitingToSend' # <<>>, ~resetRoom'
      PROVE  Length - uxMessagesWaiting' <= Cardinality(Senders') + Owed(cRxLock')
  <2>1. CASE uxMessagesWaiting' = Length
    BY <1>1, <1>2, <1>4, <2>1
  <2>2. CASE ~(uxMessagesWaiting' = Length)
    BY <1>1, <1>2, <1>3, <1>4, <1>5, <1>6, <1>7, <2>2
  <2> QED BY <2>1, <2>2
<1> QED BY <1>1, <1>7, ForgottenParts

\* The task t alone goes on in its call.
Alone(t) ==
    \E where, o, w : /\ pc' = [pc EXCEPT ![t] = where]
                     /\ op' = [op EXCEPT ![t] = o]
                     /\ wait' = [wait EXCEPT ![t] = w]

\* Going on in a call and returning from it are such steps.
LEMMA GoOnAlone ==
    ASSUME NEW t \in Task, CallsOK
    PROVE  /\ \A where : Goto(t, where) => Alone(t) /\ pc'[t] = where /\ op'[t] = op[t]
                                           /\ wait'[t] = wait[t]
           /\ Return(t) => Alone(t) /\ pc'[t] = "out"
<1>1. ASSUME NEW where, Goto(t, where)
      PROVE  Alone(t) /\ pc'[t] = where /\ op'[t] = op[t] /\ wait'[t] = wait[t]
  <2>1. /\ pc' = [pc EXCEPT ![t] = where]
        /\ op' = [op EXCEPT ![t] = op[t]] /\ wait' = [wait EXCEPT ![t] = wait[t]]
    BY <1>1 DEF Goto, callVars, CallsOK
  <2> QED BY <2>1 DEF Alone, CallsOK
<1>2. ASSUME Return(t) PROVE Alone(t) /\ pc'[t] = "out"
  BY <1>2 DEF Return, Alone, CallsOK
<1> QED BY <1>1, <1>2

\* The others that were to look at the queue still are.
LEMMA StillLooking ==
    ASSUME CallsOK, NEW t \in Task, Alone(t), pending \subseteq pending',
           \A u \in Task : Contains(xTasksWaitingToReceive', u)
                             => Contains(xTasksWaitingToReceive, u),
           \A u \in Task : Contains(xTasksWaitingToSend', u)
                             => Contains(xTasksWaitingToSend, u)
    PROVE  Receivers \ {t} \subseteq Receivers' /\ Senders \ {t} \subseteq Senders'
<1>1. \A u \in Task : u # t => pc'[u] = pc[u] /\ op'[u] = op[u]
  BY DEF CallsOK, Alone
<1>2. \A u \in Task : u # t => (Sending(u)' <=> Sending(u))
  BY <1>1 DEF Sending
<1> QED BY <1>1, <1>2, LookersAreTasks

\* Nobody is about to wait unless it holds the scheduler suspended.
LEMMA NobodyPlaces ==
    ASSUME Locking', NEW t \in Task, holder' \in {NoTask, t}, pc'[t] # "place",
           pc'[t] = "test" => wait'[t] # "expired"
    PROVE  Tested'
<1>1. ASSUME NEW u \in Task, pc'[u] \in {"test", "place"} PROVE u = t
  <2>1. holder' = u /\ u # NoTask
    BY <1>1, QueueAssumption DEF Locking, Suspending
  <2> QED BY <2>1
<1> QED BY <1>1 DEF Tested

\* A step of a task that was not to look at the queue, which changes neither the messages
\* nor the lists.
LEMMA QuietWakes ==
    ASSUME Inv, Inv', Wakes, NEW t \in Task, Alone(t), ~Asleep(t), pc[t] # "look",
           UNCHANGED <<uxMessagesWaiting, listVars, resetRoom>>,
           Owed(cTxLock') = Owed(cTxLock), Owed(cRxLock') = Owed(cRxLock),
           holder' = NoTask => pending = {}
    PROVE  Sleeping' /\ NoReceiverForgotten' /\ NoSenderForgotten'
<1>1. /\ LocksOK /\ LocksOK' /\ ListsOK /\ CallsOK /\ RestOK
      /\ uxMessagesWaiting \in Int /\ Length \in Int
  BY InvParts, LengthPositive DEF DataOK
<1>2. /\ UNCHANGED <<xTasksWaitingToSend, xTasksWaitingToReceive, pending>>
      /\ Sleeping /\ NoReceiverForgotten /\ NoSenderForgotten
  BY DEF listVars, Wakes
<1>3. Sleeping'
  BY <1>1, <1>2, OneGoesOn, SleepersStay DEF Alone
<1>4. t \notin Receivers /\ t \notin Senders
  BY LookersAreTasks DEF Asleep
<1>5. Receivers \subseteq Receivers' /\ Senders \subseteq Senders'
  BY <1>1, <1>2, <1>4, StillLooking
<1>6. Owed(cTxLock) \in Int /\ Owed(cRxLock) \in Int
  BY <1>1, LockType DEF LocksOK, Owed
<1>7. PICK W : W = {}
  OBVIOUS
<1>8. W \in SUBSET Task /\ Cardinality(W) = 0
  BY <1>7, FS_EmptySet
<1>9. /\ uxMessagesWaiting' + Owed(cTxLock)
           <= uxMessagesWaiting + Cardinality(W) + Owed(cTxLock')
      /\ uxMessagesWaiting + Owed(cRxLock)
           <= uxMessagesWaiting' + Cardinality(W) + Owed(cRxLock')
  BY <1>1, <1>6, <1>8
<1>10. NoReceiverForgotten'
  BY <1>2, <1>5, <1>7, <1>8, <1>9, ReceiversKeepUp
<1>11. NoSenderForgotten'
  BY <1>2, <1>5, <1>7, <1>8, <1>9, SendersKeepUp
<1> QED BY <1>3, <1>10, <1>11

\* A step keeps what Wakes adds to Locking.
WakesNext == Sleeping' /\ Tested' /\ NoReceiverForgotten' /\ NoSenderForgotten'

\* A message that is sent adds one, or takes the place of another and the queue is full.
LEMMA CopyCounts ==
    ASSUME Inv, Inv', NEW m, NEW position \in Ops \cap SendOps,
           prvCopyDataToQueue(m, position), KeepRoom
    PROVE  /\ \/ uxMessagesWaiting' = uxMessagesWaiting + 1
              \/ uxMessagesWaiting' = uxMessagesWaiting /\ uxMessagesWaiting' = Length
           /\ ~resetRoom' => ~resetRoom \/ uxMessagesWaiting' = Length
<1>1. /\ uxMessagesWaiting \in 0 .. Length /\ uxMessagesWaiting' \in 0 .. Length
      /\ Length \in Nat \ {0}
  BY InvParts, LengthPositive DEF DataOK
<1>2. position = "overwrite" => Length = 1
  BY QueueAssumption
<1>3. uxMessagesWaiting' = IF position = "overwrite" /\ ~Empty THEN uxMessagesWaiting
                           ELSE uxMessagesWaiting + 1
  BY DEF prvCopyDataToQueue
<1>4. \/ uxMessagesWaiting' = uxMessagesWaiting + 1
      \/ uxMessagesWaiting' = uxMessagesWaiting /\ uxMessagesWaiting' = Length
  BY <1>1, <1>2, <1>3 DEF Empty
<1>5. ASSUME ~resetRoom', resetRoom PROVE uxMessagesWaiting' = Length
  <2>1. ~(uxMessagesWaiting' < Length)
    BY <1>5, Zenon DEF KeepRoom
  <2> QED BY <1>1, <2>1
<1> QED BY <1>4, <1>5

\* A send wakes a receiver for its message.
LEMMA SendWakes ==
    ASSUME Inv, Inv', Wakes, Locking', NEW t \in Task, NEW m \in Message, SendNow(t, m)
    PROVE  WakesNext
<1>1. /\ LocksOK /\ ListsOK /\ CallsOK /\ RestOK /\ Sleeping /\ Locking
      /\ NoReceiverForgotten /\ NoSenderForgotten
      /\ uxMessagesWaiting \in Int /\ uxMessagesWaiting' \in Int /\ Length \in Int
  BY InvParts, LengthPositive DEF DataOK, Wakes
<1>2. /\ At(t, "look") /\ Sending(t) /\ op[t] \in Ops \cap SendOps
      /\ prvCopyDataToQueue(m, op[t]) /\ WakeReceivers(1) /\ KeepRoom /\ Return(t)
      /\ UNCHANGED <<holder, cTxLock, cRxLock>>
  BY <1>1 DEF SendNow, Sending, CallsOK, Operation, SendOps, lockVars
<1>3. ~Asleep(t) /\ holder = NoTask
  BY <1>1, <1>2, WhoRuns DEF Suspending
<1>4. Alone(t) /\ pc'[t] = "out" /\ Calm
  BY <1>1, <1>2, <1>3, GoOnAlone, OneGoesOn DEF Alone
<1>5. Tested'
  BY <1>2, <1>3, <1>4, NobodyPlaces
<1>6. PICK W \in SUBSET Task :
        /\ W \subseteq Receivers' /\ W \cap Receivers = {}
        /\ xTasksWaitingToReceive' # <<>> => Cardinality(W) = 1
  BY <1>1, <1>2, <1>4, ReceiversReturn
<1>7. /\ Sleeping' /\ UNCHANGED xTasksWaitingToSend /\ pending \subseteq pending'
      /\ \A u \in Task : Contains(xTasksWaitingToReceive', u)
                           => Contains(xTasksWaitingToReceive, u)
  BY <1>1, <1>2, <1>4, ReceiversReturn
<1>8. Receivers \ {t} \subseteq Receivers' /\ Senders \ {t} \subseteq Senders'
      /\ t \notin Receivers
  BY <1>1, <1>2, <1>4, <1>7, StillLooking, LookersAreTasks
<1>9. /\ \/ uxMessagesWaiting' = uxMessagesWaiting + 1
         \/ uxMessagesWaiting' = uxMessagesWaiting /\ uxMessagesWaiting' = Length
      /\ ~resetRoom' => ~resetRoom \/ uxMessagesWaiting' = Length
  BY <1>2, CopyCounts
<1>10. Owed(cTxLock) \in Int /\ Owed(cRxLock) \in Int
  BY <1>1, LockType DEF LocksOK, Owed
<1>11. NoReceiverForgotten'
  <2>1. Receivers \subseteq Receivers'
    BY <1>8
  <2>2. xTasksWaitingToReceive' # <<>> =>
          uxMessagesWaiting' + Owed(cTxLock)
             <= uxMessagesWaiting + Cardinality(W) + Owed(cTxLock')
    BY <1>1, <1>2, <1>6, <1>9, <1>10
  <2> QED BY <1>1, <1>6, <1>7, <2>1, <2>2, ReceiversKeepUp
<1>12. NoSenderForgotten'
  <2>1. PICK none : none = {}
    OBVIOUS
  <2>2. none \in SUBSET Task /\ Cardinality(none) = 0
    BY <2>1, FS_EmptySet
  <2>3. ~resetRoom' =>
          \/ uxMessagesWaiting' = Length
          \/ /\ ~resetRoom
             /\ uxMessagesWaiting + Owed(cRxLock) + 1
                  <= uxMessagesWaiting' + Cardinality(none) + Owed(cRxLock')
    <3>1. CASE uxMessagesWaiting' = uxMessagesWaiting + 1
      <4>1. uxMessagesWaiting + Owed(cRxLock) + 1
              <= uxMessagesWaiting' + Cardinality(none) + Owed(cRxLock')
        BY <1>1, <1>2, <1>10, <2>2, <3>1
      <4> QED BY <1>9, <4>1
    <3> QED BY <1>9, <3>1
  <2> QED BY <1>1, <1>7, <1>8, <2>1, <2>2, <2>3, SendersKeepUp
<1> QED BY <1>5, <1>7, <1>11, <1>12 DEF WakesNext

\* A receive wakes a sender for the slot it makes free.
LEMMA ReceiveWakes ==
    ASSUME Inv, Inv', Wakes, Locking', NEW t \in Task, ReceiveNow(t)
    PROVE  WakesNext
<1>1. /\ LocksOK /\ ListsOK /\ CallsOK /\ RestOK /\ Sleeping /\ Locking
      /\ NoReceiverForgotten /\ NoSenderForgotten
      /\ uxMessagesWaiting \in Int /\ uxMessagesWaiting' \in Int
  BY InvParts, LengthPositive DEF DataOK, Wakes
<1>2. /\ At(t, "look") /\ ~Sending(t)
      /\ uxMessagesWaiting' = uxMessagesWaiting - 1 /\ WakeSenders(1) /\ Return(t)
      /\ UNCHANGED <<holder, cTxLock, cRxLock, resetRoom>>
  BY DEF ReceiveNow, Take, Sending, SendOps, lockVars
<1>3. ~Asleep(t) /\ holder = NoTask
  BY <1>1, <1>2, WhoRuns DEF Suspending
<1>4. Alone(t) /\ pc'[t] = "out" /\ Calm
  BY <1>1, <1>2, <1>3, GoOnAlone, OneGoesOn DEF Alone
<1>5. Tested'
  BY <1>2, <1>3, <1>4, NobodyPlaces
<1>6. PICK W \in SUBSET Task :
        /\ W \subseteq Senders' /\ W \cap Senders = {}
        /\ xTasksWaitingToSend' # <<>> => Cardinality(W) = 1
  BY <1>1, <1>2, <1>4, SendersReturn
<1>7. /\ Sleeping' /\ UNCHANGED xTasksWaitingToReceive /\ pending \subseteq pending'
      /\ \A u \in Task : Contains(xTasksWaitingToSend', u)
                           => Contains(xTasksWaitingToSend, u)
  BY <1>1, <1>2, <1>4, SendersReturn
<1>8. Receivers \ {t} \subseteq Receivers' /\ Senders \ {t} \subseteq Senders'
      /\ t \notin Senders
  BY <1>1, <1>2, <1>4, <1>7, StillLooking, LookersAreTasks
<1>9. Owed(cTxLock) \in Int /\ Owed(cRxLock) \in Int
  BY <1>1, LockType DEF LocksOK, Owed
<1>10. NoReceiverForgotten'
  <2>1. PICK none : none = {}
    OBVIOUS
  <2>2. none \in SUBSET Task /\ Cardinality(none) = 0
    BY <2>1, FS_EmptySet
  <2>3. uxMessagesWaiting' + Owed(cTxLock) + 1
          <= uxMessagesWaiting + Cardinality(none) + Owed(cTxLock')
    BY <1>1, <1>2, <1>9, <2>2
  <2> QED BY <1>1, <1>7, <1>8, <2>1, <2>2, <2>3, ReceiversKeepUp
<1>11. NoSenderForgotten'
  <2>1. Senders \subseteq Senders'
    BY <1>8
  <2>2. xTasksWaitingToSend' # <<>> /\ ~resetRoom' =>
          /\ ~resetRoom
          /\ uxMessagesWaiting + Owed(cRxLock)
                <= uxMessagesWaiting' + Cardinality(W) + Owed(cRxLock')
    <3>1. ASSUME xTasksWaitingToSend' # <<>>
          PROVE  uxMessagesWaiting + Owed(cRxLock)
                   <= uxMessagesWaiting' + Cardinality(W) + Owed(cRxLock')
      BY <1>1, <1>2, <1>6, <1>9, <3>1
    <3> QED BY <1>2, <3>1
  <2> QED BY <1>1, <1>6, <1>7, <2>1, <2>2, SendersKeepUp
<1> QED BY <1>5, <1>7, <1>10, <1>11 DEF WakesNext

\* A peek wakes a receiver, that the message it leaves may go to.
LEMMA PeekWakes ==
    ASSUME Inv, Inv', Wakes, Locking', NEW t \in Task, PeekNow(t)
    PROVE  WakesNext
<1>1. /\ LocksOK /\ ListsOK /\ CallsOK /\ RestOK /\ Sleeping /\ Locking
      /\ NoReceiverForgotten /\ NoSenderForgotten
      /\ uxMessagesWaiting \in Int
  BY InvParts, LengthPositive DEF DataOK, Wakes
<1>2. /\ At(t, "look") /\ ~Sending(t)
      /\ uxMessagesWaiting' = uxMessagesWaiting /\ WakeReceivers(1) /\ Return(t)
      /\ UNCHANGED <<holder, cTxLock, cRxLock, resetRoom>>
  BY DEF PeekNow, LookAt, Sending, SendOps, lockVars, dataVars
<1>3. ~Asleep(t) /\ holder = NoTask
  BY <1>1, <1>2, WhoRuns DEF Suspending
<1>4. Alone(t) /\ pc'[t] = "out" /\ Calm
  BY <1>1, <1>2, <1>3, GoOnAlone, OneGoesOn DEF Alone
<1>5. Tested'
  BY <1>2, <1>3, <1>4, NobodyPlaces
<1>6. PICK W \in SUBSET Task :
        /\ W \subseteq Receivers' /\ W \cap Receivers = {}
        /\ xTasksWaitingToReceive' # <<>> => Cardinality(W) = 1
  BY <1>1, <1>2, <1>4, ReceiversReturn
<1>7. /\ Sleeping' /\ UNCHANGED xTasksWaitingToSend /\ pending \subseteq pending'
      /\ \A u \in Task : Contains(xTasksWaitingToReceive', u)
                           => Contains(xTasksWaitingToReceive, u)
  BY <1>1, <1>2, <1>4, ReceiversReturn
<1>8. Receivers \ {t} \subseteq Receivers' /\ Senders \subseteq Senders'
  BY <1>1, <1>2, <1>4, <1>7, StillLooking, LookersAreTasks
<1>9. Owed(cTxLock) \in Int /\ Owed(cRxLock) \in Int
  BY <1>1, LockType DEF LocksOK, Owed
<1>10. NoReceiverForgotten'
  <2>1. xTasksWaitingToReceive' # <<>> =>
          uxMessagesWaiting' + Owed(cTxLock) + 1
             <= uxMessagesWaiting + Cardinality(W) + Owed(cTxLock')
    BY <1>1, <1>2, <1>6, <1>9
  <2> QED BY <1>1, <1>6, <1>7, <1>8, <2>1, ReceiversKeepUp
<1>11. NoSenderForgotten'
  <2>1. PICK none : none = {}
    OBVIOUS
  <2>2. none \in SUBSET Task /\ Cardinality(none) = 0
    BY <2>1, FS_EmptySet
  <2>3. uxMessagesWaiting + Owed(cRxLock)
          <= uxMessagesWaiting' + Cardinality(none) + Owed(cRxLock')
    BY <1>1, <1>2, <1>9, <2>2
  <2>4. ~resetRoom' => ~resetRoom
    BY <1>2
  <2> QED BY <1>1, <1>7, <1>8, <2>1, <2>2, <2>3, <2>4, SendersKeepUp
<1> QED BY <1>5, <1>7, <1>10, <1>11 DEF WakesNext

\* A call that finds nothing for it: a receiver that gives up leaves no message behind,
\* and a sender no free slot.
LEMMA NotNowWakes ==
    ASSUME Inv, Inv', Wakes, Locking', NEW t \in Task, NotNow(t)
    PROVE  WakesNext
<1>1. /\ LocksOK /\ LocksOK' /\ ListsOK /\ CallsOK /\ RestOK /\ Sleeping /\ Locking
      /\ NoReceiverForgotten /\ NoSenderForgotten
      /\ uxMessagesWaiting \in Int /\ Length \in Int
  BY InvParts, LengthPositive DEF DataOK, Wakes
<1>2. /\ At(t, "look") /\ (Sending(t) => Full) /\ (~Sending(t) => Empty)
      /\ Return(t) \/ Goto(t, "suspend")
      /\ UNCHANGED <<uxMessagesWaiting, holder, cTxLock, cRxLock, resetRoom, listVars>>
  BY DEF NotNow, Room, lockVars, dataVars
<1>3. /\ UNCHANGED <<xTasksWaitingToSend, xTasksWaitingToReceive, pending>>
      /\ UNCHANGED <<cTxLock, cRxLock, resetRoom, uxMessagesWaiting>>
  BY <1>2 DEF listVars
<1>4. ~Asleep(t) /\ holder = NoTask /\ pending = {}
  BY <1>1, <1>2, WhoRuns DEF Suspending
<1>5. Alone(t) /\ pc'[t] \in {"out", "suspend"} /\ Calm
  BY <1>1, <1>2, <1>4, GoOnAlone, OneGoesOn DEF Alone
<1>6. Tested' /\ Sleeping'
  BY <1>1, <1>2, <1>4, <1>5, NobodyPlaces, SleepersStay
<1>7. Receivers \ {t} \subseteq Receivers' /\ Senders \ {t} \subseteq Senders'
  BY <1>1, <1>3, <1>5, StillLooking
<1>8. PICK none : none = {}
  OBVIOUS
<1>9. none \in SUBSET Task /\ Cardinality(none) = 0
  BY <1>8, FS_EmptySet
<1>10. /\ Owed(cTxLock) \in Nat /\ Owed(cRxLock) \in Nat
       /\ Owed(cTxLock') = Owed(cTxLock) /\ Owed(cRxLock') = Owed(cRxLock)
  BY <1>1, <1>3, LockType DEF LocksOK, Owed
<1>11. /\ uxMessagesWaiting' + Owed(cTxLock)
            <= uxMessagesWaiting + Cardinality(none) + Owed(cTxLock')
       /\ uxMessagesWaiting + Owed(cRxLock)
            <= uxMessagesWaiting' + Cardinality(none) + Owed(cRxLock')
  BY <1>1, <1>3, <1>9, <1>10
<1>12. NoReceiverForgotten'
  <2>1. CASE Sending(t)
    <3>1. Receivers \subseteq Receivers'
      BY <1>7, <2>1, LookersAreTasks
    <3> QED BY <1>1, <1>3, <1>8, <1>9, <1>11, <3>1, ReceiversKeepUp
  <2>2. CASE ~Sending(t)
    <3>1. uxMessagesWaiting' = 0
      BY <1>2, <1>3, <2>2 DEF Empty
    <3>2. Cardinality(Receivers') \in Nat
      BY LookersAreTasks, CountGrows, <1>9
    <3> QED BY <1>1, <1>10, <3>1, <3>2, ForgottenParts
  <2> QED BY <2>1, <2>2
<1>13. NoSenderForgotten'
  <2>1. CASE ~Sending(t)
    <3>1. Senders \subseteq Senders'
      BY <1>7, <2>1, LookersAreTasks
    <3> QED BY <1>1, <1>3, <1>8, <1>9, <1>11, <3>1, SendersKeepUp
  <2>2. CASE Sending(t)
    <3>1. uxMessagesWaiting' = Length
      BY <1>2, <1>3, <2>2 DEF Full
    <3> QED BY <1>1, <1>3, <1>7, <1>8, <1>9, <3>1, SendersKeepUp
  <2> QED BY <2>1, <2>2
<1> QED BY <1>6, <1>12, <1>13 DEF WakesNext

\* The steps between the critical sections, up to the second test of the queue.
LEMMA GoingToTest ==
    ASSUME Inv, Inv', Wakes, Locking', NEW t \in Task,
           \/ \E o \in Ops, w \in {"none", "limited", "forever"} : Call(t, o, w)
           \/ vTaskSuspendAll(t) \/ prvLockQueue(t) \/ Test(t) \/ Recheck(t)
    PROVE  WakesNext
<1>1. /\ LocksOK /\ CallsOK /\ RestOK /\ Sleeping /\ Locking
      /\ cTxLock \in Int /\ cRxLock \in Int
  BY InvParts, LockType DEF Wakes, LocksOK
<1>2. PICK where \in {"out", "suspend", "lock", "test", "recheck"} :
        At(t, where) /\ UNCHANGED <<dataVars, listVars, resetRoom>>
  BY DEF Call, vTaskSuspendAll, prvLockQueue, Test, Recheck
<1>3. UNCHANGED <<uxMessagesWaiting, listVars, resetRoom>>
  BY <1>2 DEF dataVars
<1>4. /\ Alone(t) /\ (Test(t) \/ pc'[t] # "place")
      /\ pc'[t] = "test" => wait'[t] # "expired"
  <2>1. CASE \E o \in Ops, w \in {"none", "limited", "forever"} : Call(t, o, w)
    BY <1>1, <2>1 DEF Call, Alone, CallsOK
  <2>2. CASE vTaskSuspendAll(t)
    BY <1>1, <2>2, GoOnAlone DEF vTaskSuspendAll
  <2>3. CASE prvLockQueue(t)
    BY <1>1, <2>3, GoOnAlone DEF prvLockQueue
  <2>4. CASE Test(t)
    BY <1>1, <2>4, GoOnAlone DEF Test
  <2>5. CASE Recheck(t)
    BY <1>1, <2>5, GoOnAlone DEF Recheck
  <2> QED BY <2>1, <2>2, <2>3, <2>4, <2>5
<1>5. /\ ~Asleep(t) /\ pc[t] # "look"
      /\ where \in Suspending => holder = t
      /\ where \notin Suspending => holder = NoTask /\ pending = {}
  BY <1>1, <1>2, WhoRuns
<1>6. Owed(cTxLock') = Owed(cTxLock) /\ Owed(cRxLock') = Owed(cRxLock)
  <2>1. \/ UNCHANGED <<cTxLock, cRxLock>>
        \/ cTxLock' = Locked(cTxLock) /\ cRxLock' = Locked(cRxLock)
    BY DEF Call, vTaskSuspendAll, prvLockQueue, Test, Recheck, lockVars
  <2> QED BY <1>1, <2>1 DEF Owed, Locked, queueUNLOCKED, queueLOCKED_UNMODIFIED
<1>7. holder' \in {NoTask, t} /\ (holder' = NoTask => pending = {})
  <2>1. holder' = holder \/ holder' = t
    BY DEF Call, vTaskSuspendAll, prvLockQueue, Test, Recheck
  <2> QED BY <1>5, <2>1, QueueAssumption
<1>8. Sleeping' /\ NoReceiverForgotten' /\ NoSenderForgotten'
  BY <1>3, <1>4, <1>5, <1>6, <1>7, QuietWakes
<1>9. Tested'
  <2>1. CASE Test(t)
    <3>1. /\ At(t, "test") /\ UNCHANGED <<holder, uxMessagesWaiting, cTxLock, cRxLock>>
          /\ Goto(t, IF (IF Sending(t) THEN Full ELSE Empty) THEN "place" ELSE "unlockTx")
      BY <2>1 DEF Test, dataVars, lockVars
    <3>2. /\ pc'[t] = "place" => IF Sending(t) THEN Full ELSE Empty
          /\ op'[t] = op[t]
      BY <1>1, <3>1, GoOnAlone
    <3>3. cTxLock' >= 0 /\ cRxLock' >= 0
      <4>1. pc[t] = "test"
        BY <3>1 DEF At
      <4>2. cTxLock # -1 /\ cRxLock # -1 /\ cTxLock >= -1 /\ cRxLock >= -1
        BY <1>1, <4>1 DEF Locking, queueUNLOCKED
      <4> QED BY <1>1, <3>1, <4>2
    <3>4. uxMessagesWaiting \in Int /\ Length \in Int /\ cTxLock' \in Int /\ cRxLock' \in Int
      BY <1>1, <3>1, InvParts, LengthPositive DEF DataOK
    <3>5. ASSUME pc'[t] = "place"
          PROVE  IF Sending(t)' THEN Length - uxMessagesWaiting' <= cRxLock'
                 ELSE uxMessagesWaiting' <= cTxLock'
      BY <3>1, <3>2, <3>3, <3>4, <3>5 DEF Full, Empty, Sending
    <3>6. wait'[t] # "expired"
      BY <1>1, <3>1, GoOnAlone DEF Wakes, Tested, At
    <3>7. \A u \in Task : pc'[u] \in {"test", "place"} => u = t
      <4>1. ASSUME NEW u \in Task, pc'[u] \in {"test", "place"} PROVE u = t
        <5>1. holder' = u /\ u # NoTask
          BY <4>1, QueueAssumption DEF Locking, Suspending
        <5> QED BY <1>7, <5>1
      <4> QED BY <4>1
    <3> QED BY <3>5, <3>6, <3>7 DEF Tested
  <2>2. CASE pc'[t] # "place"
    BY <1>4, <1>7, <2>2, NobodyPlaces
  <2> QED BY <1>4, <2>1, <2>2
<1> QED BY <1>8, <1>9 DEF WakesNext

\* The counts are numbers.
LEMMA CountsAreNumbers ==
    ASSUME Inv
    PROVE  /\ cTxLock \in Int /\ cRxLock \in Int
           /\ uxMessagesWaiting \in Int /\ Length \in Int
<1>1. LocksOK /\ DataOK
  BY InvParts
<1> QED BY <1>1, LockType, LengthPositive DEF LocksOK, DataOK

\* A task that goes to sleep found the queue full, or empty, and what the handlers did
\* since is in the lock count.
LEMMA PlaceWakes ==
    ASSUME Inv, Inv', Wakes, Locking', NEW t \in Task, vTaskPlaceOnEventList(t)
    PROVE  WakesNext
<1>1. /\ LocksOK /\ LocksOK' /\ ListsOK /\ CallsOK /\ RestOK /\ Sleeping /\ Locking
      /\ NoReceiverForgotten /\ NoSenderForgotten
      /\ cTxLock \in Int /\ cRxLock \in Int /\ uxMessagesWaiting \in Int /\ Length \in Int
  BY InvParts, CountsAreNumbers DEF Wakes
<1>2. /\ At(t, "place") /\ Goto(t, "unlockTx")
      /\ UNCHANGED <<uxMessagesWaiting, cTxLock, cRxLock, resetRoom, holder, pending>>
      /\ blocked' = [blocked EXCEPT ![t] = TRUE]
      /\ IF Sending(t)
         THEN /\ xTasksWaitingToSend' = InsertSorted(xTasksWaitingToSend, EventValue, t)
              /\ UNCHANGED xTasksWaitingToReceive
         ELSE /\ xTasksWaitingToReceive' = InsertSorted(xTasksWaitingToReceive, EventValue, t)
              /\ UNCHANGED xTasksWaitingToSend
  BY DEF vTaskPlaceOnEventList, lockVars, dataVars
<1>3. holder = t /\ ~Asleep(t) /\ pc[t] = "place"
  BY <1>1, <1>2, WhoRuns DEF Suspending
<1>4. /\ Alone(t) /\ pc'[t] = "unlockTx" /\ op'[t] = op[t] /\ wait'[t] = wait[t]
      /\ wait[t] # "expired"
      /\ \A u \in Task : u # t => pc'[u] = pc[u] /\ op'[u] = op[u] /\ wait'[u] = wait[u]
  <2>1. Alone(t) /\ pc'[t] = "unlockTx" /\ op'[t] = op[t] /\ wait'[t] = wait[t]
    BY <1>1, <1>2, GoOnAlone
  <2>2. wait[t] # "expired"
    BY <1>1, <1>3 DEF Wakes, Tested
  <2> QED BY <1>1, <2>1, <2>2 DEF Alone, CallsOK
<1>5. Tested'
  BY <1>2, <1>3, <1>4, NobodyPlaces
<1>6. \A u \in Task : (Sending(u)' <=> Sending(u))
  BY <1>4 DEF Sending
<1>7. /\ \A u \in Task : Contains(xTasksWaitingToSend', u)
           <=> (u = t /\ Sending(t)) \/ Contains(xTasksWaitingToSend, u)
      /\ IsInjective(xTasksWaitingToSend')
  BY <1>1, <1>2, <1>3, InsertSortedExact DEF ListsOK, Sleeping, Asleep
<1>8. /\ \A u \in Task : Contains(xTasksWaitingToReceive', u)
           <=> (u = t /\ ~Sending(t)) \/ Contains(xTasksWaitingToReceive, u)
      /\ IsInjective(xTasksWaitingToReceive')
  BY <1>1, <1>2, <1>3, InsertSortedExact DEF ListsOK, Sleeping, Asleep
<1>9. Sleeping'
  <2>1. \A u \in Task : Asleep(u)' => u = t \/ Asleep(u)
    BY <1>2, <1>7, <1>8 DEF Asleep
  <2>2. ASSUME NEW u \in Task, Asleep(u)' PROVE blocked'[u]
    <3>1. CASE u = t
      BY <1>1, <1>2, <3>1 DEF ListsOK
    <3>2. CASE u # t
      <4>1. blocked[u] /\ blocked'[u] = blocked[u]
        BY <1>1, <1>2, <2>1, <2>2, <3>2 DEF Sleeping, ListsOK
      <4> QED BY <4>1
    <3> QED BY <3>1, <3>2
  <2>3. ASSUME NEW u \in Task, Asleep(u)'
        PROVE  /\ blocked'[u] /\ wait'[u] # "expired"
               /\ pc'[u] \in {"look", "unlockTx", "unlockRx", "resume"}
    BY <1>1, <1>4, <2>1, <2>2, <2>3 DEF Sleeping
  <2>4. \A u \in pending' : /\ ~Contains(xTasksWaitingToSend', u)
                            /\ ~Contains(xTasksWaitingToReceive', u)
    BY <1>1, <1>2, <1>3, <1>7, <1>8 DEF Sleeping, Asleep, ListsOK
  <2>5. \A u \in Task : /\ Contains(xTasksWaitingToSend', u) => Sending(u)'
                        /\ Contains(xTasksWaitingToReceive', u) => ~Sending(u)'
    BY <1>1, <1>6, <1>7, <1>8 DEF Sleeping
  <2>6. holder' # NoTask
    BY <1>2, <1>3, QueueAssumption
  <2> QED BY <1>7, <1>8, <2>3, <2>4, <2>5, <2>6 DEF Sleeping
<1>10. /\ Owed(cTxLock) \in Nat /\ Owed(cRxLock) \in Nat
       /\ cTxLock <= Owed(cTxLock) /\ cRxLock <= Owed(cRxLock)
       /\ Owed(cTxLock') = Owed(cTxLock) /\ Owed(cRxLock') = Owed(cRxLock)
  BY <1>1, <1>2 DEF Owed
<1>11. PICK none : none = {}
  OBVIOUS
<1>12. none \in SUBSET Task /\ Cardinality(none) = 0
  BY <1>11, FS_EmptySet
<1>13. /\ Cardinality(Receivers') \in Nat /\ Cardinality(Senders') \in Nat
  BY LookersAreTasks, CountGrows, <1>12
<1>14. /\ uxMessagesWaiting' + Owed(cTxLock)
            <= uxMessagesWaiting + Cardinality(none) + Owed(cTxLock')
       /\ uxMessagesWaiting + Owed(cRxLock)
            <= uxMessagesWaiting' + Cardinality(none) + Owed(cRxLock')
  BY <1>1, <1>2, <1>10, <1>12
<1>15. NoReceiverForgotten'
  <2>1. CASE Sending(t)
    <3>1. /\ Receivers \subseteq Receivers' /\ UNCHANGED xTasksWaitingToReceive
      BY <1>2, <1>3, <1>4, <1>6, <2>1, LookersAreTasks
    <3> QED BY <1>1, <1>11, <1>12, <1>14, <3>1, ReceiversKeepUp
  <2>2. CASE ~Sending(t)
    <3>1. uxMessagesWaiting' <= cTxLock
      BY <1>2, <1>3, <2>2 DEF Wakes, Tested
    <3>2. uxMessagesWaiting' <= Cardinality(Receivers') + Owed(cTxLock')
      BY <1>1, <1>2, <1>10, <1>13, <3>1
    <3> QED BY <1>1, <3>2, ForgottenParts
  <2> QED BY <2>1, <2>2
<1>16. NoSenderForgotten'
  <2>1. CASE ~Sending(t)
    <3>1. /\ Senders \subseteq Senders' /\ UNCHANGED <<xTasksWaitingToSend, resetRoom>>
      BY <1>2, <1>3, <1>4, <1>6, <2>1, LookersAreTasks
    <3> QED BY <1>1, <1>11, <1>12, <1>14, <3>1, SendersKeepUp
  <2>2. CASE Sending(t)
    <3>1. Length - uxMessagesWaiting' <= cRxLock
      BY <1>2, <1>3, <2>2 DEF Wakes, Tested
    <3>2. Length - uxMessagesWaiting' <= Cardinality(Senders') + Owed(cRxLock')
      BY <1>1, <1>2, <1>10, <1>13, <3>1
    <3> QED BY <1>1, <3>2, ForgottenParts
  <2> QED BY <2>1, <2>2
<1> QED BY <1>5, <1>9, <1>15, <1>16 DEF WakesNext

\* A step that t does while it holds the scheduler suspended and unlocks the queue, when
\* it may be asleep itself.
LEMMA HolderCalm ==
    ASSUME CallsOK, Sleeping, NEW t \in Task, NEW where \in {"unlockRx", "resume"},
           Goto(t, where)
    PROVE  Calm
<1>1. /\ pc'[t] = where
      /\ \A u \in Task : op'[u] = op[u] /\ wait'[u] = wait[u] /\ (u # t => pc'[u] = pc[u])
  BY DEF Goto, callVars, CallsOK
<1>2. ASSUME NEW u \in Task, Asleep(u)
      PROVE  /\ op'[u] = op[u] /\ wait'[u] = wait[u]
             /\ pc'[u] \in {"look", "unlockTx", "unlockRx", "resume"}
  BY <1>1, <1>2 DEF Sleeping
<1> QED BY <1>2 DEF Calm

\* prvUnlockQueue wakes a receiver for every message that came meanwhile,
LEMMA UnlockTxWakes ==
    ASSUME Inv, Inv', Wakes, Locking', NEW t \in Task, UnlockTx(t)
    PROVE  WakesNext
<1>1. /\ LocksOK /\ ListsOK /\ CallsOK /\ RestOK /\ Sleeping /\ Locking
      /\ NoReceiverForgotten /\ NoSenderForgotten
      /\ cTxLock \in Int /\ cRxLock \in Int /\ uxMessagesWaiting \in Int
  BY InvParts, CountsAreNumbers DEF Wakes
<1>2. Max({cTxLock, queueLOCKED_UNMODIFIED}) = Owed(cTxLock) /\ Owed(cTxLock) \in Nat
  BY <1>1, OwedType DEF Owed, queueLOCKED_UNMODIFIED
<1>3. /\ At(t, "unlockTx") /\ Goto(t, "unlockRx") /\ WakeReceivers(Owed(cTxLock))
      /\ UNCHANGED <<uxMessagesWaiting, cRxLock, resetRoom, holder>> /\ cTxLock' = -1
  BY <1>2 DEF UnlockTx, lockVars, dataVars, queueUNLOCKED
<1>4. holder = t /\ pc[t] = "unlockTx" /\ Calm /\ Alone(t) /\ pc'[t] = "unlockRx"
  BY <1>1, <1>3, WhoRuns, HolderCalm, GoOnAlone DEF Suspending
<1>5. Tested'
  BY <1>3, <1>4, NobodyPlaces
<1>6. PICK W \in SUBSET Task :
        /\ W \subseteq Receivers' /\ W \cap Receivers = {}
        /\ xTasksWaitingToReceive' # <<>> => Cardinality(W) = Owed(cTxLock)
  BY <1>1, <1>2, <1>3, <1>4, ReceiversReturn
<1>7. /\ Sleeping' /\ UNCHANGED xTasksWaitingToSend /\ pending \subseteq pending'
      /\ \A u \in Task : Contains(xTasksWaitingToReceive', u)
                           => Contains(xTasksWaitingToReceive, u)
  BY <1>1, <1>2, <1>3, <1>4, ReceiversReturn
<1>8. Receivers \subseteq Receivers' /\ Senders \subseteq Senders'
  <2>1. Receivers \ {t} \subseteq Receivers' /\ Senders \ {t} \subseteq Senders'
    BY <1>1, <1>4, <1>7, StillLooking
  <2>2. (t \in Receivers => t \in Receivers') /\ (t \in Senders => t \in Senders')
    <3>1. Sending(t)' <=> Sending(t)
      BY <1>1, <1>3, GoOnAlone DEF Sending
    <3> QED BY <1>4, <1>7, <3>1, LookersAreTasks
  <2> QED BY <2>1, <2>2
<1>9. Owed(cTxLock') = 0 /\ Owed(cRxLock) \in Int
  BY <1>1, <1>3 DEF Owed
<1>10. NoReceiverForgotten'
  <2>1. xTasksWaitingToReceive' # <<>> =>
          uxMessagesWaiting' + Owed(cTxLock)
             <= uxMessagesWaiting + Cardinality(W) + Owed(cTxLock')
    BY <1>1, <1>2, <1>3, <1>6, <1>9
  <2> QED BY <1>1, <1>6, <1>7, <1>8, <2>1, ReceiversKeepUp
<1>11. NoSenderForgotten'
  <2>1. PICK none : none = {}
    OBVIOUS
  <2>2. none \in SUBSET Task /\ Cardinality(none) = 0
    BY <2>1, FS_EmptySet
  <2>3. uxMessagesWaiting + Owed(cRxLock)
          <= uxMessagesWaiting' + Cardinality(none) + Owed(cRxLock')
    BY <1>1, <1>3, <1>9, <2>2
  <2>4. ~resetRoom' => ~resetRoom
    BY <1>3
  <2> QED BY <1>1, <1>7, <1>8, <2>1, <2>2, <2>3, <2>4, SendersKeepUp
<1> QED BY <1>5, <1>7, <1>10, <1>11 DEF WakesNext

\* and a sender for every message that went.
LEMMA UnlockRxWakes ==
    ASSUME Inv, Inv', Wakes, Locking', NEW t \in Task, UnlockRx(t)
    PROVE  WakesNext
<1>1. /\ LocksOK /\ ListsOK /\ CallsOK /\ RestOK /\ Sleeping /\ Locking
      /\ NoReceiverForgotten /\ NoSenderForgotten
      /\ cTxLock \in Int /\ cRxLock \in Int /\ uxMessagesWaiting \in Int
  BY InvParts, CountsAreNumbers DEF Wakes
<1>2. Max({cRxLock, queueLOCKED_UNMODIFIED}) = Owed(cRxLock) /\ Owed(cRxLock) \in Nat
  BY <1>1, OwedType DEF Owed, queueLOCKED_UNMODIFIED
<1>3. /\ At(t, "unlockRx") /\ Goto(t, "resume") /\ WakeSenders(Owed(cRxLock))
      /\ UNCHANGED <<uxMessagesWaiting, cTxLock, resetRoom, holder>> /\ cRxLock' = -1
  BY <1>2 DEF UnlockRx, lockVars, dataVars, queueUNLOCKED
<1>4. holder = t /\ pc[t] = "unlockRx" /\ Calm /\ Alone(t) /\ pc'[t] = "resume"
  BY <1>1, <1>3, WhoRuns, HolderCalm, GoOnAlone DEF Suspending
<1>5. Tested'
  BY <1>3, <1>4, NobodyPlaces
<1>6. PICK W \in SUBSET Task :
        /\ W \subseteq Senders' /\ W \cap Senders = {}
        /\ xTasksWaitingToSend' # <<>> => Cardinality(W) = Owed(cRxLock)
  BY <1>1, <1>2, <1>3, <1>4, SendersReturn
<1>7. /\ Sleeping' /\ UNCHANGED xTasksWaitingToReceive /\ pending \subseteq pending'
      /\ \A u \in Task : Contains(xTasksWaitingToSend', u)
                           => Contains(xTasksWaitingToSend, u)
  BY <1>1, <1>2, <1>3, <1>4, SendersReturn
<1>8. Receivers \subseteq Receivers' /\ Senders \subseteq Senders'
  <2>1. Receivers \ {t} \subseteq Receivers' /\ Senders \ {t} \subseteq Senders'
    BY <1>1, <1>4, <1>7, StillLooking
  <2>2. (t \in Receivers => t \in Receivers') /\ (t \in Senders => t \in Senders')
    <3>1. Sending(t)' <=> Sending(t)
      BY <1>1, <1>3, GoOnAlone DEF Sending
    <3> QED BY <1>4, <1>7, <3>1, LookersAreTasks
  <2> QED BY <2>1, <2>2
<1>9. Owed(cRxLock') = 0 /\ Owed(cTxLock) \in Int
  BY <1>1, <1>3 DEF Owed
<1>10. NoSenderForgotten'
  <2>1. xTasksWaitingToSend' # <<>> =>
          uxMessagesWaiting + Owed(cRxLock)
             <= uxMessagesWaiting' + Cardinality(W) + Owed(cRxLock')
    BY <1>1, <1>2, <1>3, <1>6, <1>9
  <2>2. ~resetRoom' => ~resetRoom
    BY <1>3
  <2> QED BY <1>1, <1>6, <1>7, <1>8, <2>1, <2>2, SendersKeepUp
<1>11. NoReceiverForgotten'
  <2>1. PICK none : none = {}
    OBVIOUS
  <2>2. none \in SUBSET Task /\ Cardinality(none) = 0
    BY <2>1, FS_EmptySet
  <2>3. uxMessagesWaiting' + Owed(cTxLock)
          <= uxMessagesWaiting + Cardinality(none) + Owed(cTxLock')
    BY <1>1, <1>3, <1>9, <2>2
  <2> QED BY <1>1, <1>7, <1>8, <2>1, <2>2, <2>3, ReceiversKeepUp
<1> QED BY <1>5, <1>7, <1>10, <1>11 DEF WakesNext

\* xTaskResumeAll lets the tasks that were woken meanwhile run: they look at the queue.
LEMMA ResumeWakes ==
    ASSUME Inv, Inv', Wakes, Locking', NEW t \in Task, xTaskResumeAll(t)
    PROVE  WakesNext
<1>1. /\ LocksOK /\ ListsOK /\ CallsOK /\ RestOK /\ Sleeping /\ Locking
      /\ NoReceiverForgotten /\ NoSenderForgotten
      /\ cTxLock \in Int /\ cRxLock \in Int /\ uxMessagesWaiting \in Int
  BY InvParts, CountsAreNumbers DEF Wakes
<1>2. /\ At(t, "resume") /\ holder' = NoTask /\ pending' = {}
      /\ blocked' = [u \in Task |-> blocked[u] /\ u \notin pending]
      /\ \/ wait[t] # "expired" /\ Goto(t, "look")
         \/ wait[t] = "expired" /\ Return(t)
         \/ wait[t] = "expired" /\ Goto(t, "recheck")
      /\ UNCHANGED <<uxMessagesWaiting, cTxLock, cRxLock, resetRoom,
                     xTasksWaitingToSend, xTasksWaitingToReceive>>
  BY DEF xTaskResumeAll, lockVars, dataVars
<1>3. holder = t /\ pc[t] = "resume"
  BY <1>1, <1>2, WhoRuns DEF Suspending
<1>4. /\ Alone(t) /\ pc'[t] \in {"look", "out", "recheck"}
      /\ wait[t] # "expired" => pc'[t] = "look" /\ op'[t] = op[t] /\ wait'[t] = wait[t]
  BY <1>1, <1>2, GoOnAlone
<1>5. \A u \in Task : u # t => pc'[u] = pc[u] /\ op'[u] = op[u] /\ wait'[u] = wait[u]
  BY <1>1, <1>4 DEF CallsOK, Alone
<1>6. ASSUME NEW u \in Task, Asleep(u)
      PROVE  /\ pc'[u] = "look" /\ op'[u] = op[u] /\ wait'[u] = wait[u]
             /\ wait[u] # "expired" /\ blocked[u]
  <2>1. /\ blocked[u] /\ wait[u] # "expired"
        /\ pc[u] \in {"look", "unlockTx", "unlockRx", "resume"}
    BY <1>1, <1>6 DEF Sleeping
  <2>2. u # t => pc[u] \notin Suspending
    BY <1>1, <1>3 DEF Locking
  <2>3. u # t => pc[u] = "look"
    BY <2>1, <2>2 DEF Suspending
  <2> QED BY <1>4, <1>5, <2>1, <2>3
<1>7. \A u \in Task : Asleep(u)' => Asleep(u) /\ u \notin pending
  BY <1>1, <1>2 DEF Asleep, Sleeping
<1>8. Sleeping'
  <2>1. ASSUME NEW u \in Task, Asleep(u)' PROVE blocked'[u]
    <3>1. blocked[u] /\ u \notin pending
      BY <1>6, <1>7, <2>1
    <3> QED BY <1>2, <3>1
  <2>2. ASSUME NEW u \in Task, Asleep(u)'
        PROVE  /\ blocked'[u] /\ wait'[u] # "expired"
               /\ pc'[u] \in {"look", "unlockTx", "unlockRx", "resume"}
    BY <1>6, <1>7, <2>1, <2>2
  <2>3. \A u \in Task : Asleep(u) => (Sending(u)' <=> Sending(u))
    BY <1>6 DEF Sending
  <2>4. \A u \in Task : /\ Contains(xTasksWaitingToSend', u) => Sending(u)'
                        /\ Contains(xTasksWaitingToReceive', u) => ~Sending(u)'
    BY <1>1, <1>2, <2>3 DEF Sleeping, Asleep
  <2> QED BY <1>1, <1>2, <2>2, <2>4 DEF Sleeping
<1>9. Tested'
  BY <1>2, <1>4, NobodyPlaces
<1>10. ASSUME NEW u \in Task, pc[u] = "look" \/ u \in pending
       PROVE  pc'[u] = "look" /\ (Sending(u)' <=> Sending(u))
  <2>1. CASE u \in pending
    BY <1>6, <2>1 DEF Asleep, Sending
  <2>2. CASE u \notin pending
    BY <1>3, <1>5, <1>10, <2>2 DEF Sending
  <2> QED BY <2>1, <2>2
<1>11. Receivers \subseteq Receivers' /\ Senders \subseteq Senders'
  BY <1>2, <1>10, LookersAreTasks
<1>12. PICK none : none = {}
  OBVIOUS
<1>13. none \in SUBSET Task /\ Cardinality(none) = 0
  BY <1>12, FS_EmptySet
<1>14. Owed(cTxLock) \in Int /\ Owed(cRxLock) \in Int
  BY <1>1 DEF Owed
<1>15. /\ uxMessagesWaiting' + Owed(cTxLock)
            <= uxMessagesWaiting + Cardinality(none) + Owed(cTxLock')
       /\ uxMessagesWaiting + Owed(cRxLock)
            <= uxMessagesWaiting' + Cardinality(none) + Owed(cRxLock')
  BY <1>1, <1>2, <1>13, <1>14
<1>16. NoReceiverForgotten'
  BY <1>1, <1>2, <1>11, <1>12, <1>13, <1>15, ReceiversKeepUp
<1>17. NoSenderForgotten'
  BY <1>1, <1>2, <1>11, <1>12, <1>13, <1>15, SendersKeepUp
<1> QED BY <1>8, <1>9, <1>16, <1>17 DEF WakesNext

\* Calls that stand still are calm.
LEMMA NobodyGoesOn ==
    ASSUME Sleeping, UNCHANGED <<pc, callVars>>
    PROVE  Calm
BY DEF Sleeping, Calm, callVars

\* A reset leaves no message, and its own room is not counted.
LEMMA ResetWakes ==
    ASSUME Inv, Inv', Wakes, Locking', NEW t \in Task, xQueueGenericReset(t)
    PROVE  WakesNext
<1>1. /\ LocksOK /\ LocksOK' /\ ListsOK /\ CallsOK /\ RestOK /\ Sleeping /\ Locking
  BY InvParts DEF Wakes
<1>2. /\ At(t, "out") /\ uxMessagesWaiting' = 0 /\ cTxLock' = -1 /\ WakeSenders(1)
      /\ resetRoom' = TRUE /\ UNCHANGED <<pc, callVars, holder>>
  BY DEF xQueueGenericReset, queueUNLOCKED
<1>3. holder = NoTask /\ pc[t] = "out"
  BY <1>1, <1>2, WhoRuns DEF Suspending
<1>4. Tested'
  BY <1>2, <1>3, NobodyPlaces
<1>5. Sleeping'
  BY <1>1, <1>2, NobodyGoesOn, SendersReturn
<1>6. PICK none : none = {}
  OBVIOUS
<1>7. none \in SUBSET Task
  BY <1>6
<1>8. Cardinality(Receivers') \in Nat /\ Owed(cTxLock') = 0
  <2>1. Cardinality(Receivers') \in Nat
    BY <1>7, LookersAreTasks, CountGrows
  <2> QED BY <1>2, <2>1 DEF Owed
<1>9. uxMessagesWaiting' <= Cardinality(Receivers') + Owed(cTxLock')
  BY <1>2, <1>8
<1>10. NoReceiverForgotten'
  BY <1>1, <1>9, ForgottenParts
<1>11. NoSenderForgotten'
  BY <1>2 DEF NoSenderForgotten
<1> QED BY <1>4, <1>5, <1>10, <1>11 DEF WakesNext

\* A task whose time passes looks at the queue before it gives up.
LEMMA TimeWakes ==
    ASSUME Inv, Inv', Wakes, Locking', NEW t \in Task, TimePasses(t)
    PROVE  WakesNext
<1>1. /\ LocksOK /\ ListsOK /\ CallsOK /\ RestOK /\ Sleeping /\ Locking
      /\ NoReceiverForgotten /\ NoSenderForgotten
      /\ cTxLock \in Int /\ cRxLock \in Int /\ uxMessagesWaiting \in Int
  BY InvParts, CountsAreNumbers DEF Wakes
<1>2. /\ holder = NoTask /\ wait' = [wait EXCEPT ![t] = "expired"]
      /\ blocked' = [blocked EXCEPT ![t] = FALSE]
      /\ xTasksWaitingToSend' = Without(xTasksWaitingToSend, t)
      /\ xTasksWaitingToReceive' = Without(xTasksWaitingToReceive, t)
      /\ UNCHANGED <<uxMessagesWaiting, cTxLock, cRxLock, resetRoom, op, pending, holder, pc>>
  BY DEF TimePasses, dataVars, lockVars
<1>3. pending = {} /\ pc[t] \notin Suspending
  BY <1>1, <1>2, QueueAssumption DEF Sleeping, Locking
<1>4. Tested'
  BY <1>2, <1>3, NobodyPlaces DEF Suspending
<1>5. /\ \A u : Contains(xTasksWaitingToSend', u)
                  <=> Contains(xTasksWaitingToSend, u) /\ u # t
      /\ \A u : Contains(xTasksWaitingToReceive', u)
                  <=> Contains(xTasksWaitingToReceive, u) /\ u # t
      /\ IsInjective(xTasksWaitingToSend') /\ IsInjective(xTasksWaitingToReceive')
  BY <1>1, <1>2, WithoutExact DEF ListsOK, Sleeping
<1>6. Sleeping'
  <2>1. \A u \in Task : Asleep(u)' => Asleep(u) /\ u # t
    BY <1>2, <1>3, <1>5 DEF Asleep
  <2>2. ASSUME NEW u \in Task, Asleep(u)' PROVE blocked'[u]
    <3>1. blocked[u] /\ blocked'[u] = blocked[u]
      BY <1>1, <1>2, <2>1, <2>2 DEF Sleeping, ListsOK
    <3> QED BY <3>1
  <2>3. ASSUME NEW u \in Task, Asleep(u)'
        PROVE  /\ blocked'[u] /\ wait'[u] # "expired"
               /\ pc'[u] \in {"look", "unlockTx", "unlockRx", "resume"}
    BY <1>1, <1>2, <2>1, <2>2, <2>3 DEF Sleeping, CallsOK
  <2>4. \A u \in Task : /\ Contains(xTasksWaitingToSend', u) => Sending(u)'
                        /\ Contains(xTasksWaitingToReceive', u) => ~Sending(u)'
    BY <1>1, <1>2, <1>5 DEF Sleeping, Sending
  <2> QED BY <1>2, <1>3, <1>5, <2>3, <2>4 DEF Sleeping
<1>7. Receivers \subseteq Receivers' /\ Senders \subseteq Senders'
  BY <1>2, <1>5, LookersAreTasks DEF Sending
<1>8. PICK none : none = {}
  OBVIOUS
<1>9. none \in SUBSET Task /\ Cardinality(none) = 0
  BY <1>8, FS_EmptySet
<1>10. Owed(cTxLock) \in Int /\ Owed(cRxLock) \in Int
  BY <1>1 DEF Owed
<1>11. /\ uxMessagesWaiting' + Owed(cTxLock)
            <= uxMessagesWaiting + Cardinality(none) + Owed(cTxLock')
       /\ uxMessagesWaiting + Owed(cRxLock)
            <= uxMessagesWaiting' + Cardinality(none) + Owed(cRxLock')
  BY <1>1, <1>2, <1>9, <1>10
<1>12. NoReceiverForgotten'
  BY <1>1, <1>5, <1>7, <1>8, <1>9, <1>11, ReceiversKeepUp
<1>13. NoSenderForgotten'
  BY <1>1, <1>2, <1>5, <1>7, <1>8, <1>9, <1>11, SendersKeepUp
<1> QED BY <1>4, <1>6, <1>12, <1>13 DEF WakesNext

\* The tasks that were to look at the queue still are when no call goes on.
LEMMA AllStillLooking ==
    ASSUME UNCHANGED <<pc, callVars>>, pending \subseteq pending',
           \A u \in Task : Contains(xTasksWaitingToReceive', u)
                             => Contains(xTasksWaitingToReceive, u),
           \A u \in Task : Contains(xTasksWaitingToSend', u)
                             => Contains(xTasksWaitingToSend, u)
    PROVE  Receivers \subseteq Receivers' /\ Senders \subseteq Senders'
BY LookersAreTasks DEF callVars, Sending

\* A handler that adds to a lock count adds exactly one.
LEMMA HandlerCounts ==
    ASSUME MaxLockCount <= Int8Max, NEW lock \in Int, lock >= queueUNLOCKED,
           lock # queueUNLOCKED, lock < MaxLockCount
    PROVE  lock >= 0 /\ Int8(lock + 1) = lock + 1
<1>1. lock >= 0 /\ lock + 1 \in Nat /\ lock + 1 <= Int8Max
  BY QueueAssumption DEF queueUNLOCKED
<1> QED BY <1>1, CountsUp

\* With more messages there are fewer free slots.
LEMMA FewerFree ==
    ASSUME NEW n \in Int, NEW a \in Int, NEW b \in Int, NEW k \in Int, a <= b, n - a <= k
    PROVE  n - b <= k
OBVIOUS

\* A message that a handler sends wakes a receiver, or the lock count notes it.
LEMMA SendFromISRWakes ==
    ASSUME MaxLockCount <= Int8Max, Inv, Inv', Wakes, Locking',
           NEW m \in Message, NEW position \in Ops, xQueueGenericSendFromISR(m, position)
    PROVE  WakesNext
<1>1. /\ LocksOK /\ ListsOK /\ CallsOK /\ RestOK /\ Sleeping /\ Locking /\ Tested
      /\ NoReceiverForgotten /\ NoSenderForgotten
      /\ cTxLock \in Int /\ cRxLock \in Int /\ uxMessagesWaiting \in Int /\ Length \in Int
      /\ uxMessagesWaiting' \in Int
  BY InvParts, CountsAreNumbers, LengthPositive DEF Wakes, DataOK
<1>2. /\ prvCopyDataToQueue(m, position) /\ KeepRoom /\ position \in Ops \cap SendOps
      /\ cTxLock < MaxLockCount
      /\ UNCHANGED <<cRxLock, holder, pc, op, wait>> /\ UNCHANGED <<pc, callVars>>
  BY DEF xQueueGenericSendFromISR, callVars
<1>3. Calm
  BY <1>1, <1>2, NobodyGoesOn
<1>4. \/ uxMessagesWaiting' = uxMessagesWaiting + 1
      \/ uxMessagesWaiting' = uxMessagesWaiting /\ uxMessagesWaiting' = Length
  BY <1>2, CopyCounts
<1>5. ~resetRoom' => ~resetRoom \/ uxMessagesWaiting' = Length
  BY <1>2, CopyCounts
<1>6. CASE cTxLock = queueUNLOCKED
  <2>1. WakeReceivers(1) /\ UNCHANGED cTxLock
    BY <1>6 DEF xQueueGenericSendFromISR
  <2>2. PICK W \in SUBSET Task :
          /\ W \subseteq Receivers' /\ W \cap Receivers = {}
          /\ xTasksWaitingToReceive' # <<>> => Cardinality(W) = 1
    BY <1>1, <1>2, <1>3, <2>1, ReceiversReturn
  <2>3. /\ Sleeping' /\ UNCHANGED xTasksWaitingToSend /\ pending \subseteq pending'
        /\ \A u \in Task : Contains(xTasksWaitingToReceive', u)
                             => Contains(xTasksWaitingToReceive, u)
    BY <1>1, <1>2, <1>3, <2>1, ReceiversReturn
  <2>4. Receivers \subseteq Receivers' /\ Senders \subseteq Senders'
    BY <1>2, <2>3, AllStillLooking
  <2>5. Owed(cTxLock) \in Int /\ Owed(cRxLock) \in Int
    BY <1>1 DEF Owed
  <2>6. NoReceiverForgotten'
    <3>1. xTasksWaitingToReceive' # <<>> =>
            uxMessagesWaiting' + Owed(cTxLock)
               <= uxMessagesWaiting + Cardinality(W) + Owed(cTxLock')
      BY <1>1, <1>4, <2>1, <2>2, <2>5
    <3> QED BY <1>1, <2>2, <2>3, <2>4, <3>1, ReceiversKeepUp
  <2>7. NoSenderForgotten'
    <3>1. PICK none : none = {}
      OBVIOUS
    <3>2. none \in SUBSET Task /\ Cardinality(none) = 0
      BY <3>1, FS_EmptySet
    <3>3. uxMessagesWaiting + Owed(cRxLock)
            <= uxMessagesWaiting' + Cardinality(none) + Owed(cRxLock')
      BY <1>1, <1>2, <1>4, <2>5, <3>2
    <3> QED BY <1>1, <1>5, <2>3, <2>4, <3>1, <3>2, <3>3, SendersKeepUp
  <2>8. Tested'
    <3>1. \A u \in Task : pc'[u] \notin {"test", "place"}
      BY <1>1, <1>2, <1>6 DEF Locking
    <3> QED BY <3>1 DEF Tested
  <2> QED BY <2>3, <2>6, <2>7, <2>8 DEF WakesNext
<1>7. CASE cTxLock # queueUNLOCKED
  <2>1. cTxLock' = Int8(cTxLock + 1) /\ UNCHANGED listVars
    BY <1>7 DEF xQueueGenericSendFromISR
  <2>2. cTxLock >= 0 /\ cTxLock' = cTxLock + 1
    BY <1>1, <1>2, <1>7, <2>1, HandlerCounts DEF Locking
  <2>3. UNCHANGED <<xTasksWaitingToSend, xTasksWaitingToReceive, pending>>
    BY <2>1 DEF listVars
  <2>4. Sleeping'
    BY <1>1, <1>2, <1>3, <2>1, SleepersStay DEF Sleeping
  <2>5. Receivers \subseteq Receivers' /\ Senders \subseteq Senders'
    BY <1>2, <2>3, AllStillLooking
  <2>6. PICK none : none = {}
    OBVIOUS
  <2>7. none \in SUBSET Task /\ Cardinality(none) = 0
    BY <2>6, FS_EmptySet
  <2>8. /\ Owed(cTxLock) = cTxLock /\ Owed(cTxLock') = cTxLock + 1
        /\ Owed(cRxLock) \in Int /\ Owed(cRxLock') = Owed(cRxLock)
    BY <1>1, <1>2, <2>2 DEF Owed
  <2>9. /\ uxMessagesWaiting' + Owed(cTxLock)
             <= uxMessagesWaiting + Cardinality(none) + Owed(cTxLock')
        /\ uxMessagesWaiting + Owed(cRxLock)
             <= uxMessagesWaiting' + Cardinality(none) + Owed(cRxLock')
    <3>1. CASE uxMessagesWaiting' = uxMessagesWaiting + 1
      BY <1>1, <2>2, <2>7, <2>8, <3>1
    <3>2. CASE uxMessagesWaiting' = uxMessagesWaiting
      BY <1>1, <2>2, <2>7, <2>8, <3>2
    <3> QED BY <1>4, <3>1, <3>2
  <2>10. NoReceiverForgotten'
    BY <1>1, <2>3, <2>5, <2>6, <2>7, <2>9, ReceiversKeepUp
  <2>11. NoSenderForgotten'
    BY <1>1, <1>5, <2>3, <2>5, <2>6, <2>7, <2>9, SendersKeepUp
  <2>12. Tested'
    <3>1. ASSUME NEW u \in Task, pc'[u] = "place"
          PROVE  IF Sending(u)' THEN Length - uxMessagesWaiting' <= cRxLock'
                 ELSE uxMessagesWaiting' <= cTxLock'
      <4>1. /\ IF Sending(u) THEN Length - uxMessagesWaiting <= cRxLock
               ELSE uxMessagesWaiting <= cTxLock
            /\ Sending(u)' <=> Sending(u)
        BY <1>1, <1>2, <3>1 DEF Tested, Sending
      <4>2. uxMessagesWaiting <= uxMessagesWaiting'
            /\ uxMessagesWaiting' <= uxMessagesWaiting + 1
        <5>1. CASE uxMessagesWaiting' = uxMessagesWaiting + 1
          BY <1>1, <5>1
        <5>2. CASE uxMessagesWaiting' = uxMessagesWaiting
          BY <1>1, <5>2
        <5> QED BY <1>4, <5>1, <5>2
      <4>3. cRxLock' = cRxLock /\ cTxLock' = cTxLock + 1
        BY <1>2, <2>2
      <4>4. CASE Sending(u)
        <5>1. Length - uxMessagesWaiting <= cRxLock
          BY <4>1, <4>4
        <5>2. Length - uxMessagesWaiting' <= cRxLock'
          BY <1>1, <4>2, <4>3, <5>1, FewerFree
        <5> QED BY <4>1, <4>4, <5>2
      <4>5. CASE ~Sending(u)
        <5>1. uxMessagesWaiting' <= cTxLock'
          BY <1>1, <4>1, <4>2, <4>3, <4>5
        <5> QED BY <4>1, <4>5, <5>1
      <4> QED BY <4>4, <4>5
    <3> QED BY <1>1, <1>2, <3>1 DEF Tested
  <2> QED BY <2>4, <2>10, <2>11, <2>12 DEF WakesNext
<1> QED BY <1>6, <1>7

\* A message that a handler takes wakes a sender, or the lock count notes it.
LEMMA ReceiveFromISRWakes ==
    ASSUME MaxLockCount <= Int8Max, Inv, Inv', Wakes, Locking', xQueueReceiveFromISR
    PROVE  WakesNext
<1>1. /\ LocksOK /\ ListsOK /\ CallsOK /\ RestOK /\ Sleeping /\ Locking /\ Tested
      /\ NoReceiverForgotten /\ NoSenderForgotten
      /\ cTxLock \in Int /\ cRxLock \in Int /\ uxMessagesWaiting \in Int /\ Length \in Int
  BY InvParts, CountsAreNumbers DEF Wakes
<1>2. /\ uxMessagesWaiting' = uxMessagesWaiting - 1 /\ cRxLock < MaxLockCount
      /\ UNCHANGED <<cTxLock, holder, pc, op, wait, resetRoom>> /\ UNCHANGED <<pc, callVars>>
  BY DEF xQueueReceiveFromISR, Take, callVars
<1>3. Calm
  BY <1>1, <1>2, NobodyGoesOn
<1>4. CASE cRxLock = queueUNLOCKED
  <2>1. WakeSenders(1) /\ UNCHANGED cRxLock
    BY <1>4 DEF xQueueReceiveFromISR
  <2>2. PICK W \in SUBSET Task :
          /\ W \subseteq Senders' /\ W \cap Senders = {}
          /\ xTasksWaitingToSend' # <<>> => Cardinality(W) = 1
    BY <1>1, <1>2, <1>3, <2>1, SendersReturn
  <2>3. /\ Sleeping' /\ UNCHANGED xTasksWaitingToReceive /\ pending \subseteq pending'
        /\ \A u \in Task : Contains(xTasksWaitingToSend', u)
                             => Contains(xTasksWaitingToSend, u)
    BY <1>1, <1>2, <1>3, <2>1, SendersReturn
  <2>4. Receivers \subseteq Receivers' /\ Senders \subseteq Senders'
    BY <1>2, <2>3, AllStillLooking
  <2>5. Owed(cTxLock) \in Int /\ Owed(cRxLock) \in Int
    BY <1>1 DEF Owed
  <2>6. NoSenderForgotten'
    <3>1. xTasksWaitingToSend' # <<>> =>
            uxMessagesWaiting + Owed(cRxLock)
               <= uxMessagesWaiting' + Cardinality(W) + Owed(cRxLock')
      BY <1>1, <1>2, <2>1, <2>2, <2>5
    <3>2. ~resetRoom' => ~resetRoom
      BY <1>2
    <3> QED BY <1>1, <2>2, <2>3, <2>4, <3>1, <3>2, SendersKeepUp
  <2>7. NoReceiverForgotten'
    <3>1. PICK none : none = {}
      OBVIOUS
    <3>2. none \in SUBSET Task /\ Cardinality(none) = 0
      BY <3>1, FS_EmptySet
    <3>3. uxMessagesWaiting' + Owed(cTxLock)
            <= uxMessagesWaiting + Cardinality(none) + Owed(cTxLock')
      BY <1>1, <1>2, <2>5, <3>2
    <3> QED BY <1>1, <2>3, <2>4, <3>1, <3>2, <3>3, ReceiversKeepUp
  <2>8. Tested'
    <3>1. \A u \in Task : pc'[u] \notin {"test", "place"}
      BY <1>1, <1>2, <1>4 DEF Locking
    <3> QED BY <3>1 DEF Tested
  <2> QED BY <2>3, <2>6, <2>7, <2>8 DEF WakesNext
<1>5. CASE cRxLock # queueUNLOCKED
  <2>1. cRxLock' = Int8(cRxLock + 1) /\ UNCHANGED listVars
    BY <1>5 DEF xQueueReceiveFromISR
  <2>2. cRxLock >= 0 /\ cRxLock' = cRxLock + 1
    BY <1>1, <1>2, <1>5, <2>1, HandlerCounts DEF Locking
  <2>3. UNCHANGED <<xTasksWaitingToSend, xTasksWaitingToReceive, pending>>
    BY <2>1 DEF listVars
  <2>4. Sleeping'
    BY <1>1, <1>2, <1>3, <2>1, SleepersStay DEF Sleeping
  <2>5. Receivers \subseteq Receivers' /\ Senders \subseteq Senders'
    BY <1>2, <2>3, AllStillLooking
  <2>6. PICK none : none = {}
    OBVIOUS
  <2>7. none \in SUBSET Task /\ Cardinality(none) = 0
    BY <2>6, FS_EmptySet
  <2>8. /\ Owed(cRxLock) = cRxLock /\ Owed(cRxLock') = cRxLock + 1
        /\ Owed(cTxLock) \in Int /\ Owed(cTxLock') = Owed(cTxLock)
    BY <1>1, <1>2, <2>2 DEF Owed
  <2>9. /\ uxMessagesWaiting' + Owed(cTxLock)
             <= uxMessagesWaiting + Cardinality(none) + Owed(cTxLock')
        /\ uxMessagesWaiting + Owed(cRxLock)
             <= uxMessagesWaiting' + Cardinality(none) + Owed(cRxLock')
    BY <1>1, <1>2, <2>7, <2>8
  <2>10. NoReceiverForgotten'
    BY <1>1, <2>3, <2>5, <2>6, <2>7, <2>9, ReceiversKeepUp
  <2>11. NoSenderForgotten'
    BY <1>1, <1>2, <2>3, <2>5, <2>6, <2>7, <2>9, SendersKeepUp
  <2>12. Tested'
    <3>1. ASSUME NEW u \in Task, pc'[u] = "place"
          PROVE  IF Sending(u)' THEN Length - uxMessagesWaiting' <= cRxLock'
                 ELSE uxMessagesWaiting' <= cTxLock'
      <4>1. /\ IF Sending(u) THEN Length - uxMessagesWaiting <= cRxLock
               ELSE uxMessagesWaiting <= cTxLock
            /\ Sending(u)' <=> Sending(u)
        BY <1>1, <1>2, <3>1 DEF Tested, Sending
      <4> QED BY <1>1, <1>2, <2>2, <4>1
    <3> QED BY <1>1, <1>2, <3>1 DEF Tested
  <2> QED BY <2>4, <2>10, <2>11, <2>12 DEF WakesNext
<1> QED BY <1>4, <1>5

\* Every step keeps the wake-ups.
LEMMA NextWakes ==
    ASSUME MaxLockCount <= Int8Max, Inv, Wakes, Next
    PROVE  Wakes'
<1>1. Inv' /\ Locking'
  BY NextStep, LockingKept DEF Refines, Wakes
<1>2. ASSUME NEW t \in Task,
             \/ \E o \in Ops, w \in {"none", "limited", "forever"} : Call(t, o, w)
             \/ Proceed(t) \/ xQueueGenericReset(t) \/ TimePasses(t)
      PROVE  WakesNext
  <2>1. CASE \/ \E m \in Message : SendNow(t, m)
             \/ ReceiveNow(t) \/ PeekNow(t) \/ NotNow(t)
    BY <1>1, <2>1, SendWakes, ReceiveWakes, PeekWakes, NotNowWakes
  <2>2. CASE \/ \E o \in Ops, w \in {"none", "limited", "forever"} : Call(t, o, w)
             \/ vTaskSuspendAll(t) \/ prvLockQueue(t) \/ Test(t) \/ Recheck(t)
    BY <1>1, <2>2, GoingToTest
  <2>3. CASE \/ vTaskPlaceOnEventList(t) \/ UnlockTx(t) \/ UnlockRx(t) \/ xTaskResumeAll(t)
    BY <1>1, <2>3, PlaceWakes, UnlockTxWakes, UnlockRxWakes, ResumeWakes
  <2>4. CASE xQueueGenericReset(t) \/ TimePasses(t)
    BY <1>1, <2>4, ResetWakes, TimeWakes
  <2> QED BY <1>2, <2>1, <2>2, <2>3, <2>4 DEF Proceed
<1>3. ASSUME NEW m \in Message, NEW o \in Ops, xQueueGenericSendFromISR(m, o)
      PROVE  WakesNext
  BY <1>1, <1>3, SendFromISRWakes
<1>4. ASSUME xQueueReceiveFromISR PROVE WakesNext
  BY <1>1, <1>4, ReceiveFromISRWakes
<1>5. WakesNext
  BY <1>2, <1>3, <1>4 DEF Next
<1> QED BY <1>1, <1>5 DEF WakesNext, Wakes

\* In a new queue nobody waits.
LEMMA InitWakes == Init => Wakes
<1> SUFFICES ASSUME Init PROVE Wakes
  OBVIOUS
<1>1. /\ \A u : ~Contains(<<>>, u)
      /\ IsInjective(<<>>)
  BY DEF Contains, IsInjective
<1>2. Locking
  BY QueueAssumption DEF Init, Locking, Suspending, queueUNLOCKED
<1>3. Sleeping
  BY <1>1 DEF Init, Sleeping, Asleep
<1>4. Tested
  BY DEF Init, Tested
<1>5. NoReceiverForgotten /\ NoSenderForgotten
  BY DEF Init, NoReceiverForgotten, NoSenderForgotten
<1> QED BY <1>2, <1>3, <1>4, <1>5 DEF Wakes

\* The invariant of the wake-ups: it needs handlers that stay below the 127 messages an
\* int8_t can count while a task holds the queue locked.
THEOREM WakeUpsInvariant == MaxLockCount <= Int8Max => (Spec => []Wakes)
<1> SUFFICES ASSUME MaxLockCount <= Int8Max PROVE Spec => []Wakes
  OBVIOUS
<1>1. Inv /\ Wakes /\ [Next]_vars => Wakes'
  <2>1. ASSUME Inv, Wakes, UNCHANGED vars PROVE Wakes'
    BY <2>1 DEF vars, dataVars, lockVars, listVars, callVars, Wakes, Locking, Sleeping,
        Asleep, Sending, Tested, NoReceiverForgotten, NoSenderForgotten, WillLook
  <2> QED BY <2>1, NextWakes
<1> QED BY <1>1, InitWakes, QueueInvariant, PTL DEF Spec

\* No receiver is left asleep beside a message that nobody is on its way to,
THEOREM ReceiversRemembered == MaxLockCount <= Int8Max => (Spec => []NoReceiverForgotten)
<1>1. Wakes => NoReceiverForgotten
  BY DEF Wakes
<1> QED BY <1>1, WakeUpsInvariant, PTL

\* and no sender beside a free slot that no reset made.
THEOREM SendersRemembered == MaxLockCount <= Int8Max => (Spec => []NoSenderForgotten)
<1>1. Wakes => NoSenderForgotten
  BY DEF Wakes
<1> QED BY <1>1, WakeUpsInvariant, PTL
=============================================================================
