------------------------------- MODULE Heap4 -------------------------------
(***************************************************************************)
(* The heap of heap_4.c: first fit, splitting, and merging of a block that *)
(* is freed with the free blocks on both sides.  Addresses count bytes     *)
(* from the aligned start of ucHeap.  The allocator works with the         *)
(* scheduler suspended and no handler calls it, so a call is one step.     *)
(***************************************************************************)
EXTENDS Naturals, FiniteSetsExt, SequencesExt

CONSTANTS
    HeapEnd,          \* the address of pxEnd
    Alignment,        \* portBYTE_ALIGNMENT
    xHeapStructSize,  \* size of the header of a block
    Requests          \* the sizes asked for

heapMINIMUM_BLOCK_SIZE == 2 * xHeapStructSize

ASSUME Heap4Assumption ==
    /\ {HeapEnd, Alignment, xHeapStructSize} \subseteq Nat \ {0}
    /\ HeapEnd % Alignment = 0 /\ xHeapStructSize % Alignment = 0
    /\ Requests \subseteq Nat

VARIABLES
    freeList,                        \* the addresses of the free blocks, linked from xStart to pxEnd
    xBlockSize,                      \* the size in the header of every block
    requested,                       \* of each allocated block, the size asked for
    xFreeBytesRemaining,
    xMinimumEverFreeBytesRemaining

heapVars == <<freeList, xBlockSize, requested, xFreeBytesRemaining, xMinimumEverFreeBytesRemaining>>

\* prvHeapInit: one free block up to pxEnd.
HeapInit ==
    /\ freeList = <<0>>
    /\ xBlockSize = [b \in {0} |-> HeapEnd]
    /\ requested = [b \in {} |-> 0]
    /\ xFreeBytesRemaining = HeapEnd /\ xMinimumEverFreeBytesRemaining = HeapEnd

\* Where the walk along the free list stops: at the first block that is not below this
\* one, or at pxEnd.
Stop(list, block) == Min({i \in 1 .. Len(list) + 1 : i <= Len(list) => list[i] >= block})

\* The free blocks below the first one that is not below block, and the others.
Before(list, block) == SubSeq(list, 1, Stop(list, block) - 1)
After(list, block) == SubSeq(list, Stop(list, block), Len(list))

\* Mutant: a block is merged with the one before it only.
InsertMergingLeft(list, sizes, block) ==
    LET before == Before(list, block)
        after == After(list, block)
        left == before # <<>> /\ Last(before) + sizes[Last(before)] = block
        merged == [sizes EXCEPT ![Last(before)] = @ + sizes[block]]
    IN  IF left THEN [list |-> before \o after, sizes |-> Restrict(merged, DOMAIN sizes \ {block})]
                ELSE [list |-> Append(before, block) \o after, sizes |-> sizes]

(* The free list and the headers after a block is put in its place by      *)
(* address and merged with the free blocks that touch it.                  *)
prvInsertBlockIntoFreeList(list, sizes, block) ==
    LET before == Before(list, block)
        after == After(list, block)
        left == before # <<>> /\ Last(before) + sizes[Last(before)] = block
        right == after # <<>> /\ block + sizes[block] = Head(after)
        first == IF left THEN Last(before) ELSE block
        gone == (IF left THEN {block} ELSE {}) \union (IF right THEN {Head(after)} ELSE {})
        total == sizes[block] + (IF left THEN sizes[first] ELSE 0)
                              + (IF right THEN sizes[Head(after)] ELSE 0)
    IN  [list |-> (IF left THEN before ELSE Append(before, block))
                  \o (IF right THEN Tail(after) ELSE after),
         sizes |-> [b \in DOMAIN sizes \ gone |-> IF b = first THEN total ELSE sizes[b]]]

\* The size with the header, rounded up to the alignment.
Rounded(size) ==
    LET wanted == size + xHeapStructSize
    IN  wanted + ((Alignment - (wanted % Alignment)) % Alignment)

\* The headers after a block is cut in two, the first part of the size wanted.
Cut(sizes, block, wanted) ==
    [b \in DOMAIN sizes \union {block + wanted} |->
        IF b = block THEN wanted
        ELSE IF b = block + wanted THEN sizes[block] - wanted ELSE sizes[b]]

(* The first block that is large enough is taken; what it has too much is  *)
(* split off if it makes a block worth keeping.                            *)
pvPortMalloc ==
    \E size \in Requests \ {0} :
        LET wanted == Rounded(size)
            fits == {i \in DOMAIN freeList : xBlockSize[freeList[i]] >= wanted}
        IN  /\ wanted <= xFreeBytesRemaining /\ fits # {}
            /\ LET block == freeList[Min(fits)]
                   others == RemoveAt(freeList, Min(fits))
                   split == xBlockSize[block] - wanted > heapMINIMUM_BLOCK_SIZE
                   taken == IF split THEN wanted ELSE xBlockSize[block]
                   after == prvInsertBlockIntoFreeList(others, Cut(xBlockSize, block, wanted), block + wanted)
               IN  /\ freeList' = IF split THEN after.list ELSE others
                   /\ xBlockSize' = IF split THEN after.sizes ELSE xBlockSize
                   /\ requested' = [b \in DOMAIN requested \union {block} |->
                                        IF b = block THEN size ELSE requested[b]]
                   /\ xFreeBytesRemaining' = xFreeBytesRemaining - taken
                   /\ xMinimumEverFreeBytesRemaining' =
                        Min({xMinimumEverFreeBytesRemaining, xFreeBytesRemaining'})

vPortFree(block) ==
    LET after == prvInsertBlockIntoFreeList(freeList, xBlockSize, block)
    IN  /\ xFreeBytesRemaining' = xFreeBytesRemaining + xBlockSize[block]
        /\ freeList' = after.list /\ xBlockSize' = after.sizes
        /\ requested' = Restrict(requested, DOMAIN requested \ {block})
        /\ UNCHANGED xMinimumEverFreeBytesRemaining

HeapNext == pvPortMalloc \/ \E block \in DOMAIN requested : vPortFree(block)

-----------------------------------------------------------------------------
(* After any sequence of calls the blocks, free and allocated, fill the    *)
(* heap from end to end without a gap or an overlap; no two free blocks    *)
(* touch, so that memory is not lost to fragmentation; every allocated     *)
(* block holds what was asked for; every block is aligned, and with it     *)
(* what pvPortMalloc returns and the header it writes where it cuts a      *)
(* block (its assertions, heap_4.c:236 and 300); and xFreeBytesRemaining   *)
(* is the sum of the free blocks.  (pvPortMalloc, vPortFree,               *)
(* prvInsertBlockIntoFreeList)                                             *)
TotalSize(sizes, blocks) == MapThenSumSet(LAMBDA b : sizes[b], blocks)
Block == DOMAIN xBlockSize
EndOf(b) == b + xBlockSize[b]
BlocksAligned == \A b \in Block : b % Alignment = 0
HeapPartition ==
    /\ 0 \in Block /\ \A b \in Block : EndOf(b) \in Block \union {HeapEnd}
    /\ \A b, c \in Block : b < c => EndOf(b) <= c
    /\ Block = ToSet(freeList) \union DOMAIN requested
    /\ ToSet(freeList) \intersect DOMAIN requested = {}
    /\ \A i, j \in DOMAIN freeList : i < j => EndOf(freeList[i]) < freeList[j]
    /\ \A b \in DOMAIN requested : requested[b] + xHeapStructSize <= xBlockSize[b]
    /\ BlocksAligned
    /\ xFreeBytesRemaining = TotalSize(xBlockSize, ToSet(freeList))
    /\ xMinimumEverFreeBytesRemaining <= xFreeBytesRemaining
=============================================================================
