------------------------------ MODULE RawHeap ------------------------------
(***************************************************************************)
(* The heaps of extension/mm, heap_1.c, heap_2.c, heap_4.c and heap_5.c,   *)
(* by byte addresses.  A block is [at, size], its header included.  The    *)
(* free list is the sequence of its blocks between xStart and, in heap_2,  *)
(* xEnd; in heap_4 and heap_5 the last block is pxEnd itself, which is a   *)
(* block of size 0 in the heap.  A service runs with the scheduler locked, *)
(* so it is one action; no handler may call it.                            *)
(***************************************************************************)
EXTENDS Integers, Sequences, FiniteSetsExt, SequencesExt

CONSTANTS
  HEAP_TOTAL,     \* configTOTAL_HEAP_SIZE
  HeapStarts,     \* addresses where ucHeap or a region can start
  RegionSizes,    \* what the application gives to mem_5_heap_regions
  HeapWants       \* the sizes in bytes the application asks for

ASSUME HeapAssumption ==
  /\ HEAP_TOTAL \in Nat /\ RegionSizes \subseteq Nat
  /\ HeapStarts \subseteq Nat /\ HeapWants \subseteq Nat

VARIABLE
  heap   \* kind: the file; top: the aligned start; free; remaining:
         \* xFreeBytesRemaining; least: xMinimumEverFreeBytesRemaining;
         \* next: xNextFreeByte of heap_1; given: the blocks of the
         \* application; regions: the blocks that the heap started with;
         \* areas: the memory it was given

ALIGN == 4                \* portBYTE_ALIGNMENT
HEAPSTRUCT_SIZE == 8      \* two words, already aligned
heapMINIMUM_BLOCK_SIZE == 2 * HEAPSTRUCT_SIZE
ADJUSTED_HEAP_SIZE == HEAP_TOTAL - ALIGN

AlignUp(n) == ((n + ALIGN - 1) \div ALIGN) * ALIGN
AlignDown(n) == (n \div ALIGN) * ALIGN

BlockEnd(b) == b.at + b.size

(* The size of the block that holds so many bytes; of none there is none.  *)
WantedSize(bytes) == IF bytes = 0 THEN 0 ELSE AlignUp(bytes + HEAPSTRUCT_SIZE)

-----------------------------------------------------------------------------
(* The start.  heap_1 and heap_2 leave a word for the alignment, heap_4    *)
(* subtracts what it takes, and the last block ends where pxEnd is.        *)

NoHeap == [kind |-> 0, free |-> <<>>, remaining |-> 0, least |-> 0,
           next |-> 0, given |-> {}, regions |-> {}, areas |-> {}]

mem_1_init == [NoHeap EXCEPT !.kind = 1]

prvHeapInit_2(start) ==
  LET first == [at |-> AlignDown(start + ALIGN), size |-> ADJUSTED_HEAP_SIZE]
  IN  [NoHeap EXCEPT !.kind = 2, !.free = <<first>>, !.regions = {first},
         !.areas = {[at |-> start, size |-> HEAP_TOTAL]},
         !.remaining = ADJUSTED_HEAP_SIZE]

(* What is between the aligned start of an area and its end marker.        *)
FirstBlock(start, size) ==
  [at |-> AlignUp(start),
   size |-> AlignDown(start + size - HEAPSTRUCT_SIZE) - AlignUp(start)]

Marker(block) == [at |-> BlockEnd(block), size |-> 0]

prvHeapInit_4(start) ==
  LET first == FirstBlock(start, HEAP_TOTAL)
  IN  [NoHeap EXCEPT !.kind = 4, !.free = <<first, Marker(first)>>,
         !.regions = {first}, !.areas = {[at |-> start, size |-> HEAP_TOTAL]},
         !.remaining = first.size, !.least = first.size]

(* Two regions in the order of their addresses; the marker of the first    *)
(* one stays in the list, of size 0.                                       *)
mem_5_heap_regions(one, two) ==
  LET a == FirstBlock(one[1], one[2])
      b == FirstBlock(two[1], two[2])
  IN  [NoHeap EXCEPT !.kind = 5, !.free = <<a, Marker(a), b, Marker(b)>>,
         !.regions = {a, b},
         !.areas = {[at |-> r[1], size |-> r[2]] : r \in {one, two}},
         !.remaining = a.size + b.size,
         !.least = a.size + b.size]

HeapInit ==
  \/ heap = mem_1_init
  \/ \E start \in HeapStarts : heap \in {prvHeapInit_2(start), prvHeapInit_4(start)}
  \/ \E one, two \in HeapStarts \X RegionSizes :
       /\ one[1] + one[2] <= two[1]
       /\ heap = mem_5_heap_regions(one, two)

-----------------------------------------------------------------------------
(* heap_2: the list is in the order of the sizes, blocks are never merged. *)

InsertBySize(free, b) ==
  LET smaller == Cardinality({i \in DOMAIN free : free[i].size < b.size})
  IN  InsertAt(free, smaller + 1, b)

(* heap_4 and heap_5: in the order of the addresses, and the block is      *)
(* merged with the neighbours it touches, but not with pxEnd.              *)

InsertByAddress(free, b) ==
  LET lower == Cardinality({i \in DOMAIN free : free[i].at < b.at})
      after == free[lower + 1]
      extends == lower > 0 /\ BlockEnd(free[lower]) = b.at
      joins == BlockEnd(b) = after.at /\ lower + 1 < Len(free)
      block == [at |-> IF extends THEN free[lower].at ELSE b.at,
                size |-> b.size + (IF extends THEN free[lower].size ELSE 0)
                           + (IF joins THEN after.size ELSE 0)]
  IN  SubSeq(free, 1, IF extends THEN lower - 1 ELSE lower) \o <<block>>
        \o SubSeq(free, IF joins THEN lower + 2 ELSE lower + 1, Len(free))

Insert(free, b) ==
  IF heap.kind = 2 THEN InsertBySize(free, b) ELSE InsertByAddress(free, b)

-----------------------------------------------------------------------------

(* The limit that a request is compared with before the list is searched.  *)
WithinLimit(size) ==
  IF heap.kind = 2 THEN size < ADJUSTED_HEAP_SIZE ELSE size <= heap.remaining

(* The blocks that are large enough; the search takes the first of them.   *)
Fitting(size) == {i \in DOMAIN heap.free : heap.free[i].size >= size}

Grants(bytes) ==
  LET size == WantedSize(bytes)
  IN  size > 0 /\ WithinLimit(size) /\ Fitting(size) # {}

(* A block is taken out of the list, and what it has more than is wanted   *)
(* goes back, unless it is too small for a block.                          *)
Give(size) ==
  LET i == Min(Fitting(size))
      b == heap.free[i]
      rest == RemoveAt(heap.free, i)
      split == b.size - size > heapMINIMUM_BLOCK_SIZE
      gift == IF split THEN [b EXCEPT !.size = size] ELSE b
      surplus == [at |-> b.at + size, size |-> b.size - size]
      left == heap.remaining - gift.size
  IN  heap' = [heap EXCEPT
         !.free = IF split THEN Insert(rest, surplus) ELSE rest,
         !.remaining = left,
         !.least = IF heap.kind # 2 /\ left < @ THEN left ELSE @,
         !.given = @ \cup {gift}]

(* A block comes back by its header, which still has its size.             *)
TakeBack(b) ==
  heap' = [heap EXCEPT !.free = Insert(@, b), !.remaining = @ + b.size,
                       !.given = @ \ {b}]

(* heap_1 gives one piece after the other and takes none back.             *)
mem_1_alloc(bytes) ==
  LET size == AlignUp(bytes)
  IN  /\ heap.kind = 1
      /\ size > 0 /\ heap.next + size < ADJUSTED_HEAP_SIZE
      /\ heap' = [heap EXCEPT !.next = @ + size,
            !.given = @ \cup {[at |-> heap.next, size |-> size]}]

mem_2_malloc(bytes) == heap.kind = 2 /\ Grants(bytes) /\ Give(WantedSize(bytes))
mem_2_free(b) == heap.kind = 2 /\ b \in heap.given /\ TakeBack(b)

mem_4_malloc(bytes) == heap.kind = 4 /\ Grants(bytes) /\ Give(WantedSize(bytes))
mem_4_free(b) == heap.kind = 4 /\ b \in heap.given /\ TakeBack(b)

mem_5_malloc(bytes) == heap.kind = 5 /\ Grants(bytes) /\ Give(WantedSize(bytes))
mem_5_free(b) == heap.kind = 5 /\ b \in heap.given /\ TakeBack(b)

HeapNext ==
  \/ \E bytes \in HeapWants :
       mem_1_alloc(bytes) \/ mem_2_malloc(bytes) \/ mem_4_malloc(bytes)
         \/ mem_5_malloc(bytes)
  \/ \E b \in heap.given : mem_2_free(b) \/ mem_4_free(b) \/ mem_5_free(b)

-----------------------------------------------------------------------------

HeapSize(blocks) == MapThenSumSet(LAMBDA b : b.size, blocks)

FreeBlocks == {heap.free[i] : i \in DOMAIN heap.free}

(* Where a heap's free list is wrong, blocks are lost, overlap, stay apart *)
(* although they touch, or come in an order in which a search misses them. *)
HeapListExact ==
  LET blocks == FreeBlocks \cup heap.given
  IN  heap.kind # 1 =>
        /\ heap.remaining = HeapSize(FreeBlocks)
        /\ HeapSize(blocks) = HeapSize(heap.regions)
        /\ \A b, c \in blocks : b # c => BlockEnd(b) <= c.at \/ BlockEnd(c) <= b.at
        /\ \A b \in blocks : \E a \in heap.areas :
             a.at <= b.at /\ b.at + Max({b.size, HEAPSTRUCT_SIZE}) <= BlockEnd(a)
        /\ heap.kind = 2 => \A i \in 2 .. Len(heap.free) :
             heap.free[i - 1].size <= heap.free[i].size
        /\ heap.kind \in {4, 5} => \A i \in 2 .. Len(heap.free) :
             \/ BlockEnd(heap.free[i - 1]) < heap.free[i].at
             \/ heap.free[i].size = 0 /\ BlockEnd(heap.free[i - 1]) = heap.free[i].at

(* A stretch of memory that nobody has is found by whoever asks for less:  *)
(* heap_4 and heap_5 refuse only what does not fit between given blocks.   *)
HeapRefusalIsTrue ==
  heap.kind \in {4, 5} =>
    \A bytes \in HeapWants \ {0} : \A r \in heap.regions :
      Grants(bytes) \/
        \A at \in {r.at} \cup {BlockEnd(b) : b \in heap.given} :
          at + WantedSize(bytes) <= BlockEnd(r) /\ at >= r.at =>
            \E b \in heap.given :
              b.at < at + WantedSize(bytes) /\ at < BlockEnd(b)

(* What the application may use of a block, by words. *)
Payload(b) ==
  LET header == IF heap.kind = 1 THEN 0 ELSE HEAPSTRUCT_SIZE
  IN  (b.at + header) \div ALIGN .. BlockEnd(b) \div ALIGN - 1

HeapPool == INSTANCE Allocator WITH
  Area <- Nat, given <- {Payload(b) : b \in heap.given}
=============================================================================
