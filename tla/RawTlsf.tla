------------------------------ MODULE RawTlsf ------------------------------
(***************************************************************************)
(* The two-level segregated fit allocator of extension/mm/raw_tlsf.c, by   *)
(* words of four bytes.  A block is known by the address of its header;    *)
(* the header takes two words, the size of the block counts what follows   *)
(* it.  A block of size 0 ends an area.  The services hold the mutex of    *)
(* the pool, so a service is one action.                                   *)
(***************************************************************************)
EXTENDS Integers, Sequences, FiniteSetsExt, SequencesExt

CONSTANTS
  MAX_LOG2_SLI,   \* the logarithm of the number of second levels
  TlsfPool,       \* words left of the pool behind its tlsf_t
  TlsfAreas,      \* <<address, words>> of areas the application may add
  TlsfWants       \* the sizes in bytes it asks for

ASSUME TlsfAssumption ==
  /\ MAX_LOG2_SLI \in Nat /\ TlsfPool \in Nat
  /\ TlsfAreas \subseteq Nat \X Nat /\ TlsfWants \subseteq Nat

VARIABLE
  tlsf   \* hdr: the headers, by address; list: the free blocks of each class
         \* of the matrix that has any; bits: sl_bitmap, the classes whose bit
         \* is set; levels: fl_bitmap; areas: the list from area_head on.  The
         \* statistics used_size and max_size are left out

BHDR_OVERHEAD == 2
MIN_BLOCK_SIZE == 2
MAX_SLI == 2 ^ MAX_LOG2_SLI

RoundUp(words) == ((words + 1) \div 2) * 2
RoundDown(words) == (words \div 2) * 2

(* The size of the block for so many bytes. *)
BlockSize(bytes) == Max({MIN_BLOCK_SIZE, RoundUp((bytes + 3) \div 4)})

-----------------------------------------------------------------------------
(* The class of a block, and the class where the search for one begins.    *)

ms_bit(n) == CHOOSE k \in 0 .. n : 2 ^ k <= n /\ n < 2 ^ (k + 1)

Grain(size) == 2 ^ (ms_bit(size) - MAX_LOG2_SLI)

MAPPING_INSERT(size) ==
  IF size < MAX_SLI THEN <<0, size>>
  ELSE <<ms_bit(size) - MAX_LOG2_SLI + 1, size \div Grain(size) - MAX_SLI>>

(* The size a search asks for: up to where the next class begins, so that  *)
(* every block of the class is large enough.                               *)
MAPPING_SEARCH(size) ==
  IF size < MAX_SLI THEN size
  ELSE ((size + Grain(size) - 1) \div Grain(size)) * Grain(size)


(* The class a block is taken from, found by the bitmaps; or none.         *)
FIND_SUITABLE_BLOCK(t, class) ==
  LET same == {c \in t.bits : c[1] = class[1] /\ c[2] >= class[2]}
      levels == {fl \in t.levels : fl > class[1]}
      first == {c \in t.bits : c[1] = Min(levels)}
      found == IF same # {} THEN same ELSE IF levels # {} THEN first ELSE {}
  IN  {c \in found : \A d \in found : c[2] <= d[2]}

INSERT_BLOCK(t, b) ==
  LET c == MAPPING_INSERT(t.hdr[b].size)
      list == IF c \in DOMAIN t.list THEN t.list[c] ELSE <<>>
  IN  [t EXCEPT !.list = (c :> (<<b>> \o list)) @@ @,
                !.bits = @ \cup {c}, !.levels = @ \cup {c[1]}]

(* The lists that are not empty when b has left its own.                   *)
WithoutBlock(t, b) ==
  LET c == MAPPING_INSERT(t.hdr[b].size)
      list == SelectSeq(t.list[c], LAMBDA x : x # b)
  IN  IF list # <<>> THEN [t.list EXCEPT ![c] = list]
      ELSE [d \in DOMAIN t.list \ {c} |-> t.list[d]]


EXTRACT_BLOCK(t, b) ==
  LET c == MAPPING_INSERT(t.hdr[b].size)
      list == WithoutBlock(t, b)
      bits == IF c \in DOMAIN list THEN t.bits ELSE t.bits \ {c}
  IN  [t EXCEPT !.list = list, !.bits = bits,
                !.levels = IF \E d \in bits : d[1] = c[1] THEN @ ELSE @ \ {c[1]}]

-----------------------------------------------------------------------------
(* Headers.  "prev" is only valid when the bit "prevfree" is set.          *)

NextBlock(t, b) == b + BHDR_OVERHEAD + t.hdr[b].size

Header(size, free) == [size |-> size, free |-> free, prevfree |-> FALSE, prev |-> 0]

WithHeader(t, b, header) == [t EXCEPT !.hdr = (b :> header) @@ @]

(* A header that is inside another block now. *)
Absorbed(t, b) == [t EXCEPT !.hdr = [x \in DOMAIN @ \ {b} |-> @[x]]]

(* The block behind b learns that b is free, or that it is not. *)
TellNext(t, b) ==
  LET n == NextBlock(t, b)
  IN  IF t.hdr[b].free
      THEN [t EXCEPT !.hdr[n].prevfree = TRUE, !.hdr[n].prev = b]
      ELSE [t EXCEPT !.hdr[n].prevfree = FALSE, !.hdr[n].prev = 0]

(* b is extended over the free block behind it. *)
Swallow(t, b) ==
  LET n == NextBlock(t, b)
      merged == [EXTRACT_BLOCK(t, n) EXCEPT
                   !.hdr[b].size = @ + t.hdr[n].size + BHDR_OVERHEAD]
  IN  Absorbed(merged, n)

(* What b has more than so many words becomes a free block again, if it    *)
(* has room for a header and the smallest block.                           *)
Cut(t, b, size) ==
  LET left == t.hdr[b].size - size
      tail == b + BHDR_OVERHEAD + size
      cut == WithHeader([t EXCEPT !.hdr[b].size = size], tail,
                        Header(left - BHDR_OVERHEAD, TRUE))
  IN  IF left >= BHDR_OVERHEAD + MIN_BLOCK_SIZE
      THEN TellNext(INSERT_BLOCK(cut, tail), tail)
      ELSE t

-----------------------------------------------------------------------------
(* The operations on a pool, as functions of it.                           *)

free_ex(t, b) ==
  LET released == [t EXCEPT !.hdr[b].free = TRUE]
      longer == IF t.hdr[NextBlock(t, b)].free THEN Swallow(released, b) ELSE released
      p == t.hdr[b].prev
      joined == [EXTRACT_BLOCK(longer, p) EXCEPT
                   !.hdr[p].size = @ + longer.hdr[b].size + BHDR_OVERHEAD]
      t2 == IF t.hdr[b].prevfree THEN Absorbed(joined, b) ELSE longer
      block == IF t.hdr[b].prevfree THEN p ELSE b
  IN  TellNext(INSERT_BLOCK(t2, block), block)

(* The class that serves a request, and what is left of the pool then.     *)
Serves(t, bytes) ==
  FIND_SUITABLE_BLOCK(t, MAPPING_INSERT(MAPPING_SEARCH(BlockSize(bytes))))

Served(t, bytes) == Head(t.list[CHOOSE c \in Serves(t, bytes) : TRUE])

malloc_ex(t, bytes) ==
  LET b == Served(t, bytes)
      taken == [EXTRACT_BLOCK(t, b) EXCEPT !.hdr[b].free = FALSE]
  IN  Cut(TellNext(taken, b), b, MAPPING_SEARCH(BlockSize(bytes)))

(* process_area: a block with the area_info_t, a block with the rest, and  *)
(* the end marker.  The rest is not free yet.                              *)
InfoSize == 2

AreaBlock(area) == area[1] + BHDR_OVERHEAD + InfoSize
AreaRest(area) == RoundDown(area[2] - 3 * BHDR_OVERHEAD - InfoSize)
AreaEnd(area) == AreaBlock(area) + BHDR_OVERHEAD + AreaRest(area)

process_area(t, area) ==
  [t EXCEPT !.hdr = (area[1] :> Header(InfoSize, FALSE))
                      @@ (AreaBlock(area) :> Header(AreaRest(area), FALSE))
                      @@ (AreaEnd(area) :> Header(0, FALSE)) @@ @]

EmptyPool == [hdr |-> <<>>, list |-> <<>>, bits |-> {}, levels |-> {},
              areas |-> <<>>]

(* One step of the walk over the areas the pool has.  "m" carries the pool,*)
(* the first block ib, the block b to be freed and the end of the new area.*)
(* The block that the new area begins with loses its PREV_STATE when a     *)
(* later area continues it.                                                *)
MergeArea(m, old) ==
  IF old.ib = m.end + BHDR_OVERHEAD
  THEN LET size == m.pool.hdr[m.b].size + m.pool.hdr[old.ib].size + 2 * BHDR_OVERHEAD
           pool == [m.pool EXCEPT !.hdr[m.b] = Header(size, FALSE)]
       IN  [m EXCEPT !.pool = Absorbed(Absorbed(pool, m.end), old.ib), !.end = old.end]
  ELSE IF old.end + BHDR_OVERHEAD = m.ib
  THEN LET size == m.pool.hdr[m.b].size + m.pool.hdr[m.ib].size + 2 * BHDR_OVERHEAD
           pool == [m.pool EXCEPT !.hdr[old.end].size = size]
       IN  [m EXCEPT !.pool = Absorbed(Absorbed(pool, m.b), m.ib),
                     !.b = old.end, !.ib = old.ib]
  ELSE [m EXCEPT !.pool.areas = Append(@, old)]

AddedArea(t, area) ==
  LET start == [pool |-> [process_area(t, area) EXCEPT !.areas = <<>>], ib |-> area[1],
                b |-> AreaBlock(area), end |-> AreaEnd(area)]
      m == FoldLeft(MergeArea, start, t.areas)
      linked == [m.pool EXCEPT !.areas = <<[ib |-> m.ib, end |-> m.end]>> \o @]
  IN  free_ex(linked, m.b)

(* The memory the application has: used blocks that are neither the first  *)
(* of an area nor an end marker.                                           *)
Given ==
  {b \in DOMAIN tlsf.hdr : /\ ~tlsf.hdr[b].free /\ tlsf.hdr[b].size > 0
                           /\ \A i \in DOMAIN tlsf.areas : tlsf.areas[i].ib # b}

-----------------------------------------------------------------------------
(* The operations of the application.                                      *)

init_memory_pool ==
  tlsf = AddedArea(EmptyPool, <<0, RoundDown(TlsfPool)>>)

add_new_area(area) ==
  /\ \A b \in DOMAIN tlsf.hdr :
       NextBlock(tlsf, b) <= area[1] \/ area[1] + area[2] <= b
  /\ tlsf' = AddedArea(tlsf, area)

tlsf_malloc(bytes) == Serves(tlsf, bytes) # {} /\ tlsf' = malloc_ex(tlsf, bytes)

(* calloc refuses a product of 0; it clears what malloc gives. *)
tlsf_calloc(nelem, elem_size) == nelem * elem_size > 0 /\ tlsf_malloc(nelem * elem_size)

tlsf_free(b) == b \in Given /\ tlsf' = free_ex(tlsf, b)

(* A block that shrinks gives its end back, joined to the free block       *)
(* behind it.  One that grows takes that free block if that is enough; if  *)
(* not, it moves, or stays what it was when there is no room.              *)
tlsf_realloc(b, bytes) ==
  LET size == BlockSize(bytes)
      had == tlsf.hdr[b].size
      n == NextBlock(tlsf, b)
      room == IF tlsf.hdr[n].free THEN tlsf.hdr[n].size ELSE 0
      wide == IF tlsf.hdr[n].free THEN TellNext(Swallow(tlsf, b), b) ELSE tlsf
  IN  /\ b \in Given /\ bytes > 0
      /\ \/ /\ size <= had + room
            /\ tlsf' = Cut(wide, b, size)
         \/ /\ size > had + room
            /\ Serves(tlsf, size * 4) # {}
            /\ tlsf' = free_ex(malloc_ex(tlsf, size * 4), b)

TlsfNext ==
  \/ \E bytes \in TlsfWants : tlsf_malloc(bytes)
  \/ \E bytes \in TlsfWants : tlsf_calloc(2, bytes)
  \/ \E b \in Given : tlsf_free(b)
  \/ \E b \in Given, bytes \in TlsfWants : tlsf_realloc(b, bytes)
  \/ \E area \in TlsfAreas : add_new_area(area)

-----------------------------------------------------------------------------

FreeOnes == {b \in DOMAIN tlsf.hdr : tlsf.hdr[b].free}


(* Bit 1 of a header tells whether the block before it is free             *)
(* (raw_tlsf.c:242).                                                       *)
PreviousBitTells ==
  \A b \in DOMAIN tlsf.hdr : tlsf.hdr[b].size > 0 =>
    LET n == NextBlock(tlsf, b)
    IN  /\ tlsf.hdr[n].prevfree = tlsf.hdr[b].free
        /\ tlsf.hdr[b].free => tlsf.hdr[n].prev = b

(* A request is refused only when no free block has the size that the      *)
(* search rounds it up to.                                                 *)
TlsfRefusalIsTrue ==
  \A bytes \in TlsfWants :
    (\E b \in FreeOnes : tlsf.hdr[b].size >= MAPPING_SEARCH(BlockSize(bytes)))
      => Serves(tlsf, bytes) # {}

(* What the application has, by blocks. *)
TlsfPieces == {b + BHDR_OVERHEAD .. NextBlock(tlsf, b) - 1 : b \in Given}

TlsfMemory == INSTANCE Allocator WITH Area <- Nat, given <- TlsfPieces
=============================================================================
