------------------------------ MODULE RawPools ------------------------------
(***************************************************************************)
(* Memory pools: of blocks of one size, raw_block.c, and of memory of any  *)
(* size, raw_byte.c.                                                       *)
(***************************************************************************)
EXTENDS Integers, FiniteSetsExt

(***************************************************************************)
(* Pools of blocks.  A free block starts with the link to the next one,    *)
(* which the application overwrites.                                       *)
(***************************************************************************)
CONSTANTS BlockCount,  \* whole blocks of the pool
          Remainder,   \* pool_size is not a multiple of block_size
          Junk         \* what the application stores, no link to a block

Blocks == 1 .. BlockCount

Null == 0
(* raw_block_pool_create links what remains behind the last block too.     *)
Linked == 1 .. IF Remainder THEN BlockCount + 1 ELSE BlockCount

ASSUME BlockAssumption ==
  /\ BlockCount \in Nat \ {0, 1} /\ Remainder \in BOOLEAN
  /\ Junk \notin Linked \cup {Null}

VARIABLES
  link,             \* link[b]: the first word of b
  available,        \* raw_block_pool_available
  available_list,   \* raw_block_pool_available_list
  blocks_given      \* the blocks the application has

blockvars == <<link, available, available_list, blocks_given>>

raw_block_pool_create ==
  /\ link = [b \in Linked |-> IF b + 1 \in Linked THEN b + 1 ELSE Null]
  /\ available = BlockCount
  /\ available_list = 1
  /\ blocks_given = {}

Available == available > 0

raw_block_allocate ==
  /\ Available
  /\ available' = available - 1
  /\ available_list' = link[available_list]
  /\ blocks_given' = blocks_given \cup {available_list}
  /\ link' = [link EXCEPT ![available_list] = Junk]

raw_block_release(b) ==
  /\ b \in blocks_given
  /\ link' = [link EXCEPT ![b] = available_list]
  /\ available_list' = b
  /\ available' = available + 1
  /\ blocks_given' = blocks_given \ {b}

BlockNext == raw_block_allocate \/ \E b \in blocks_given : raw_block_release(b)

BlockSpec == raw_block_pool_create /\ [][BlockNext]_blockvars

-----------------------------------------------------------------------------

(* The free list is a chain of numbers or junk, and the counts stay in range. *)
BlockTypeOK ==
  /\ link \in [Linked -> Linked \cup {Null, Junk}]
  /\ available \in 0 .. BlockCount
  /\ available_list \in Linked \cup {Null}
  /\ blocks_given \subseteq Linked

(* The first n blocks of the list. *)
Listed(n) ==
  LET at[i \in 1 .. n] == IF i = 1 THEN available_list ELSE link[at[i - 1]]
  IN  {at[i] : i \in 1 .. n}

(* No block is lost: the list starts with every block that is not given,   *)
(* and what remains of the pool comes last and is never reached.           *)
EveryBlockListed == Listed(available) = Blocks \ blocks_given

BlockPool == INSTANCE Allocator WITH
  Area <- Blocks, given <- {{b} : b \in blocks_given}

-----------------------------------------------------------------------------

(***************************************************************************)
(* Pools of memory of any size, in words.  The pool is a ring of blocks,   *)
(* each with a header; a search merges free neighbours on its way, and     *)
(* lets interrupts in after each block it has looked at: it starts again   *)
(* if another task has used the pool meanwhile.                            *)
(*                                                                         *)
(* A merge does not look whether raw_byte_pool_search points at the block  *)
(* it removes.  From there on the kernel reads a header that is no more,   *)
(* among what the application stores; the model does not take that step.   *)
(***************************************************************************)
CONSTANTS
  ByteTasks,   \* tasks that use the pool
  NoOwner,     \* the null task pointer
  POOL,        \* words of the pool
  HEADER,      \* words of a header (2)
  BLOCK_MIN,   \* RAW_BYTE_BLOCK_MIN in words (5)
  MemSizes     \* what the application asks for, rounded up to words

ASSUME ByteAssumption ==
  /\ NoOwner \notin ByteTasks
  /\ POOL \in Nat /\ HEADER \in Nat \ {0} /\ BLOCK_MIN \in Nat \ {0}
  /\ POOL > 2 * HEADER
  /\ MemSizes \subseteq Nat \ {0}

VARIABLES
  pool,        \* the pool's control block and its headers
  alloc,       \* alloc[t]: the raw_byte_allocate that t is in
  bytes_given  \* the pieces the application has: [at |-> , size |-> ]

bytevars == <<pool, alloc, bytes_given>>

Addresses == 0 .. POOL - 1
EndBlock == POOL - HEADER    \* it is never free, and closes the ring

NoCall == [at |-> "idle"]

raw_byte_pool_create ==
  /\ pool = [next |-> [a \in {0, EndBlock} |-> IF a = 0 THEN EndBlock ELSE 0],
             free |-> {0},
             search |-> 0, owner |-> NoOwner,
             available |-> POOL - HEADER, fragments |-> 2]
  /\ alloc = [t \in ByteTasks |-> NoCall]
  /\ bytes_given = {}

(* Before the first look at a block and whenever the owner has changed.    *)
Start(n) == [at |-> "search", size |-> n, current |-> pool.search,
             examine |-> pool.fragments + 1]

Allocate(t, n) ==
  /\ alloc[t] = NoCall
  /\ pool' = [pool EXCEPT !.owner = t]
  /\ alloc' = [alloc EXCEPT ![t] = [at |-> "start", size |-> n]]
  /\ UNCHANGED bytes_given


(* The room behind the header at a. *)
Room(p, a) == p.next[a] - a - HEADER

(* Block a without what is left behind n words, if that is enough for a    *)
(* block of its own.                                                       *)
Split(p, a, n) ==
  LET b == a + n + HEADER
  IN  IF Room(p, a) - n < BLOCK_MIN THEN p
      ELSE [p EXCEPT !.next = [x \in DOMAIN @ \cup {b} |->
                                 CASE x = a -> b [] x = b -> @[a] [] OTHER -> @[x]],
                     !.free = @ \cup {b}, !.fragments = @ + 1]

(* Block a is taken for n words. *)
Taken(p, a, n) ==
  LET p1 == Split(p, a, n)
  IN  [p1 EXCEPT !.free = @ \ {a}, !.available = @ - Room(p1, a) - HEADER]

(* The block behind a becomes part of it. *)
Merged(p, a) ==
  LET b == p.next[a]
  IN  [p EXCEPT !.next = [x \in DOMAIN @ \ {b} |-> IF x = a THEN @[b] ELSE @[x]],
                !.free = @ \ {b}, !.fragments = @ - 1]

Less(n, i) == IF n > i THEN n - i ELSE 0

(* Fault: a merge is counted for both blocks. *)
AfterMerge_both(p, c) == [c EXCEPT !.examine = Less(@, 2)]

AfterMerge(p, c) == [c EXCEPT !.examine = Less(@, 1)]

(* The header that the search starts from is that of a block: the          *)
(* declaration calls it "the search pointer used for initial searching".   *)
SearchAtBlock == pool.search \in DOMAIN pool.next

(* One look, at the block c.current. *)
Look(t, p, c) ==
  LET a == c.current
      b == p.next[a]
  IN  CASE a \in p.free /\ Room(p, a) >= c.size ->
             /\ pool' = Taken(p, a, c.size)
             /\ alloc' = [alloc EXCEPT ![t] = NoCall]
             /\ bytes_given' = bytes_given \cup {[at |-> a + HEADER, size |-> c.size]}
        [] a \in p.free /\ Room(p, a) < c.size /\ b \in p.free ->
             /\ pool' = Merged(p, a)
             /\ alloc' = [alloc EXCEPT ![t] = AfterMerge(p, c)]
             /\ UNCHANGED bytes_given
        [] a \in p.free /\ Room(p, a) < c.size /\ b \notin p.free ->
             /\ pool' = p
             /\ alloc' = [alloc EXCEPT ![t] = [c EXCEPT !.current = p.next[b],
                                                        !.examine = Less(@, 2)]]
             /\ UNCHANGED bytes_given
        [] a \notin p.free ->
             /\ pool' = p
             /\ alloc' = [alloc EXCEPT ![t] = [c EXCEPT !.current = b,
                                                        !.examine = Less(@, 1)]]
             /\ UNCHANGED bytes_given


Fail(t, p, c) ==
  /\ pool' = p
  /\ alloc' = [alloc EXCEPT ![t] = [at |-> "failed", size |-> c.size]]
  /\ UNCHANGED bytes_given

(* raw_byte_pool_search up to the end of the first look. *)
SearchStarts(t) ==
  /\ alloc[t].at = "start"
  /\ IF alloc[t].size >= pool.available THEN Fail(t, pool, alloc[t])
     ELSE SearchAtBlock /\ Look(t, pool, Start(alloc[t].size))

(* Where the search of t goes on. *)
Checked(t) == IF pool.owner = t THEN alloc[t] ELSE Start(alloc[t].size)

SearchGoesOn(t) ==
  /\ alloc[t].at = "search"
  /\ pool.owner = t \/ SearchAtBlock
  /\ LET c == Checked(t)
         p == [pool EXCEPT !.owner = t]
     IN  IF c.examine = 0 THEN Fail(t, p, c) ELSE Look(t, p, c)

(* A failed search is repeated if the owner has changed since. *)
SearchFailed(t) ==
  /\ alloc[t].at = "failed"
  /\ IF pool.owner = t
     THEN alloc' = [alloc EXCEPT ![t] = NoCall] /\ UNCHANGED pool
     ELSE /\ pool' = [pool EXCEPT !.owner = t]
          /\ alloc' = [alloc EXCEPT ![t] = [at |-> "start", size |-> @.size]]
  /\ UNCHANGED bytes_given

raw_byte_release(t, piece) ==
  /\ alloc[t] = NoCall
  /\ piece \in bytes_given
  /\ LET a == piece.at - HEADER
     IN  pool' = [pool EXCEPT !.owner = t, !.free = @ \cup {a}, !.search = a,
                              !.available = @ + (pool.next[a] - a)]
  /\ bytes_given' = bytes_given \ {piece}
  /\ UNCHANGED alloc

ByteNext ==
  \E t \in ByteTasks :
    \/ \E n \in MemSizes : Allocate(t, n)
    \/ SearchStarts(t) \/ SearchGoesOn(t) \/ SearchFailed(t)
    \/ \E piece \in bytes_given : raw_byte_release(t, piece)

ByteSpec == raw_byte_pool_create /\ [][ByteNext]_bytevars

-----------------------------------------------------------------------------

(* The pool tiles its memory and each caller is at a known step of its search. *)
ByteTypeOK ==
  /\ DOMAIN pool.next \subseteq Addresses
  /\ pool.free \subseteq DOMAIN pool.next
  /\ pool.search \in Addresses
  /\ pool.owner \in ByteTasks \cup {NoOwner}
  /\ \A t \in ByteTasks : alloc[t].at \in {"idle", "start", "search", "failed"}

(* The blocks lie one behind the other, the counts of the pool agree with  *)
(* them, and a block that is not free is one that was given.               *)
RingCoversPool ==
  LET blocks == DOMAIN pool.next
  IN  /\ {0, EndBlock} \subseteq blocks
      /\ \A a \in blocks : pool.next[a] = IF a = EndBlock THEN 0
                                          ELSE Min({b \in blocks : b > a})
      /\ pool.fragments = Cardinality(blocks)
      /\ pool.available = Cardinality(UNION {a .. pool.next[a] - 1 : a \in pool.free})
      /\ blocks \ pool.free = {EndBlock} \cup {p.at - HEADER : p \in bytes_given}

BytePool == INSTANCE Allocator WITH
  Area  <- 0 .. EndBlock - 1,
  given <- {p.at .. p.at + p.size - 1 : p \in bytes_given}

(* RAW_NO_MEMORY is not returned while neighbouring free blocks have the   *)
(* room together, wherever the search started and whatever merged.         *)
NoMemoryIsTrue ==
  \A t \in ByteTasks : alloc[t].at = "failed" /\ pool.owner = t =>
    \A a, b \in DOMAIN pool.next :
      a < b /\ {x \in DOMAIN pool.next : a <= x /\ x < b} \subseteq pool.free
        => b - a - HEADER < alloc[t].size

(* No pool of the kernel loses memory: a list or a ring leads to every     *)
(* block that nobody has, the counters say how many there are, and nobody  *)
(* is refused what is there.                                               *)
PoolsExact == EveryBlockListed /\ RingCoversPool /\ NoMemoryIsTrue
=============================================================================
