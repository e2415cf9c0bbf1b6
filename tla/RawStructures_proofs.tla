------------------------- MODULE RawStructures_proofs -------------------------
(***************************************************************************)
(* Parts of RawStructures, proved: the memory pools, for pools of any size *)
(* and any number of tasks that search a byte pool together; the ring of   *)
(* bytes, for any size, with counters that wrap; the events of the idle    *)
(* task, for any objects.  The theorems are about BlockSpec, ByteSpec,     *)
(* FifoSpec and IdleSpec; RawStructures takes the same steps.              *)
(***************************************************************************)
EXTENDS RawPools, RawFifo, RawIdleEvent, RawList_proofs, FiniteSetTheorems

(***************************************************************************)
(* Pools of blocks: there is an order of the free blocks that the list     *)
(* follows.                                                                *)
(***************************************************************************)

(* o has the free blocks in the order of the list.                         *)
BlockOrder(o) ==
  /\ o = [i \in 1 .. available |-> o[i]]
  /\ \A i \in 1 .. available : o[i] \in Blocks \ blocks_given
  /\ \A i, j \in 1 .. available : o[i] = o[j] => i = j
  /\ \A b \in Blocks \ blocks_given : \E i \in 1 .. available : o[i] = b
  /\ available > 0 => o[1] = available_list
  /\ \A i \in 1 .. available - 1 : o[i + 1] = link[o[i]]

BlockInv ==
  /\ available \in Nat /\ blocks_given \subseteq Blocks
  /\ DOMAIN link = Linked /\ link = [b \in Linked |-> link[b]]
  /\ \E o : BlockOrder(o)

LEMMA BlockConstants ==
  /\ BlockCount \in Nat /\ BlockCount > 1 /\ Blocks \subseteq Linked /\ Linked \subseteq Nat
  /\ \A b \in Blocks \ {BlockCount} : b + 1 \in Blocks /\ b + 1 \in Linked
  BY BlockAssumption DEF Blocks, Linked

LEMMA BlockInit == raw_block_pool_create => BlockInv
  <1> SUFFICES ASSUME raw_block_pool_create PROVE BlockInv
    OBVIOUS
  <1> USE DEF raw_block_pool_create
  <1> DEFINE o == [i \in 1 .. available |-> i]
  <1>1. available = BlockCount /\ available_list = 1 /\ blocks_given = {} /\ Blocks = 1 .. available
    BY DEF Blocks
  <1>2. \A i \in 1 .. available - 1 : o[i + 1] = link[o[i]]
    <2> SUFFICES ASSUME NEW i \in 1 .. available - 1 PROVE i + 1 = link[i]
      BY <1>1, BlockConstants
    <2>1. i \in Linked /\ i + 1 \in Linked
      BY <1>1, BlockConstants DEF Blocks
    <2> QED BY <2>1
  <1>3. BlockOrder(o)
    <2> HIDE DEF raw_block_pool_create
    <2> QED BY <1>1, <1>2, BlockConstants DEF BlockOrder
  <1> QED BY <1>1, <1>3, BlockConstants DEF BlockInv

LEMMA AllocateOrder ==
  ASSUME BlockInv, raw_block_allocate
  PROVE  BlockInv' /\ available_list \in Blocks \ blocks_given
  <1>1. PICK o : BlockOrder(o)
    BY DEF BlockInv
  <1>2. /\ available \in Nat /\ available > 0 /\ available' = available - 1
        /\ available_list' = link[available_list]
        /\ blocks_given' = blocks_given \cup {available_list}
        /\ link' = [link EXCEPT ![available_list] = Junk]
        /\ blocks_given \subseteq Blocks
        /\ DOMAIN link = Linked /\ link = [b \in Linked |-> link[b]]
    BY DEF BlockInv, raw_block_allocate, Available
  <1>3. /\ \A i \in 1 .. available : o[i] \in Blocks \ blocks_given
        /\ \A i, j \in 1 .. available : o[i] = o[j] => i = j
        /\ \A b \in Blocks \ blocks_given : \E i \in 1 .. available : o[i] = b
        /\ o[1] = available_list
        /\ \A i \in 1 .. available - 1 : o[i + 1] = link[o[i]]
    BY <1>1, <1>2 DEF BlockOrder
  <1>4. available_list \in Blocks \ blocks_given /\ available_list \in Linked
    BY <1>2, <1>3, BlockConstants
  <1>0. PICK u : u = [i \in 1 .. available - 1 |-> o[i + 1]]
    OBVIOUS
  <1>5. \A i \in 1 .. available - 1 : u[i] \in (Blocks \ blocks_given) \ {available_list}
    BY <1>0, <1>2, <1>3
  <1>6. \A i, j \in 1 .. available - 1 : u[i] = u[j] => i = j
    <2> SUFFICES ASSUME NEW i \in 1 .. available - 1, NEW j \in 1 .. available - 1, o[i + 1] = o[j + 1]
                 PROVE  i = j
      BY <1>0
    <2>1. i + 1 \in 1 .. available /\ j + 1 \in 1 .. available
      BY <1>2
    <2>2. i + 1 = j + 1
      BY <1>3, <2>1
    <2> QED BY <2>2
  <1>7. ASSUME NEW b \in Blocks \ blocks_given, b # available_list
        PROVE  \E i \in 1 .. available - 1 : u[i] = b
    <2>1. PICK i \in 1 .. available : o[i] = b
      BY <1>3
    <2>2. i # 1
      BY <1>3, <1>7, <2>1
    <2>3. i - 1 \in 1 .. available - 1 /\ u[i - 1] = b
      BY <1>0, <1>2, <2>1, <2>2
    <2> QED BY <2>3
  <1>8. available - 1 > 0 => u[1] = link[available_list]
    BY <1>0, <1>2, <1>3
  <1>9. ASSUME NEW i \in 1 .. available - 1 - 1 PROVE u[i + 1] = link'[u[i]]
    <2>1. i + 1 \in 1 .. available - 1 /\ i \in 1 .. available - 1
      BY <1>2
    <2>2. u[i + 1] = link[o[i + 1]] /\ u[i] = o[i + 1]
      BY <1>0, <1>3, <2>1
    <2>3. o[i + 1] \in Linked /\ o[i + 1] # available_list
      BY <1>5, <2>1, <2>2, BlockConstants
    <2> QED BY <1>2, <2>2, <2>3
  <1>10. BlockOrder(u)'
    <2> SUFFICES /\ u = [i \in 1 .. available' |-> u[i]]
                 /\ \A i \in 1 .. available' : u[i] \in Blocks \ blocks_given'
                 /\ \A i, j \in 1 .. available' : u[i] = u[j] => i = j
                 /\ \A b \in Blocks \ blocks_given' : \E i \in 1 .. available' : u[i] = b
                 /\ available' > 0 => u[1] = available_list'
                 /\ \A i \in 1 .. available' - 1 : u[i + 1] = link'[u[i]]
      BY DEF BlockOrder
    <2>1. u = [i \in 1 .. available' |-> u[i]]
      BY <1>0, <1>2
    <2> QED BY <1>2, <1>5, <1>6, <1>7, <1>8, <1>9, <2>1
  <1>11. DOMAIN link' = Linked /\ link' = [b \in Linked |-> link'[b]]
    BY <1>2
  <1>12. available' \in Nat /\ blocks_given' \subseteq Blocks
    BY <1>2, <1>4
  <1>13. \E f : BlockOrder(f)'
    BY <1>10
  <1> QED BY <1>4, <1>11, <1>12, <1>13 DEF BlockInv

LEMMA ReleaseOrder ==
  ASSUME BlockInv, NEW b \in blocks_given, raw_block_release(b)
  PROVE  BlockInv'
  <1>1. PICK o : BlockOrder(o)
    BY DEF BlockInv
  <1>2. /\ available \in Nat /\ available' = available + 1 /\ available_list' = b
        /\ blocks_given' = blocks_given \ {b}
        /\ link' = [link EXCEPT ![b] = available_list]
        /\ blocks_given \subseteq Blocks /\ b \in Blocks /\ b \in Linked
        /\ DOMAIN link = Linked /\ link = [c \in Linked |-> link[c]]
    BY BlockConstants DEF BlockInv, raw_block_release
  <1>3. /\ \A i \in 1 .. available : o[i] \in Blocks \ blocks_given
        /\ \A i, j \in 1 .. available : o[i] = o[j] => i = j
        /\ \A c \in Blocks \ blocks_given : \E i \in 1 .. available : o[i] = c
        /\ available > 0 => o[1] = available_list
        /\ \A i \in 1 .. available - 1 : o[i + 1] = link[o[i]]
    BY <1>1 DEF BlockOrder
  <1>4. PICK u : u = [i \in 1 .. available + 1 |-> IF i = 1 THEN b ELSE o[i - 1]]
    OBVIOUS
  <1>5. u[1] = b /\ \A i \in 1 .. available : i + 1 \in 1 .. available + 1 /\ u[i + 1] = o[i]
    BY <1>2, <1>4
  <1>6. \A i \in 1 .. available + 1 : i = 1 \/ \E j \in 1 .. available : i = j + 1
    <2> SUFFICES ASSUME NEW i \in 1 .. available + 1, i # 1
                 PROVE  \E j \in 1 .. available : i = j + 1
      OBVIOUS
    <2>1. i - 1 \in 1 .. available /\ i = (i - 1) + 1
      BY <1>2
    <2> QED BY <2>1
  <1>7. \A i \in 1 .. available : u[i + 1] \in Blocks \ blocks_given /\ u[i + 1] # b
    BY <1>3, <1>5
  <1>8. \A i \in 1 .. available + 1 : u[i] \in Blocks \ (blocks_given \ {b})
    BY <1>2, <1>5, <1>6, <1>7
  <1>9. \A i, j \in 1 .. available + 1 : u[i] = u[j] => i = j
    <2> SUFFICES ASSUME NEW i \in 1 .. available + 1, NEW j \in 1 .. available + 1, u[i] = u[j],
                        i # 1 \/ j # 1
                 PROVE  i = j
      OBVIOUS
    <2>1. i # 1 /\ j # 1
      BY <1>5, <1>6, <1>7
    <2>2. PICK x \in 1 .. available, y \in 1 .. available : i = x + 1 /\ j = y + 1
      BY <1>6, <2>1
    <2>3. o[x] = o[y]
      BY <1>5, <2>2
    <2> QED BY <1>3, <2>2, <2>3
  <1>10. ASSUME NEW c \in Blocks \ (blocks_given \ {b})
         PROVE  \E i \in 1 .. available + 1 : u[i] = c
    <2>1. CASE c = b
      BY <1>2, <1>5, <2>1
    <2>2. CASE c # b
      <3>1. PICK i \in 1 .. available : o[i] = c
        BY <1>3, <2>2
      <3> QED BY <1>5, <3>1
    <2> QED BY <2>1, <2>2
  <1>11. ASSUME NEW i \in 1 .. available PROVE u[i + 1] = link'[u[i]]
    <2>1. CASE i = 1
      BY <1>2, <1>3, <1>5, <2>1
    <2>2. CASE i # 1
      <3>1. PICK j \in 1 .. available : i = j + 1
        BY <1>2, <1>6, <2>2
      <3>2. j \in 1 .. available - 1
        BY <1>2, <3>1
      <3>3. u[i] = o[j] /\ u[i + 1] = o[j + 1]
        BY <1>5, <3>1
      <3>4. o[j] \in Linked /\ o[j] # b
        <4>1. o[j] \in Blocks \ blocks_given
          BY <1>3, <3>1
        <4> QED BY <4>1, BlockConstants
      <3> QED BY <1>2, <1>3, <3>2, <3>3, <3>4
    <2> QED BY <2>1, <2>2
  <1>12. BlockOrder(u)'
    <2> SUFFICES /\ u = [i \in 1 .. available' |-> u[i]]
                 /\ \A i \in 1 .. available' : u[i] \in Blocks \ blocks_given'
                 /\ \A i, j \in 1 .. available' : u[i] = u[j] => i = j
                 /\ \A c \in Blocks \ blocks_given' : \E i \in 1 .. available' : u[i] = c
                 /\ available' > 0 => u[1] = available_list'
                 /\ \A i \in 1 .. available' - 1 : u[i + 1] = link'[u[i]]
      BY DEF BlockOrder
    <2>1. u = [i \in 1 .. available' |-> u[i]]
      BY <1>2, <1>4
    <2>2. available' - 1 = available
      BY <1>2
    <2> QED BY <1>2, <1>5, <1>8, <1>9, <1>10, <1>11, <2>1, <2>2
  <1>13. DOMAIN link' = Linked /\ link' = [c \in Linked |-> link'[c]]
    BY <1>2
  <1>14. available' \in Nat /\ blocks_given' \subseteq Blocks
    BY <1>2
  <1> QED BY <1>12, <1>13, <1>14 DEF BlockInv

(* What Listed reads are the places of the order.                          *)
LEMMA ListedLemma ==
  ASSUME BlockInv
  PROVE  EveryBlockListed
  <1>1. PICK o : BlockOrder(o)
    BY DEF BlockInv
  <1> DEFINE n == available
             F(g) == [i \in 1 .. n |-> IF i = 1 THEN available_list ELSE link[g[i - 1]]]
             at == CHOOSE g : g = F(g)
  <1>2. /\ n \in Nat
        /\ o = [i \in 1 .. n |-> o[i]]
        /\ \A i \in 1 .. n : o[i] \in Blocks \ blocks_given
        /\ \A b \in Blocks \ blocks_given : \E i \in 1 .. n : o[i] = b
        /\ n > 0 => o[1] = available_list
        /\ \A i \in 1 .. n - 1 : o[i + 1] = link[o[i]]
    BY <1>1 DEF BlockOrder, BlockInv
  <1> HIDE DEF n
  <1>3. o = F(o)
    <2>1. ASSUME NEW i \in 1 .. n, i # 1 PROVE o[i] = link[o[i - 1]]
      <3>1. i - 1 \in 1 .. n - 1 /\ (i - 1) + 1 = i
        BY <1>2, <2>1
      <3>2. o[(i - 1) + 1] = link[o[i - 1]]
        BY <1>2, <3>1
      <3> QED BY <3>1, <3>2
    <2>2. \A i \in 1 .. n : o[i] = IF i = 1 THEN available_list ELSE link[o[i - 1]]
      <3>1. 1 \in 1 .. n => o[1] = available_list
        BY <1>2
      <3> QED BY <2>1, <3>1
    <2> QED BY <1>2, <2>2
  <1>4. at = F(at)
    <2> HIDE DEF F
    <2> QED BY <1>3
  <1> HIDE DEF at
  <1>5. \A i \in 1 .. n : at[i] = IF i = 1 THEN available_list ELSE link[at[i - 1]]
    BY <1>4
  <1>6. \A i \in 1 .. n : o[i] = IF i = 1 THEN available_list ELSE link[o[i - 1]]
    BY <1>3
  <1> DEFINE T == {0} \cup {i \in 1 .. n : at[i] = o[i]}
  <1>7. \A i \in 0 .. n : i \in T
    <2>1. ASSUME NEW i \in 1 .. n, i - 1 \in T PROVE i \in T
      <3>1. i = 1 \/ i - 1 \in 1 .. n
        BY <1>2
      <3> QED BY <1>5, <1>6, <2>1, <3>1
    <2>2. 0 \in T
      OBVIOUS
    <2> HIDE DEF T
    <2> QED BY <1>2, <2>1, <2>2, Rounds
  <1>8. \A i \in 1 .. n : at[i] = o[i]
    BY <1>7
  <1>9. Listed(n) = {at[i] : i \in 1 .. n}
    BY DEF Listed, at, F
  <1>10. {at[i] : i \in 1 .. n} = Blocks \ blocks_given
    BY <1>2, <1>8
  <1> QED BY <1>9, <1>10 DEF EveryBlockListed, n

BlockPieces == {{b} : b \in blocks_given}

LEMMA BlockStep ==
  ASSUME BlockInv, [BlockNext]_blockvars
  PROVE  BlockInv' /\ [BlockPool!Next]_BlockPieces
  <1>1. CASE raw_block_allocate
    <2> DEFINE b == available_list
    <2>1. BlockInv' /\ b \in Blocks \ blocks_given
      BY <1>1, AllocateOrder
    <2>2. blocks_given' = blocks_given \cup {b}
      BY <1>1 DEF raw_block_allocate
    <2> HIDE DEF b
    <2>3. BlockPieces' = BlockPieces \cup {{b}} /\ {b} \notin BlockPieces
          /\ {b} \cap UNION BlockPieces = {}
      BY <2>1, <2>2 DEF BlockPieces
    <2>4. BlockPool!Allocate
      BY <2>1, <2>3 DEF BlockPool!Allocate, BlockPieces
    <2> QED BY <2>1, <2>4 DEF BlockPool!Next
  <1>2. ASSUME NEW b \in blocks_given, raw_block_release(b)
        PROVE  BlockInv' /\ [BlockPool!Next]_BlockPieces
    <2>1. BlockInv'
      BY <1>2, ReleaseOrder
    <2>2. blocks_given' = blocks_given \ {b}
      BY <1>2 DEF raw_block_release
    <2>3. {b} \in BlockPieces /\ BlockPieces' = BlockPieces \ {{b}}
      BY <2>2 DEF BlockPieces
    <2>4. BlockPool!Release
      BY <2>3 DEF BlockPool!Release, BlockPieces
    <2> QED BY <2>1, <2>4 DEF BlockPool!Next
  <1>3. CASE UNCHANGED blockvars
    <2> USE <1>3 DEF blockvars
    <2>1. \A o : BlockOrder(o)' <=> BlockOrder(o)
      BY DEF BlockOrder
    <2>2. BlockInv'
      BY <2>1 DEF BlockInv
    <2> QED BY <2>2 DEF BlockPieces
  <1> QED BY <1>1, <1>2, <1>3 DEF BlockNext

(* The free list of a block pool, which runs through the blocks that the   *)
(* application writes to, starts with every block that nobody has.         *)
THEOREM BlocksAreListed == BlockSpec => []EveryBlockListed
  <1>1. BlockInv /\ [BlockNext]_blockvars => BlockInv'
    BY BlockStep
  <1>2. BlockInv => EveryBlockListed
    BY ListedLemma
  <1> QED BY <1>1, <1>2, BlockInit, PTL DEF BlockSpec

(* raw_block.c refines the allocator: no block is given twice, or given    *)
(* without being one of the pool.                                          *)
THEOREM BlocksAreGivenOnce == BlockSpec => BlockPool!Spec
  <1>1. raw_block_pool_create => BlockPool!Init
    BY DEF raw_block_pool_create, BlockPool!Init
  <1>2. BlockInv /\ [BlockNext]_blockvars => BlockInv'
    BY BlockStep
  <1>3. BlockInv /\ [BlockNext]_blockvars => [BlockPool!Next]_BlockPieces
    BY BlockStep
  <1> QED BY <1>1, <1>2, <1>3, BlockInit, PTL DEF BlockSpec, BlockPool!Spec, BlockPieces

-----------------------------------------------------------------------------
(***************************************************************************)
(* The ring of blocks of a byte pool, as a function that gives the block   *)
(* behind each block.                                                      *)
(***************************************************************************)

RingInv(f) ==
  /\ f = [a \in DOMAIN f |-> f[a]]
  /\ {0, EndBlock} \subseteq DOMAIN f /\ DOMAIN f \subseteq 0 .. EndBlock
  /\ f[EndBlock] = 0
  /\ \A a \in DOMAIN f \ {EndBlock} :
       /\ f[a] \in DOMAIN f /\ a < f[a]
       /\ \A x \in DOMAIN f : x <= a \/ f[a] <= x

Words(f, S) == UNION {a .. f[a] - 1 : a \in S}

LEMMA ByteConstants ==
  /\ HEADER \in Nat /\ HEADER > 0 /\ BLOCK_MIN \in Nat /\ BLOCK_MIN > 0
  /\ EndBlock \in Nat /\ EndBlock > HEADER
  /\ MemSizes \subseteq Nat \ {0} /\ NoOwner \notin ByteTasks
  BY ByteAssumption DEF EndBlock

(* g has b as a block of its own between a and the next one.               *)
SplitAt(f, g, a, b) ==
  /\ DOMAIN g = DOMAIN f \cup {b} /\ b \notin DOMAIN f
  /\ g[a] = b /\ g[b] = f[a] /\ a < b /\ b < f[a]
  /\ \A x \in DOMAIN f \ {a} : g[x] = f[x]

LEMMA SplitRing ==
  ASSUME NEW f, RingInv(f), NEW a \in DOMAIN f, a # EndBlock, NEW b \in Nat,
         a < b, b < f[a], NEW g,
         g = [x \in DOMAIN f \cup {b} |-> CASE x = a -> b [] x = b -> f[a] [] OTHER -> f[x]]
  PROVE  RingInv(g) /\ SplitAt(f, g, a, b)
  <1> USE ByteConstants
  <1>1. /\ f = [x \in DOMAIN f |-> f[x]]
        /\ {0, EndBlock} \subseteq DOMAIN f /\ DOMAIN f \subseteq 0 .. EndBlock
        /\ f[EndBlock] = 0
        /\ \A x \in DOMAIN f \ {EndBlock} :
             /\ f[x] \in DOMAIN f /\ x < f[x]
             /\ \A y \in DOMAIN f : y <= x \/ f[x] <= y
    BY DEF RingInv
  <1>2. b \notin DOMAIN f /\ b \in 0 .. EndBlock /\ b # a /\ b # EndBlock
    BY <1>1
  <1>3. g = [x \in DOMAIN f \cup {b} |-> IF x = a THEN b ELSE IF x = b THEN f[a] ELSE f[x]]
    BY <1>2
  <1>4. SplitAt(f, g, a, b)
    BY <1>1, <1>2, <1>3 DEF SplitAt
  <1>5. /\ DOMAIN g = DOMAIN f \cup {b} /\ g[a] = b /\ g[b] = f[a]
        /\ \A x \in DOMAIN f \ {a} : g[x] = f[x]
    BY <1>4 DEF SplitAt
  <1>6. ASSUME NEW x \in DOMAIN g \ {EndBlock}
        PROVE  g[x] \in DOMAIN g /\ x < g[x] /\ \A y \in DOMAIN g : y <= x \/ g[x] <= y
    <2>1. CASE x = a
      BY <1>1, <1>2, <1>5, <2>1
    <2>2. CASE x = b
      BY <1>1, <1>2, <1>5, <2>2
    <2>3. CASE x \notin {a, b}
      <3>1. x \in DOMAIN f \ {a, EndBlock} /\ g[x] = f[x]
        BY <1>5, <1>6, <2>3
      <3>2. x <= a \/ f[a] <= x
        BY <1>1, <3>1
      <3>3. a <= x \/ f[x] <= a
        <4>1. a <= x \/ f[x] <= a
          BY <1>1, <3>1
        <4> QED BY <4>1
      <3>4. a \in Int /\ x \in Int /\ f[x] \in Int /\ f[a] \in Int
        BY <1>1, <3>1
      <3> QED BY <1>1, <1>5, <3>1, <3>2, <3>3, <3>4
    <2> QED BY <2>1, <2>2, <2>3
  <1>7. g = [x \in DOMAIN g |-> g[x]]
    BY <1>3
  <1>8. g[EndBlock] = 0 /\ {0, EndBlock} \subseteq DOMAIN g /\ DOMAIN g \subseteq 0 .. EndBlock
    BY <1>1, <1>2, <1>5
  <1> QED BY <1>4, <1>6, <1>7, <1>8 DEF RingInv

(* A merge is a split that is undone.                                      *)
LEMMA MergeRing ==
  ASSUME NEW f, RingInv(f), NEW a \in DOMAIN f, a # EndBlock, NEW b, b = f[a],
         b # EndBlock, NEW g, g = [x \in DOMAIN f \ {b} |-> IF x = a THEN f[b] ELSE f[x]]
  PROVE  RingInv(g) /\ SplitAt(g, f, a, b)
  <1> USE ByteConstants
  <1>1. /\ f = [x \in DOMAIN f |-> f[x]]
        /\ {0, EndBlock} \subseteq DOMAIN f /\ DOMAIN f \subseteq 0 .. EndBlock
        /\ f[EndBlock] = 0
        /\ \A x \in DOMAIN f \ {EndBlock} :
             /\ f[x] \in DOMAIN f /\ x < f[x]
             /\ \A y \in DOMAIN f : y <= x \/ f[x] <= y
    BY DEF RingInv
  <1>2. /\ b \in DOMAIN f /\ a < b /\ b < f[b] /\ f[b] \in DOMAIN f
        /\ a \in Int /\ b \in Int /\ f[b] \in Int /\ b # 0 /\ 0 <= a
    BY <1>1
  <1>3. g = [x \in DOMAIN f \ {b} |-> IF x = a THEN f[b] ELSE f[x]]
    BY <1>2
  <1>4. SplitAt(g, f, a, b)
    BY <1>1, <1>2, <1>3 DEF SplitAt
  <1>5. /\ DOMAIN g = DOMAIN f \ {b} /\ g[a] = f[b]
        /\ \A x \in DOMAIN f \ {a, b} : g[x] = f[x]
    BY <1>1, <1>2, <1>3
  <1>6. ASSUME NEW x \in DOMAIN g \ {EndBlock}
        PROVE  g[x] \in DOMAIN g /\ x < g[x] /\ \A y \in DOMAIN g : y <= x \/ g[x] <= y
    <2>1. CASE x = a
      <3>1. \A y \in DOMAIN g : y <= a \/ f[b] <= y
        BY <1>1, <1>2, <1>5
      <3> QED BY <1>2, <1>5, <2>1, <3>1
    <2>2. CASE x # a
      <3>1. x \in DOMAIN f \ {a, b, EndBlock} /\ g[x] = f[x]
        BY <1>5, <1>6, <2>2
      <3>2. f[x] # b
        <4>1. (x <= a \/ b <= x) /\ (a <= x \/ f[x] <= a)
          BY <1>1, <3>1
        <4>2. x \in Int /\ f[x] \in Int /\ x < f[x]
          BY <1>1, <3>1
        <4> QED BY <1>2, <3>1, <4>1, <4>2
      <3> QED BY <1>1, <1>5, <3>1, <3>2
    <2> QED BY <2>1, <2>2
  <1>7. g = [x \in DOMAIN g |-> g[x]]
    BY <1>3
  <1>8. g[EndBlock] = 0 /\ {0, EndBlock} \subseteq DOMAIN g /\ DOMAIN g \subseteq 0 .. EndBlock
    BY <1>1, <1>2, <1>5
  <1> QED BY <1>4, <1>6, <1>7, <1>8 DEF RingInv

LEMMA RingIs ==
  ASSUME NEW f, RingInv(f)
  PROVE  /\ DOMAIN f \subseteq 0 .. EndBlock /\ DOMAIN f \subseteq Nat /\ IsFiniteSet(DOMAIN f)
         /\ 0 \in DOMAIN f /\ EndBlock \in DOMAIN f /\ f[EndBlock] = 0 /\ EndBlock # 0
         /\ \A x \in DOMAIN f : x <= EndBlock /\ 0 <= x
         /\ \A x \in DOMAIN f \ {EndBlock} :
              /\ f[x] \in DOMAIN f /\ x < f[x] /\ f[x] \in Nat
              /\ \A y \in DOMAIN f : y <= x \/ f[x] <= y
  <1>1. DOMAIN f \subseteq 0 .. EndBlock
    BY DEF RingInv
  <1>2. IsFiniteSet(DOMAIN f)
    <2>1. 0 \in Int /\ EndBlock \in Int
      BY ByteConstants
    <2>2. IsFiniteSet(0 .. EndBlock)
      BY <2>1, FS_Interval
    <2> QED BY <1>1, <2>2, FS_Subset
  <1>3. \A x \in DOMAIN f : x \in Nat /\ x <= EndBlock /\ 0 <= x
    BY <1>1, ByteConstants
  <1> QED BY <1>1, <1>2, <1>3, ByteConstants DEF RingInv

LEMMA WordsLemma ==
  ASSUME NEW f, RingInv(f), NEW S, S \subseteq DOMAIN f \ {EndBlock}
  PROVE  /\ Words(f, S) \subseteq 0 .. EndBlock - 1
         /\ IsFiniteSet(Words(f, S)) /\ Cardinality(Words(f, S)) \in Nat
         /\ \A a \in DOMAIN f \ {EndBlock} : a \notin S =>
              /\ (a .. f[a] - 1) \cap Words(f, S) = {}
              /\ Words(f, S \cup {a}) = Words(f, S) \cup (a .. f[a] - 1)
              /\ Cardinality(Words(f, S \cup {a})) = Cardinality(Words(f, S)) + (f[a] - a)
  <1>1. Words(f, S) \subseteq 0 .. EndBlock - 1
    <2> SUFFICES ASSUME NEW a \in S, NEW w \in a .. f[a] - 1 PROVE w \in 0 .. EndBlock - 1
      BY DEF Words
    <2>1. a \in DOMAIN f \ {EndBlock} /\ a \in Nat /\ f[a] \in DOMAIN f /\ f[a] \in Nat /\ f[a] <= EndBlock
      BY RingIs
    <2> QED BY <2>1, ByteConstants
  <1>2. IsFiniteSet(Words(f, S)) /\ Cardinality(Words(f, S)) \in Nat
    <2>1. IsFiniteSet(0 .. EndBlock - 1)
      BY ByteConstants, FS_Interval
    <2> QED BY <1>1, <2>1, FS_Subset, FS_CardinalityType
  <1>3. ASSUME NEW a \in DOMAIN f \ {EndBlock}, a \notin S
        PROVE  /\ (a .. f[a] - 1) \cap Words(f, S) = {}
               /\ Words(f, S \cup {a}) = Words(f, S) \cup (a .. f[a] - 1)
               /\ Cardinality(Words(f, S \cup {a})) = Cardinality(Words(f, S)) + (f[a] - a)
    <2>1. a \in Nat /\ f[a] \in Nat /\ a < f[a]
      BY RingIs
    <2>2. (a .. f[a] - 1) \cap Words(f, S) = {}
      <3> SUFFICES ASSUME NEW x \in S, NEW w \in x .. f[x] - 1, w \in a .. f[a] - 1 PROVE FALSE
        BY DEF Words
      <3>1. x \in DOMAIN f \ {EndBlock} /\ x # a
        BY <1>3
      <3>2. (x <= a \/ f[a] <= x) /\ (a <= x \/ f[x] <= a) /\ x \in Nat /\ f[x] \in Nat
        BY <3>1, RingIs
      <3> QED BY <2>1, <3>1, <3>2
    <2>3. Words(f, S \cup {a}) = Words(f, S) \cup (a .. f[a] - 1)
      BY DEF Words
    <2>4. IsFiniteSet(a .. f[a] - 1) /\ Cardinality(a .. f[a] - 1) = f[a] - a
      <3>1. a \in Int /\ f[a] - 1 \in Int /\ ~(a > f[a] - 1) /\ (f[a] - 1) - a + 1 = f[a] - a
        BY <2>1
      <3> QED BY <3>1, FS_Interval
    <2>5. Words(f, S) \cap (a .. f[a] - 1) = {}
      BY <2>2
    <2>6. Cardinality(Words(f, S) \cup (a .. f[a] - 1))
            = Cardinality(Words(f, S)) + Cardinality(a .. f[a] - 1)
              - Cardinality(Words(f, S) \cap (a .. f[a] - 1))
      BY <1>2, <2>4, FS_Union
    <2>7. Cardinality(Words(f, S) \cap (a .. f[a] - 1)) = 0
      BY <2>5, FS_EmptySet
    <2>8. Cardinality(Words(f, S \cup {a})) = Cardinality(Words(f, S)) + (f[a] - a)
      <3> DEFINE A == Cardinality(Words(f, S))
                 B == Cardinality(Words(f, S) \cap (a .. f[a] - 1))
                 C == Cardinality(a .. f[a] - 1)
                 U == Cardinality(Words(f, S) \cup (a .. f[a] - 1))
      <3>1. U = A + C - B /\ B = 0 /\ C = f[a] - a /\ A \in Nat
        BY <1>2, <2>4, <2>6, <2>7
      <3>2. Cardinality(Words(f, S \cup {a})) = U
        BY <2>3
      <3> HIDE DEF A, B, C, U
      <3>3. U = A + (f[a] - a)
        BY <2>1, <3>1
      <3> QED BY <3>2, <3>3 DEF A
    <2> QED BY <2>2, <2>3, <2>8
  <1> QED BY <1>1, <1>2, <1>3

(* A word of the ring is part of the last block that begins before it.     *)
LEMMA BlockOf ==
  ASSUME NEW f, RingInv(f), NEW a \in DOMAIN f, NEW b \in DOMAIN f, NEW w \in a .. b - 1
  PROVE  \E x \in DOMAIN f : a <= x /\ x < b /\ x # EndBlock /\ x <= w /\ w < f[x]
  <1>1. /\ a \in Nat /\ b \in Nat /\ w \in Nat /\ a <= w /\ w < b /\ b <= EndBlock
        /\ DOMAIN f \subseteq Nat /\ EndBlock \in Nat
    BY RingIs, ByteConstants
  <1> DEFINE T == {n \in Nat : n <= w /\ w - n \in DOMAIN f}
  <1>2. w - a \in T
    BY <1>1
  <1>3. PICK n \in T : \A q \in T : n <= q
    <2>1. T \subseteq Nat
      OBVIOUS
    <2> HIDE DEF T
    <2> QED BY <1>2, <2>1, LeastElement
  <1> DEFINE x == w - n
  <1>4. x \in DOMAIN f /\ x <= w /\ a <= x /\ x < b /\ x # EndBlock /\ x \in Nat /\ n \in Nat
    BY <1>1, <1>2, <1>3
  <1>5. f[x] \in DOMAIN f /\ f[x] \in Nat /\ x < f[x]
    <2> HIDE DEF x, T
    <2> QED BY <1>4, RingIs
  <1>6. ASSUME f[x] <= w PROVE FALSE
    <2>1. w - f[x] \in T
      <3>1. w - (w - f[x]) = f[x] /\ w - f[x] \in Nat
        BY <1>1, <1>5, <1>6
      <3> QED BY <1>1, <1>5, <3>1
    <2>2. n <= w - f[x]
      BY <1>3, <2>1
    <2> QED BY <1>1, <1>4, <1>5, <2>2
  <1>7. w < f[x]
    BY <1>1, <1>5, <1>6
  <1> HIDE DEF x, T
  <1> QED BY <1>4, <1>7

(* All words from a on to b are part of blocks of S, if all blocks there   *)
(* are in S.                                                               *)
LEMMA RunWords ==
  ASSUME NEW f, RingInv(f), NEW S, S \subseteq DOMAIN f \ {EndBlock},
         NEW a \in DOMAIN f, NEW b \in DOMAIN f, a < b,
         {x \in DOMAIN f : a <= x /\ x < b} \subseteq S
  PROVE  b - a <= Cardinality(Words(f, S))
  <1>1. a \in Nat /\ b \in Nat
    BY RingIs
  <1>2. a .. b - 1 \subseteq Words(f, S)
    <2> SUFFICES ASSUME NEW w \in a .. b - 1 PROVE w \in Words(f, S)
      OBVIOUS
    <2>1. PICK x \in DOMAIN f : a <= x /\ x < b /\ x # EndBlock /\ x <= w /\ w < f[x]
      BY BlockOf
    <2>2. x \in S /\ x \in Nat /\ f[x] \in Nat
      BY <2>1, RingIs
    <2>3. w \in x .. f[x] - 1
      BY <1>1, <2>1, <2>2
    <2> QED BY <2>2, <2>3 DEF Words
  <1>3. Cardinality(a .. b - 1) = b - a
    <2>1. a \in Int /\ b - 1 \in Int /\ ~(a > b - 1) /\ (b - 1) - a + 1 = b - a
      BY <1>1
    <2> QED BY <2>1, FS_Interval
  <1>4. IsFiniteSet(Words(f, S)) /\ Cardinality(Words(f, S)) \in Nat
    BY WordsLemma
  <1>5. Cardinality(a .. b - 1) <= Cardinality(Words(f, S))
    BY <1>2, <1>4, FS_Subset
  <1> QED BY <1>3, <1>5

LEMMA SplitWords ==
  ASSUME NEW f, RingInv(f), NEW g, RingInv(g), NEW a \in DOMAIN f, NEW b, SplitAt(f, g, a, b),
         NEW S, S \subseteq DOMAIN f \ {EndBlock}, a \in S
  PROVE  /\ Words(g, S \cup {b}) = Words(f, S) /\ b # EndBlock /\ b \in Nat
         /\ Cardinality(DOMAIN g) = Cardinality(DOMAIN f) + 1
  <1>1. /\ DOMAIN g = DOMAIN f \cup {b} /\ b \notin DOMAIN f
        /\ g[a] = b /\ g[b] = f[a] /\ a < b /\ b < f[a]
        /\ \A x \in DOMAIN f \ {a} : g[x] = f[x]
    BY DEF SplitAt
  <1>2. b \in Nat /\ a \in Nat /\ f[a] \in Nat
    BY <1>1, RingIs
  <1>3. b .. f[a] - 1 \subseteq a .. f[a] - 1 /\ a .. b - 1 \subseteq a .. f[a] - 1
        /\ (a .. b - 1) \cup (b .. f[a] - 1) = a .. f[a] - 1
    BY <1>1, <1>2
  <1>4. ASSUME NEW x \in S, NEW w \in x .. f[x] - 1
        PROVE  \E y \in S \cup {b} : w \in y .. g[y] - 1
    <2>1. CASE x = a
      BY <1>1, <1>3, <1>4, <2>1
    <2>2. CASE x # a
      BY <1>1, <1>4, <2>2
    <2> QED BY <2>1, <2>2
  <1>5. ASSUME NEW y \in S \cup {b}, NEW w \in y .. g[y] - 1
        PROVE  \E x \in S : w \in x .. f[x] - 1
    <2>1. CASE y \in {a, b}
      BY <1>1, <1>3, <1>5, <2>1
    <2>2. CASE y \notin {a, b}
      BY <1>1, <1>5, <2>2
    <2> QED BY <2>1, <2>2
  <1>6. Words(g, S \cup {b}) = Words(f, S)
    BY <1>4, <1>5 DEF Words
  <1>7. b # EndBlock
    BY <1>1, RingIs
  <1>8. Cardinality(DOMAIN g) = Cardinality(DOMAIN f) + 1
    BY <1>1, RingIs, FS_AddElement
  <1> QED BY <1>2, <1>6, <1>7, <1>8

-----------------------------------------------------------------------------
(***************************************************************************)
(* What is done to a pool.                                                 *)
(***************************************************************************)

Rings == UNION {[D -> 0 .. EndBlock] : D \in SUBSET (0 .. EndBlock)}

Pools == [next : Rings, free : SUBSET (0 .. EndBlock), search : Nat,
          owner : ByteTasks \cup {NoOwner}, available : Int, fragments : Int]

PoolInv(p) ==
  /\ p \in Pools /\ RingInv(p.next) /\ p.free \subseteq DOMAIN p.next \ {EndBlock}
  /\ p.fragments = Cardinality(DOMAIN p.next)
  /\ p.available = Cardinality(Words(p.next, p.free))

LEMMA RingsAre == \A f : RingInv(f) => f \in Rings
  <1> SUFFICES ASSUME NEW f, RingInv(f) PROVE f \in Rings
    OBVIOUS
  <1>1. DOMAIN f \in SUBSET (0 .. EndBlock) /\ f = [a \in DOMAIN f |-> f[a]]
    BY DEF RingInv
  <1>2. \A a \in DOMAIN f : f[a] \in 0 .. EndBlock
    BY <1>1, RingIs, ByteConstants
  <1>3. f \in [DOMAIN f -> 0 .. EndBlock]
    BY <1>1, <1>2
  <1> QED BY <1>1, <1>3 DEF Rings

LEMMA PoolIs ==
  ASSUME NEW p, PoolInv(p)
  PROVE  /\ p \in Pools /\ RingInv(p.next) /\ p.free \subseteq DOMAIN p.next \ {EndBlock}
         /\ p.fragments \in Nat /\ p.available \in Nat /\ DOMAIN p.next \subseteq Nat
         /\ \A a \in DOMAIN p.next \ {EndBlock} :
              /\ p.next[a] \in DOMAIN p.next /\ p.next[a] \in Nat /\ a < p.next[a]
              /\ Room(p, a) \in Int /\ Room(p, a) + HEADER = p.next[a] - a
  <1>1. p.available \in Nat
    BY WordsLemma DEF PoolInv
  <1>2. p.fragments \in Nat /\ DOMAIN p.next \subseteq Nat
    BY RingIs, FS_CardinalityType DEF PoolInv
  <1>3. \A a \in DOMAIN p.next \ {EndBlock} :
              /\ p.next[a] \in DOMAIN p.next /\ p.next[a] \in Nat /\ a < p.next[a]
    BY RingIs DEF PoolInv
  <1>4. \A a \in DOMAIN p.next \ {EndBlock} :
          Room(p, a) \in Int /\ Room(p, a) + HEADER = p.next[a] - a
    BY <1>2, <1>3, ByteConstants DEF Room
  <1> QED BY <1>1, <1>2, <1>3, <1>4 DEF PoolInv

(* Block a keeps n words at least; what is cut off is free.                *)
SplitsOff(p, q, a, b) ==
  SplitAt(p.next, q.next, a, b) /\ q.free = p.free \cup {b}

LEMMA SplitPool ==
  ASSUME NEW p, PoolInv(p), NEW a \in p.free, NEW n \in Nat, Room(p, a) >= n
  PROVE  LET q == Split(p, a, n)
         IN  /\ PoolInv(q) /\ a \in q.free /\ Room(q, a) >= n
             /\ q.search = p.search /\ q.owner = p.owner /\ q.available = p.available
             /\ q = p \/ \E b : SplitsOff(p, q, a, b)
  <1> DEFINE f == p.next
             b == a + n + HEADER
             g == [x \in DOMAIN f \cup {b} |->
                     CASE x = a -> b [] x = b -> f[a] [] OTHER -> f[x]]
             q == Split(p, a, n)
  <1>1. /\ RingInv(f) /\ a \in DOMAIN f /\ a # EndBlock /\ a \in Nat /\ f[a] \in Nat
        /\ Room(p, a) + HEADER = f[a] - a /\ Room(p, a) \in Int
    BY PoolIs
  <1>2. CASE Room(p, a) - n < BLOCK_MIN
    <2>1. q = p
      BY <1>2 DEF Split
    <2> QED BY <2>1
  <1>3. CASE ~(Room(p, a) - n < BLOCK_MIN)
    <2>1. b \in Nat /\ a < b /\ b < f[a] /\ b - a - HEADER = n
      BY <1>1, <1>3, ByteConstants
    <2>2. q = [p EXCEPT !.next = g, !.free = p.free \cup {b}, !.fragments = p.fragments + 1]
      BY <1>3 DEF Split
    <2>3. RingInv(g) /\ SplitAt(f, g, a, b)
      <3> HIDE DEF f, b
      <3> QED BY <1>1, <2>1, SplitRing
    <2> HIDE DEF g, b, q
    <2>4. p \in Pools /\ p.free \subseteq DOMAIN f \ {EndBlock}
          /\ p.fragments = Cardinality(DOMAIN f) /\ p.available = Cardinality(Words(f, p.free))
      BY DEF PoolInv
    <2>5. g \in Rings
      BY <2>3, RingsAre
    <2>6. /\ Words(g, p.free \cup {b}) = Words(f, p.free) /\ b # EndBlock /\ b \in Nat
          /\ Cardinality(DOMAIN g) = Cardinality(DOMAIN f) + 1
      <3> DEFINE S == p.free
      <3>1. RingInv(f) /\ RingInv(g) /\ a \in DOMAIN f /\ SplitAt(f, g, a, b)
            /\ S \subseteq DOMAIN f \ {EndBlock} /\ a \in S
        BY <1>1, <2>3, <2>4
      <3> HIDE DEF f, S
      <3>2. /\ Words(g, S \cup {b}) = Words(f, S) /\ b # EndBlock /\ b \in Nat
            /\ Cardinality(DOMAIN g) = Cardinality(DOMAIN f) + 1
        BY <3>1, SplitWords
      <3> QED BY <3>2 DEF S
    <2>7. /\ q.next = g /\ q.free = p.free \cup {b} /\ q.fragments = p.fragments + 1
          /\ q.search = p.search /\ q.owner = p.owner /\ q.available = p.available
      BY <2>2, <2>4 DEF Pools
    <2>8. DOMAIN g = DOMAIN f \cup {b} /\ g[a] = b
      BY <2>3 DEF SplitAt
    <2>9. b \in 0 .. EndBlock
      BY <2>3, <2>8 DEF RingInv
    <2>10. q \in Pools
      <3>1. q.fragments \in Int
        BY <2>4, <2>7 DEF Pools
      <3> QED BY <2>2, <2>4, <2>5, <2>9, <3>1 DEF Pools
    <2>11. PoolInv(q)
      BY <2>3, <2>4, <2>6, <2>7, <2>8, <2>10 DEF PoolInv
    <2>12. Room(q, a) = n
      <3>1. Room(q, a) = b - a - HEADER
        BY <2>7, <2>8 DEF Room
      <3> QED BY <2>1, <3>1 DEF b
    <2>13. SplitsOff(p, q, a, b)
      BY <2>3, <2>7 DEF SplitsOff
    <2>14. /\ PoolInv(q) /\ a \in q.free /\ Room(q, a) >= n
           /\ q.search = p.search /\ q.owner = p.owner /\ q.available = p.available
           /\ q = p \/ \E c : SplitsOff(p, q, a, c)
      BY <2>7, <2>11, <2>12, <2>13
    <2> QED BY <2>14 DEF q
  <1> QED BY <1>2, <1>3

(* Block a is taken, perhaps after a split.                                *)
LEMMA TakePool ==
  ASSUME NEW p, PoolInv(p), NEW a \in p.free, NEW n \in Nat, Room(p, a) >= n
  PROVE  LET q == Taken(p, a, n)
         IN  /\ PoolInv(q) /\ Room(q, a) >= n /\ q.search = p.search /\ q.owner = p.owner
             /\ \/ q.next = p.next /\ q.free = p.free \ {a}
                \/ \E b : SplitAt(p.next, q.next, a, b) /\ q.free = (p.free \cup {b}) \ {a}
  <1> DEFINE s == Split(p, a, n)
             q == Taken(p, a, n)
  <1>1. /\ PoolInv(s) /\ a \in s.free /\ Room(s, a) >= n
        /\ s.search = p.search /\ s.owner = p.owner /\ s.available = p.available
        /\ s = p \/ \E b : SplitsOff(p, s, a, b)
    BY SplitPool
  <1>2. q = [s EXCEPT !.free = s.free \ {a}, !.available = p.available - Room(s, a) - HEADER]
    BY <1>1 DEF Taken
  <1> HIDE DEF s, q
  <1>3. s \in Pools /\ RingInv(s.next) /\ s.free \subseteq DOMAIN s.next \ {EndBlock}
        /\ s.fragments = Cardinality(DOMAIN s.next)
        /\ s.available = Cardinality(Words(s.next, s.free)) /\ s.available \in Nat
        /\ Room(s, a) + HEADER = s.next[a] - a /\ Room(s, a) \in Int /\ a \in Nat
        /\ s.next[a] \in Nat
    BY <1>1, PoolIs DEF PoolInv
  <1>4. /\ q.next = s.next /\ q.free = s.free \ {a} /\ q.search = s.search /\ q.owner = s.owner
        /\ q.fragments = s.fragments /\ q.available = s.available - (Room(s, a) + HEADER)
    BY <1>1, <1>2, <1>3, ByteConstants DEF Pools
  <1>5. q \in Pools
    <2>1. q.available \in Int
      BY <1>3, <1>4, ByteConstants
    <2> QED BY <1>2, <1>3, <1>4, <2>1 DEF Pools
  <1>6. q.available = Cardinality(Words(q.next, q.free))
    <2> DEFINE S == s.free \ {a}
               f == s.next
    <2>1. S \subseteq DOMAIN f \ {EndBlock} /\ a \in DOMAIN f \ {EndBlock} /\ a \notin S
          /\ S \cup {a} = s.free
      BY <1>1, <1>3
    <2>2. RingInv(f)
      BY <1>3
    <2> HIDE DEF S, f
    <2>3. /\ Cardinality(Words(f, S \cup {a})) = Cardinality(Words(f, S)) + (f[a] - a)
          /\ Cardinality(Words(f, S)) \in Nat
      BY <2>1, <2>2, WordsLemma
    <2>4. q.available = Cardinality(Words(f, S \cup {a})) - (f[a] - a) /\ f[a] \in Nat
      BY <1>3, <1>4, <2>1 DEF f
    <2>5. q.available = Cardinality(Words(f, S))
      BY <1>3, <2>3, <2>4
    <2> QED BY <1>4, <2>5 DEF S, f
  <1>7. PoolInv(q)
    BY <1>3, <1>4, <1>5, <1>6 DEF PoolInv
  <1>8. Room(q, a) = Room(s, a)
    BY <1>4 DEF Room
  <1> QED BY <1>1, <1>4, <1>7, <1>8 DEF SplitsOff, q

LEMMA MergePool ==
  ASSUME NEW p, PoolInv(p), NEW a \in p.free, p.next[a] \in p.free
  PROVE  LET q == Merged(p, a)
         IN  /\ PoolInv(q) /\ q.search = p.search /\ q.owner = p.owner
             /\ SplitAt(q.next, p.next, a, p.next[a]) /\ q.free = p.free \ {p.next[a]}
  <1> DEFINE f == p.next
             b == f[a]
             g == [x \in DOMAIN f \ {b} |-> IF x = a THEN f[b] ELSE f[x]]
             q == Merged(p, a)
  <1>1. /\ p \in Pools /\ RingInv(f) /\ p.free \subseteq DOMAIN f \ {EndBlock}
        /\ p.fragments = Cardinality(DOMAIN f) /\ p.fragments \in Nat
        /\ p.available = Cardinality(Words(f, p.free))
        /\ a \in DOMAIN f /\ a # EndBlock /\ b # EndBlock /\ a \in Nat /\ b \in Nat /\ a < b
    BY PoolIs DEF PoolInv
  <1>2. q = [p EXCEPT !.next = g, !.free = p.free \ {b}, !.fragments = p.fragments - 1]
    BY DEF Merged
  <1>3. RingInv(g) /\ SplitAt(g, f, a, b)
    <2> HIDE DEF f
    <2> QED BY <1>1, MergeRing
  <1>4. b \in p.free
    OBVIOUS
  <1> HIDE DEF g, b, q
  <1>5. g \in Rings
    BY <1>3, RingsAre
  <1>6. DOMAIN f = DOMAIN g \cup {b} /\ b \notin DOMAIN g /\ a \in DOMAIN g
    BY <1>1, <1>3 DEF SplitAt
  <1> DEFINE S == p.free \ {b}
  <1>7. S \subseteq DOMAIN g \ {EndBlock} /\ a \in S /\ S \cup {b} = p.free
    BY <1>1, <1>4, <1>6
  <1>8. /\ Words(f, S \cup {b}) = Words(g, S)
        /\ Cardinality(DOMAIN f) = Cardinality(DOMAIN g) + 1
    <2> HIDE DEF f, S
    <2> QED BY <1>1, <1>3, <1>6, <1>7, SplitWords
  <1>9. /\ q.next = g /\ q.free = S /\ q.fragments = p.fragments - 1
        /\ q.search = p.search /\ q.owner = p.owner /\ q.available = p.available
    BY <1>1, <1>2 DEF Pools
  <1>10. q \in Pools
    <2>1. q.fragments \in Int
      BY <1>1, <1>9
    <2> QED BY <1>1, <1>2, <1>5, <2>1 DEF Pools
  <1>11. Cardinality(DOMAIN g) \in Nat
    BY <1>3, RingIs, FS_CardinalityType
  <1>12. PoolInv(q)
    BY <1>1, <1>3, <1>7, <1>8, <1>9, <1>10, <1>11 DEF PoolInv
  <1> QED BY <1>3, <1>9, <1>12 DEF b, q

Released(p, q, a, t) ==
  q = [p EXCEPT !.owner = t, !.free = p.free \cup {a}, !.search = a,
                !.available = p.available + (p.next[a] - a)]

LEMMA ReleasePool ==
  ASSUME NEW p, PoolInv(p), NEW a \in DOMAIN p.next \ {EndBlock}, a \notin p.free,
         NEW t \in ByteTasks, NEW q, Released(p, q, a, t)
  PROVE  /\ PoolInv(q) /\ q.next = p.next /\ q.free = p.free \cup {a} /\ q.search = a
         /\ q.owner = t
  <1> DEFINE f == p.next
  <1>1. /\ p \in Pools /\ RingInv(f) /\ p.free \subseteq DOMAIN f \ {EndBlock}
        /\ p.fragments = Cardinality(DOMAIN f) /\ p.available \in Nat
        /\ p.available = Cardinality(Words(f, p.free)) /\ a \in Nat /\ f[a] \in Nat
        /\ a \in 0 .. EndBlock
    BY PoolIs, RingIs DEF PoolInv
  <1>2. Cardinality(Words(f, p.free \cup {a})) = Cardinality(Words(f, p.free)) + (f[a] - a)
    <2> HIDE DEF f
    <2> QED BY <1>1, WordsLemma DEF f
  <1>3. /\ q.next = f /\ q.free = p.free \cup {a} /\ q.fragments = p.fragments
        /\ q.search = a /\ q.owner = t /\ q.available = p.available + (f[a] - a)
    BY <1>1 DEF Pools, Released
  <1>4. q \in Pools
    <2>1. q.available \in Int
      BY <1>1, <1>3
    <2> QED BY <1>1, <1>3, <2>1 DEF Pools, Released
  <1> QED BY <1>1, <1>2, <1>3, <1>4 DEF PoolInv

-----------------------------------------------------------------------------
(***************************************************************************)
(* A search.  It has seen that there is no room in what it leaves behind.  *)
(***************************************************************************)

(* The blocks from a up to b are free.                                     *)
Run(p, a, b) ==
  /\ a \in DOMAIN p.next /\ b \in DOMAIN p.next /\ a < b
  /\ {x \in DOMAIN p.next : a <= x /\ x < b} \subseteq p.free

Small(a, b, n) == b - a - HEADER < n

AllSmall(p, n) == \A a, b : Run(p, a, b) => Small(a, b, n)

(* The blocks that a search has still to look at, which is at block k and  *)
(* ends when it comes to the block it started from.                        *)
Ahead(p, k) ==
  IF k >= p.search THEN {x \in DOMAIN p.next : x >= k \/ x < p.search}
                   ELSE {x \in DOMAIN p.next : x >= k /\ x < p.search}

Behind(p, a, k) ==
  IF k >= p.search THEN p.search <= a /\ a < k ELSE a < k \/ p.search <= a

(* It comes once more to the block it started from, if that can be merged. *)
Extra(p) == IF p.search \in p.free THEN 1 ELSE 0

Sweeping(p, n, k, e) ==
  /\ k >= p.search => p.search \in DOMAIN p.next
  /\ \A a, b : Run(p, a, b) /\ Behind(p, a, k) => Small(a, b, n) /\ (a < k => b <= k)
  /\ k < p.search /\ p.search \notin DOMAIN p.next =>
       p.next[k] > p.search /\ p.next[k] \notin p.free
  /\ e >= Cardinality(Ahead(p, k)) + Extra(p)

(* Whoever starts a search now merges no block but the one of this search. *)
StartIsMerged(p, k) ==
  k # p.search /\ p.search \in DOMAIN p.next =>
    ~(p.search \in p.free /\ p.next[p.search] \in p.free)

SearchOK(p, n, k, e) ==
  /\ k \in DOMAIN p.next /\ StartIsMerged(p, k)
  /\ AllSmall(p, n) \/ Sweeping(p, n, k, e)

LEMMA AheadIs ==
  ASSUME NEW p, PoolInv(p), NEW k
  PROVE  /\ IsFiniteSet(Ahead(p, k)) /\ Cardinality(Ahead(p, k)) \in Nat
         /\ Extra(p) \in 0 .. 1 /\ p.search \in Nat
         /\ Ahead(p, k) \subseteq DOMAIN p.next
  <1>1. RingInv(p.next) /\ p.search \in Nat
    BY DEF PoolInv, Pools
  <1>2. IsFiniteSet(DOMAIN p.next)
    BY <1>1, RingIs
  <1>3. Ahead(p, k) \subseteq DOMAIN p.next
    BY DEF Ahead
  <1> QED BY <1>1, <1>2, <1>3, FS_Subset, FS_CardinalityType DEF Extra

LEMMA FreshSearch ==
  ASSUME NEW p, PoolInv(p), p.search \in DOMAIN p.next, NEW n
  PROVE  SearchOK(p, n, p.search, p.fragments + 1)
  <1> DEFINE s == p.search
  <1>1. s \in Nat /\ Extra(p) \in 0 .. 1 /\ Cardinality(Ahead(p, s)) \in Nat
    BY AheadIs
  <1>2. p.fragments = Cardinality(DOMAIN p.next) /\ DOMAIN p.next \subseteq Nat
    BY PoolIs DEF PoolInv
  <1>3. Ahead(p, s) = DOMAIN p.next
    BY <1>1, <1>2 DEF Ahead
  <1>4. p.fragments + 1 >= Cardinality(Ahead(p, s)) + Extra(p)
    BY <1>1, <1>2, <1>3
  <1>5. \A a, b : Run(p, a, b) => ~Behind(p, a, s)
    BY <1>1, <1>2 DEF Run, Behind
  <1> HIDE DEF s
  <1>6. s \in DOMAIN p.next /\ ~(s < s)
    BY <1>1 DEF s
  <1> QED BY <1>4, <1>5, <1>6 DEF SearchOK, Sweeping, StartIsMerged, s

(* A run in a ring with a block merged is one in the ring before.          *)
LEMMA MergeRuns ==
  ASSUME NEW p, PoolInv(p), NEW a \in p.free, NEW b \in p.free, NEW q,
         SplitAt(q.next, p.next, a, b), q.free = p.free \ {b}
  PROVE  \A x, y : Run(q, x, y) => Run(p, x, y)
  <1>1. DOMAIN p.next = DOMAIN q.next \cup {b}
    BY DEF SplitAt
  <1> QED BY <1>1 DEF Run

(* A run that is left when a block is taken is one from before or the end  *)
(* of one.                                                                 *)
TakenAt(p, q, a) ==
  \/ q.next = p.next /\ q.free = p.free \ {a}
  \/ \E b : SplitAt(p.next, q.next, a, b) /\ q.free = (p.free \cup {b}) \ {a}

LEMMA TakeRuns ==
  ASSUME NEW p, PoolInv(p), NEW q, PoolInv(q), NEW a \in p.free, TakenAt(p, q, a)
  PROVE  \A x, y : Run(q, x, y) => \E z \in {x, a} : z <= x /\ Run(p, z, y)
  <1> SUFFICES ASSUME NEW x, NEW y, Run(q, x, y)
               PROVE  \E z \in {x, a} : z <= x /\ Run(p, z, y)
    OBVIOUS
  <1>0. /\ DOMAIN p.next \subseteq Nat /\ DOMAIN q.next \subseteq Nat
        /\ a \in DOMAIN p.next \ {EndBlock} /\ p.next[a] \in Nat
        /\ \A z \in DOMAIN p.next : z <= a \/ p.next[a] <= z
    BY PoolIs, RingIs
  <1>1. x \in DOMAIN q.next /\ y \in DOMAIN q.next /\ x < y
        /\ \A z \in DOMAIN q.next : x <= z /\ z < y => z \in q.free
    BY DEF Run
  <1>2. CASE q.next = p.next /\ q.free = p.free \ {a}
    BY <1>0, <1>1, <1>2 DEF Run
  <1>3. ASSUME NEW b, SplitAt(p.next, q.next, a, b), q.free = (p.free \cup {b}) \ {a}
        PROVE  \E z \in {x, a} : z <= x /\ Run(p, z, y)
    <2>1. /\ DOMAIN q.next = DOMAIN p.next \cup {b} /\ b \notin DOMAIN p.next
          /\ a < b /\ b < p.next[a] /\ b \in Nat /\ a \in Nat
      BY <1>0, <1>3 DEF SplitAt
    <2>2. CASE x = b
      <3>1. y \in DOMAIN p.next /\ a < y
        BY <1>0, <1>1, <2>1, <2>2
      <3>2. ASSUME NEW z \in DOMAIN p.next, a <= z, z < y PROVE z \in p.free
        <4>1. CASE z = a
          BY <4>1
        <4>2. CASE z # a
          <5>1. b <= z /\ z # b
            BY <1>0, <2>1, <3>2, <4>2
          <5>2. z \in q.free
            BY <1>1, <2>1, <2>2, <3>2, <5>1
          <5> QED BY <1>3, <5>1, <5>2
        <4> QED BY <4>1, <4>2
      <3> QED BY <1>0, <2>1, <2>2, <3>1, <3>2 DEF Run
    <2>3. CASE x # b
      <3>1. x \in DOMAIN p.next
        BY <1>1, <2>1, <2>3
      <3>2. y # b
        <4> SUFFICES ASSUME y = b PROVE FALSE
          OBVIOUS
        <4>1. x <= a
          BY <1>0, <1>1, <2>1, <3>1
        <4>2. a \in q.free
          BY <1>0, <1>1, <2>1, <4>1
        <4> QED BY <1>3, <4>2
      <3>3. y \in DOMAIN p.next
        BY <1>1, <2>1, <3>2
      <3>4. ASSUME NEW z \in DOMAIN p.next, x <= z, z < y PROVE z \in p.free
        BY <1>1, <1>3, <2>1, <3>4
      <3> QED BY <1>0, <1>1, <3>1, <3>3, <3>4 DEF Run
    <2> QED BY <2>2, <2>3
  <1> QED BY <1>2, <1>3 DEF TakenAt

(* The search merges the block it looks at with the next one.              *)
LEMMA MergeSearch ==
  ASSUME NEW p, PoolInv(p), NEW q, PoolInv(q), NEW n, NEW e \in Int, NEW k \in p.free,
         p.next[k] \in p.free, SearchOK(p, n, k, e), q.search = p.search,
         SplitAt(q.next, p.next, k, p.next[k]), q.free = p.free \ {p.next[k]}
  PROVE  SearchOK(q, n, k, e - 1)
  <1> DEFINE b == p.next[k]
             s == p.search
  <1>1. /\ DOMAIN p.next = DOMAIN q.next \cup {b} /\ b \notin DOMAIN q.next
        /\ q.next[k] = p.next[b] /\ k < b /\ b < p.next[b]
        /\ \A x \in DOMAIN q.next \ {k} : q.next[x] = p.next[x]
    BY DEF SplitAt
  <1>2. /\ DOMAIN p.next \subseteq Nat /\ k \in DOMAIN p.next \ {EndBlock} /\ b \in Nat
        /\ k \in DOMAIN q.next /\ s \in Nat /\ p.next[b] \in Nat
        /\ \A z \in DOMAIN p.next : z <= k \/ b <= z
        /\ k \in Nat /\ b \in DOMAIN p.next /\ b \in p.free
    BY <1>1, PoolIs, RingIs, AheadIs
  <1>3. StartIsMerged(p, k) /\ (AllSmall(p, n) \/ Sweeping(p, n, k, e))
    BY DEF SearchOK
  <1>4. \A x, y : Run(q, x, y) => Run(p, x, y)
    <2> HIDE DEF b
    <2>1. SplitAt(q.next, p.next, k, b) /\ q.free = p.free \ {b}
      BY DEF b
    <2> QED BY <1>2, <2>1, MergeRuns
  <1>5. StartIsMerged(q, k)
    <2> SUFFICES ASSUME k # s, s \in DOMAIN q.next, s \in q.free, q.next[s] \in q.free
                 PROVE  FALSE
      BY DEF StartIsMerged
    <2>1. s \in DOMAIN p.next /\ q.next[s] = p.next[s] /\ s \in p.free /\ p.next[s] \in p.free
      BY <1>1
    <2> QED BY <1>3, <2>1 DEF StartIsMerged
  <1>6. CASE AllSmall(p, n)
    BY <1>2, <1>4, <1>5, <1>6 DEF SearchOK, AllSmall
  <1>7. CASE Sweeping(p, n, k, e)
    <2>1. /\ k >= s => s \in DOMAIN p.next
          /\ \A x, y : Run(p, x, y) /\ Behind(p, x, k) => Small(x, y, n) /\ (x < k => y <= k)
          /\ k < s /\ s \notin DOMAIN p.next => b > s /\ b \notin p.free
          /\ e >= Cardinality(Ahead(p, k)) + Extra(p)
      BY <1>7 DEF Sweeping
    <2>2. k >= s => s \in DOMAIN q.next
      BY <1>1, <1>2, <2>1
    <2>3. \A x, y : Run(q, x, y) /\ Behind(q, x, k) => Small(x, y, n) /\ (x < k => y <= k)
      BY <1>4, <2>1 DEF Behind
    <2>4. k < s /\ s \notin DOMAIN q.next => q.next[k] > s /\ q.next[k] \notin q.free
      <3> SUFFICES ASSUME k < s, s \notin DOMAIN q.next
                   PROVE  p.next[b] > s /\ p.next[b] \notin p.free
        BY <1>1
      <3>1. s = b
        BY <1>1, <1>2, <2>1
      <3>2. p.next[s] \notin p.free
        BY <1>2, <1>3, <3>1 DEF StartIsMerged
      <3> QED BY <1>1, <1>2, <3>1, <3>2
    <2>5. e - 1 >= Cardinality(Ahead(q, k)) + Extra(q)
      <3>0. /\ IsFiniteSet(Ahead(p, k)) /\ Cardinality(Ahead(p, k)) \in Nat
            /\ Cardinality(Ahead(q, k)) \in Nat
            /\ Extra(p) \in 0 .. 1 /\ Extra(q) \in 0 .. 1
        BY AheadIs
      <3>1. CASE b # s
        <4>1. b \in Ahead(p, k)
          <5> HIDE DEF b
          <5>1. k < s => b < s
            BY <1>2, <2>1, <3>1
          <5> QED BY <1>1, <1>2, <5>1 DEF Ahead
        <4>2. Ahead(q, k) = Ahead(p, k) \ {b}
          BY <1>1 DEF Ahead
        <4>3. Cardinality(Ahead(q, k)) = Cardinality(Ahead(p, k)) - 1
          <5> DEFINE A == Ahead(p, k)
          <5> HIDE DEF b, A
          <5>1. Cardinality(A \ {b}) = Cardinality(A) - 1
            BY <3>0, <4>1, FS_RemoveElement DEF A
          <5> QED BY <4>2, <5>1 DEF A
        <4>4. Extra(q) <= Extra(p)
          BY DEF Extra
        <4> QED BY <2>1, <3>0, <4>3, <4>4
      <3>2. CASE b = s
        <4>1. Ahead(q, k) = Ahead(p, k)
          BY <1>1, <1>2, <3>2 DEF Ahead
        <4>2. Extra(p) = 1 /\ Extra(q) = 0
          BY <1>2, <3>2 DEF Extra
        <4> QED BY <2>1, <3>0, <4>1, <4>2
      <3> QED BY <3>1, <3>2
    <2>6. Sweeping(q, n, k, e - 1)
      BY <2>2, <2>3, <2>4, <2>5 DEF Sweeping
    <2> QED BY <1>2, <1>5, <2>6 DEF SearchOK
  <1> QED BY <1>3, <1>6, <1>7

LEMMA SearchLonger ==
  ASSUME NEW p, PoolInv(p), NEW n, NEW k, NEW e \in Int, SearchOK(p, n, k, e - 1)
  PROVE  SearchOK(p, n, k, e)
  <1>1. Cardinality(Ahead(p, k)) \in Nat /\ Extra(p) \in 0 .. 1
    BY AheadIs
  <1>2. e - 1 >= Cardinality(Ahead(p, k)) + Extra(p) => e >= Cardinality(Ahead(p, k)) + Extra(p)
    BY <1>1
  <1> QED BY <1>2 DEF SearchOK, Sweeping

(* Another search takes the block that this one started from.              *)
LEMMA TakenSearch ==
  ASSUME NEW p, PoolInv(p), NEW q, PoolInv(q), NEW n \in Int, NEW e \in Int, NEW k,
         SearchOK(p, n, k, e), q.search = p.search, p.search \in p.free,
         TakenAt(p, q, p.search)
  PROVE  SearchOK(q, n, k, e)
  <1> DEFINE s == p.search
  <1>1. /\ DOMAIN p.next \subseteq Nat /\ DOMAIN q.next \subseteq Nat
        /\ s \in DOMAIN p.next \ {EndBlock} /\ s \in Nat
        /\ p.next[s] \in Nat /\ \A z \in DOMAIN p.next : z <= s \/ p.next[s] <= z
        /\ k \in DOMAIN p.next /\ k \in Nat
    BY PoolIs, RingIs DEF SearchOK
  <1>2. s \notin q.free /\ DOMAIN p.next \subseteq DOMAIN q.next
        /\ \A z \in DOMAIN q.next : z \in DOMAIN p.next \/ (s < z /\ z < p.next[s])
    BY DEF TakenAt, SplitAt
  <1>3. \A x, y : Run(q, x, y) =>
          /\ x \in Nat /\ y \in Nat /\ x < y
          /\ Run(p, x, y) \/ (s <= x /\ Run(p, s, y))
    <2>1. \A x, y : Run(q, x, y) => \E z \in {x, s} : z <= x /\ Run(p, z, y)
      BY TakeRuns
    <2>2. \A x, y : Run(q, x, y) => x \in Nat /\ y \in Nat /\ x < y
      BY <1>1 DEF Run
    <2> QED BY <2>1, <2>2
  <1>4. \A x, y, z \in Nat : z <= x /\ Small(z, y, n) => Small(x, y, n)
    BY ByteConstants DEF Small
  <1>5. StartIsMerged(q, k)
    BY <1>2 DEF StartIsMerged
  <1>6. CASE AllSmall(p, n)
    <2>1. AllSmall(q, n)
      BY <1>1, <1>3, <1>4, <1>6 DEF AllSmall
    <2> QED BY <1>1, <1>2, <1>5, <2>1 DEF SearchOK
  <1>7. CASE Sweeping(p, n, k, e)
    <2>1. /\ \A x, y : Run(p, x, y) /\ Behind(p, x, k) => Small(x, y, n) /\ (x < k => y <= k)
          /\ e >= Cardinality(Ahead(p, k)) + Extra(p)
      BY <1>7 DEF Sweeping
    <2>2. ASSUME NEW x, NEW y, Run(q, x, y), Behind(q, x, k)
          PROVE  Small(x, y, n) /\ (x < k => y <= k)
      <3>1. CASE Run(p, x, y)
        BY <2>1, <2>2, <3>1 DEF Behind
      <3>2. CASE s <= x /\ Run(p, s, y)
        <4>1. x \in Nat /\ y \in Nat
          BY <1>3, <2>2
        <4>2. Behind(p, s, k)
          BY <1>1, <2>2, <3>2, <4>1 DEF Behind
        <4>3. Small(s, y, n) /\ (s < k => y <= k)
          BY <2>1, <3>2, <4>2
        <4> QED BY <1>1, <1>4, <3>2, <4>1, <4>3
      <3> QED BY <1>3, <2>2, <3>1, <3>2
    <2>3. e >= Cardinality(Ahead(q, k)) + Extra(q)
      <3>0. /\ IsFiniteSet(Ahead(p, k)) /\ Cardinality(Ahead(p, k)) \in Nat
            /\ Cardinality(Ahead(q, k)) \in Nat
            /\ Extra(p) = 1 /\ Extra(q) = 0
        BY <1>2, AheadIs DEF Extra
      <3>1. \E b : Ahead(q, k) \subseteq Ahead(p, k) \cup {b}
        <4>1. \E b : DOMAIN q.next \subseteq DOMAIN p.next \cup {b}
          BY DEF TakenAt, SplitAt
        <4> QED BY <4>1 DEF Ahead
      <3>2. PICK b : Ahead(q, k) \subseteq Ahead(p, k) \cup {b}
        BY <3>1
      <3>3. /\ IsFiniteSet(Ahead(p, k) \cup {b})
            /\ Cardinality(Ahead(p, k) \cup {b}) \in {Cardinality(Ahead(p, k)),
                                                      Cardinality(Ahead(p, k)) + 1}
        BY <3>0, FS_AddElement
      <3>4. Cardinality(Ahead(q, k)) <= Cardinality(Ahead(p, k) \cup {b})
        BY <3>2, <3>3, FS_Subset
      <3> QED BY <2>1, <3>0, <3>3, <3>4
    <2>4. Sweeping(q, n, k, e)
      BY <1>1, <1>2, <2>2, <2>3 DEF Sweeping
    <2> QED BY <1>1, <1>2, <1>5, <2>4 DEF SearchOK
  <1> QED BY <1>6, <1>7 DEF SearchOK

(* The search goes on behind block k, or behind the taken block behind a   *)
(* block k that is too small.                                              *)
PassedOver(p, n, k, m, P) ==
  \/ k \notin p.free /\ m = k /\ P = {k}
  \/ k \in p.free /\ Room(p, k) < n /\ m = p.next[k] /\ m \notin p.free /\ P = {k, m}

LEMMA SkipSearch ==
  ASSUME NEW p, PoolInv(p), NEW n \in Int, NEW k, NEW e \in Nat, SearchOK(p, n, k, e),
         NEW m, NEW P, PassedOver(p, n, k, m, P)
  PROVE  SearchOK(p, n, p.next[m], Less(e, Cardinality(P)))
  <1> DEFINE s == p.search
             g == p.next[m]
             d == Cardinality(P)
  <1>1. /\ DOMAIN p.next \subseteq Nat /\ k \in DOMAIN p.next /\ k \in Nat /\ s \in Nat
        /\ \A x \in DOMAIN p.next : x <= EndBlock /\ 0 <= x
        /\ 0 \in DOMAIN p.next /\ p.next[EndBlock] = 0 /\ EndBlock \in DOMAIN p.next
        /\ p.free \subseteq DOMAIN p.next \ {EndBlock}
        /\ \A x \in DOMAIN p.next \ {EndBlock} :
             /\ p.next[x] \in DOMAIN p.next /\ x < p.next[x] /\ p.next[x] \in Nat
             /\ \A z \in DOMAIN p.next : z <= x \/ p.next[x] <= z
    BY PoolIs, RingIs, AheadIs DEF SearchOK
  <1>2. /\ m \in DOMAIN p.next /\ m \notin p.free /\ k <= m /\ P = {k, m}
        /\ \A x \in DOMAIN p.next : x <= k \/ m <= x
    BY <1>1 DEF PassedOver
  <1>3. /\ g \in DOMAIN p.next /\ (m = EndBlock => g = 0)
        /\ m # EndBlock => m < g /\ \A x \in DOMAIN p.next : x <= m \/ g <= x
    BY <1>1, <1>2
  <1>4. StartIsMerged(p, k) /\ (AllSmall(p, n) \/ Sweeping(p, n, k, e))
    BY DEF SearchOK
  <1>5. StartIsMerged(p, g)
    BY <1>1, <1>2, <1>4 DEF StartIsMerged, PassedOver
  (* The runs that begin in what is passed over. *)
  <1>6. ASSUME NEW x, NEW y, Run(p, x, y), k <= x, x <= m
        PROVE  Small(x, y, n) /\ y = m
    <2>1. x \in DOMAIN p.next /\ y \in DOMAIN p.next /\ x < y
          /\ \A z \in DOMAIN p.next : x <= z /\ z < y => z \in p.free
      BY <1>6 DEF Run
    <2>2. x \in p.free /\ x # m /\ x \in Nat /\ y \in Nat /\ m \in Nat
      BY <1>1, <1>2, <2>1
    <2>3. x = k
      BY <1>1, <1>2, <1>6, <2>1, <2>2
    <2>4. y <= m
      BY <1>2, <1>6, <2>1, <2>2
    <2>5. y = m
      BY <1>1, <1>2, <2>1, <2>2, <2>3, <2>4
    <2>6. m = p.next[k] /\ Room(p, k) < n
      BY <2>2, <2>3 DEF PassedOver
    <2> QED BY <2>3, <2>5, <2>6 DEF Small, Room
  <1> HIDE DEF g
  <1>7. CASE AllSmall(p, n)
    BY <1>3, <1>5, <1>7 DEF SearchOK, g
  <1>8. CASE Sweeping(p, n, k, e)
    <2>1. /\ k >= s => s \in DOMAIN p.next
          /\ \A x, y : Run(p, x, y) /\ Behind(p, x, k) => Small(x, y, n) /\ (x < k => y <= k)
          /\ k < s /\ s \notin DOMAIN p.next => p.next[k] > s /\ p.next[k] \notin p.free
          /\ e >= Cardinality(Ahead(p, k)) + Extra(p)
      BY <1>8 DEF Sweeping
    <2>2. \A x, y : Run(p, x, y) => /\ x \in DOMAIN p.next /\ y \in DOMAIN p.next /\ x \in p.free
                                    /\ x \in Nat /\ y \in Nat /\ x # EndBlock
      BY <1>1 DEF Run
    <2>3. g \in Nat /\ m \in Nat
      BY <1>1, <1>2, <1>3
    (* What is left to look at has fewer blocks. *)
    <2>4. ASSUME P \subseteq Ahead(p, k), Ahead(p, g) \subseteq Ahead(p, k) \ P
          PROVE  Less(e, d) >= Cardinality(Ahead(p, g)) + Extra(p)
      <3> DEFINE A == Ahead(p, k)
                 G == Ahead(p, g)
      <3>1. /\ IsFiniteSet(A) /\ Cardinality(A) \in Nat /\ Cardinality(G) \in Nat
            /\ Extra(p) \in 0 .. 1
        BY AheadIs
      <3> HIDE DEF A, G
      <3>2. A \cap P = P /\ G \subseteq A \ P
        BY <2>4 DEF A, G
      <3>3. IsFiniteSet(A \ P) /\ Cardinality(A \ P) = Cardinality(A) - Cardinality(A \cap P)
        BY <3>1, FS_Difference
      <3>4. Cardinality(A \ P) = Cardinality(A) - d
        BY <3>2, <3>3
      <3>5. Cardinality(G) <= Cardinality(A) - d
        BY <3>2, <3>3, <3>4, FS_Subset
      <3>6. d \in Nat
        BY <3>1, <3>2, FS_Subset, FS_CardinalityType
      <3>7. e >= Cardinality(A) + Extra(p)
        BY <2>1 DEF A
      <3> HIDE DEF d
      <3>8. Less(e, d) >= Cardinality(G) + Extra(p)
        BY <3>1, <3>5, <3>6, <3>7 DEF Less
      <3> QED BY <3>8 DEF G, d
    <2>5. CASE k >= s
      <3>1. P \subseteq Ahead(p, k)
        BY <1>1, <1>2, <2>3, <2>5 DEF Ahead
      <3>2. \A x, y : Run(p, x, y) /\ s <= x /\ x <= m => Small(x, y, n) /\ y <= m
        <4> SUFFICES ASSUME NEW x, NEW y, Run(p, x, y), s <= x, x <= m
                     PROVE  Small(x, y, n) /\ y <= m
          OBVIOUS
        <4>1. CASE x < k
          <5>1. Behind(p, x, k)
            BY <2>5, <4>1 DEF Behind
          <5> QED BY <1>1, <1>2, <2>1, <2>2, <2>3, <4>1, <5>1
        <4>2. CASE ~(x < k)
          BY <1>1, <1>6, <2>2, <2>3, <4>2
        <4> QED BY <4>1, <4>2
      <3>3. CASE m # EndBlock
        <4>1. g >= s /\ k < g /\ m < g
          BY <1>1, <1>2, <1>3, <2>3, <2>5, <3>3
        <4>2. Ahead(p, g) \subseteq Ahead(p, k) \ P
          BY <1>1, <1>2, <2>3, <2>5, <4>1 DEF Ahead
        <4>3. ASSUME NEW x, NEW y, Run(p, x, y), Behind(p, x, g)
              PROVE  Small(x, y, n) /\ (x < g => y <= g)
          <5>1. s <= x /\ x < g
            BY <4>1, <4>3 DEF Behind
          <5>2. x <= m
            BY <1>3, <2>2, <2>3, <3>3, <4>3, <5>1
          <5> QED BY <2>2, <2>3, <3>2, <4>1, <4>3, <5>1, <5>2
        <4>4. Sweeping(p, n, g, Less(e, d))
          BY <1>1, <2>1, <2>3, <2>4, <2>5, <3>1, <4>1, <4>2, <4>3 DEF Sweeping
        <4> QED BY <1>3, <1>5, <4>4 DEF SearchOK, g
      <3>4. CASE m = EndBlock
        <4>1. \A x, y : Run(p, x, y) /\ s <= x => Small(x, y, n)
          BY <1>1, <2>2, <3>2, <3>4
        <4>2. CASE s = 0
          <5>1. AllSmall(p, n)
            BY <1>1, <2>2, <4>1, <4>2 DEF AllSmall
          <5> QED BY <1>3, <1>5, <5>1 DEF SearchOK, g
        <4>3. CASE s # 0
          <5>1. g = 0 /\ g < s
            BY <1>1, <1>3, <3>4, <4>3
          <5>2. Ahead(p, g) \subseteq Ahead(p, k) \ P
            BY <1>1, <1>2, <2>3, <2>5, <5>1 DEF Ahead
          <5>3. \A x, y : Run(p, x, y) /\ Behind(p, x, g) => Small(x, y, n) /\ (x < g => y <= g)
            BY <1>1, <2>2, <4>1, <5>1 DEF Behind
          <5>4. s \in DOMAIN p.next
            BY <2>1, <2>5
          <5>5. Sweeping(p, n, g, Less(e, d))
            BY <1>1, <2>3, <2>4, <3>1, <5>1, <5>2, <5>3, <5>4 DEF Sweeping
          <5> QED BY <1>3, <1>5, <5>5 DEF SearchOK, g
        <4> QED BY <4>2, <4>3
      <3> QED BY <3>3, <3>4
    <2>6. CASE k < s
      <3>1. \A x, y : Run(p, x, y) /\ (x <= m \/ s <= x) => Small(x, y, n) /\ (x <= m => y <= m \/ s <= x)
        <4> SUFFICES ASSUME NEW x, NEW y, Run(p, x, y), x <= m \/ s <= x
                     PROVE  Small(x, y, n) /\ (x <= m => y <= m \/ s <= x)
          OBVIOUS
        <4>1. CASE x < k \/ s <= x
          <5>1. Behind(p, x, k)
            BY <1>1, <2>2, <2>6, <4>1 DEF Behind
          <5> QED BY <1>1, <1>2, <2>1, <2>2, <2>3, <4>1, <5>1
        <4>2. CASE ~(x < k \/ s <= x)
          BY <1>1, <1>6, <2>2, <2>3, <4>2
        <4> QED BY <4>1, <4>2
      <3>2. CASE m # EndBlock /\ g < s
        <4>1. s \in DOMAIN p.next
          <5> SUFFICES ASSUME s \notin DOMAIN p.next PROVE FALSE
            OBVIOUS
          <5>1. p.next[k] > s /\ k < p.next[k] /\ k # EndBlock
            BY <1>1, <1>2, <2>1, <2>3, <2>6, <3>2
          <5>2. p.next[k] <= g
            BY <1>1, <1>2, <1>3, <2>3, <3>2, <5>1
          <5> QED BY <1>1, <2>3, <3>2, <5>1, <5>2
        <4>2. P \subseteq Ahead(p, k) /\ Ahead(p, g) \subseteq Ahead(p, k) \ P
          BY <1>1, <1>2, <1>3, <2>3, <2>6, <3>2 DEF Ahead
        <4>3. ASSUME NEW x, NEW y, Run(p, x, y), Behind(p, x, g)
              PROVE  Small(x, y, n) /\ (x < g => y <= g)
          <5>1. x < g \/ s <= x
            BY <1>1, <2>3, <3>2, <4>3 DEF Behind
          <5>2. x <= m \/ s <= x
            BY <1>3, <2>2, <2>3, <3>2, <4>3, <5>1
          <5>3. m < g
            BY <1>3, <3>2
          <5> QED BY <1>1, <2>2, <2>3, <3>1, <3>2, <4>3, <5>1, <5>2, <5>3
        <4>4. Sweeping(p, n, g, Less(e, d))
          BY <1>1, <2>3, <2>4, <3>2, <4>1, <4>2, <4>3 DEF Sweeping
        <4> QED BY <1>3, <1>5, <4>4 DEF SearchOK, g
      <3>3. CASE m = EndBlock \/ ~(g < s)
        <4>1. \A x, y : Run(p, x, y) => x <= m \/ s <= x
          BY <1>1, <1>3, <2>2, <2>3, <3>3
        <4>2. AllSmall(p, n)
          BY <3>1, <4>1 DEF AllSmall
        <4> QED BY <1>3, <1>5, <4>2 DEF SearchOK, g
      <3> QED BY <3>2, <3>3
    <2> QED BY <1>1, <2>5, <2>6
  <1> QED BY <1>4, <1>7, <1>8

-----------------------------------------------------------------------------
(***************************************************************************)
(* The pieces that the application has.                                    *)
(***************************************************************************)

Pieces == [at : Nat, size : Nat \ {0}]

PieceWords(g) == g.at .. g.at + g.size - 1

BytePieces == {p.at .. p.at + p.size - 1 : p \in bytes_given}

BlocksGiven(p) == DOMAIN p.next \ (p.free \cup {EndBlock})

(* Each block that is not free has one piece, which is no longer.          *)
Given(p, G) ==
  /\ G \subseteq Pieces
  /\ \A g \in G : /\ g.at - HEADER \in BlocksGiven(p)
                  /\ g.at + g.size <= p.next[g.at - HEADER]
  /\ \A g, h \in G : g.at = h.at => g = h
  /\ \A a \in BlocksGiven(p) : \E g \in G : g.at = a + HEADER

LEMMA GivenIs ==
  ASSUME NEW p, PoolInv(p), NEW G, Given(p, G), NEW g \in G
  PROVE  LET x == g.at - HEADER
         IN  /\ x \in BlocksGiven(p) /\ x \in DOMAIN p.next \ {EndBlock} /\ x \notin p.free
             /\ x \in Nat /\ p.next[x] \in Nat /\ p.next[x] \in DOMAIN p.next
             /\ p.next[x] <= EndBlock
             /\ g.at \in Nat /\ g.size \in Nat /\ g.size > 0 /\ x < g.at
             /\ g.at + g.size <= p.next[x]
             /\ \A y \in DOMAIN p.next : y <= x \/ p.next[x] <= y
  <1> DEFINE x == g.at - HEADER
  <1>1. g \in Pieces /\ x \in BlocksGiven(p) /\ g.at + g.size <= p.next[x]
    BY DEF Given
  <1>2. g.at \in Nat /\ g.size \in Nat /\ g.size > 0 /\ x < g.at
    BY <1>1, ByteConstants DEF Pieces
  <1>3. x \in DOMAIN p.next \ {EndBlock} /\ x \notin p.free
    BY <1>1 DEF BlocksGiven
  <1> HIDE DEF x
  <1>4. /\ x \in Nat /\ p.next[x] \in Nat /\ p.next[x] \in DOMAIN p.next
        /\ p.next[x] <= EndBlock
        /\ \A y \in DOMAIN p.next : y <= x \/ p.next[x] <= y
    BY <1>3, PoolIs, RingIs
  <1> QED BY <1>1, <1>2, <1>3, <1>4 DEF x

(* Pieces in different blocks have no word in common.                      *)
LEMMA PiecesApart ==
  ASSUME NEW p, PoolInv(p), NEW G, Given(p, G)
  PROVE  /\ \A g \in G : PieceWords(g) \subseteq 0 .. EndBlock - 1 /\ PieceWords(g) # {}
         /\ \A g, h \in G : g # h => PieceWords(g) \cap PieceWords(h) = {}
  <1>1. ASSUME NEW g \in G
        PROVE  PieceWords(g) \subseteq 0 .. EndBlock - 1 /\ PieceWords(g) # {}
    <2> DEFINE x == g.at - HEADER
    <2>1. /\ p.next[x] \in Nat /\ p.next[x] <= EndBlock
          /\ g.at \in Nat /\ g.size \in Nat /\ g.size > 0 /\ g.at + g.size <= p.next[x]
      BY GivenIs
    <2> HIDE DEF x
    <2>2. g.at \in PieceWords(g)
      BY <2>1 DEF PieceWords
    <2>3. PieceWords(g) \subseteq 0 .. EndBlock - 1
      BY <2>1, ByteConstants DEF PieceWords
    <2> QED BY <2>2, <2>3
  <1>2. ASSUME NEW g \in G, NEW h \in G, g # h
        PROVE  PieceWords(g) \cap PieceWords(h) = {}
    <2> DEFINE x == g.at - HEADER
               y == h.at - HEADER
    <2>1. /\ x \in DOMAIN p.next /\ x \in Nat /\ p.next[x] \in Nat
          /\ g.at \in Nat /\ g.size \in Nat /\ x < g.at /\ g.at + g.size <= p.next[x]
          /\ \A z \in DOMAIN p.next : z <= x \/ p.next[x] <= z
      BY GivenIs
    <2>2. /\ y \in DOMAIN p.next /\ y \in Nat /\ p.next[y] \in Nat
          /\ h.at \in Nat /\ h.size \in Nat /\ y < h.at /\ h.at + h.size <= p.next[y]
          /\ \A z \in DOMAIN p.next : z <= y \/ p.next[y] <= z
      BY GivenIs
    <2>3. x # y
      <3>1. g.at # h.at
        BY <1>2 DEF Given
      <3> QED BY <2>1, <2>2, <3>1, ByteConstants
    <2> HIDE DEF x, y
    <2>4. p.next[x] <= y \/ p.next[y] <= x
      BY <2>1, <2>2, <2>3
    <2> QED BY <2>1, <2>2, <2>4 DEF PieceWords
  <1> QED BY <1>1, <1>2

LEMMA GivenTake ==
  ASSUME NEW p, PoolInv(p), NEW q, PoolInv(q), NEW a \in p.free, TakenAt(p, q, a),
         NEW n \in Nat \ {0}, Room(q, a) >= n, NEW G, Given(p, G),
         NEW g, g = [at |-> a + HEADER, size |-> n]
  PROVE  Given(q, G \cup {g}) /\ g \notin G
  <1>1. /\ a \in DOMAIN p.next \ {EndBlock} /\ a \in Nat /\ DOMAIN p.next \subseteq Nat
    BY PoolIs
  <1>2. /\ DOMAIN p.next \subseteq DOMAIN q.next
        /\ \A x \in DOMAIN p.next \ {a} : q.next[x] = p.next[x]
        /\ BlocksGiven(q) = BlocksGiven(p) \cup {a}
        /\ a \notin BlocksGiven(p)
    <2>1. CASE q.next = p.next /\ q.free = p.free \ {a}
      BY <1>1, <2>1 DEF BlocksGiven
    <2>2. ASSUME NEW b, SplitAt(p.next, q.next, a, b), q.free = (p.free \cup {b}) \ {a}
          PROVE  /\ DOMAIN p.next \subseteq DOMAIN q.next
                 /\ \A x \in DOMAIN p.next \ {a} : q.next[x] = p.next[x]
                 /\ BlocksGiven(q) = BlocksGiven(p) \cup {a}
                 /\ a \notin BlocksGiven(p)
      <3>1. DOMAIN q.next = DOMAIN p.next \cup {b} /\ b \notin DOMAIN p.next
            /\ \A x \in DOMAIN p.next \ {a} : q.next[x] = p.next[x]
        BY <2>2 DEF SplitAt
      <3>2. a # b
        BY <1>1, <3>1
      <3> QED BY <1>1, <2>2, <3>1, <3>2 DEF BlocksGiven
    <2> QED BY <2>1, <2>2 DEF TakenAt
  <1>3. /\ Room(q, a) + HEADER = q.next[a] - a /\ Room(q, a) \in Int /\ q.next[a] \in Nat
    BY <1>1, <1>2, PoolIs
  <1>4. g \in Pieces /\ g.at = a + HEADER /\ g.size = n /\ g.at - HEADER = a
        /\ g.at + g.size <= q.next[a]
    BY <1>1, <1>3, ByteConstants DEF Pieces
  <1>5. \A h \in G : h.at - HEADER # a /\ h.at \in Nat
    BY <1>2, GivenIs
  <1>6. \A h \in G : h.at # g.at
    BY <1>4, <1>5
  <1>7. ASSUME NEW h \in G \cup {g}
        PROVE  h.at - HEADER \in BlocksGiven(q) /\ h.at + h.size <= q.next[h.at - HEADER]
    <2>1. CASE h = g
      BY <1>2, <1>4, <2>1
    <2>2. CASE h \in G
      <3>1. h.at - HEADER \in BlocksGiven(p) /\ h.at - HEADER \in DOMAIN p.next
            /\ h.at + h.size <= p.next[h.at - HEADER]
        BY <2>2, GivenIs
      <3> QED BY <1>2, <1>5, <2>2, <3>1
    <2> QED BY <2>1, <2>2
  <1>8. \A x \in BlocksGiven(q) : \E h \in G \cup {g} : h.at = x + HEADER
    BY <1>2, <1>4 DEF Given
  <1>9. G \cup {g} \subseteq Pieces /\ \A h, i \in G : h.at = i.at => h = i
    BY <1>4 DEF Given
  <1> QED BY <1>6, <1>7, <1>8, <1>9 DEF Given

LEMMA GivenMerge ==
  ASSUME NEW p, PoolInv(p), NEW q, NEW a \in p.free, NEW b \in p.free,
         SplitAt(q.next, p.next, a, b), q.free = p.free \ {b}, NEW G, Given(p, G)
  PROVE  Given(q, G)
  <1>1. /\ DOMAIN p.next = DOMAIN q.next \cup {b} /\ b \notin DOMAIN q.next
        /\ \A x \in DOMAIN q.next \ {a} : q.next[x] = p.next[x]
    BY DEF SplitAt
  <1>2. BlocksGiven(q) = BlocksGiven(p) /\ \A x \in BlocksGiven(p) : q.next[x] = p.next[x]
    BY <1>1 DEF BlocksGiven
  <1> QED BY <1>2 DEF Given

LEMMA GivenRelease ==
  ASSUME NEW p, PoolInv(p), NEW q, NEW G, Given(p, G), NEW g \in G,
         q.next = p.next, q.free = p.free \cup {g.at - HEADER}
  PROVE  Given(q, G \ {g})
  <1> DEFINE a == g.at - HEADER
  <1>1. a \in BlocksGiven(p) /\ g.at \in Nat
    BY GivenIs
  <1>2. BlocksGiven(q) = BlocksGiven(p) \ {a}
    BY DEF BlocksGiven
  <1>3. \A h \in G \ {g} : h.at - HEADER # a
    <2> SUFFICES ASSUME NEW h \in G \ {g}, h.at - HEADER = a PROVE FALSE
      OBVIOUS
    <2>1. h.at \in Nat
      BY GivenIs
    <2>2. h.at = g.at
      BY <1>1, <2>1, ByteConstants
    <2> QED BY <2>2 DEF Given
  <1>4. ASSUME NEW x \in BlocksGiven(q) PROVE \E h \in G \ {g} : h.at = x + HEADER
    <2>1. PICK h \in G : h.at = x + HEADER
      BY <1>2 DEF Given
    <2>2. x \in Nat
      BY <1>2, PoolIs DEF BlocksGiven
    <2>3. h # g
      BY <1>2, <2>1, <2>2, ByteConstants
    <2> QED BY <2>1, <2>3
  <1> QED BY <1>2, <1>3, <1>4 DEF Given

-----------------------------------------------------------------------------
(***************************************************************************)
(* The whole byte pool: its blocks, its pieces, and the searches.          *)
(***************************************************************************)

Searches == [at : {"search"}, size : MemSizes, current : Nat, examine : Nat]

Waiting == [at : {"start", "failed"}, size : MemSizes]

Calls == {NoCall} \cup Waiting \cup Searches

(* What a call knows of the pool while nobody else has become its owner.   *)
CallOK(p, c) ==
  /\ c.at = "search" => SearchOK(p, c.size, c.current, c.examine)
  /\ c.at = "failed" => AllSmall(p, c.size)

ByteInv ==
  /\ PoolInv(pool) /\ Given(pool, bytes_given)
  /\ alloc \in [ByteTasks -> Calls]
  /\ \A t \in ByteTasks : pool.owner = t => CallOK(pool, alloc[t])

LEMMA CallsAre ==
  ASSUME NEW c \in Calls
  PROVE  /\ c.at \in {"idle", "start", "search", "failed"}
         /\ c.at = "idle" <=> c = NoCall
         /\ c.at \in {"start", "failed"} <=> c \in Waiting
         /\ c.at = "search" <=> c \in Searches
         /\ c # NoCall => c.size \in MemSizes /\ c.size \in Nat \ {0}
         /\ c \in Searches => c.current \in Nat /\ c.examine \in Nat
  <1>1. CASE c = NoCall
    <2>1. c.at = "idle" /\ c \notin Waiting /\ c \notin Searches
      BY <1>1 DEF NoCall, Waiting, Searches
    <2> QED BY <1>1, <2>1
  <1>2. CASE c \in Waiting
    <2>1. c.at \in {"start", "failed"} /\ c # NoCall /\ c \notin Searches /\ c.size \in MemSizes
      BY <1>2 DEF NoCall, Waiting, Searches
    <2> QED BY <1>2, <2>1, ByteAssumption
  <1>3. CASE c \in Searches
    <2>1. /\ c.at = "search" /\ c # NoCall /\ c \notin Waiting /\ c.size \in MemSizes
          /\ c.current \in Nat /\ c.examine \in Nat
      BY <1>3 DEF NoCall, Waiting, Searches
    <2> QED BY <1>3, <2>1, ByteAssumption
  <1> QED BY <1>1, <1>2, <1>3 DEF Calls

(* What is known of the pool does not depend on its owner.                 *)
SameRing(p, q) == q.next = p.next /\ q.free = p.free /\ q.search = p.search

LEMMA OwnerSearch ==
  ASSUME NEW p, NEW q, SameRing(p, q), NEW n, NEW k, NEW e
  PROVE  /\ AllSmall(p, n) <=> AllSmall(q, n)
         /\ SearchOK(p, n, k, e) <=> SearchOK(q, n, k, e)
  <1>1. \A x, y : Run(p, x, y) <=> Run(q, x, y)
    BY DEF SameRing, Run
  <1>2. AllSmall(p, n) <=> AllSmall(q, n)
    BY <1>1 DEF AllSmall
  <1>3. Ahead(p, k) = Ahead(q, k) /\ Extra(p) = Extra(q)
    BY DEF SameRing, Ahead, Extra
  <1>4. StartIsMerged(p, k) <=> StartIsMerged(q, k)
    BY DEF SameRing, StartIsMerged
  <1>5. \A x : Behind(p, x, k) <=> Behind(q, x, k)
    BY DEF SameRing, Behind
  <1>6. Sweeping(p, n, k, e) <=> Sweeping(q, n, k, e)
    BY <1>1, <1>3, <1>5 DEF Sweeping, SameRing
  <1> QED BY <1>2, <1>4, <1>6 DEF SearchOK, SameRing

LEMMA OwnerPool ==
  ASSUME NEW p, PoolInv(p), NEW t \in ByteTasks, NEW q, q = [p EXCEPT !.owner = t]
  PROVE  /\ PoolInv(q) /\ SameRing(p, q) /\ q.owner = t
         /\ q.fragments = p.fragments /\ q.available = p.available
         /\ \A G : Given(p, G) => Given(q, G)
  <1>1. p \in Pools
    BY DEF PoolInv
  <1>2. /\ q.next = p.next /\ q.free = p.free /\ q.search = p.search /\ q.owner = t
        /\ q.fragments = p.fragments /\ q.available = p.available /\ q \in Pools
    BY <1>1 DEF Pools
  <1> QED BY <1>2 DEF PoolInv, SameRing, Given, BlocksGiven

LEMMA ByteInit == raw_byte_pool_create => ByteInv
  <1> SUFFICES ASSUME raw_byte_pool_create PROVE ByteInv
    OBVIOUS
  <1> DEFINE f == [a \in {0, EndBlock} |-> IF a = 0 THEN EndBlock ELSE 0]
  <1>1. EndBlock \in Nat /\ EndBlock > 0 /\ 0 # EndBlock
    BY ByteConstants
  <1>2. DOMAIN f = {0, EndBlock} /\ f[0] = EndBlock /\ f[EndBlock] = 0
    BY <1>1
  <1>3. RingInv(f)
    <2>1. f = [a \in DOMAIN f |-> f[a]]
      OBVIOUS
    <2> HIDE DEF f
    <2> QED BY <1>1, <1>2, <2>1 DEF RingInv
  <1>4. f \in Rings
    <2> HIDE DEF f
    <2> QED BY <1>3, RingsAre
  <1>5. /\ pool = [next |-> f, free |-> {0}, search |-> 0, owner |-> NoOwner,
                   available |-> POOL - HEADER, fragments |-> 2]
        /\ alloc = [t \in ByteTasks |-> NoCall] /\ bytes_given = {}
    BY DEF raw_byte_pool_create
  <1> HIDE DEF f
  <1>6. /\ pool.next = f /\ pool.free = {0} /\ pool.search = 0 /\ pool.owner = NoOwner
        /\ pool.available = EndBlock /\ pool.fragments = 2
    BY <1>5 DEF EndBlock
  <1>7. pool \in Pools
    <2>1. POOL - HEADER \in Int /\ 0 \in 0 .. EndBlock
      BY <1>1 DEF EndBlock
    <2> QED BY <1>1, <1>4, <1>5, <2>1 DEF Pools
  <1>8. Cardinality(DOMAIN f) = 2
    <2>1. IsFiniteSet({0}) /\ Cardinality({0}) = 1
      BY FS_Singleton
    <2>2. Cardinality({0} \cup {EndBlock}) = 2
      BY <1>1, <2>1, FS_AddElement
    <2>3. {0} \cup {EndBlock} = {0, EndBlock}
      OBVIOUS
    <2> QED BY <1>2, <2>2, <2>3
  <1>9. Cardinality(Words(f, {0})) = EndBlock
    <2>1. Words(f, {0}) = 0 .. EndBlock - 1
      BY <1>2 DEF Words
    <2>2. 0 \in Int /\ EndBlock - 1 \in Int /\ ~(0 > EndBlock - 1) /\ (EndBlock - 1) - 0 + 1 = EndBlock
      BY <1>1
    <2> QED BY <2>1, <2>2, FS_Interval
  <1>10. PoolInv(pool)
    BY <1>1, <1>2, <1>3, <1>6, <1>7, <1>8, <1>9 DEF PoolInv
  <1>11. Given(pool, bytes_given)
    BY <1>2, <1>5, <1>6 DEF Given, BlocksGiven
  <1> QED BY <1>5, <1>6, <1>10, <1>11, ByteAssumption DEF ByteInv, Calls

-----------------------------------------------------------------------------
(* What one look at a block does.                                          *)
Takes(t, p, c) ==
  LET a == c.current
  IN  /\ a \in p.free /\ Room(p, a) >= c.size /\ pool' = Taken(p, a, c.size)
      /\ alloc' = [alloc EXCEPT ![t] = NoCall]
      /\ bytes_given' = bytes_given \cup {[at |-> a + HEADER, size |-> c.size]}

Merges(t, p, c) ==
  LET a == c.current
  IN  /\ a \in p.free /\ p.next[a] \in p.free /\ pool' = Merged(p, a)
      /\ alloc' = [alloc EXCEPT ![t] = AfterMerge(p, c)] /\ bytes_given' = bytes_given

Skips(t, p, c) ==
  \E m, P :
    /\ PassedOver(p, c.size, c.current, m, P) /\ pool' = p
    /\ alloc' = [alloc EXCEPT ![t] = [c EXCEPT !.current = p.next[m],
                                               !.examine = Less(c.examine, Cardinality(P))]]
    /\ bytes_given' = bytes_given

LEMMA PairIs == \A a, b : IsFiniteSet({a, b}) /\ (a # b => Cardinality({a, b}) = 2)
  <1> SUFFICES ASSUME NEW a, NEW b
               PROVE  IsFiniteSet({a, b}) /\ (a # b => Cardinality({a, b}) = 2)
    OBVIOUS
  <1>1. IsFiniteSet({a}) /\ Cardinality({a}) = 1
    BY FS_Singleton
  <1>2. IsFiniteSet({a} \cup {b}) /\ (b \notin {a} => Cardinality({a} \cup {b}) = 2)
    BY <1>1, FS_AddElement
  <1>3. {a} \cup {b} = {a, b} /\ (a # b => b \notin {a})
    OBVIOUS
  <1> QED BY <1>2, <1>3

LEMMA LookIs ==
  ASSUME NEW p, PoolInv(p), NEW t, NEW c \in Searches, c.current \in DOMAIN p.next, Look(t, p, c)
  PROVE  Takes(t, p, c) \/ Merges(t, p, c) \/ Skips(t, p, c)
  <1> DEFINE a == c.current
             b == p.next[a]
  <1>1. c.size \in Nat /\ (a \in p.free => Room(p, a) \in Int /\ a < b /\ a \in Nat /\ b \in Nat)
    BY PoolIs, CallsAre DEF Calls
  <1>2. CASE a \in p.free /\ Room(p, a) >= c.size
    <2>1. /\ pool' = Taken(p, a, c.size) /\ alloc' = [alloc EXCEPT ![t] = NoCall]
          /\ bytes_given' = bytes_given \cup {[at |-> a + HEADER, size |-> c.size]}
      <3>1. ~(Room(p, a) < c.size)
        BY <1>1, <1>2
      <3> QED BY <1>2, <3>1, ZenonT(30) DEF Look
    <2> QED BY <1>2, <2>1 DEF Takes
  <1>3. CASE a \in p.free /\ Room(p, a) < c.size /\ b \in p.free
    <2>1. /\ pool' = Merged(p, a) /\ alloc' = [alloc EXCEPT ![t] = AfterMerge(p, c)]
          /\ bytes_given' = bytes_given
      <3>1. ~(Room(p, a) >= c.size)
        BY <1>1, <1>3
      <3> QED BY <1>3, <3>1, ZenonT(30) DEF Look
    <2> QED BY <1>3, <2>1 DEF Merges
  <1>4. CASE a \in p.free /\ Room(p, a) < c.size /\ b \notin p.free
    <2>1. Cardinality({a, b}) = 2
      <3> HIDE DEF a, b
      <3> QED BY <1>1, <1>4, PairIs
    <2>2. PassedOver(p, c.size, a, b, {a, b})
      BY <1>4 DEF PassedOver
    <2>3. /\ pool' = p /\ bytes_given' = bytes_given
          /\ alloc' = [alloc EXCEPT ![t] = [c EXCEPT !.current = p.next[b], !.examine = Less(c.examine, 2)]]
      BY <1>1, <1>4 DEF Look
    <2> QED BY <2>1, <2>2, <2>3 DEF Skips
  <1>5. CASE a \notin p.free
    <2>1. Cardinality({a}) = 1
      BY FS_Singleton
    <2>2. PassedOver(p, c.size, a, a, {a})
      BY <1>5 DEF PassedOver
    <2>3. /\ pool' = p /\ bytes_given' = bytes_given
          /\ alloc' = [alloc EXCEPT ![t] = [c EXCEPT !.current = p.next[a], !.examine = Less(c.examine, 1)]]
      BY <1>5 DEF Look
    <2> QED BY <2>1, <2>2, <2>3 DEF Skips
  <1> QED BY <1>1, <1>2, <1>3, <1>4, <1>5

LEMMA TakeLooks ==
  ASSUME NEW p, PoolInv(p), NEW t, NEW c \in Searches, Takes(t, p, c)
  PROVE  /\ PoolInv(pool') /\ TakenAt(p, pool', c.current) /\ Room(pool', c.current) >= c.size
         /\ pool'.search = p.search /\ pool'.owner = p.owner
  <1>1. c.current \in p.free /\ c.size \in Nat /\ Room(p, c.current) >= c.size
    BY CallsAre DEF Takes, Calls
  <1>2. pool' = Taken(p, c.current, c.size)
    BY DEF Takes
  <1> DEFINE a == c.current
             n == c.size
  <1> HIDE DEF a, n
  <1>3. a \in p.free /\ n \in Nat /\ Room(p, a) >= n /\ pool' = Taken(p, a, n)
    BY <1>1, <1>2 DEF a, n
  <1>4. /\ PoolInv(pool') /\ Room(pool', a) >= n /\ pool'.search = p.search /\ pool'.owner = p.owner
        /\ \/ pool'.next = p.next /\ pool'.free = p.free \ {a}
           \/ \E b : SplitAt(p.next, pool'.next, a, b) /\ pool'.free = (p.free \cup {b}) \ {a}
    BY <1>3, TakePool
  <1> QED BY <1>4 DEF TakenAt, a, n

LEMMA MergeLooks ==
  ASSUME NEW p, PoolInv(p), NEW t, NEW c \in Searches, Merges(t, p, c)
  PROVE  /\ PoolInv(pool') /\ pool'.search = p.search /\ pool'.owner = p.owner
         /\ SplitAt(pool'.next, p.next, c.current, p.next[c.current])
         /\ pool'.free = p.free \ {p.next[c.current]}
         /\ c.current \in p.free /\ p.next[c.current] \in p.free
  <1> DEFINE a == c.current
  <1>1. a \in p.free /\ p.next[a] \in p.free /\ pool' = Merged(p, a)
    BY DEF Merges
  <1> HIDE DEF a
  <1>2. /\ PoolInv(pool') /\ pool'.search = p.search /\ pool'.owner = p.owner
        /\ SplitAt(pool'.next, p.next, a, p.next[a]) /\ pool'.free = p.free \ {p.next[a]}
    BY <1>1, MergePool
  <1> QED BY <1>1, <1>2 DEF a

(* The search that looks goes on, or has what it wants.                    *)
LEMMA LookInv ==
  ASSUME NEW p, PoolInv(p), Given(p, bytes_given), alloc \in [ByteTasks -> Calls],
         NEW t \in ByteTasks, NEW c \in Searches, CallOK(p, c), Look(t, p, c)
  PROVE  /\ PoolInv(pool') /\ Given(pool', bytes_given') /\ alloc' \in [ByteTasks -> Calls]
         /\ pool'.search = p.search /\ pool'.owner = p.owner
         /\ \A u \in ByteTasks \ {t} : alloc'[u] = alloc[u]
         /\ CallOK(pool', alloc'[t])
  <1> DEFINE n == c.size
             k == c.current
             e == c.examine
  <1>1. n \in Nat \ {0} /\ n \in MemSizes /\ k \in Nat /\ e \in Nat /\ c.at = "search"
    BY CallsAre DEF Calls
  <1>2. SearchOK(p, n, k, e)
    BY <1>1 DEF CallOK
  <1>3. k \in DOMAIN p.next
    BY <1>2 DEF SearchOK
  <1> HIDE DEF n, k, e
  <1>4. CASE Takes(t, p, c)
    <2>1. /\ PoolInv(pool') /\ TakenAt(p, pool', k) /\ Room(pool', k) >= n
          /\ pool'.search = p.search /\ pool'.owner = p.owner
      BY <1>4, TakeLooks DEF n, k
    <2>2. /\ alloc' = [alloc EXCEPT ![t] = NoCall] /\ k \in p.free
          /\ bytes_given' = bytes_given \cup {[at |-> k + HEADER, size |-> n]}
      BY <1>4 DEF Takes, n, k
    <2>3. Given(pool', bytes_given')
      <3> DEFINE g == [at |-> k + HEADER, size |-> n]
      <3> HIDE DEF g
      <3>1. Given(pool', bytes_given \cup {g})
        <4> DEFINE q == pool'
                   G == bytes_given
        <4>1. g = [at |-> k + HEADER, size |-> n]
          BY DEF g
        <4>2. /\ PoolInv(q) /\ TakenAt(p, q, k) /\ Room(q, k) >= n /\ Given(p, G)
              /\ k \in p.free /\ n \in Nat \ {0}
          BY <1>1, <2>1, <2>2
        <4> HIDE DEF q, G
        <4>3. Given(q, G \cup {g})
          BY <4>1, <4>2, GivenTake
        <4> QED BY <4>3 DEF q, G
      <3> QED BY <2>2, <3>1 DEF g
    <2>4. alloc'[t] = NoCall /\ alloc' \in [ByteTasks -> Calls]
      BY <2>2 DEF Calls
    <2>5. CallOK(pool', alloc'[t])
      BY <2>4 DEF CallOK, NoCall
    <2> QED BY <2>1, <2>2, <2>3, <2>4, <2>5
  <1>5. CASE Merges(t, p, c)
    <2>1. /\ PoolInv(pool') /\ pool'.search = p.search /\ pool'.owner = p.owner
          /\ SplitAt(pool'.next, p.next, k, p.next[k]) /\ pool'.free = p.free \ {p.next[k]}
          /\ k \in p.free /\ p.next[k] \in p.free
      BY <1>5, MergeLooks DEF k
    <2>2. bytes_given' = bytes_given /\ alloc' = [alloc EXCEPT ![t] = AfterMerge(p, c)]
      BY <1>5 DEF Merges
    <2>3. Given(pool', bytes_given')
      BY <2>1, <2>2, GivenMerge
    <2>4. SearchOK(pool', n, k, e - 1)
      BY <1>1, <1>2, <2>1, MergeSearch
    <2>5. Less(e, 1) \in Nat /\ (e - 1 = Less(e, 1) \/ e - 1 = Less(e, 1) - 1)
      BY <1>1 DEF Less
    <2>6. SearchOK(pool', n, k, Less(e, 1))
      BY <2>1, <2>4, <2>5, SearchLonger
    <2>7. /\ AfterMerge(p, c) \in Searches /\ AfterMerge(p, c).at = "search"
          /\ AfterMerge(p, c).size = n /\ AfterMerge(p, c).current = k
          /\ AfterMerge(p, c).examine = Less(e, 1)
      BY <2>5 DEF AfterMerge, Searches, n, k, e
    <2>8. alloc'[t] = AfterMerge(p, c) /\ alloc' \in [ByteTasks -> Calls]
      BY <2>2, <2>7 DEF Calls
    <2>9. CallOK(pool', alloc'[t])
      BY <2>6, <2>7, <2>8 DEF CallOK
    <2> QED BY <2>1, <2>2, <2>3, <2>8, <2>9
  <1>6. CASE Skips(t, p, c)
    <2>1. PICK m, P : /\ PassedOver(p, n, k, m, P) /\ pool' = p
                      /\ alloc' = [alloc EXCEPT ![t] = [c EXCEPT !.current = p.next[m],
                                                  !.examine = Less(e, Cardinality(P))]]
                      /\ bytes_given' = bytes_given
      BY <1>6 DEF Skips, n, k, e
    <2> DEFINE h == Less(e, Cardinality(P))
               g == p.next[m]
               d == [c EXCEPT !.current = g, !.examine = h]
    <2>2. SearchOK(p, n, g, h)
      BY <1>1, <1>2, <2>1, SkipSearch
    <2>3. g \in Nat
      BY <2>2, PoolIs DEF SearchOK
    <2>4. h \in Nat
      <3>1. P \subseteq {k, m}
        BY <2>1 DEF PassedOver
      <3>2. IsFiniteSet({k, m})
        BY PairIs
      <3>3. Cardinality(P) \in Nat
        BY <3>1, <3>2, FS_Subset, FS_CardinalityType
      <3> QED BY <1>1, <3>3 DEF Less
    <2>5. alloc' = [alloc EXCEPT ![t] = d]
      BY <2>1
    <2> HIDE DEF g, h
    <2>6. /\ d \in Searches /\ d.at = "search" /\ d.size = n /\ d.current = g /\ d.examine = h
      BY <2>3, <2>4 DEF Searches, n
    <2> HIDE DEF d
    <2>7. alloc'[t] = d /\ alloc' \in [ByteTasks -> Calls]
      BY <2>5, <2>6 DEF Calls
    <2>8. CallOK(pool', alloc'[t])
      BY <2>1, <2>2, <2>6, <2>7 DEF CallOK
    <2> QED BY <2>1, <2>5, <2>7, <2>8
  <1> QED BY <1>3, <1>4, <1>5, <1>6, LookIs DEF k

(* A search that starts leaves what others know of the pool as it is.      *)
LEMMA LookOthers ==
  ASSUME NEW p, PoolInv(p), NEW t, NEW c \in Searches, c.current = p.search,
         p.search \in DOMAIN p.next, Look(t, p, c),
         NEW d \in Calls, CallOK(p, d)
  PROVE  CallOK(pool', d)
  <1> DEFINE s == p.search
             n == d.size
             q == pool'
  <1>1. d.at \in {"search", "failed"} => n \in Nat
    BY CallsAre
  <1>2. CASE Takes(t, p, c)
    <2>1. PoolInv(q) /\ TakenAt(p, q, s) /\ q.search = s /\ s \in p.free
      BY <1>2, TakeLooks DEF Takes
    <2>2. ASSUME d.at = "search" PROVE SearchOK(q, n, d.current, d.examine)
      <3>1. SearchOK(p, n, d.current, d.examine) /\ n \in Int /\ d.examine \in Int
        BY <1>1, <2>2, CallsAre DEF CallOK
      <3> DEFINE k == d.current
                 e == d.examine
      <3> HIDE DEF q, n, k, e
      <3>2. SearchOK(p, n, k, e) /\ n \in Int /\ e \in Int
        BY <3>1 DEF k, e
      <3>3. SearchOK(q, n, k, e)
        BY <2>1, <3>2, TakenSearch
      <3> QED BY <3>3 DEF k, e
    <2>3. ASSUME d.at = "failed" PROVE AllSmall(q, n)
      <3>1. AllSmall(p, n) /\ n \in Nat
        BY <1>1, <2>3 DEF CallOK
      <3> HIDE DEF q, n
      <3>2. \A x, y : Run(q, x, y) => \E z \in {x, s} : z <= x /\ Run(p, z, y)
        BY <2>1, TakeRuns
      <3>3. ASSUME NEW x, NEW y, Run(q, x, y) PROVE Small(x, y, n)
        <4>1. PICK z : z <= x /\ Run(p, z, y)
          BY <3>2, <3>3
        <4>2. x \in Nat /\ y \in Nat /\ z \in Nat /\ Small(z, y, n)
          BY <2>1, <3>1, <3>3, <4>1, PoolIs DEF Run, AllSmall
        <4> QED BY <3>1, <4>1, <4>2, ByteConstants DEF Small
      <3> QED BY <3>3 DEF AllSmall
    <2> QED BY <2>2, <2>3 DEF CallOK
  <1>3. CASE Merges(t, p, c)
    <2> DEFINE b == p.next[s]
    <2>1. /\ PoolInv(q) /\ q.search = s /\ SplitAt(q.next, p.next, s, b)
          /\ q.free = p.free \ {b} /\ s \in p.free /\ b \in p.free
      BY <1>3, MergeLooks
    <2>2. ASSUME d.at = "search" PROVE SearchOK(q, n, d.current, d.examine)
      <3> DEFINE k == d.current
                 e == d.examine
      <3>1. SearchOK(p, n, k, e) /\ e \in Int
        BY <2>2, CallsAre DEF CallOK
      <3> HIDE DEF q, n, k, e
      <3>2. k = s
        BY <2>1, <3>1 DEF SearchOK, StartIsMerged
      <3>3. SearchOK(q, n, s, e - 1)
        BY <2>1, <3>1, <3>2, MergeSearch
      <3>4. SearchOK(q, n, k, e)
        BY <2>1, <3>1, <3>2, <3>3, SearchLonger
      <3> QED BY <3>4 DEF k, e
    <2>3. ASSUME d.at = "failed" PROVE AllSmall(q, n)
      <3>1. AllSmall(p, n)
        BY <2>3 DEF CallOK
      <3> HIDE DEF q, n, b
      <3>2. \A x, y : Run(q, x, y) => Run(p, x, y)
        BY <2>1, MergeRuns
      <3> QED BY <3>1, <3>2 DEF AllSmall
    <2> QED BY <2>2, <2>3 DEF CallOK
  <1>4. CASE Skips(t, p, c)
    BY <1>4 DEF Skips
  <1> QED BY <1>2, <1>3, <1>4, LookIs

(* A search that has looked at everything has seen that nothing is left.   *)
LEMMA SearchEnds ==
  ASSUME NEW p, PoolInv(p), NEW n, NEW k, SearchOK(p, n, k, 0)
  PROVE  AllSmall(p, n)
  <1>1. k \in DOMAIN p.next /\ (AllSmall(p, n) \/ Sweeping(p, n, k, 0))
    BY DEF SearchOK
  <1>2. IsFiniteSet(Ahead(p, k)) /\ Cardinality(Ahead(p, k)) \in Nat /\ Extra(p) \in 0 .. 1
        /\ p.search \in Nat /\ k \in Nat
    BY <1>1, AheadIs, PoolIs
  <1>3. k \in Ahead(p, k)
    BY <1>1, <1>2 DEF Ahead
  <1>4. Cardinality(Ahead(p, k)) # 0
    BY <1>2, <1>3, FS_EmptySet
  <1>5. ~Sweeping(p, n, k, 0)
    BY <1>2, <1>4 DEF Sweeping
  <1> QED BY <1>1, <1>5

(* There are not even as many words as the search is for.                  *)
LEMMA TooFewWords ==
  ASSUME NEW p, PoolInv(p), NEW n \in Nat, n >= p.available
  PROVE  AllSmall(p, n)
  <1> SUFFICES ASSUME NEW a, NEW b, Run(p, a, b) PROVE Small(a, b, n)
    BY DEF AllSmall
  <1> DEFINE f == p.next
             S == p.free
  <1>1. RingInv(f) /\ S \subseteq DOMAIN f \ {EndBlock} /\ p.available = Cardinality(Words(f, S))
        /\ p.available \in Nat
    BY PoolIs DEF PoolInv
  <1>2. a \in DOMAIN f /\ b \in DOMAIN f /\ a < b /\ {x \in DOMAIN f : a <= x /\ x < b} \subseteq S
        /\ a \in Nat /\ b \in Nat
    BY PoolIs DEF Run
  <1> HIDE DEF f, S
  <1>3. b - a <= Cardinality(Words(f, S))
    BY <1>1, <1>2, RunWords
  <1> QED BY <1>1, <1>2, <1>3, ByteConstants DEF Small

LEMMA StartOK ==
  ASSUME PoolInv(pool), SearchAtBlock, NEW n \in MemSizes
  PROVE  /\ Start(n) \in Searches /\ Start(n).at = "search" /\ Start(n).size = n
         /\ Start(n).current = pool.search /\ pool.search \in DOMAIN pool.next
         /\ CallOK(pool, Start(n))
  <1>1. /\ pool.search \in DOMAIN pool.next /\ pool.search \in Nat /\ pool.fragments + 1 \in Nat
    BY PoolIs DEF SearchAtBlock
  <1>2. /\ Start(n) \in Searches /\ Start(n).at = "search" /\ Start(n).size = n
        /\ Start(n).current = pool.search /\ Start(n).examine = pool.fragments + 1
    BY <1>1 DEF Start, Searches
  <1>3. SearchOK(pool, n, pool.search, pool.fragments + 1)
    BY <1>1, FreshSearch
  <1> QED BY <1>1, <1>2, <1>3 DEF CallOK

-----------------------------------------------------------------------------
(* The pieces change as the allocator says.                                *)
LEMMA TakeIsAllocate ==
  ASSUME NEW p, PoolInv(p), Given(p, bytes_given), NEW t, NEW c \in Searches, Takes(t, p, c)
  PROVE  BytePool!Allocate
  <1> DEFINE g == [at |-> c.current + HEADER, size |-> c.size]
             H == bytes_given \cup {g}
  <1>1. /\ PoolInv(pool') /\ TakenAt(p, pool', c.current) /\ Room(pool', c.current) >= c.size
        /\ c.current \in p.free /\ c.size \in Nat \ {0} /\ bytes_given' = H
    BY TakeLooks, CallsAre DEF Takes, Calls
  <1>2. Given(pool', H) /\ g \notin bytes_given
    <2> DEFINE q == pool'
               G == bytes_given
               a == c.current
               n == c.size
    <2>1. g = [at |-> a + HEADER, size |-> n]
      OBVIOUS
    <2>2. /\ PoolInv(q) /\ TakenAt(p, q, a) /\ Room(q, a) >= n /\ Given(p, G)
          /\ a \in p.free /\ n \in Nat \ {0}
      BY <1>1
    <2> HIDE DEF q, G, a, n, g
    <2>3. Given(q, G \cup {g}) /\ g \notin G
      BY <2>1, <2>2, GivenTake
    <2> QED BY <2>3 DEF q, G
  <1> HIDE DEF g
  <1> DEFINE P == PieceWords(g)
  <1>3. /\ P \subseteq 0 .. EndBlock - 1 /\ P # {}
        /\ \A h \in bytes_given : P \cap PieceWords(h) = {}
    <2> HIDE DEF H
    <2>1. /\ \A h \in H : PieceWords(h) \subseteq 0 .. EndBlock - 1 /\ PieceWords(h) # {}
          /\ \A h, i \in H : h # i => PieceWords(h) \cap PieceWords(i) = {}
      BY <1>1, <1>2, PiecesApart
    <2>2. g \in H /\ \A h \in bytes_given : h \in H /\ h # g
      BY <1>2 DEF H
    <2> QED BY <2>1, <2>2
  <1>4. /\ BytePieces = {PieceWords(h) : h \in bytes_given}
        /\ BytePieces' = {PieceWords(h) : h \in bytes_given'}
    BY DEF BytePieces, PieceWords
  <1> HIDE DEF P
  <1>5. BytePieces' = BytePieces \cup {P} /\ P \notin BytePieces /\ P \cap UNION BytePieces = {}
    <2>1. BytePieces' = BytePieces \cup {P}
      BY <1>1, <1>4 DEF P
    <2>2. P \cap UNION BytePieces = {}
      BY <1>3, <1>4
    <2>3. P \notin BytePieces
      BY <1>3, <2>2
    <2> QED BY <2>1, <2>2, <2>3
  <1> QED BY <1>3, <1>5 DEF BytePool!Allocate, BytePieces, PieceWords

LEMMA ReleaseIsRelease ==
  ASSUME PoolInv(pool), Given(pool, bytes_given), NEW g \in bytes_given,
         bytes_given' = bytes_given \ {g}
  PROVE  BytePool!Release
  <1> DEFINE P == PieceWords(g)
  <1>1. /\ \A h \in bytes_given : PieceWords(h) # {}
        /\ \A h, i \in bytes_given : h # i => PieceWords(h) \cap PieceWords(i) = {}
    BY PiecesApart
  <1>2. \A h \in bytes_given : h # g => PieceWords(h) # PieceWords(g)
    BY <1>1
  <1>3. /\ BytePieces = {PieceWords(h) : h \in bytes_given}
        /\ BytePieces' = {PieceWords(h) : h \in bytes_given'}
    BY DEF BytePieces, PieceWords
  <1>4. P \in BytePieces /\ BytePieces' = BytePieces \ {P}
    BY <1>2, <1>3
  <1> HIDE DEF P
  <1> QED BY <1>4 DEF BytePool!Release, BytePieces, PieceWords

LEMMA LookGives ==
  ASSUME NEW p, PoolInv(p), Given(p, bytes_given), NEW t, NEW c \in Searches,
         c.current \in DOMAIN p.next, Look(t, p, c)
  PROVE  [BytePool!Next]_BytePieces
  <1>1. CASE Takes(t, p, c)
    BY <1>1, TakeIsAllocate DEF BytePool!Next
  <1>2. CASE Merges(t, p, c) \/ Skips(t, p, c)
    BY <1>2 DEF Merges, Skips, BytePieces
  <1> QED BY <1>1, <1>2, LookIs

(* The calls of other tasks stay as they are, and so does what the owner   *)
(* of the pool knows, if it is another task.                               *)
LEMMA ByteInvNext ==
  ASSUME ByteInv, NEW t \in ByteTasks, PoolInv(pool'), Given(pool', bytes_given'),
         alloc' \in [ByteTasks -> Calls], \A u \in ByteTasks \ {t} : alloc'[u] = alloc[u],
         pool'.owner = t => CallOK(pool', alloc'[t]),
         \A u \in ByteTasks \ {t} : pool'.owner = u => CallOK(pool', alloc[u])
  PROVE  ByteInv'
  <1>1. \A u \in ByteTasks : pool'.owner = u => CallOK(pool', alloc'[u])
    OBVIOUS
  <1>2. \A u \in ByteTasks : CallOK(pool, alloc[u])' <=> CallOK(pool', alloc'[u])
    BY DEF CallOK
  <1> QED BY <1>1, <1>2 DEF ByteInv, CallOK

LEMMA AllocateInv ==
  ASSUME ByteInv, NEW t \in ByteTasks, NEW n \in MemSizes, Allocate(t, n)
  PROVE  ByteInv'
  <1>1. /\ PoolInv(pool) /\ Given(pool, bytes_given) /\ alloc \in [ByteTasks -> Calls]
        /\ bytes_given' = bytes_given /\ pool' = [pool EXCEPT !.owner = t]
        /\ alloc' = [alloc EXCEPT ![t] = [at |-> "start", size |-> n]]
    BY DEF ByteInv, Allocate
  <1>2. PoolInv(pool') /\ pool'.owner = t /\ Given(pool', bytes_given')
    <2> DEFINE q == pool'
    <2>1. q = [pool EXCEPT !.owner = t]
      BY <1>1
    <2> HIDE DEF q
    <2>2. PoolInv(q) /\ q.owner = t /\ \A G : Given(pool, G) => Given(q, G)
      BY <1>1, <2>1, OwnerPool
    <2> QED BY <1>1, <2>2 DEF q
  <1>3. [at |-> "start", size |-> n] \in Calls
    BY DEF Calls, Waiting
  <1>4. alloc' \in [ByteTasks -> Calls] /\ alloc'[t] = [at |-> "start", size |-> n]
        /\ \A u \in ByteTasks \ {t} : alloc'[u] = alloc[u]
    BY <1>1, <1>3
  <1>5. CallOK(pool', alloc'[t])
    BY <1>4 DEF CallOK
  <1> QED BY <1>2, <1>4, <1>5, ByteInvNext

LEMMA StartsInv ==
  ASSUME ByteInv, NEW t \in ByteTasks, SearchStarts(t)
  PROVE  ByteInv' /\ [BytePool!Next]_BytePieces
  <1> DEFINE n == alloc[t].size
             c == Start(n)
  <1>1. /\ PoolInv(pool) /\ Given(pool, bytes_given) /\ alloc \in [ByteTasks -> Calls]
        /\ \A u \in ByteTasks : alloc[u] \in Calls
        /\ \A u \in ByteTasks : pool.owner = u => CallOK(pool, alloc[u])
    BY DEF ByteInv
  <1>2. n \in MemSizes /\ n \in Nat \ {0}
    BY <1>1, CallsAre DEF SearchStarts, NoCall
  <1>3. CASE n >= pool.available
    <2>1. /\ pool' = pool /\ bytes_given' = bytes_given
          /\ alloc' = [alloc EXCEPT ![t] = [at |-> "failed", size |-> n]]
      BY <1>3 DEF SearchStarts, Fail
    <2>2. AllSmall(pool, n)
      BY <1>1, <1>2, <1>3, TooFewWords
    <2>3. [at |-> "failed", size |-> n] \in Calls
      BY <1>2 DEF Calls, Waiting
    <2>4. /\ alloc' \in [ByteTasks -> Calls] /\ alloc'[t] = [at |-> "failed", size |-> n]
          /\ \A u \in ByteTasks \ {t} : alloc'[u] = alloc[u]
      BY <1>1, <2>1, <2>3
    <2>5. CallOK(pool', alloc'[t])
      BY <2>1, <2>2, <2>4 DEF CallOK
    <2>6. ByteInv'
      BY <1>1, <2>1, <2>4, <2>5, ByteInvNext
    <2> QED BY <2>1, <2>6 DEF BytePieces
  <1>4. CASE ~(n >= pool.available)
    <2>1. SearchAtBlock /\ Look(t, pool, c)
      BY <1>4 DEF SearchStarts
    <2>2. /\ c \in Searches /\ c.current = pool.search /\ pool.search \in DOMAIN pool.next
          /\ CallOK(pool, c)
      BY <1>1, <1>2, <2>1, StartOK
    <2> HIDE DEF c, n
    <2>3. /\ PoolInv(pool') /\ Given(pool', bytes_given') /\ alloc' \in [ByteTasks -> Calls]
          /\ pool'.owner = pool.owner /\ \A u \in ByteTasks \ {t} : alloc'[u] = alloc[u]
          /\ CallOK(pool', alloc'[t])
      BY <1>1, <2>1, <2>2, LookInv
    <2>4. \A u \in ByteTasks \ {t} : pool'.owner = u => CallOK(pool', alloc[u])
      BY <1>1, <2>1, <2>2, <2>3, LookOthers
    <2>5. ByteInv'
      BY <2>3, <2>4, ByteInvNext
    <2> QED BY <1>1, <2>1, <2>2, <2>5, LookGives
  <1> QED BY <1>3, <1>4

LEMMA GoesOnInv ==
  ASSUME ByteInv, NEW t \in ByteTasks, SearchGoesOn(t)
  PROVE  ByteInv' /\ [BytePool!Next]_BytePieces
  <1> DEFINE n == alloc[t].size
  <1>1. /\ PoolInv(pool) /\ Given(pool, bytes_given) /\ alloc \in [ByteTasks -> Calls]
        /\ \A u \in ByteTasks : pool.owner = u => CallOK(pool, alloc[u])
    BY DEF ByteInv
  <1>2. alloc[t].at = "search" /\ alloc[t] \in Searches /\ n \in MemSizes
    BY <1>1, CallsAre DEF SearchGoesOn, NoCall
  <1>3. PICK p : p = [pool EXCEPT !.owner = t]
    OBVIOUS
  <1>4. PICK c : c = Checked(t)
    OBVIOUS
  <1>5. /\ pool.owner = t \/ SearchAtBlock
        /\ IF c.examine = 0 THEN Fail(t, p, c) ELSE Look(t, p, c)
    BY <1>3, <1>4 DEF SearchGoesOn
  <1>6. /\ PoolInv(p) /\ SameRing(pool, p) /\ p.owner = t /\ Given(p, bytes_given)
    BY <1>1, <1>3, OwnerPool
  <1>7. /\ c \in Searches /\ CallOK(pool, c) /\ c.at = "search"
    <2>1. CASE pool.owner = t
      <3>1. c = alloc[t]
        BY <1>4, <2>1 DEF Checked
      <3> QED BY <1>1, <1>2, <2>1, <3>1
    <2>2. CASE pool.owner # t
      <3>1. c = Start(n) /\ SearchAtBlock
        BY <1>4, <1>5, <2>2 DEF Checked
      <3> HIDE DEF n
      <3> QED BY <1>1, <1>2, <3>1, StartOK
    <2> QED BY <2>1, <2>2
  <1>8. /\ SearchOK(p, c.size, c.current, c.examine) /\ c.size \in MemSizes /\ c.size \in Nat
        /\ c.current \in DOMAIN p.next
    <2>1. SearchOK(pool, c.size, c.current, c.examine)
      BY <1>7 DEF CallOK
    <2>2. SearchOK(p, c.size, c.current, c.examine)
      BY <1>6, <2>1, OwnerSearch
    <2> QED BY <1>7, <2>2, CallsAre DEF Calls, SearchOK
  <1>9. CASE c.examine = 0
    <2> DEFINE m == c.size
    <2>1. /\ pool' = p /\ bytes_given' = bytes_given
          /\ alloc' = [alloc EXCEPT ![t] = [at |-> "failed", size |-> m]]
      BY <1>5, <1>9 DEF Fail
    <2>2. AllSmall(p, m)
      BY <1>6, <1>8, <1>9, SearchEnds
    <2>3. [at |-> "failed", size |-> m] \in Calls
      BY <1>8 DEF Calls, Waiting
    <2>4. /\ alloc' \in [ByteTasks -> Calls] /\ alloc'[t] = [at |-> "failed", size |-> m]
          /\ \A u \in ByteTasks \ {t} : alloc'[u] = alloc[u]
      BY <1>1, <2>1, <2>3
    <2>5. CallOK(pool', alloc'[t])
      BY <2>1, <2>2, <2>4 DEF CallOK
    <2>6. ByteInv'
      BY <1>6, <2>1, <2>4, <2>5, ByteInvNext
    <2> QED BY <2>1, <2>6 DEF BytePieces
  <1>10. CASE c.examine # 0
    <2>1. Look(t, p, c) /\ CallOK(p, c)
      BY <1>5, <1>7, <1>8, <1>10 DEF CallOK
    <2>2. /\ PoolInv(pool') /\ Given(pool', bytes_given') /\ alloc' \in [ByteTasks -> Calls]
          /\ pool'.owner = p.owner /\ \A u \in ByteTasks \ {t} : alloc'[u] = alloc[u]
          /\ CallOK(pool', alloc'[t])
      BY <1>1, <1>6, <1>7, <2>1, LookInv
    <2>3. ByteInv'
      BY <1>6, <2>2, ByteInvNext
    <2> QED BY <1>6, <1>7, <1>8, <2>1, <2>3, LookGives
  <1> QED BY <1>9, <1>10

LEMMA FailedInv ==
  ASSUME ByteInv, NEW t \in ByteTasks, SearchFailed(t)
  PROVE  ByteInv'
  <1>1. /\ PoolInv(pool) /\ Given(pool, bytes_given) /\ alloc \in [ByteTasks -> Calls]
        /\ \A u \in ByteTasks : pool.owner = u => CallOK(pool, alloc[u])
        /\ bytes_given' = bytes_given
    BY DEF ByteInv, SearchFailed
  <1>2. CASE pool.owner = t
    <2>1. alloc' = [alloc EXCEPT ![t] = NoCall] /\ pool' = pool
      BY <1>2 DEF SearchFailed
    <2>2. /\ alloc' \in [ByteTasks -> Calls] /\ alloc'[t] = NoCall
          /\ \A u \in ByteTasks \ {t} : alloc'[u] = alloc[u]
      BY <1>1, <2>1 DEF Calls
    <2>3. CallOK(pool', alloc'[t])
      BY <2>2 DEF CallOK, NoCall
    <2> QED BY <1>1, <2>1, <2>2, <2>3, ByteInvNext
  <1>3. CASE pool.owner # t
    <2> DEFINE d == [at |-> "start", size |-> alloc[t].size]
    <2>1. pool' = [pool EXCEPT !.owner = t] /\ alloc' = [alloc EXCEPT ![t] = d]
      BY <1>1, <1>3 DEF SearchFailed
    <2>2. alloc[t].size \in MemSizes
      BY <1>1, CallsAre DEF SearchFailed, NoCall
    <2>3. d \in Calls /\ d.at = "start"
      BY <2>2 DEF Calls, Waiting
    <2> HIDE DEF d
    <2>4. /\ alloc' \in [ByteTasks -> Calls] /\ alloc'[t] = d
          /\ \A u \in ByteTasks \ {t} : alloc'[u] = alloc[u]
      BY <1>1, <2>1, <2>3
    <2>5. CallOK(pool', alloc'[t])
      BY <2>3, <2>4 DEF CallOK
    <2>6. PoolInv(pool') /\ pool'.owner = t /\ Given(pool', bytes_given')
      <3> DEFINE q == pool'
      <3>1. q = [pool EXCEPT !.owner = t]
        BY <2>1
      <3> HIDE DEF q
      <3>2. PoolInv(q) /\ q.owner = t /\ \A G : Given(pool, G) => Given(q, G)
        BY <1>1, <3>1, OwnerPool
      <3> QED BY <1>1, <3>2 DEF q
    <2> QED BY <2>4, <2>5, <2>6, ByteInvNext
  <1> QED BY <1>2, <1>3

LEMMA ReleaseInv ==
  ASSUME ByteInv, NEW t \in ByteTasks, NEW g \in bytes_given, raw_byte_release(t, g)
  PROVE  ByteInv' /\ [BytePool!Next]_BytePieces
  <1> DEFINE a == g.at - HEADER
             q == pool'
  <1>1. /\ PoolInv(pool) /\ Given(pool, bytes_given) /\ alloc \in [ByteTasks -> Calls]
        /\ alloc[t] = NoCall /\ alloc' = alloc /\ bytes_given' = bytes_given \ {g}
    BY DEF ByteInv, raw_byte_release
  <1>2. a \in DOMAIN pool.next \ {EndBlock} /\ a \notin pool.free
    BY <1>1, GivenIs
  <1>3. Released(pool, q, a, t)
    BY <1>1 DEF raw_byte_release, Released
  <1> HIDE DEF q
  <1>4. /\ PoolInv(q) /\ q.next = pool.next /\ q.free = pool.free \cup {a} /\ q.owner = t
    <2> DEFINE p == pool
    <2>1. /\ PoolInv(p) /\ a \in DOMAIN p.next \ {EndBlock} /\ a \notin p.free
          /\ Released(p, q, a, t)
      BY <1>1, <1>2, <1>3
    <2> HIDE DEF a, p
    <2>2. PoolInv(q) /\ q.next = p.next /\ q.free = p.free \cup {a} /\ q.owner = t
      BY <2>1, ReleasePool
    <2> QED BY <2>2 DEF p
  <1>5. Given(q, bytes_given')
    BY <1>1, <1>4, GivenRelease
  <1>6. CallOK(q, alloc'[t])
    BY <1>1 DEF CallOK, NoCall
  <1>7. ByteInv'
    BY <1>1, <1>4, <1>5, <1>6, ByteInvNext DEF q
  <1> QED BY <1>1, <1>7, ReleaseIsRelease DEF BytePool!Next

LEMMA ByteStep ==
  ASSUME ByteInv, [ByteNext]_bytevars
  PROVE  ByteInv' /\ [BytePool!Next]_BytePieces
  <1>1. ASSUME NEW t \in ByteTasks, NEW n \in MemSizes, Allocate(t, n)
        PROVE  ByteInv' /\ [BytePool!Next]_BytePieces
    BY <1>1, AllocateInv DEF Allocate, BytePieces
  <1>2. ASSUME NEW t \in ByteTasks, SearchFailed(t)
        PROVE  ByteInv' /\ [BytePool!Next]_BytePieces
    BY <1>2, FailedInv DEF SearchFailed, BytePieces
  <1>3. CASE UNCHANGED bytevars
    <2>1. pool' = pool /\ alloc' = alloc /\ bytes_given' = bytes_given
      BY <1>3 DEF bytevars
    <2>2. ByteInv'
      BY <2>1 DEF ByteInv, CallOK
    <2> QED BY <2>1, <2>2 DEF BytePieces
  <1> QED BY <1>1, <1>2, <1>3, StartsInv, GoesOnInv, ReleaseInv DEF ByteNext

-----------------------------------------------------------------------------
(* The blocks of a byte pool lie one behind the other and its counts are   *)
(* those of the blocks, whatever was split, merged and given back by how   *)
(* many tasks; a block that is not free is one that the application has.   *)
THEOREM BlocksTileThePool == ByteSpec => []RingCoversPool
  <1>1. ByteInv => RingCoversPool
    <2> SUFFICES ASSUME ByteInv PROVE RingCoversPool
      OBVIOUS
    <2> DEFINE f == pool.next
    <2>1. /\ PoolInv(pool) /\ Given(pool, bytes_given) /\ RingInv(f)
          /\ pool.free \subseteq DOMAIN f \ {EndBlock}
          /\ pool.fragments = Cardinality(DOMAIN f)
          /\ pool.available = Cardinality(Words(f, pool.free))
      BY DEF ByteInv, PoolInv
    <2>2. {0, EndBlock} \subseteq DOMAIN f /\ f[EndBlock] = 0
      BY <2>1 DEF RingInv
    <2>3. ASSUME NEW a \in DOMAIN f \ {EndBlock} PROVE f[a] = Min({b \in DOMAIN f : b > a})
      <3> DEFINE B == {b \in DOMAIN f : b > a}
      <3> HIDE DEF f
      <3>1. /\ f[a] \in DOMAIN f /\ a < f[a] /\ f[a] \in Nat /\ a \in Nat /\ DOMAIN f \subseteq Nat
            /\ \A x \in DOMAIN f : x <= a \/ f[a] <= x
        BY <2>1, RingIs
      <3>2. f[a] \in B /\ (\A x \in B : f[a] <= x) /\ B \subseteq Nat
        BY <3>1
      <3> HIDE DEF B
      <3>3. \A x \in B : (\A y \in B : x <= y) => x = f[a]
        BY <3>1, <3>2
      <3>4. Min(B) = CHOOSE x \in B : \A y \in B : x <= y
        BY DEF Min
      <3> QED BY <3>2, <3>3, <3>4 DEF B
    <2>4. DOMAIN f \ pool.free = {EndBlock} \cup {g.at - HEADER : g \in bytes_given}
      <3>1. BlocksGiven(pool) = {g.at - HEADER : g \in bytes_given}
        <4>1. \A g \in bytes_given : g.at - HEADER \in BlocksGiven(pool)
          BY <2>1 DEF Given
        <4>2. ASSUME NEW x \in BlocksGiven(pool) PROVE \E g \in bytes_given : x = g.at - HEADER
          <5>1. PICK g \in bytes_given : g.at = x + HEADER
            BY <2>1 DEF Given
          <5>2. x \in Nat
            BY <2>1, PoolIs DEF BlocksGiven
          <5> QED BY <5>1, <5>2, ByteConstants
        <4> QED BY <4>1, <4>2
      <3> QED BY <2>1, <2>2, <3>1 DEF BlocksGiven
    <2> QED BY <2>1, <2>2, <2>3, <2>4 DEF RingCoversPool, Words
  <1>2. ByteInv /\ [ByteNext]_bytevars => ByteInv'
    BY ByteStep
  <1> QED BY <1>1, <1>2, ByteInit, PTL DEF ByteSpec

(* raw_byte.c refines the allocator: no word of the pool is part of two    *)
(* pieces, though searches of several tasks split and merge its blocks.    *)
THEOREM PiecesAreGivenOnce == ByteSpec => BytePool!Spec
  <1>1. raw_byte_pool_create => BytePool!Init
    BY DEF raw_byte_pool_create, BytePool!Init
  <1>2. ByteInv /\ [ByteNext]_bytevars => ByteInv'
    BY ByteStep
  <1>3. ByteInv /\ [ByteNext]_bytevars
          => [BytePool!Next]_BytePieces
    BY ByteStep
  <1> QED BY <1>1, <1>2, <1>3, ByteInit, PTL DEF ByteSpec, BytePool!Spec, BytePieces

(* A raw_byte_allocate that returns RAW_NO_MEMORY has seen a pool without  *)
(* room: no other task has merged, split or taken a block so that it       *)
(* missed any that lie side by side and are large enough together.         *)
THEOREM RefusalsOfBytesAreTrue == ByteSpec => []NoMemoryIsTrue
  <1>1. ByteInv => NoMemoryIsTrue
    <2> SUFFICES ASSUME ByteInv, NEW t \in ByteTasks, alloc[t].at = "failed", pool.owner = t,
                        NEW a \in DOMAIN pool.next, NEW b \in DOMAIN pool.next, a < b,
                        {x \in DOMAIN pool.next : a <= x /\ x < b} \subseteq pool.free
                 PROVE  b - a - HEADER < alloc[t].size
      BY DEF NoMemoryIsTrue
    <2>1. AllSmall(pool, alloc[t].size)
      BY DEF ByteInv, CallOK
    <2>2. Run(pool, a, b)
      BY DEF Run
    <2> QED BY <2>1, <2>2 DEF AllSmall, Small
  <1>2. ByteInv /\ [ByteNext]_bytevars => ByteInv'
    BY ByteStep
  <1> QED BY <1>1, <1>2, ByteInit, PTL DEF ByteSpec

(* No pool of the kernel loses memory, and none refuses what it has.       *)
THEOREM PoolsAreExact == BlockSpec /\ ByteSpec => []PoolsExact
  <1>1. EveryBlockListed /\ RingCoversPool /\ NoMemoryIsTrue => PoolsExact
    BY DEF PoolsExact
  <1> QED BY <1>1, BlocksAreListed, BlocksTileThePool, RefusalsOfBytesAreTrue, PTL

-----------------------------------------------------------------------------
(***************************************************************************)
(* Rings of bytes.                                                         *)
(***************************************************************************)

Counts == 0 .. FIFO_INDEX - 1
Places == 0 .. FIFO_SIZE - 1

(* What a place of the ring can hold.                                      *)
RingBytes == FifoBytes \cup {CHOOSE b \in FifoBytes : TRUE}

(* n bytes of the ring d from the one with number o on.                    *)
BytesFrom(d, o, n) == [i \in 1 .. n |-> d[(o + i - 1) % FIFO_SIZE]]

Used(f) == (f.in - f.out) % FIFO_INDEX

AsMany(asked, n) == IF asked < n THEN asked ELSE n

LEMMA FifoConstants ==
  /\ FIFO_SIZE \in Nat \ {0} /\ FIFO_INDEX \in Nat /\ FIFO_SIZE < FIFO_INDEX
  /\ FIFO_INDEX % FIFO_SIZE = 0 /\ NoTask \notin FifoTasks
  BY FifoAssumption

(* What a division leaves is the only number below the divisor that        *)
(* differs from the dividend by a multiple of the divisor.                 *)
LEMMA ModUnique ==
  ASSUME NEW n \in Nat \ {0}, NEW q \in Int, NEW r \in 0 .. n - 1, NEW a, a = n * q + r
  PROVE  a % n = r
  OBVIOUS

LEMMA Division ==
  ASSUME NEW n \in Nat \ {0}, NEW a \in Int
  PROVE  \E d \in Int, r \in 0 .. n - 1 : a = n * d + r /\ r = a % n
  <1>1. a = n * (a \div n) + (a % n)
    OBVIOUS
  <1>2. a % n \in 0 .. n - 1
    OBVIOUS
  <1>3. a \div n \in Int
    OBVIOUS
  <1> QED BY <1>1, <1>2, <1>3, Zenon

(* b and a are q times n apart.                                            *)
Apart(b, a, n, q) == b = n * q + a

LEMMA ModMultiple ==
  ASSUME NEW n \in Nat \ {0}, NEW q \in Int, NEW a \in Int, NEW b, Apart(b, a, n, q)
  PROVE  b % n = a % n
  <1>1. PICK d \in Int, r \in 0 .. n - 1 : a = n * d + r /\ r = a % n
    BY Division
  <1>2. b = n * (q + d) + r
    BY <1>1 DEF Apart
  <1>3. q + d \in Int
    BY <1>1
  <1>4. b % n = r
    BY <1>2, <1>3, ModUnique
  <1> QED BY <1>1, <1>4

(* A number is at the same place whether or not it was counted modulo      *)
(* FIFO_INDEX before.                                                      *)
LEMMA SamePlace ==
  ASSUME NEW a \in Int, NEW k \in Int
  PROVE  ((a % FIFO_INDEX) + k) % FIFO_SIZE = (a + k) % FIFO_SIZE
  <1>1. PICK w \in Int : FIFO_INDEX = FIFO_SIZE * w
    <2>1. PICK d \in Int, r \in 0 .. FIFO_SIZE - 1 :
            FIFO_INDEX = FIFO_SIZE * d + r /\ r = FIFO_INDEX % FIFO_SIZE
      BY FifoConstants, Division
    <2>2. r = 0
      BY <2>1, FifoConstants
    <2> DEFINE m == FIFO_SIZE * d
    <2>3. FIFO_INDEX = m + r /\ m \in Int
      BY <2>1, FifoConstants
    <2> HIDE DEF m
    <2>4. FIFO_INDEX = m
      BY <2>2, <2>3
    <2> QED BY <2>1, <2>4 DEF m
  <1>2. PICK d \in Int, r \in 0 .. FIFO_INDEX - 1 : a = FIFO_INDEX * d + r /\ r = a % FIFO_INDEX
    <2>1. FIFO_INDEX \in Nat \ {0}
      BY FifoConstants
    <2> QED BY <2>1, Division
  <1>3. FIFO_INDEX * d = FIFO_SIZE * (w * d) /\ w * d \in Int
    BY <1>1, FifoConstants
  <1>4. a + k = FIFO_SIZE * (w * d) + (r + k)
    <2>1. r \in Int
      BY <1>2, FifoConstants DEF Counts
    <2>2. FIFO_SIZE * (w * d) \in Int
      BY <1>3, FifoConstants
    <2> DEFINE m == FIFO_SIZE * (w * d)
    <2>3. a = m + r
      BY <1>2, <1>3
    <2> HIDE DEF m
    <2>4. a + k = m + (r + k)
      BY <2>1, <2>2, <2>3 DEF m
    <2> QED BY <2>4 DEF m
  <1>5. r + k \in Int
    BY <1>2, FifoConstants DEF Counts
  <1>6. Apart(a + k, r + k, FIFO_SIZE, w * d) /\ w * d \in Int
    BY <1>3, <1>4 DEF Apart
  <1>7. (a + k) % FIFO_SIZE = (r + k) % FIFO_SIZE
    BY <1>5, <1>6, FifoConstants, ModMultiple
  <1> QED BY <1>2, <1>7

(* The place of the number a + k, from that of a.                          *)
LEMMA PlaceAfter ==
  ASSUME NEW a \in Int, NEW k \in Places
  PROVE  /\ a % FIFO_SIZE \in Places
         /\ (a + k) % FIFO_SIZE = IF (a % FIFO_SIZE) + k < FIFO_SIZE
                                    THEN (a % FIFO_SIZE) + k
                                    ELSE (a % FIFO_SIZE) + k - FIFO_SIZE
  <1>1. PICK d \in Int, r \in 0 .. FIFO_SIZE - 1 : a = FIFO_SIZE * d + r /\ r = a % FIFO_SIZE
    BY FifoConstants, Division
  <1>2. r + k \in Int /\ FIFO_SIZE * d \in Int
    BY <1>1, FifoConstants DEF Places
  <1>3. a + k = FIFO_SIZE * d + (r + k)
    <2> DEFINE m == FIFO_SIZE * d
    <2>1. a = m + r /\ m \in Int
      BY <1>1, <1>2
    <2> HIDE DEF m
    <2>2. a + k = m + (r + k)
      BY <2>1, FifoConstants DEF Places
    <2> QED BY <2>2 DEF m
  <1>4. (a + k) % FIFO_SIZE = (r + k) % FIFO_SIZE
    <2>1. Apart(a + k, r + k, FIFO_SIZE, d)
      BY <1>3 DEF Apart
    <2> QED BY <1>2, <2>1, FifoConstants, ModMultiple
  <1>5. (r + k) % FIFO_SIZE = IF r + k < FIFO_SIZE THEN r + k ELSE r + k - FIFO_SIZE
    BY FifoConstants, ModSum DEF Places
  <1> QED BY <1>1, <1>4, <1>5 DEF Places

(* Numbers less than FIFO_SIZE apart are at different places.              *)
LEMMA OtherPlace ==
  ASSUME NEW a \in Int, NEW k \in 1 .. FIFO_SIZE - 1
  PROVE  a % FIFO_SIZE # (a + k) % FIFO_SIZE
  <1>1. k \in Places
    BY FifoConstants DEF Places
  <1>2. /\ a % FIFO_SIZE \in Places
        /\ (a + k) % FIFO_SIZE = IF (a % FIFO_SIZE) + k < FIFO_SIZE
                                   THEN (a % FIFO_SIZE) + k
                                   ELSE (a % FIFO_SIZE) + k - FIFO_SIZE
    BY <1>1, PlaceAfter
  <1> DEFINE r == a % FIFO_SIZE
  <1> HIDE DEF r
  <1>3. r \in Places /\ r # (IF r + k < FIFO_SIZE THEN r + k ELSE r + k - FIFO_SIZE)
    BY <1>2, FifoConstants DEF r, Places
  <1> QED BY <1>2, <1>3 DEF r

-----------------------------------------------------------------------------

(* Places FIFO_SIZE numbers from o on are all different.                   *)
LEMMA PlacesApart ==
  ASSUME NEW o \in Int, NEW i \in 1 .. FIFO_SIZE, NEW j \in 1 .. FIFO_SIZE, i < j
  PROVE  (o + i - 1) % FIFO_SIZE # (o + j - 1) % FIFO_SIZE
  <1> DEFINE a == o + i - 1
             k == j - i
  <1>1. a \in Int /\ k \in 1 .. FIFO_SIZE - 1 /\ o + j - 1 = a + k
    BY FifoConstants
  <1>2. a % FIFO_SIZE # (a + k) % FIFO_SIZE
    <2> HIDE DEF a, k
    <2> QED BY <1>1, OtherPlace
  <1> QED BY <1>1, <1>2

LEMMA PlaceIsPlace ==
  ASSUME NEW a \in Int
  PROVE  a % FIFO_SIZE \in Places
  BY FifoConstants DEF Places

(* The bytes of src are where the numbers from in on have their places,    *)
(* and nothing else has changed.                                           *)
CopiedIn(d, e, in, src) ==
  /\ \A i \in 1 .. Len(src) : e[(in + i - 1) % FIFO_SIZE] = src[i]
  /\ \A x \in Places :
       (\A i \in 1 .. Len(src) : x # (in + i - 1) % FIFO_SIZE) => e[x] = d[x]

LEMMA CopyIn ==
  ASSUME NEW f, f.in \in Int, f.data \in [Places -> RingBytes],
         NEW src \in Seq(RingBytes), Len(src) <= FIFO_SIZE
  PROVE  /\ fifo_copy_in(f, src) \in [Places -> RingBytes]
         /\ CopiedIn(f.data, fifo_copy_in(f, src), f.in, src)
  <1> DEFINE in == f.in
             off == in % FIFO_SIZE
             n == Len(src)
             l == Min({n, FIFO_SIZE - off})
             e == fifo_copy_in(f, src)
  <1>1. off \in Places /\ in \in Int /\ n \in 0 .. FIFO_SIZE
    <2>1. n \in 0 .. FIFO_SIZE
      BY LenProperties, FifoConstants
    <2> HIDE DEF n
    <2> QED BY <2>1, PlaceIsPlace
  <1>2. l = AsMany(n, FIFO_SIZE - off) /\ l \in 0 .. n
    <2> HIDE DEF n, off
    <2>1. n \in Int /\ FIFO_SIZE - off \in Int /\ FIFO_SIZE - off > 0
      BY <1>1, FifoConstants DEF Places
    <2> DEFINE m == FIFO_SIZE - off
    <2>2. m \in Int
      BY <2>1
    <2> HIDE DEF m
    <2>3. Min({n, m}) = IF n < m THEN n ELSE m
      BY <2>1, <2>2 DEF Min
    <2>4. l = IF n < m THEN n ELSE m
      BY <2>3 DEF m
    <2> QED BY <1>1, <2>1, <2>4 DEF AsMany, m
  <1>3. e = [i \in Places |-> CASE i \in off .. off + l - 1 -> src[i - off + 1]
                               [] i < n - l -> src[l + i + 1]
                               [] OTHER -> f.data[i]]
    BY DEF fifo_copy_in
  <1> HIDE DEF e, l, n, off, in
  <1>4. \A i \in 1 .. n : src[i] \in RingBytes
    BY DEF n
  <1>5. ASSUME NEW x \in Places
        PROVE  /\ x \in off .. off + l - 1 => x - off + 1 \in 1 .. n /\ e[x] = src[x - off + 1]
               /\ x < n - l => x < off /\ l + x + 1 \in 1 .. n /\ e[x] = src[l + x + 1]
               /\ x \notin off .. off + l - 1 /\ ~(x < n - l) => e[x] = f.data[x]
    <2>1. x < n - l => x < off /\ l + x + 1 \in 1 .. n
      BY <1>1, <1>2, FifoConstants DEF AsMany, Places
    <2>2. x \in off .. off + l - 1 => x - off + 1 \in 1 .. n
      BY <1>1, <1>2, FifoConstants DEF AsMany, Places
    <2>3. e[x] = CASE x \in off .. off + l - 1 -> src[x - off + 1]
                   [] x < n - l -> src[l + x + 1]
                   [] OTHER -> f.data[x]
      BY <1>3
    <2>4. ~(x \in off .. off + l - 1 /\ x < n - l)
      BY <1>1, <2>1 DEF Places
    <2> QED BY <2>1, <2>2, <2>3, <2>4
  <1>6. e \in [Places -> RingBytes]
    <2> SUFFICES ASSUME NEW x \in Places PROVE e[x] \in RingBytes
      BY <1>3
    <2> QED BY <1>4, <1>5
  <1>7. ASSUME NEW i \in 1 .. n PROVE e[(in + i - 1) % FIFO_SIZE] = src[i]
    <2> DEFINE k == i - 1
               x == IF off + k < FIFO_SIZE THEN off + k ELSE off + k - FIFO_SIZE
    <2>1. k \in Places /\ in + i - 1 = in + k
      BY <1>1, FifoConstants DEF Places
    <2>2. (in + k) % FIFO_SIZE = x
      <3> HIDE DEF k
      <3> QED BY <1>1, <2>1, PlaceAfter DEF off
    <2>3. CASE off + k < FIFO_SIZE
      <3>1. x \in Places /\ x \in off .. off + l - 1 /\ x - off + 1 = i
        BY <1>1, <1>2, <2>3, FifoConstants DEF AsMany, Places
      <3> HIDE DEF x
      <3> QED BY <1>5, <2>1, <2>2, <3>1
    <2>4. CASE ~(off + k < FIFO_SIZE)
      <3>1. x = off + i - 1 - FIFO_SIZE
        BY <1>1, <2>4, FifoConstants DEF Places
      <3>2. l = FIFO_SIZE - off
        BY <1>1, <1>2, <2>4, FifoConstants DEF AsMany, Places
      <3>3. x \in Places /\ x < n - l /\ l + x + 1 = i
        BY <1>1, <2>4, <3>1, <3>2, FifoConstants DEF Places
      <3> HIDE DEF x
      <3> QED BY <1>5, <2>1, <2>2, <3>3
    <2> QED BY <2>3, <2>4
  <1>8. ASSUME NEW x \in Places, \A i \in 1 .. n : x # (in + i - 1) % FIFO_SIZE
        PROVE  e[x] = f.data[x]
    <2>1. ASSUME NEW i \in 1 .. n, x = IF off + (i - 1) < FIFO_SIZE
                                         THEN off + (i - 1) ELSE off + (i - 1) - FIFO_SIZE
          PROVE  FALSE
      <3> DEFINE k == i - 1
      <3>1. k \in Places /\ in + i - 1 = in + k
        BY <1>1, FifoConstants DEF Places
      <3> HIDE DEF k
      <3>2. (in + k) % FIFO_SIZE = IF off + k < FIFO_SIZE THEN off + k ELSE off + k - FIFO_SIZE
        BY <1>1, <3>1, PlaceAfter DEF off
      <3> QED BY <1>8, <2>1, <3>1, <3>2 DEF k
    <2>2. x \notin off .. off + l - 1
      <3>1. SUFFICES ASSUME x \in off .. off + l - 1 PROVE FALSE
        OBVIOUS
      <3> DEFINE i == x - off + 1
      <3>2. i \in 1 .. n /\ off + (i - 1) = x /\ x < FIFO_SIZE
        BY <1>1, <1>2, <3>1, FifoConstants DEF Places
      <3> HIDE DEF i
      <3> QED BY <2>1, <3>2
    <2>3. ~(x < n - l)
      <3>1. SUFFICES ASSUME x < n - l PROVE FALSE
        OBVIOUS
      <3> DEFINE i == l + x + 1
      <3>2. i \in 1 .. n /\ off + (i - 1) - FIFO_SIZE = x /\ ~(off + (i - 1) < FIFO_SIZE)
        BY <1>1, <1>2, <3>1, FifoConstants DEF AsMany, Places
      <3> HIDE DEF i
      <3> QED BY <2>1, <3>2
    <2> QED BY <1>5, <2>2, <2>3
  <1> QED BY <1>6, <1>7, <1>8 DEF CopiedIn, e, n, in

(* What is copied out are the bytes from out on.                           *)
LEMMA CopyOut ==
  ASSUME NEW f, f.out \in Int, NEW n \in 0 .. FIFO_SIZE
  PROVE  kfifo_copy_out(f, n) = BytesFrom(f.data, f.out, n)
  <1> DEFINE off == f.out % FIFO_SIZE
             l == Min({n, FIFO_SIZE - off})
  <1>1. off \in Places
    BY PlaceIsPlace
  <1>2. l = AsMany(n, FIFO_SIZE - off)
    <2> HIDE DEF off
    <2> DEFINE m == FIFO_SIZE - off
    <2>1. m \in Int /\ n \in Int
      BY <1>1, FifoConstants DEF Places
    <2> HIDE DEF m
    <2>2. Min({n, m}) = IF n < m THEN n ELSE m
      BY <2>1 DEF Min
    <2> QED BY <2>2 DEF AsMany, m
  <1>3. kfifo_copy_out(f, n)
          = [i \in 1 .. n |-> f.data[IF i <= l THEN off + i - 1 ELSE i - l - 1]]
    BY DEF kfifo_copy_out
  <1> HIDE DEF l
  <1>4. ASSUME NEW i \in 1 .. n
        PROVE  (IF i <= l THEN off + i - 1 ELSE i - l - 1) = (f.out + i - 1) % FIFO_SIZE
    <2> DEFINE k == i - 1
               o == f.out
    <2>1. k \in Places /\ o + i - 1 = o + k /\ o \in Int
      BY FifoConstants DEF Places
    <2>2. (o + k) % FIFO_SIZE = IF off + k < FIFO_SIZE THEN off + k ELSE off + k - FIFO_SIZE
      <3> HIDE DEF k
      <3> QED BY <2>1, PlaceAfter
    <2> HIDE DEF off, o
    <2>3. (IF i <= l THEN off + i - 1 ELSE i - l - 1)
            = IF off + k < FIFO_SIZE THEN off + k ELSE off + k - FIFO_SIZE
      BY <1>1, <1>2, FifoConstants DEF AsMany, Places
    <2> QED BY <2>1, <2>2, <2>3 DEF o
  <1> QED BY <1>3, <1>4 DEF BytesFrom

-----------------------------------------------------------------------------

(* How the counters count.                                                 *)
LEMMA Counting ==
  ASSUME NEW f, f.in \in Counts, f.out \in Counts, Used(f) <= FIFO_SIZE, NEW n \in Nat
  PROVE  /\ Used(f) \in 0 .. FIFO_SIZE
         /\ f.in = Plus(f.out, Used(f))
         /\ n <= FIFO_SIZE - Used(f) =>
              /\ Plus(f.in, n) \in Counts
              /\ (Plus(f.in, n) - f.out) % FIFO_INDEX = Used(f) + n
         /\ n <= Used(f) =>
              /\ Plus(f.out, n) \in Counts
              /\ (f.in - Plus(f.out, n)) % FIFO_INDEX = Used(f) - n
  <1> DEFINE a == f.in
             b == f.out
             u == Used(f)
  <1>1. FIFO_INDEX \in Nat \ {0} /\ a \in 0 .. FIFO_INDEX - 1 /\ b \in 0 .. FIFO_INDEX - 1
    BY FifoConstants DEF Counts
  <1>2. u = IF b <= a THEN a - b ELSE a - b + FIFO_INDEX
    <2> HIDE DEF a, b
    <2>1. (a - b) % FIFO_INDEX = IF b <= a THEN a - b ELSE a - b + FIFO_INDEX
      BY <1>1, ModDifference
    <2> QED BY <2>1 DEF Used, a, b
  <1>3. u <= FIFO_SIZE
    OBVIOUS
  <1> HIDE DEF a, b, u
  <1>4. u \in 0 .. FIFO_SIZE
    BY <1>1, <1>2, <1>3, FifoConstants
  <1>5. \A x \in 0 .. FIFO_INDEX - 1, y \in 0 .. FIFO_INDEX - 1 :
          /\ Plus(x, y) = IF x + y < FIFO_INDEX THEN x + y ELSE x + y - FIFO_INDEX
          /\ (x - y) % FIFO_INDEX = IF y <= x THEN x - y ELSE x - y + FIFO_INDEX
    BY <1>1, ModSum, ModDifference DEF Plus
  <1>6. a = Plus(b, u)
    <2>1. u \in 0 .. FIFO_INDEX - 1
      BY <1>4, FifoConstants
    <2>2. Plus(b, u) = IF b + u < FIFO_INDEX THEN b + u ELSE b + u - FIFO_INDEX
      BY <1>1, <1>5, <2>1
    <2>3. a = IF b + u < FIFO_INDEX THEN b + u ELSE b + u - FIFO_INDEX
      BY <1>1, <1>2
    <2> QED BY <2>2, <2>3
  <1>7. ASSUME n <= FIFO_SIZE - u
        PROVE  Plus(a, n) \in Counts /\ (Plus(a, n) - b) % FIFO_INDEX = u + n
    <2>1. n \in 0 .. FIFO_INDEX - 1
      BY <1>4, <1>7, FifoConstants
    <2> DEFINE p == Plus(a, n)
    <2>2. p = IF a + n < FIFO_INDEX THEN a + n ELSE a + n - FIFO_INDEX
      BY <1>1, <1>5, <2>1
    <2> HIDE DEF p
    <2>3. p \in 0 .. FIFO_INDEX - 1
      BY <1>1, <2>1, <2>2
    <2>4. (p - b) % FIFO_INDEX = IF b <= p THEN p - b ELSE p - b + FIFO_INDEX
      BY <1>1, <1>5, <2>3
    <2>5. (p - b) % FIFO_INDEX = u + n
      <3> DEFINE m == (p - b) % FIFO_INDEX
      <3>1. m = IF b <= p THEN p - b ELSE p - b + FIFO_INDEX
        BY <2>4
      <3> HIDE DEF m
      <3>2. m = u + n
        BY <1>1, <1>2, <1>4, <1>7, <2>1, <2>2, <3>1, FifoConstants
      <3> QED BY <3>2 DEF m
    <2> QED BY <2>3, <2>5 DEF p, Counts
  <1>8. ASSUME n <= u
        PROVE  Plus(b, n) \in Counts /\ (a - Plus(b, n)) % FIFO_INDEX = u - n
    <2>1. n \in 0 .. FIFO_INDEX - 1
      BY <1>4, <1>8, FifoConstants
    <2> DEFINE p == Plus(b, n)
    <2>2. p = IF b + n < FIFO_INDEX THEN b + n ELSE b + n - FIFO_INDEX
      BY <1>1, <1>5, <2>1
    <2> HIDE DEF p
    <2>3. p \in 0 .. FIFO_INDEX - 1
      BY <1>1, <2>1, <2>2
    <2>4. (a - p) % FIFO_INDEX = IF p <= a THEN a - p ELSE a - p + FIFO_INDEX
      BY <1>1, <1>5, <2>3
    <2>5. (a - p) % FIFO_INDEX = u - n
      <3> DEFINE m == (a - p) % FIFO_INDEX
      <3>1. m = IF p <= a THEN a - p ELSE a - p + FIFO_INDEX
        BY <2>4
      <3> HIDE DEF m
      <3>2. m = u - n
        BY <1>1, <1>2, <1>4, <1>8, <2>1, <2>2, <3>1, FifoConstants
      <3> QED BY <3>2 DEF m
    <2> QED BY <2>3, <2>5 DEF p, Counts
  <1> QED BY <1>4, <1>6, <1>7, <1>8 DEF a, b, u

(* The bytes that the ring keeps are where they were after others were     *)
(* copied in, and the copied ones follow them.                             *)
LEMMA BytesJoin ==
  ASSUME NEW d \in [Places -> RingBytes], NEW e \in [Places -> RingBytes],
         NEW o \in Counts, NEW u \in Nat, NEW src \in Seq(RingBytes),
         u + Len(src) <= FIFO_SIZE, CopiedIn(d, e, Plus(o, u), src)
  PROVE  /\ BytesFrom(e, o, u) = BytesFrom(d, o, u)
         /\ BytesFrom(e, o, u + Len(src)) = BytesFrom(d, o, u) \o src
  <1> DEFINE n == Len(src)
             in == Plus(o, u)
  <1>1. o \in Int /\ n \in Nat /\ u + n <= FIFO_SIZE
    BY FifoConstants DEF Counts
  <1>2. ASSUME NEW j \in 1 .. n PROVE (in + j - 1) % FIFO_SIZE = (o + (u + j) - 1) % FIFO_SIZE
    <2> DEFINE a == o + u
               k == j - 1
    <2>1. a \in Int /\ k \in Int /\ o + (u + j) - 1 = a + k
      BY <1>1
    <2>2. in = a % FIFO_INDEX /\ in \in Int
      BY <2>1, FifoConstants DEF Plus
    <2> HIDE DEF in, a
    <2>3. in + j - 1 = in + k
      BY <2>2
    <2> HIDE DEF k
    <2> QED BY <2>1, <2>2, <2>3, SamePlace
  <1>3. ASSUME NEW i \in 1 .. u PROVE e[(o + i - 1) % FIFO_SIZE] = d[(o + i - 1) % FIFO_SIZE]
    <2> DEFINE x == (o + i - 1) % FIFO_SIZE
    <2>1. x \in Places
      BY <1>1, PlaceIsPlace
    <2>2. ASSUME NEW j \in 1 .. n PROVE x # (in + j - 1) % FIFO_SIZE
      <3>1. i \in 1 .. FIFO_SIZE /\ u + j \in 1 .. FIFO_SIZE /\ i < u + j
        BY <1>1, FifoConstants
      <3>2. x # (o + (u + j) - 1) % FIFO_SIZE
        BY <1>1, <3>1, PlacesApart
      <3> QED BY <1>2, <3>2
    <2> HIDE DEF x
    <2>3. e[x] = d[x]
      BY <2>1, <2>2 DEF CopiedIn
    <2> QED BY <2>3 DEF x
  <1>4. ASSUME NEW j \in 1 .. n PROVE e[(o + (u + j) - 1) % FIFO_SIZE] = src[j]
    BY <1>2 DEF CopiedIn
  <1>5. BytesFrom(e, o, u) = BytesFrom(d, o, u)
    BY <1>3 DEF BytesFrom
  <1>6. BytesFrom(e, o, u + n) = BytesFrom(d, o, u) \o src
    <2> DEFINE h == BytesFrom(d, o, u)
               t == BytesFrom(e, o, u + n)
    <2>1. h \in Seq(RingBytes) /\ Len(h) = u /\ \A i \in 1 .. u : h[i] = d[(o + i - 1) % FIFO_SIZE]
      <3>1. \A i \in 1 .. u : d[(o + i - 1) % FIFO_SIZE] \in RingBytes
        BY <1>1, PlaceIsPlace
      <3> QED BY <3>1 DEF BytesFrom
    <2>2. t \in Seq(RingBytes) /\ Len(t) = u + n
          /\ \A i \in 1 .. u + n : t[i] = e[(o + i - 1) % FIFO_SIZE]
      <3>1. \A i \in 1 .. u + n : e[(o + i - 1) % FIFO_SIZE] \in RingBytes
        BY <1>1, PlaceIsPlace
      <3> QED BY <1>1, <3>1 DEF BytesFrom
    <2>3. ASSUME NEW i \in 1 .. u + n PROVE t[i] = (h \o src)[i]
      <3>1. CASE i <= u
        <4>1. i \in 1 .. u /\ (h \o src)[i] = h[i]
          BY <1>1, <2>1, <3>1
        <4> QED BY <1>3, <2>1, <2>2, <4>1
      <3>2. CASE ~(i <= u)
        <4> DEFINE j == i - u
        <4>1. j \in 1 .. n /\ u + j = i /\ (h \o src)[i] = src[j]
          BY <1>1, <2>1, <3>2
        <4> HIDE DEF j, h, t, n
        <4> QED BY <1>4, <2>2, <4>1
      <3> QED BY <3>1, <3>2
    <2> HIDE DEF h, t
    <2>4. h \o src \in Seq(RingBytes) /\ Len(h \o src) = u + n
      BY <2>1
    <2>5. t = h \o src
      BY <2>2, <2>3, <2>4, SeqEqual
    <2> QED BY <2>5 DEF h, t
  <1> QED BY <1>5, <1>6

(* The oldest n bytes and those behind them.                               *)
LEMMA BytesSplit ==
  ASSUME NEW d \in [Places -> RingBytes], NEW o \in Counts,
         NEW u \in 0 .. FIFO_SIZE, NEW n \in 0 .. u
  PROVE  /\ BytesFrom(d, o, n) \in Seq(RingBytes) /\ Len(BytesFrom(d, o, n)) = n
         /\ BytesFrom(d, o, u) = BytesFrom(d, o, n) \o BytesFrom(d, Plus(o, n), u - n)
         /\ SubSeq(BytesFrom(d, o, u), 1, n) = BytesFrom(d, o, n)
  <1> DEFINE h == BytesFrom(d, o, u)
             p == BytesFrom(d, o, n)
             s == BytesFrom(d, Plus(o, n), u - n)
  <1>1. o \in Int /\ n \in Nat /\ u \in Nat /\ n <= u
    BY FifoConstants DEF Counts
  <1>2. \A c \in Int : d[c % FIFO_SIZE] \in RingBytes
    BY PlaceIsPlace
  <1>3. p \in Seq(RingBytes) /\ Len(p) = n /\ \A i \in 1 .. n : p[i] = d[(o + i - 1) % FIFO_SIZE]
    BY <1>1, <1>2 DEF BytesFrom
  <1>4. h \in Seq(RingBytes) /\ Len(h) = u /\ \A i \in 1 .. u : h[i] = d[(o + i - 1) % FIFO_SIZE]
    BY <1>1, <1>2 DEF BytesFrom
  <1>5. Plus(o, n) = (o + n) % FIFO_INDEX /\ Plus(o, n) \in Int
    BY <1>1, FifoConstants DEF Plus
  <1>6. /\ s \in Seq(RingBytes) /\ Len(s) = u - n
        /\ \A j \in 1 .. u - n : s[j] = d[(Plus(o, n) + j - 1) % FIFO_SIZE]
    BY <1>1, <1>2, <1>5 DEF BytesFrom
  <1>7. ASSUME NEW j \in 1 .. u - n
        PROVE  (Plus(o, n) + j - 1) % FIFO_SIZE = (o + (n + j) - 1) % FIFO_SIZE
    <2> DEFINE a == o + n
               k == j - 1
               c == Plus(o, n)
    <2>1. a \in Int /\ k \in Int /\ o + (n + j) - 1 = a + k
      BY <1>1
    <2>2. c = a % FIFO_INDEX /\ c \in Int
      BY <1>5
    <2> HIDE DEF a, c
    <2>3. c + j - 1 = c + k
      BY <2>2
    <2>4. (c + j - 1) % FIFO_SIZE = (o + (n + j) - 1) % FIFO_SIZE
      <3> HIDE DEF k
      <3> QED BY <2>1, <2>2, <2>3, SamePlace
    <2> QED BY <2>4 DEF c
  <1>8. ASSUME NEW i \in 1 .. u PROVE h[i] = (p \o s)[i]
    <2>1. CASE i <= n
      <3>1. i \in 1 .. n /\ (p \o s)[i] = p[i]
        BY <1>1, <1>3, <1>6, <2>1
      <3> QED BY <1>3, <1>4, <3>1
    <2>2. CASE ~(i <= n)
      <3> DEFINE j == i - n
      <3>1. j \in 1 .. u - n /\ n + j = i /\ (p \o s)[i] = s[j]
        BY <1>1, <1>3, <1>6, <2>2
      <3> HIDE DEF j, p, s, h
      <3> QED BY <1>4, <1>6, <1>7, <3>1
    <2> QED BY <2>1, <2>2
  <1>9. h = p \o s
    <2> HIDE DEF h, p, s
    <2>1. p \o s \in Seq(RingBytes) /\ Len(p \o s) = Len(p) + Len(s)
      BY <1>3, <1>6, ConcatProperties
    <2>2. Len(p \o s) = u
      BY <1>1, <1>3, <1>6, <2>1
    <2> QED BY <1>4, <1>8, <2>1, <2>2, SeqEqual
  <1>10. SubSeq(h, 1, n) = p
    <2> HIDE DEF h, p, s
    <2>1. SubSeq(h, 1, n) \in Seq(RingBytes) /\ Len(SubSeq(h, 1, n)) = n
          /\ \A i \in 1 .. n : SubSeq(h, 1, n)[i] = h[i]
      BY <1>1, <1>4
    <2>2. \A i \in 1 .. n : h[i] = p[i]
      BY <1>1, <1>3, <1>4
    <2> QED BY <1>3, <2>1, <2>2, SeqEqual
  <1> QED BY <1>3, <1>9, <1>10

-----------------------------------------------------------------------------

FifoRecord ==
  [user_lock : BOOLEAN, in : Counts, out : Counts, free_bytes : Int,
   data : [Places -> RingBytes], moved : Seq(RingBytes), asked : Nat,
   locked : [task : FifoTasks \cup {NoTask}, in : Nat, out : Nat,
             moved : Seq(RingBytes), asked : Nat]]

(* The task that has the lock has copied in what it will count.            *)
PendingIn(f) ==
  /\ f.locked.out = 0
  /\ f.locked.in = Len(f.locked.moved)
  /\ f.locked.in = AsMany(f.locked.asked, FIFO_SIZE - Used(f))
  /\ CopiedIn(f.data, f.data, f.in, f.locked.moved)

(* It has copied out what it will count.                                   *)
PendingOut(f) ==
  /\ f.locked.in = 0
  /\ f.locked.out = AsMany(f.locked.asked, Used(f))
  /\ f.locked.moved = BytesFrom(f.data, f.out, f.locked.out)

FifoGood(f) ==
  /\ f \in FifoRecord
  /\ Used(f) <= FIFO_SIZE
  /\ f.free_bytes = FIFO_SIZE - Used(f)
  /\ f.locked.task # NoTask => f.user_lock /\ (PendingIn(f) \/ PendingOut(f))

FifoInv == FifoGood(fifo)

LEMMA AcceptedBytes ==
  ASSUME NEW f, FifoGood(f), NEW src \in Seq(RingBytes)
  PROVE  /\ Accepted(f, src) \in Seq(RingBytes)
         /\ Len(Accepted(f, src)) = AsMany(Len(src), FIFO_SIZE - Used(f))
         /\ Len(Accepted(f, src)) <= FIFO_SIZE - Used(f)
         /\ Used(f) \in 0 .. FIFO_SIZE
  <1>1. Used(f) \in 0 .. FIFO_SIZE
    <2>1. f.in \in Counts /\ f.out \in Counts /\ Used(f) <= FIFO_SIZE
      BY DEF FifoGood, FifoRecord
    <2> QED BY <2>1, Counting
  <1> DEFINE m == FIFO_SIZE - Used(f)
             n == Len(src)
             a == AsMany(n, m)
  <1>2. m \in Nat /\ n \in Nat
    BY <1>1, FifoConstants
  <1>3. fifo_unused(f) = m
    BY DEF fifo_unused, Used
  <1>4. a \in 0 .. n /\ a <= m
    <2> HIDE DEF m, n
    <2> QED BY <1>2 DEF AsMany
  <1>5. Min({n, m}) = a
    <2> HIDE DEF m, n
    <2>1. Min({n, m}) = IF n < m THEN n ELSE m
      BY <1>2 DEF Min
    <2> QED BY <2>1 DEF AsMany
  <1>6. Accepted(f, src) = SubSeq(src, 1, a)
    BY <1>3, <1>5 DEF Accepted
  <1> HIDE DEF a
  <1>7. SubSeq(src, 1, a) \in Seq(RingBytes) /\ Len(SubSeq(src, 1, a)) = a
    BY <1>4
  <1> QED BY <1>1, <1>4, <1>6, <1>7 DEF a

LEMMA PeekedBytes ==
  ASSUME NEW f, FifoGood(f), NEW len \in Nat
  PROVE  /\ Used(f) \in 0 .. FIFO_SIZE
         /\ AsMany(len, Used(f)) \in 0 .. Used(f)
         /\ internal_fifo_out_peek(f, len) = BytesFrom(f.data, f.out, AsMany(len, Used(f)))
  <1>1. Used(f) \in 0 .. FIFO_SIZE /\ f.out \in Counts
    <2>1. f.in \in Counts /\ f.out \in Counts /\ Used(f) <= FIFO_SIZE
      BY DEF FifoGood, FifoRecord
    <2> QED BY <2>1, Counting
  <1> DEFINE u == Used(f)
             a == AsMany(len, u)
  <1>2. a \in 0 .. u
    <2> HIDE DEF u
    <2> QED BY <1>1, FifoConstants DEF AsMany, u
  <1>3. Min({len, u}) = a
    <2> HIDE DEF u
    <2>1. Min({len, u}) = IF len < u THEN len ELSE u
      BY <1>1, FifoConstants DEF Min, u
    <2> QED BY <2>1 DEF AsMany
  <1>4. internal_fifo_out_peek(f, len) = kfifo_copy_out(f, a)
    BY <1>3 DEF internal_fifo_out_peek, Used
  <1> HIDE DEF a
  <1>5. a \in 0 .. FIFO_SIZE /\ f.out \in Int
    BY <1>1, <1>2, FifoConstants DEF Counts
  <1> QED BY <1>1, <1>2, <1>4, <1>5, CopyOut DEF a

(* A ring that takes in src, of which asked bytes were meant.              *)
LEMMA Putting ==
  ASSUME NEW f, FifoGood(f), NEW g, g \in FifoRecord, NEW src \in Seq(RingBytes),
         Len(src) <= FIFO_SIZE - Used(f),
         g.out = f.out, g.in = Plus(f.in, Len(src)),
         g.free_bytes = f.free_bytes - Len(src),
         CopiedIn(f.data, g.data, f.in, src)
  PROVE  /\ Used(g) = Used(f) + Len(src) /\ Used(g) <= FIFO_SIZE
         /\ g.free_bytes = FIFO_SIZE - Used(g)
         /\ BytesFrom(g.data, g.out, Used(g)) = BytesFrom(f.data, f.out, Used(f)) \o src
  <1>1. /\ f.in \in Counts /\ f.out \in Counts /\ Used(f) <= FIFO_SIZE
        /\ f.data \in [Places -> RingBytes] /\ g.data \in [Places -> RingBytes]
        /\ f.free_bytes = FIFO_SIZE - Used(f)
    BY DEF FifoGood, FifoRecord
  <1> DEFINE n == Len(src)
             u == Used(f)
  <1>2. n \in Nat /\ n <= FIFO_SIZE - u
    OBVIOUS
  <1>3. u \in 0 .. FIFO_SIZE /\ f.in = Plus(f.out, u)
        /\ (Plus(f.in, n) - f.out) % FIFO_INDEX = u + n
    <2> HIDE DEF n
    <2> QED BY <1>1, <1>2, Counting
  <1>4. Used(g) = u + n
    BY <1>3 DEF Used
  <1>5. u + n <= FIFO_SIZE /\ u \in Nat
    BY <1>2, <1>3, FifoConstants
  <1>6. BytesFrom(g.data, f.out, u + n) = BytesFrom(f.data, f.out, u) \o src
    <2> HIDE DEF u
    <2> QED BY <1>1, <1>3, <1>5, BytesJoin
  <1>7. g.free_bytes = FIFO_SIZE - (u + n)
    <2> HIDE DEF u, n
    <2> QED BY <1>1, <1>2, <1>3, FifoConstants DEF u, n
  <1> QED BY <1>4, <1>5, <1>6, <1>7

(* A ring that gives n bytes away.                                         *)
LEMMA Taking ==
  ASSUME NEW f, FifoGood(f), NEW g, g \in FifoRecord, NEW n \in 0 .. Used(f),
         g.in = f.in, g.out = Plus(f.out, n), g.data = f.data,
         g.free_bytes = f.free_bytes + n
  PROVE  /\ Used(g) <= FIFO_SIZE
         /\ g.free_bytes = FIFO_SIZE - Used(g)
         /\ BytesFrom(f.data, f.out, Used(f))
              = BytesFrom(f.data, f.out, n) \o BytesFrom(g.data, g.out, Used(g))
  <1>1. /\ f.in \in Counts /\ f.out \in Counts /\ Used(f) <= FIFO_SIZE
        /\ f.data \in [Places -> RingBytes]
        /\ f.free_bytes = FIFO_SIZE - Used(f)
    BY DEF FifoGood, FifoRecord
  <1>2. n \in Nat /\ Used(f) \in 0 .. FIFO_SIZE
    <2>1. Used(f) \in 0 .. FIFO_SIZE
      BY <1>1, Counting
    <2> QED BY <2>1
  <1>3. Used(g) = Used(f) - n
    <2>1. n <= Used(f)
      BY <1>2
    <2>2. (f.in - Plus(f.out, n)) % FIFO_INDEX = Used(f) - n
      BY <1>1, <1>2, <2>1, Counting
    <2> QED BY <2>2 DEF Used
  <1>4. BytesFrom(f.data, f.out, Used(f))
          = BytesFrom(f.data, f.out, n) \o BytesFrom(f.data, Plus(f.out, n), Used(f) - n)
    BY <1>1, <1>2, BytesSplit
  <1> DEFINE u == Used(f)
             v == Used(g)
  <1>5. v <= FIFO_SIZE /\ g.free_bytes = FIFO_SIZE - v
    <2>1. v = u - n /\ u \in 0 .. FIFO_SIZE /\ f.free_bytes = FIFO_SIZE - u
      BY <1>1, <1>2, <1>3
    <2> HIDE DEF u, v
    <2> QED BY <1>2, <2>1, FifoConstants
  <1> QED BY <1>3, <1>4, <1>5

-----------------------------------------------------------------------------

Kept(f) == BytesFrom(f.data, f.out, Used(f))

LEMMA HeldIsKept == FifoHeld = Kept(fifo) /\ FifoHeld' = Kept(fifo')
  BY DEF FifoHeld, Kept, BytesFrom, Used

LEMMA KeptLength ==
  ASSUME NEW f, FifoGood(f)
  PROVE  Kept(f) \in Seq(RingBytes) /\ Len(Kept(f)) = Used(f)
  <1>1. /\ f.in \in Counts /\ f.out \in Counts /\ Used(f) <= FIFO_SIZE
        /\ f.data \in [Places -> RingBytes]
    BY DEF FifoGood, FifoRecord
  <1>2. Used(f) \in 0 .. FIFO_SIZE /\ Used(f) \in 0 .. Used(f)
    <2>1. Used(f) \in 0 .. FIFO_SIZE
      BY <1>1, Counting
    <2> QED BY <2>1
  <1> QED BY <1>1, <1>2, BytesSplit DEF Kept

(* A step of Stream, from what the record keeps before and after it.       *)
FifoPuts(f, g) ==
  /\ Kept(g) = Kept(f) \o g.moved
  /\ Len(g.moved) = AsMany(g.asked, FIFO_SIZE - Used(f))

FifoPeeks(f, g) ==
  /\ Kept(g) = Kept(f)
  /\ g.moved = SubSeq(Kept(f), 1, Len(g.moved))
  /\ g.moved \in Seq(RingBytes)
  /\ Len(g.moved) = AsMany(g.asked, Used(f)) /\ Len(g.moved) <= Used(f)

FifoTakes(f, g) ==
  /\ Kept(f) = g.moved \o Kept(g)
  /\ Len(g.moved) = AsMany(g.asked, Used(f))

FifoRests(f, g) == Kept(g) = Kept(f) /\ g.moved = f.moved /\ g.asked = f.asked

LEMMA StreamStep ==
  ASSUME FifoInv,
         \/ FifoPuts(fifo, fifo') \/ FifoPeeks(fifo, fifo')
         \/ FifoTakes(fifo, fifo') \/ FifoRests(fifo, fifo')
  PROVE  FifoStep
  <1>1. FifoHeld \in Seq(RingBytes) /\ Len(FifoHeld) = Used(fifo)
    BY HeldIsKept, KeptLength DEF FifoInv
  <1>2. CASE FifoPuts(fifo, fifo')
    <2>1. FifoHeld' = FifoHeld \o fifo'.moved
      BY <1>2, HeldIsKept DEF FifoPuts
    <2>2. Fifo!AsManyAs(FIFO_SIZE - Len(FifoHeld))
      BY <1>1, <1>2 DEF FifoPuts, AsMany, Fifo!AsManyAs
    <2>3. Fifo!Put
      BY <2>1, <2>2 DEF Fifo!Put
    <2> QED BY <2>3 DEF FifoStep, Fifo!Next
  <1>3. CASE FifoPeeks(fifo, fifo')
    <2>1. UNCHANGED FifoHeld
      BY <1>3, HeldIsKept DEF FifoPeeks
    <2>2. Fifo!AsManyAs(Len(FifoHeld))
      BY <1>1, <1>3 DEF FifoPeeks, AsMany, Fifo!AsManyAs
    <2>3. IsPrefix(fifo'.moved, FifoHeld)
      <3> DEFINE m == fifo'.moved
      <3>1. m \in Seq(RingBytes) /\ Len(m) <= Len(FifoHeld) /\ m = SubSeq(FifoHeld, 1, Len(m))
        BY <1>1, <1>3, HeldIsKept DEF FifoPeeks
      <3> HIDE DEF m
      <3>2. SubSeq(m, 1, Len(m)) = m
        BY <3>1, SubSeqFull
      <3>3. IsPrefix(m, FifoHeld)
        BY <3>1, <3>2 DEF IsPrefix
      <3> QED BY <3>3 DEF m
    <2>4. Fifo!Peek
      BY <2>1, <2>2, <2>3 DEF Fifo!Peek, Fifo!IsPrefix, IsPrefix
    <2> QED BY <2>4 DEF FifoStep, Fifo!Next
  <1>4. CASE FifoTakes(fifo, fifo')
    <2>1. FifoHeld = fifo'.moved \o FifoHeld'
      BY <1>4, HeldIsKept DEF FifoTakes
    <2>2. Fifo!AsManyAs(Len(FifoHeld))
      BY <1>1, <1>4 DEF FifoTakes, AsMany, Fifo!AsManyAs
    <2>3. Fifo!Take
      BY <2>1, <2>2 DEF Fifo!Take
    <2> QED BY <2>3 DEF FifoStep, Fifo!Next
  <1>5. CASE FifoRests(fifo, fifo')
    <2>1. UNCHANGED <<FifoHeld, fifo.moved, fifo.asked>>
      BY <1>5, HeldIsKept DEF FifoRests
    <2> QED BY <2>1 DEF FifoStep
  <1> QED BY <1>2, <1>3, <1>4, <1>5

LEMMA FifoFields ==
  ASSUME NEW f, FifoGood(f)
  PROVE  /\ f \in FifoRecord
         /\ f.in \in Counts /\ f.out \in Counts /\ f.free_bytes \in Int
         /\ f.in \in Int /\ f.out \in Int
         /\ f.data \in [Places -> RingBytes] /\ f.moved \in Seq(RingBytes) /\ f.asked \in Nat
         /\ f.locked \in [task : FifoTasks \cup {NoTask}, in : Nat, out : Nat,
                          moved : Seq(RingBytes), asked : Nat]
         /\ Used(f) \in 0 .. FIFO_SIZE
         /\ f.free_bytes = FIFO_SIZE - Used(f)
  <1>1. /\ f \in FifoRecord
        /\ f.in \in Counts /\ f.out \in Counts /\ f.free_bytes \in Int
        /\ f.data \in [Places -> RingBytes] /\ f.moved \in Seq(RingBytes) /\ f.asked \in Nat
        /\ f.locked \in [task : FifoTasks \cup {NoTask}, in : Nat, out : Nat,
                         moved : Seq(RingBytes), asked : Nat]
        /\ f.free_bytes = FIFO_SIZE - Used(f) /\ Used(f) <= FIFO_SIZE
    BY DEF FifoGood, FifoRecord
  <1>2. Used(f) \in 0 .. FIFO_SIZE
    BY <1>1, Counting
  <1>3. f.in \in Int /\ f.out \in Int
    BY <1>1, FifoConstants DEF Counts
  <1> QED BY <1>1, <1>2, <1>3

(* The ring starts empty.                                                  *)
LEMMA FifoStart == FifoInit => FifoInv
  <1> SUFFICES ASSUME FifoInit PROVE FifoInv
    OBVIOUS
  <1>1. PICK lock \in BOOLEAN : fifo = fifo_init(lock)
    BY DEF FifoInit
  <1> DEFINE zero == CHOOSE b \in FifoBytes : TRUE
  <1>2. zero \in RingBytes
    BY DEF RingBytes
  <1>3. /\ fifo = [user_lock |-> lock, in |-> 0, out |-> 0, free_bytes |-> FIFO_SIZE,
                   data |-> [i \in Places |-> zero], moved |-> <<>>, asked |-> 0,
                   locked |-> [task |-> NoTask, in |-> 0, out |-> 0, moved |-> <<>>, asked |-> 0]]
    BY <1>1 DEF fifo_init, NobodyIn, Places
  <1> HIDE DEF zero
  <1>4. 0 \in Counts /\ FIFO_SIZE \in Int /\ <<>> \in Seq(RingBytes) /\ 0 \in Nat
    BY FifoConstants DEF Counts
  <1>5. fifo \in FifoRecord
    BY <1>2, <1>3, <1>4 DEF FifoRecord
  <1>6. fifo.in = 0 /\ fifo.out = 0 /\ fifo.free_bytes = FIFO_SIZE /\ fifo.locked.task = NoTask
    BY <1>3
  <1>7. Used(fifo) = 0
    BY <1>6, FifoConstants DEF Used
  <1> QED BY <1>5, <1>6, <1>7, FifoConstants DEF FifoInv, FifoGood

(* The services of fifo.c find the ring without a lock.                    *)
LEMMA NobodyLocks ==
  ASSUME FifoInv, ~fifo.user_lock
  PROVE  fifo.locked.task = NoTask
  BY DEF FifoInv, FifoGood

LEMMA FifoInStep ==
  ASSUME FifoInv, ~fifo.user_lock, NEW src \in Seq(RingBytes), fifo_in(src)
  PROVE  FifoInv' /\ FifoPuts(fifo, fifo')
  <1> DEFINE put == Accepted(fifo, src)
             n == Len(put)
             g == fifo'
  <1>1. /\ put \in Seq(RingBytes) /\ n = AsMany(Len(src), FIFO_SIZE - Used(fifo))
        /\ n <= FIFO_SIZE - Used(fifo) /\ n <= FIFO_SIZE /\ Len(src) \in Nat /\ n \in Nat
    <2>1. FifoGood(fifo)
      BY DEF FifoInv
    <2>2. /\ put \in Seq(RingBytes) /\ n = AsMany(Len(src), FIFO_SIZE - Used(fifo))
          /\ n <= FIFO_SIZE - Used(fifo) /\ Used(fifo) \in 0 .. FIFO_SIZE
      BY <2>1, AcceptedBytes
    <2>3. n \in Nat
      BY <2>2
    <2> HIDE DEF n, put
    <2>4. n <= FIFO_SIZE
      BY <2>2, <2>3, FifoConstants
    <2> QED BY <2>2, <2>3, <2>4
  <1>2. /\ fifo_copy_in(fifo, put) \in [Places -> RingBytes]
        /\ CopiedIn(fifo.data, fifo_copy_in(fifo, put), fifo.in, put)
    <2>1. fifo.in \in Int /\ fifo.data \in [Places -> RingBytes]
      BY FifoFields DEF FifoInv
    <2> HIDE DEF put
    <2> QED BY <1>1, <2>1, CopyIn DEF n
  <1> DEFINE e == fifo_copy_in(fifo, put)
  <1>3. fifo' = [fifo EXCEPT !.data = e, !.in = Plus(@, n), !.free_bytes = @ - n,
                             !.moved = put, !.asked = Len(src)]
    BY DEF fifo_in
  <1>4. fifo \in FifoRecord /\ Plus(fifo.in, n) \in Counts /\ fifo.free_bytes \in Int
    <2>1. /\ fifo \in FifoRecord /\ fifo.in \in Counts /\ fifo.out \in Counts
          /\ Used(fifo) <= FIFO_SIZE /\ fifo.free_bytes \in Int
      BY DEF FifoInv, FifoGood, FifoRecord
    <2> HIDE DEF n
    <2> QED BY <1>1, <2>1, Counting
  <1> HIDE DEF e, n, put
  <1>5. fifo.free_bytes - n \in Int
    BY <1>1, <1>4
  <1>6. /\ g \in FifoRecord /\ g.user_lock = fifo.user_lock /\ g.locked = fifo.locked
        /\ g.out = fifo.out /\ g.in = Plus(fifo.in, n) /\ g.data = e
        /\ g.free_bytes = fifo.free_bytes - n /\ g.moved = put /\ g.asked = Len(src)
    BY <1>1, <1>2, <1>3, <1>4, <1>5 DEF FifoRecord, e
  <1> HIDE DEF g
  <1>7. /\ Used(g) <= FIFO_SIZE /\ g.free_bytes = FIFO_SIZE - Used(g)
        /\ BytesFrom(g.data, g.out, Used(g)) = BytesFrom(fifo.data, fifo.out, Used(fifo)) \o put
    BY <1>1, <1>2, <1>6, Putting DEF FifoInv, n, e
  <1>8. FifoGood(g)
    BY <1>6, <1>7, NobodyLocks DEF FifoGood
  <1>9. FifoPuts(fifo, g)
    BY <1>1, <1>6, <1>7 DEF FifoPuts, Kept, n
  <1> QED BY <1>8, <1>9 DEF FifoInv, g

LEMMA FifoPeekStep ==
  ASSUME FifoInv, fifo.locked.task = NoTask, NEW len \in Nat, fifo_out_peek(len)
  PROVE  FifoInv' /\ FifoPeeks(fifo, fifo')
  <1> DEFINE u == Used(fifo)
             n == AsMany(len, u)
             got == internal_fifo_out_peek(fifo, len)
             g == fifo'
  <1>1. /\ u \in 0 .. FIFO_SIZE /\ n \in 0 .. u
        /\ got = BytesFrom(fifo.data, fifo.out, n)
    BY PeekedBytes DEF FifoInv
  <1>2. /\ fifo \in FifoRecord /\ fifo.data \in [Places -> RingBytes] /\ fifo.out \in Counts
    BY FifoFields DEF FifoInv
  <1>3. fifo' = [fifo EXCEPT !.moved = got, !.asked = len]
    BY DEF fifo_out_peek
  <1> HIDE DEF u, n, got
  <1>4. got \in Seq(RingBytes) /\ Len(got) = n /\ got = SubSeq(Kept(fifo), 1, n)
    BY <1>1, <1>2, BytesSplit DEF Kept, u
  <1>5. /\ g \in FifoRecord /\ g.user_lock = fifo.user_lock /\ g.locked = fifo.locked
        /\ g.in = fifo.in /\ g.out = fifo.out /\ g.data = fifo.data
        /\ g.free_bytes = fifo.free_bytes /\ g.moved = got /\ g.asked = len
    BY <1>2, <1>3, <1>4 DEF FifoRecord
  <1> HIDE DEF g
  <1>6. Used(g) = Used(fifo) /\ Kept(g) = Kept(fifo)
    BY <1>5 DEF Used, Kept
  <1>7. FifoGood(g)
    BY <1>5, <1>6 DEF FifoGood, FifoInv
  <1>8. n <= u
    BY <1>1
  <1>9. FifoPeeks(fifo, g)
    BY <1>4, <1>5, <1>6, <1>8 DEF FifoPeeks, n, u
  <1> QED BY <1>7, <1>9 DEF FifoInv, g

LEMMA FifoOutStep ==
  ASSUME FifoInv, ~fifo.user_lock, NEW len \in Nat, fifo_out(len)
  PROVE  FifoInv' /\ FifoTakes(fifo, fifo')
  <1> DEFINE u == Used(fifo)
             n == AsMany(len, u)
             got == internal_fifo_out_peek(fifo, len)
             g == fifo'
  <1>1. /\ u \in 0 .. FIFO_SIZE /\ n \in 0 .. u
        /\ got = BytesFrom(fifo.data, fifo.out, n)
    BY PeekedBytes DEF FifoInv
  <1>2. /\ fifo \in FifoRecord /\ fifo.data \in [Places -> RingBytes] /\ fifo.out \in Counts
        /\ fifo.in \in Counts /\ fifo.free_bytes \in Int /\ Used(fifo) <= FIFO_SIZE
    BY FifoFields DEF FifoInv, FifoGood
  <1>3. fifo' = [fifo EXCEPT !.out = Plus(@, Len(got)), !.free_bytes = @ + Len(got),
                             !.moved = got, !.asked = len]
    BY DEF fifo_out
  <1> HIDE DEF u, n, got
  <1>4. got \in Seq(RingBytes) /\ Len(got) = n
    BY <1>1, <1>2, BytesSplit
  <1>5. n \in Nat /\ n <= Used(fifo) /\ fifo.free_bytes + n \in Int /\ n \in 0 .. Used(fifo)
    BY <1>1, <1>2 DEF u
  <1>6. Plus(fifo.out, n) \in Counts
    BY <1>2, <1>5, Counting
  <1>7. /\ g \in FifoRecord /\ g.user_lock = fifo.user_lock /\ g.locked = fifo.locked
        /\ g.in = fifo.in /\ g.out = Plus(fifo.out, n) /\ g.data = fifo.data
        /\ g.free_bytes = fifo.free_bytes + n /\ g.moved = got /\ g.asked = len
    BY <1>2, <1>3, <1>4, <1>5, <1>6 DEF FifoRecord
  <1> HIDE DEF g
  <1>8. /\ Used(g) <= FIFO_SIZE /\ g.free_bytes = FIFO_SIZE - Used(g)
        /\ BytesFrom(fifo.data, fifo.out, Used(fifo))
             = BytesFrom(fifo.data, fifo.out, n) \o BytesFrom(g.data, g.out, Used(g))
    BY <1>5, <1>7, Taking DEF FifoInv
  <1>9. FifoGood(g)
    BY <1>7, <1>8, NobodyLocks DEF FifoGood
  <1>10. FifoTakes(fifo, g)
    BY <1>1, <1>4, <1>7, <1>8 DEF FifoTakes, Kept, n, u
  <1> QED BY <1>9, <1>10 DEF FifoInv, g

LEMMA FifoLockInStep ==
  ASSUME FifoInv, fifo.user_lock, NEW t \in FifoTasks, NEW src \in Seq(RingBytes),
         fifo_lock_in(t, src)
  PROVE  FifoInv' /\ FifoRests(fifo, fifo')
  <1> DEFINE put == Accepted(fifo, src)
             n == Len(put)
             e == fifo_copy_in(fifo, put)
             l == [task |-> t, in |-> n, out |-> 0, moved |-> put, asked |-> Len(src)]
             g == fifo'
  <1>1. /\ put \in Seq(RingBytes) /\ n = AsMany(Len(src), FIFO_SIZE - Used(fifo))
        /\ n <= FIFO_SIZE - Used(fifo) /\ Used(fifo) \in 0 .. FIFO_SIZE
    BY AcceptedBytes DEF FifoInv
  <1>2. n \in Nat /\ Len(src) \in Nat
    BY <1>1
  <1>3. n <= FIFO_SIZE /\ Used(fifo) + n <= FIFO_SIZE
    <2> HIDE DEF n
    <2> QED BY <1>1, <1>2, FifoConstants
  <1>4. /\ fifo \in FifoRecord /\ fifo.data \in [Places -> RingBytes] /\ fifo.in \in Int
        /\ fifo.in \in Counts /\ fifo.out \in Counts /\ Used(fifo) <= FIFO_SIZE
    BY FifoFields DEF FifoInv, FifoGood
  <1>5. e \in [Places -> RingBytes] /\ CopiedIn(fifo.data, e, fifo.in, put)
    <2> HIDE DEF put
    <2> QED BY <1>1, <1>3, <1>4, CopyIn
  <1>6. fifo' = [fifo EXCEPT !.data = e, !.locked = l]
    BY DEF fifo_lock_in
  <1> HIDE DEF put, n, e
  <1>7. l \in [task : FifoTasks \cup {NoTask}, in : Nat, out : Nat,
               moved : Seq(RingBytes), asked : Nat]
    BY <1>1, <1>2
  <1> HIDE DEF l
  <1>8. /\ g \in FifoRecord /\ g.user_lock = fifo.user_lock /\ g.locked = l
        /\ g.in = fifo.in /\ g.out = fifo.out /\ g.data = e
        /\ g.free_bytes = fifo.free_bytes /\ g.moved = fifo.moved /\ g.asked = fifo.asked
    BY <1>4, <1>5, <1>6, <1>7 DEF FifoRecord
  <1> HIDE DEF g
  <1>9. Used(g) = Used(fifo)
    BY <1>8 DEF Used
  <1>10. Kept(g) = Kept(fifo)
    <2>1. fifo.in = Plus(fifo.out, Used(fifo)) /\ Used(fifo) \in Nat
      BY <1>1, <1>4, Counting
    <2>2. BytesFrom(e, fifo.out, Used(fifo)) = BytesFrom(fifo.data, fifo.out, Used(fifo))
      BY <1>1, <1>3, <1>4, <1>5, <2>1, BytesJoin DEF n
    <2> QED BY <1>8, <1>9, <2>2 DEF Kept
  <1>11. PendingIn(g)
    <2>1. CopiedIn(e, e, fifo.in, put)
      BY <1>5 DEF CopiedIn
    <2> QED BY <1>1, <1>8, <1>9, <2>1 DEF PendingIn, l, n
  <1>12. FifoGood(g)
    BY <1>8, <1>9, <1>11 DEF FifoGood, FifoInv
  <1>13. FifoRests(fifo, g)
    BY <1>8, <1>10 DEF FifoRests
  <1> QED BY <1>12, <1>13 DEF FifoInv, g

LEMMA FifoLockOutStep ==
  ASSUME FifoInv, fifo.user_lock, NEW t \in FifoTasks, NEW len \in Nat, fifo_lock_out(t, len)
  PROVE  FifoInv' /\ FifoRests(fifo, fifo')
  <1> DEFINE got == internal_fifo_out_peek(fifo, len)
             n == Len(got)
             l == [task |-> t, in |-> 0, out |-> n, moved |-> got, asked |-> len]
             g == fifo'
  <1>1. /\ Used(fifo) \in 0 .. FIFO_SIZE /\ AsMany(len, Used(fifo)) \in 0 .. Used(fifo)
        /\ got = BytesFrom(fifo.data, fifo.out, AsMany(len, Used(fifo)))
    BY PeekedBytes DEF FifoInv
  <1>2. fifo \in FifoRecord /\ fifo.data \in [Places -> RingBytes] /\ fifo.out \in Counts
    BY FifoFields DEF FifoInv
  <1>3. fifo' = [fifo EXCEPT !.locked = l]
    BY DEF fifo_lock_out
  <1> HIDE DEF got
  <1>4. got \in Seq(RingBytes) /\ n = AsMany(len, Used(fifo)) /\ n \in Nat
    <2>1. got \in Seq(RingBytes) /\ n = AsMany(len, Used(fifo))
      BY <1>1, <1>2, BytesSplit
    <2> QED BY <2>1
  <1> HIDE DEF n
  <1>5. l \in [task : FifoTasks \cup {NoTask}, in : Nat, out : Nat,
               moved : Seq(RingBytes), asked : Nat]
    BY <1>4
  <1> HIDE DEF l
  <1>6. /\ g \in FifoRecord /\ g.user_lock = fifo.user_lock /\ g.locked = l
        /\ g.in = fifo.in /\ g.out = fifo.out /\ g.data = fifo.data
        /\ g.free_bytes = fifo.free_bytes /\ g.moved = fifo.moved /\ g.asked = fifo.asked
    BY <1>2, <1>3, <1>5 DEF FifoRecord
  <1> HIDE DEF g
  <1>7. Used(g) = Used(fifo) /\ Kept(g) = Kept(fifo)
    BY <1>6 DEF Used, Kept
  <1>8. PendingOut(g)
    BY <1>1, <1>4, <1>6, <1>7 DEF PendingOut, l
  <1>9. FifoGood(g)
    BY <1>6, <1>7, <1>8 DEF FifoGood, FifoInv
  <1>10. FifoRests(fifo, g)
    BY <1>6, <1>7 DEF FifoRests
  <1> QED BY <1>9, <1>10 DEF FifoInv, g

LEMMA FifoEndStep ==
  ASSUME FifoInv, fifo_lock_end
  PROVE  FifoInv' /\ (FifoPuts(fifo, fifo') \/ FifoTakes(fifo, fifo'))
  <1> DEFINE l == fifo.locked
             g == fifo'
             u == Used(fifo)
  <1>1. /\ fifo \in FifoRecord /\ fifo.data \in [Places -> RingBytes] /\ fifo.free_bytes \in Int
        /\ fifo.in \in Counts /\ fifo.out \in Counts /\ u \in 0 .. FIFO_SIZE /\ u <= FIFO_SIZE
        /\ l \in [task : FifoTasks \cup {NoTask}, in : Nat, out : Nat,
                  moved : Seq(RingBytes), asked : Nat]
    BY FifoFields DEF FifoInv, FifoGood
  <1>2. l.in \in Nat /\ l.out \in Nat /\ l.moved \in Seq(RingBytes) /\ l.asked \in Nat
    BY <1>1
  <1>3. /\ fifo.user_lock /\ (PendingIn(fifo) \/ PendingOut(fifo))
        /\ fifo' = [fifo EXCEPT !.in = Plus(@, l.in), !.out = Plus(@, l.out),
                                !.free_bytes = @ - l.in + l.out,
                                !.moved = l.moved, !.asked = l.asked, !.locked = NobodyIn]
    BY DEF fifo_lock_end, Unlocked, FifoInv, FifoGood
  <1>4. \A c \in Counts : Plus(c, 0) = c
    BY FifoConstants DEF Plus, Counts
  <1>5. /\ PendingIn(fifo) => l.in <= FIFO_SIZE - u
        /\ PendingOut(fifo) => l.out <= u
    <2> HIDE DEF u
    <2>1. PendingIn(fifo) => l.in = AsMany(l.asked, FIFO_SIZE - u)
      BY DEF PendingIn, u
    <2>2. PendingOut(fifo) => l.out = AsMany(l.asked, u)
      BY DEF PendingOut, u
    <2> QED BY <1>1, <1>2, <2>1, <2>2, FifoConstants DEF AsMany
  <1>6. Plus(fifo.in, l.in) \in Counts /\ Plus(fifo.out, l.out) \in Counts
    <2>1. CASE PendingIn(fifo)
      <3>1. l.out = 0
        BY <2>1 DEF PendingIn
      <3> QED BY <1>1, <1>2, <1>4, <1>5, <2>1, <3>1, Counting
    <2>2. CASE PendingOut(fifo)
      <3>1. l.in = 0
        BY <2>2 DEF PendingOut
      <3> QED BY <1>1, <1>2, <1>4, <1>5, <2>2, <3>1, Counting
    <2> QED BY <1>3, <2>1, <2>2
  <1>7. fifo.free_bytes - l.in + l.out \in Int
    BY <1>1, <1>2
  <1>8. NobodyIn \in [task : FifoTasks \cup {NoTask}, in : Nat, out : Nat,
                      moved : Seq(RingBytes), asked : Nat]
        /\ NobodyIn.task = NoTask
    BY DEF NobodyIn
  <1>9. /\ g \in FifoRecord /\ g.user_lock = fifo.user_lock /\ g.locked = NobodyIn
        /\ g.in = Plus(fifo.in, l.in) /\ g.out = Plus(fifo.out, l.out) /\ g.data = fifo.data
        /\ g.free_bytes = fifo.free_bytes - l.in + l.out
        /\ g.moved = l.moved /\ g.asked = l.asked
    <2> HIDE DEF l
    <2> QED BY <1>1, <1>2, <1>3, <1>6, <1>7, <1>8 DEF FifoRecord
  <1> HIDE DEF g, l, u
  <1>10. CASE PendingIn(fifo)
    <2>1. /\ l.out = 0 /\ l.in = Len(l.moved) /\ CopiedIn(fifo.data, fifo.data, fifo.in, l.moved)
          /\ l.in = AsMany(l.asked, FIFO_SIZE - u)
      BY <1>10 DEF PendingIn, l, u
    <2>2. g.out = fifo.out /\ g.free_bytes = fifo.free_bytes - Len(l.moved)
      BY <1>1, <1>2, <1>4, <1>9, <2>1
    <2>3. /\ Used(g) <= FIFO_SIZE /\ g.free_bytes = FIFO_SIZE - Used(g)
          /\ BytesFrom(g.data, g.out, Used(g))
               = BytesFrom(fifo.data, fifo.out, Used(fifo)) \o l.moved
      BY <1>2, <1>5, <1>9, <1>10, <2>1, <2>2, Putting DEF FifoInv, u
    <2>4. FifoGood(g)
      BY <1>8, <1>9, <2>3 DEF FifoGood
    <2>5. FifoPuts(fifo, g)
      BY <1>9, <2>1, <2>3 DEF FifoPuts, Kept, u
    <2> QED BY <2>4, <2>5 DEF FifoInv, g
  <1>11. CASE PendingOut(fifo)
    <2>1. /\ l.in = 0 /\ l.moved = BytesFrom(fifo.data, fifo.out, l.out)
          /\ l.out = AsMany(l.asked, u)
      BY <1>11 DEF PendingOut, l, u
    <2>2. l.out \in 0 .. Used(fifo)
      BY <1>1, <1>2, <1>5, <1>11 DEF u
    <2>3. g.in = fifo.in /\ g.free_bytes = fifo.free_bytes + l.out
      BY <1>1, <1>2, <1>4, <1>9, <2>1
    <2>4. /\ Used(g) <= FIFO_SIZE /\ g.free_bytes = FIFO_SIZE - Used(g)
          /\ BytesFrom(fifo.data, fifo.out, Used(fifo))
               = BytesFrom(fifo.data, fifo.out, l.out) \o BytesFrom(g.data, g.out, Used(g))
      BY <1>9, <2>2, <2>3, Taking DEF FifoInv
    <2>5. FifoGood(g)
      BY <1>8, <1>9, <2>4 DEF FifoGood
    <2>6. Len(l.moved) = l.out
      <3>1. /\ fifo.data \in [Places -> RingBytes] /\ fifo.out \in Counts
            /\ Used(fifo) \in 0 .. FIFO_SIZE
        BY <1>1 DEF u
      <3>2. Len(BytesFrom(fifo.data, fifo.out, l.out)) = l.out
        BY <2>2, <3>1, BytesSplit
      <3> QED BY <2>1, <3>2
    <2>7. FifoTakes(fifo, g)
      BY <1>9, <2>1, <2>4, <2>6 DEF FifoTakes, Kept, u
    <2> QED BY <2>5, <2>7 DEF FifoInv, g
  <1> QED BY <1>3, <1>10, <1>11

-----------------------------------------------------------------------------

LEMMA FifoNextStep ==
  ASSUME FifoInv, [FifoNext]_fifo
  PROVE  FifoInv' /\ FifoStep
  <1> DEFINE Streams == \/ FifoPuts(fifo, fifo') \/ FifoPeeks(fifo, fifo')
                        \/ FifoTakes(fifo, fifo') \/ FifoRests(fifo, fifo')
  <1>1. SUFFICES FifoInv' /\ Streams
    BY StreamStep
  <1>2. SeqOf(FifoBytes, FIFO_SIZE + 1) \subseteq Seq(RingBytes)
    <2> SUFFICES ASSUME NEW src \in SeqOf(FifoBytes, FIFO_SIZE + 1) PROVE src \in Seq(RingBytes)
      OBVIOUS
    <2>1. PICK m \in 0 .. FIFO_SIZE + 1 : src \in [1 .. m -> FifoBytes]
      BY DEF SeqOf
    <2> QED BY <2>1, FifoConstants DEF RingBytes
  <1>3. 0 .. FIFO_SIZE + 1 \subseteq Nat
    BY FifoConstants
  <1>4. FIFO_SIZE - fifo.free_bytes \in Nat
    <2>1. Used(fifo) \in 0 .. FIFO_SIZE /\ fifo.free_bytes = FIFO_SIZE - Used(fifo)
      BY FifoFields DEF FifoInv
    <2> QED BY <2>1, FifoConstants
  <1>5. CASE UNCHANGED fifo
    BY <1>5 DEF FifoInv, FifoRests
  <1>6. CASE ~fifo.user_lock /\ \E src \in SeqOf(FifoBytes, FIFO_SIZE + 1) : fifo_in(src)
    BY <1>2, <1>6, FifoInStep
  <1>7. CASE ~fifo.user_lock /\ \E len \in 0 .. FIFO_SIZE + 1 : fifo_out(len) \/ fifo_out_peek(len)
    BY <1>3, <1>7, FifoOutStep, FifoPeekStep, NobodyLocks
  <1>8. CASE ~fifo.user_lock /\ fifo_out_all
    BY <1>4, <1>8, FifoOutStep DEF fifo_out_all
  <1>9. CASE fifo.user_lock /\ \E t \in FifoTasks, src \in SeqOf(FifoBytes, FIFO_SIZE + 1) :
                                 fifo_lock_in(t, src)
    BY <1>2, <1>9, FifoLockInStep
  <1>10. CASE fifo.user_lock /\ \E t \in FifoTasks, len \in 0 .. FIFO_SIZE + 1 : fifo_lock_out(t, len)
    BY <1>3, <1>10, FifoLockOutStep
  <1>11. CASE \E len \in 0 .. FIFO_SIZE + 1 : fifo_lock_out_peek(len)
    BY <1>3, <1>11, FifoPeekStep DEF fifo_lock_out_peek, Unlocked
  <1>12. CASE fifo.user_lock /\ \E t \in FifoTasks : fifo_lock_out_all(t)
    BY <1>4, <1>12, FifoLockOutStep DEF fifo_lock_out_all
  <1>13. CASE fifo_lock_end
    BY <1>13, FifoEndStep
  <1> QED BY <1>5, <1>6, <1>7, <1>8, <1>9, <1>10, <1>11, <1>12, <1>13 DEF FifoNext

(* The rings of fifo.c and fifo_lock.c implement Stream: every byte comes  *)
(* out once, in the order in which it went in, and a call moves as many as *)
(* it asked for or as there are, whatever the size of the ring and while   *)
(* in and out wrap, also when other tasks run between copying and counting.*)
THEOREM BytesKeepOrder == FifoSpec => Fifo!Spec
  <1>1. FifoInit => FifoInv /\ Fifo!Init
    <2> SUFFICES ASSUME FifoInit PROVE FifoInv /\ Fifo!Init
      OBVIOUS
    <2>1. fifo.moved = <<>> /\ fifo.asked = 0 /\ fifo.in = 0 /\ fifo.out = 0
      BY DEF FifoInit, fifo_init
    <2>2. Used(fifo) = 0
      BY <2>1, FifoConstants DEF Used
    <2>3. FifoHeld = <<>>
      BY <2>2, HeldIsKept DEF Kept, BytesFrom
    <2> QED BY <2>1, <2>3, FifoStart DEF Fifo!Init
  <1>2. FifoInv /\ [FifoNext]_fifo => FifoInv' /\ [Fifo!Next]_<<FifoHeld, fifo.moved, fifo.asked>>
    BY FifoNextStep DEF FifoStep
  <1> QED BY <1>1, <1>2, PTL DEF FifoSpec, Fifo!Spec

-----------------------------------------------------------------------------
(***************************************************************************)
(* Events of the idle task.                                                *)
(***************************************************************************)

Signals == IdleEvents \cup {TIMEOUT_SIG, NoSig}

(* n events of the ring q of end places, from tail on.                     *)
EventsFrom(q, end, tail, n) == [i \in 1 .. n |-> q[(tail + i - 1) % end]]

(* Where the ring goes on, and where it was before.                        *)
PlaceBehind(i, end) == IF i + 1 = end THEN 0 ELSE i + 1
PlaceBefore(i, end) == (IF i = 0 THEN end ELSE i) - 1

EventRing(q, end, tail, n) ==
  /\ end \in Nat \ {0} /\ tail \in 0 .. end - 1 /\ n \in 0 .. end
  /\ q \in [0 .. end - 1 -> Signals]

LEMMA RingPlaces ==
  ASSUME NEW end \in Nat \ {0}, NEW tail \in 0 .. end - 1, NEW i \in 1 .. end
  PROVE  /\ (tail + i - 1) % end \in 0 .. end - 1
         /\ (tail + i - 1) % end = IF tail + i - 1 < end THEN tail + i - 1 ELSE tail + i - 1 - end
  <1> DEFINE k == i - 1
  <1>1. k \in 0 .. end - 1 /\ tail + i - 1 = tail + k
    OBVIOUS
  <1> HIDE DEF k
  <1>2. (tail + k) % end = IF tail + k < end THEN tail + k ELSE tail + k - end
    BY <1>1, ModSum
  <1>3. (tail + k) % end \in 0 .. end - 1
    <2> DEFINE m == (tail + k) % end
    <2>1. m = IF tail + k < end THEN tail + k ELSE tail + k - end
      BY <1>2
    <2> HIDE DEF m
    <2>2. m \in 0 .. end - 1
      BY <1>1, <2>1
    <2> QED BY <2>2 DEF m
  <1> QED BY <1>1, <1>2, <1>3

LEMMA EventsAre ==
  ASSUME NEW q, NEW end, NEW tail, NEW n, EventRing(q, end, tail, n)
  PROVE  LET h == EventsFrom(q, end, tail, n)
         IN  /\ h \in Seq(Signals) /\ Len(h) = n
             /\ \A i \in 1 .. n : h[i] = q[(tail + i - 1) % end]
  <1>1. \A i \in 1 .. n : q[(tail + i - 1) % end] \in Signals
    <2> SUFFICES ASSUME NEW i \in 1 .. n PROVE q[(tail + i - 1) % end] \in Signals
      OBVIOUS
    <2>1. i \in 1 .. end
      BY DEF EventRing
    <2>2. (tail + i - 1) % end \in 0 .. end - 1
      BY <2>1, RingPlaces DEF EventRing
    <2> QED BY <2>2 DEF EventRing
  <1> QED BY <1>1 DEF EventsFrom, EventRing

EventRoom(q, end, tail, n) == EventRing(q, end, tail, n) /\ n < end

(* An event behind the last one.                                           *)
PutBehind(q, end, tail, n, e) ==
  LET head == (tail + n) % end
      r    == [q EXCEPT ![head] = e]
  IN  /\ EventRing(r, end, tail, n + 1)
      /\ EventsFrom(r, end, tail, n + 1) = Append(EventsFrom(q, end, tail, n), e)
      /\ PlaceBehind(head, end) = (tail + (n + 1)) % end
      /\ PlaceBehind(head, end) \in 0 .. end - 1

LEMMA EventBehind ==
  ASSUME NEW q, NEW end, NEW tail, NEW n, EventRoom(q, end, tail, n),
         NEW e \in Signals
  PROVE  PutBehind(q, end, tail, n, e)
  <1> DEFINE head == (tail + n) % end
             r == [q EXCEPT ![head] = e]
             h == EventsFrom(q, end, tail, n)
             t == EventsFrom(r, end, tail, n + 1)
  <1>1. /\ end \in Nat \ {0} /\ tail \in 0 .. end - 1 /\ n \in 0 .. end - 1
        /\ q \in [0 .. end - 1 -> Signals]
    BY DEF EventRing, EventRoom
  <1>2. head \in 0 .. end - 1 /\ head = IF tail + n < end THEN tail + n ELSE tail + n - end
    <2>1. (tail + n) % end = IF tail + n < end THEN tail + n ELSE tail + n - end
      BY <1>1, ModSum
    <2>2. head = IF tail + n < end THEN tail + n ELSE tail + n - end
      BY <2>1
    <2> HIDE DEF head
    <2>3. head \in 0 .. end - 1
      BY <1>1, <2>2
    <2> QED BY <2>2, <2>3
  <1>20. (tail + n) % end = head
    OBVIOUS
  <1> HIDE DEF head
  <1>3. EventRing(r, end, tail, n + 1)
    BY <1>1, <1>2 DEF EventRing
  <1>4. h \in Seq(Signals) /\ Len(h) = n /\ \A i \in 1 .. n : h[i] = q[(tail + i - 1) % end]
    BY EventsAre DEF EventRoom
  <1>5. t \in Seq(Signals) /\ Len(t) = n + 1
        /\ \A i \in 1 .. n + 1 : t[i] = r[(tail + i - 1) % end]
    <2> HIDE DEF r
    <2> QED BY <1>3, EventsAre
  <1>6. ASSUME NEW i \in 1 .. n PROVE t[i] = h[i]
    <2> DEFINE x == (tail + i - 1) % end
    <2>1. i \in 1 .. end /\ i \in 1 .. n + 1
      BY <1>1
    <2>2. x \in 0 .. end - 1
          /\ x = IF tail + i - 1 < end THEN tail + i - 1 ELSE tail + i - 1 - end
      BY <1>1, <2>1, RingPlaces
    <2>3. t[i] = r[x] /\ h[i] = q[x]
      BY <1>4, <1>5, <2>1
    <2> HIDE DEF x, t, h
    <2>4. x # head
      BY <1>1, <1>2, <2>2
    <2> QED BY <1>1, <2>2, <2>3, <2>4
  <1>7. t[n + 1] = e
    <2>1. n + 1 \in 1 .. n + 1 /\ (tail + (n + 1) - 1) % end = head
      <3>1. tail + (n + 1) - 1 = tail + n
        BY <1>1
      <3> QED BY <1>1, <1>20, <3>1
    <2> HIDE DEF t, r
    <2>2. t[n + 1] = r[head]
      BY <1>5, <2>1
    <2> QED BY <1>1, <1>2, <2>2 DEF r
  <1>8. t = Append(h, e)
    <2> HIDE DEF t, h, r
    <2>1. /\ Append(h, e) \in Seq(Signals) /\ Len(Append(h, e)) = n + 1
          /\ \A i \in 1 .. n : Append(h, e)[i] = h[i]
          /\ Append(h, e)[n + 1] = e
      BY <1>4, AppendProperties
    <2>2. ASSUME NEW i \in 1 .. n + 1 PROVE t[i] = Append(h, e)[i]
      <3>1. i \in 1 .. n \/ i = n + 1
        BY <1>1
      <3> QED BY <1>6, <1>7, <2>1, <3>1
    <2> QED BY <1>5, <2>1, <2>2, SeqEqual
  <1>9. /\ PlaceBehind(head, end) = (tail + (n + 1)) % end
        /\ PlaceBehind(head, end) \in 0 .. end - 1
    <2> DEFINE p == PlaceBehind(head, end)
               z == tail + (n + 1)
    <2>1. p = IF head + 1 = end THEN 0 ELSE head + 1
      BY DEF PlaceBehind
    <2> HIDE DEF p
    <2>2. p \in 0 .. end - 1
      BY <1>1, <1>2, <2>1
    <2>3. p = z \/ z = end + p
      BY <1>1, <1>2, <2>1
    <2>4. z \in Int
      BY <1>1
    <2> HIDE DEF z
    <2>5. z % end = p
      <3>1. CASE p = z
        BY <1>1, <2>2, <3>1
      <3>2. CASE z = end + p
        BY <1>1, <2>2, <3>2
      <3> QED BY <2>3, <3>1, <3>2
    <2> QED BY <2>2, <2>5 DEF p, z
  <1> QED BY <1>3, <1>8, <1>9 DEF head, PutBehind

(* An event in front of the first one.                                     *)
PutInFront(q, end, tail, n, e) ==
  LET at == PlaceBefore(tail, end)
      r  == [q EXCEPT ![at] = e]
  IN  /\ EventRing(r, end, at, n + 1)
      /\ EventsFrom(r, end, at, n + 1) = <<e>> \o EventsFrom(q, end, tail, n)
      /\ (at + (n + 1)) % end = (tail + n) % end

LEMMA EventInFront ==
  ASSUME NEW q, NEW end, NEW tail, NEW n, EventRoom(q, end, tail, n),
         NEW e \in Signals
  PROVE  PutInFront(q, end, tail, n, e)
  <1> DEFINE at == PlaceBefore(tail, end)
             r == [q EXCEPT ![at] = e]
             h == EventsFrom(q, end, tail, n)
             t == EventsFrom(r, end, at, n + 1)
  <1>1. /\ end \in Nat \ {0} /\ tail \in 0 .. end - 1 /\ n \in 0 .. end - 1
        /\ q \in [0 .. end - 1 -> Signals]
    BY DEF EventRing, EventRoom
  <1>2. at \in 0 .. end - 1 /\ at = IF tail = 0 THEN end - 1 ELSE tail - 1
    BY <1>1 DEF PlaceBefore
  <1> HIDE DEF at
  <1>3. EventRing(r, end, at, n + 1)
    BY <1>1, <1>2 DEF EventRing
  <1>4. h \in Seq(Signals) /\ Len(h) = n /\ \A i \in 1 .. n : h[i] = q[(tail + i - 1) % end]
    BY EventsAre DEF EventRoom
  <1>5. t \in Seq(Signals) /\ Len(t) = n + 1
        /\ \A i \in 1 .. n + 1 : t[i] = r[(at + i - 1) % end]
    <2> HIDE DEF r
    <2> QED BY <1>3, EventsAre
  <1>6. ASSUME NEW i \in 1 .. n PROVE t[i + 1] = h[i]
    <2> DEFINE j == i + 1
               x == (tail + i - 1) % end
               y == (at + j - 1) % end
    <2>1. i \in 1 .. end /\ j \in 1 .. end /\ j \in 1 .. n + 1
      BY <1>1
    <2>2. x = IF tail + i - 1 < end THEN tail + i - 1 ELSE tail + i - 1 - end
      BY <1>1, <2>1, RingPlaces
    <2>3. x \in 0 .. end - 1
      BY <1>1, <2>1, RingPlaces
    <2>4. y = IF at + j - 1 < end THEN at + j - 1 ELSE at + j - 1 - end
      <3> HIDE DEF j
      <3> QED BY <1>1, <1>2, <2>1, RingPlaces
    <2>5. t[j] = r[y] /\ h[i] = q[x]
      BY <1>4, <1>5, <2>1
    <2> HIDE DEF x, y, t, h
    <2>6. y = x /\ x # at
      <3>1. j = i + 1
        OBVIOUS
      <3> HIDE DEF j
      <3> QED BY <1>1, <1>2, <2>1, <2>2, <2>4, <3>1
    <2> QED BY <1>1, <2>3, <2>5, <2>6
  <1>7. t[1] = e
    <2>1. 1 \in 1 .. n + 1 /\ 1 \in 1 .. end
      BY <1>1
    <2>2. (at + 1 - 1) % end = at
      BY <1>1, <1>2
    <2> HIDE DEF t, r
    <2>3. t[1] = r[at]
      BY <1>5, <2>1, <2>2
    <2> QED BY <1>1, <1>2, <2>3 DEF r
  <1>8. t = <<e>> \o h
    <2> HIDE DEF t, h, r
    <2> DEFINE c == <<e>> \o h
    <2>1. /\ c \in Seq(Signals) /\ Len(c) = n + 1 /\ c[1] = e
          /\ \A i \in 1 .. n : c[i + 1] = h[i]
      BY <1>1, <1>4
    <2> HIDE DEF c
    <2>2. ASSUME NEW i \in 1 .. n + 1 PROVE t[i] = c[i]
      <3>1. CASE i = 1
        BY <1>7, <2>1, <3>1
      <3>2. CASE i # 1
        <4> DEFINE j == i - 1
        <4>1. j \in 1 .. n /\ i = j + 1
          BY <1>1, <3>2
        <4> HIDE DEF j
        <4> QED BY <1>6, <2>1, <4>1
      <3> QED BY <3>1, <3>2
    <2>3. t = c
      BY <1>5, <2>1, <2>2, SeqEqual
    <2> QED BY <2>3 DEF c
  <1>9. (at + (n + 1)) % end = (tail + n) % end
    <2>1. CASE tail # 0
      <3>1. at + (n + 1) = tail + n
        BY <1>1, <1>2, <2>1
      <3> QED BY <3>1
    <2>2. CASE tail = 0
      <3>1. at + (n + 1) = end + n /\ tail + n = n
        BY <1>1, <1>2, <2>2
      <3>2. (end + n) % end = n % end
        BY <1>1
      <3> QED BY <3>1, <3>2
    <2> QED BY <2>1, <2>2
  <1> QED BY <1>3, <1>8, <1>9 DEF at, PutInFront

(* The first event, and those behind it.                                   *)
EventFound(q, end, tail, n) == EventRing(q, end, tail, n) /\ n > 0

TakenOut(q, end, tail, n) ==
  LET on == PlaceBehind(tail, end)
  IN  /\ EventRing(q, end, on, n - 1)
      /\ EventsFrom(q, end, tail, n) = <<q[tail]>> \o EventsFrom(q, end, on, n - 1)
      /\ (on + (n - 1)) % end = (tail + n) % end
      /\ q[tail] \in Signals

LEMMA EventOut ==
  ASSUME NEW q, NEW end, NEW tail, NEW n, EventFound(q, end, tail, n)
  PROVE  TakenOut(q, end, tail, n)
  <1> DEFINE on == PlaceBehind(tail, end)
             h == EventsFrom(q, end, tail, n)
             t == EventsFrom(q, end, on, n - 1)
  <1>1. /\ end \in Nat \ {0} /\ tail \in 0 .. end - 1 /\ n \in 1 .. end
        /\ q \in [0 .. end - 1 -> Signals]
    BY DEF EventRing, EventFound
  <1>2. on \in 0 .. end - 1 /\ on = IF tail + 1 = end THEN 0 ELSE tail + 1
    BY <1>1 DEF PlaceBehind
  <1> HIDE DEF on
  <1>3. EventRing(q, end, on, n - 1)
    BY <1>1, <1>2 DEF EventRing
  <1>4. h \in Seq(Signals) /\ Len(h) = n /\ \A i \in 1 .. n : h[i] = q[(tail + i - 1) % end]
    BY EventsAre DEF EventFound
  <1>5. t \in Seq(Signals) /\ Len(t) = n - 1
        /\ \A i \in 1 .. n - 1 : t[i] = q[(on + i - 1) % end]
    BY <1>3, EventsAre
  <1>6. ASSUME NEW i \in 1 .. n - 1 PROVE h[i + 1] = t[i]
    <2> DEFINE j == i + 1
               x == (on + i - 1) % end
               y == (tail + j - 1) % end
    <2>1. i \in 1 .. end /\ j \in 1 .. end /\ j \in 1 .. n
      BY <1>1
    <2>2. x = IF on + i - 1 < end THEN on + i - 1 ELSE on + i - 1 - end
      BY <1>1, <1>2, <2>1, RingPlaces
    <2>3. y = IF tail + j - 1 < end THEN tail + j - 1 ELSE tail + j - 1 - end
      <3> HIDE DEF j
      <3> QED BY <1>1, <2>1, RingPlaces
    <2>4. t[i] = q[x] /\ h[j] = q[y]
      BY <1>4, <1>5, <2>1
    <2> HIDE DEF x, y, t, h
    <2>5. y = x
      <3>1. j = i + 1
        OBVIOUS
      <3> HIDE DEF j
      <3> QED BY <1>1, <1>2, <2>1, <2>2, <2>3, <3>1
    <2> QED BY <2>4, <2>5
  <1>7. h[1] = q[tail] /\ q[tail] \in Signals
    <2>1. 1 \in 1 .. n
      BY <1>1
    <2>2. (tail + 1 - 1) % end = tail
      BY <1>1
    <2> HIDE DEF h
    <2> QED BY <1>1, <1>4, <2>1, <2>2
  <1>8. h = <<q[tail]>> \o t
    <2> HIDE DEF t, h
    <2> DEFINE e == q[tail]
               c == <<e>> \o t
    <2>1. /\ c \in Seq(Signals) /\ Len(c) = n /\ c[1] = e
          /\ \A i \in 1 .. n - 1 : c[i + 1] = t[i]
      <3>1. e \in Signals
        BY <1>7
      <3> HIDE DEF e
      <3> QED BY <1>1, <1>5, <3>1
    <2> HIDE DEF c
    <2>2. ASSUME NEW i \in 1 .. n PROVE h[i] = c[i]
      <3>1. CASE i = 1
        BY <1>7, <2>1, <3>1
      <3>2. CASE i # 1
        <4> DEFINE j == i - 1
        <4>1. j \in 1 .. n - 1 /\ i = j + 1
          BY <1>1, <3>2
        <4> HIDE DEF j
        <4> QED BY <1>6, <2>1, <4>1
      <3> QED BY <3>1, <3>2
    <2>3. h = c
      BY <1>4, <2>1, <2>2, SeqEqual
    <2> QED BY <2>3 DEF c
  <1>9. (on + (n - 1)) % end = (tail + n) % end
    <2>1. CASE tail + 1 # end
      <3>1. on + (n - 1) = tail + n
        BY <1>1, <1>2, <2>1
      <3> QED BY <3>1
    <2>2. CASE tail + 1 = end
      <3>1. on + (n - 1) = n - 1 /\ tail + n = end + (n - 1) /\ n - 1 \in Int
        BY <1>1, <1>2, <2>2
      <3>2. (end + (n - 1)) % end = (n - 1) % end
        BY <1>1, <3>1
      <3> QED BY <3>1, <3>2
    <2> QED BY <2>1, <2>2
  <1> QED BY <1>3, <1>7, <1>8, <1>9 DEF on, TakenOut

-----------------------------------------------------------------------------

RingArrays == UNION {[0 .. n - 1 -> Signals] : n \in 1 .. 255}

IdleRecord ==
  [head : [IdleObjects -> Nat], tail : [IdleObjects -> Nat], nUsed : [IdleObjects -> Nat],
   tick_ctr : [IdleObjects -> Nat], queue : [IdleObjects -> RingArrays],
   grp : SUBSET (0 .. 7), tbl : [0 .. 7 -> SUBSET (0 .. 7)],
   ticking : Seq(IdleObjects), moved : Signals]

(* Every object has a ring that head and tail agree about.                 *)
RingsGood(s) ==
  \A a \in IdleObjects :
    /\ EventRing(s.queue[a], IdleEnd[a], s.tail[a], s.nUsed[a])
    /\ s.head[a] = (s.tail[a] + s.nUsed[a]) % IdleEnd[a]

(* The bits that are set are those of objects that have events.            *)
BitsGood(s) ==
  /\ \A y \in 0 .. 7 : y \in s.grp <=> s.tbl[y] # {}
  /\ \A a \in IdleObjects : s.nUsed[a] > 0 <=> Column(a) \in s.tbl[Row(a)]
  /\ \A y \in 0 .. 7 : \A x \in s.tbl[y] : x = 0 /\ 8 * y \in IdleObjects

IdleGood(s) ==
  /\ s \in IdleRecord /\ IsInjective(s.ticking)
  /\ RingsGood(s) /\ BitsGood(s)

IdleInv == IdleGood(idle)

LEMMA IdleObject ==
  ASSUME NEW a \in IdleObjects
  PROVE  /\ a \in Nat /\ Row(a) \in 0 .. 7 /\ Column(a) = 0 /\ a = 8 * Row(a)
         /\ IdleEnd[a] \in 1 .. 255 /\ IdleEnd[a] \in Nat \ {0}
  <1>1. PICK y \in 0 .. 7 : a = 8 * y
    BY IdleAssumption
  <1>2. IdleEnd[a] \in 1 .. 255
    BY IdleAssumption
  <1> QED BY <1>1, <1>2 DEF Row, Column

LEMMA OtherRow ==
  ASSUME NEW a \in IdleObjects, NEW b \in IdleObjects, a # b
  PROVE  Row(a) # Row(b)
  BY IdleObject

LEMMA IdleFields ==
  ASSUME NEW s \in IdleRecord
  PROVE  /\ s.head \in [IdleObjects -> Nat] /\ s.tail \in [IdleObjects -> Nat]
         /\ s.nUsed \in [IdleObjects -> Nat] /\ s.tick_ctr \in [IdleObjects -> Nat]
         /\ s.queue \in [IdleObjects -> RingArrays]
         /\ s.grp \in SUBSET (0 .. 7) /\ s.tbl \in [0 .. 7 -> SUBSET (0 .. 7)]
         /\ s.ticking \in Seq(IdleObjects) /\ s.moved \in Signals
  BY DEF IdleRecord

LEMMA IdleHeldIs ==
  ASSUME NEW s, NEW a
  PROVE  IdleHeld(s, a) = EventsFrom(s.queue[a], IdleEnd[a], s.tail[a], s.nUsed[a])
  BY DEF IdleHeld, EventsFrom

LEMMA IdleHeldLength ==
  ASSUME NEW s, RingsGood(s), NEW a \in IdleObjects
  PROVE  /\ IdleHeld(s, a) \in Seq(Signals) /\ Len(IdleHeld(s, a)) = s.nUsed[a]
         /\ s.nUsed[a] \in 0 .. IdleEnd[a]
  <1>1. EventRing(s.queue[a], IdleEnd[a], s.tail[a], s.nUsed[a])
    BY DEF RingsGood
  <1> QED BY <1>1, IdleHeldIs, EventsAre DEF EventRing

(* s with the ring of a replaced, as post and idle_run leave it.           *)
RingPut(s, r, a, q, tail, n) ==
  /\ r \in IdleRecord
  /\ r.queue = [s.queue EXCEPT ![a] = q] /\ r.tail = [s.tail EXCEPT ![a] = tail]
  /\ r.head = [s.head EXCEPT ![a] = (tail + n) % IdleEnd[a]]
  /\ r.nUsed = [s.nUsed EXCEPT ![a] = n]

LEMMA RingChanged ==
  ASSUME NEW s, IdleGood(s), NEW a \in IdleObjects,
         NEW q, NEW tail, NEW n, EventRing(q, IdleEnd[a], tail, n),
         NEW r, RingPut(s, r, a, q, tail, n)
  PROVE  /\ RingsGood(r)
         /\ IdleHeld(r, a) = EventsFrom(q, IdleEnd[a], tail, n)
         /\ \A b \in IdleObjects \ {a} : IdleHeld(r, b) = IdleHeld(s, b)
  <1>1. s \in IdleRecord
    BY DEF IdleGood
  <1>2. /\ r.queue[a] = q /\ r.tail[a] = tail /\ r.nUsed[a] = n
        /\ r.head[a] = (tail + n) % IdleEnd[a] /\ r.nUsed[a] = n
        /\ \A b \in IdleObjects \ {a} :
             /\ r.queue[b] = s.queue[b] /\ r.tail[b] = s.tail[b]
             /\ r.head[b] = s.head[b] /\ r.nUsed[b] = s.nUsed[b]
    BY <1>1, IdleFields DEF RingPut
  <1>3. RingsGood(r)
    <2> SUFFICES ASSUME NEW b \in IdleObjects
                 PROVE  /\ EventRing(r.queue[b], IdleEnd[b], r.tail[b], r.nUsed[b])
                        /\ r.head[b] = (r.tail[b] + r.nUsed[b]) % IdleEnd[b]
      BY DEF RingsGood
    <2>1. CASE b = a
      BY <1>2, <2>1
    <2>2. CASE b # a
      BY <1>2, <2>2 DEF IdleGood, RingsGood
    <2> QED BY <2>1, <2>2
  <1>4. IdleHeld(r, a) = EventsFrom(q, IdleEnd[a], tail, n)
    BY <1>2, IdleHeldIs
  <1>5. \A b \in IdleObjects \ {a} : IdleHeld(r, b) = IdleHeld(s, b)
    BY <1>2, IdleHeldIs
  <1> QED BY <1>3, <1>4, <1>5

LEMMA RingIsArray ==
  ASSUME NEW a \in IdleObjects, NEW q, NEW tail, NEW n, EventRing(q, IdleEnd[a], tail, n)
  PROVE  q \in RingArrays /\ tail \in Nat /\ n \in Nat
  <1> DEFINE end == IdleEnd[a]
  <1>1. end \in 1 .. 255 /\ end \in Nat
    BY IdleObject
  <1>2. q \in [0 .. end - 1 -> Signals] /\ tail \in 0 .. end - 1 /\ n \in 0 .. end
    BY DEF EventRing
  <1> HIDE DEF end
  <1>3. q \in RingArrays
    BY <1>1, <1>2 DEF RingArrays
  <1> QED BY <1>1, <1>2, <1>3

(* What a post changes: e is behind or in front of the events of a.        *)
Posted(s, r, a, e) ==
  /\ IdleGood(r) /\ r.moved = e /\ r.ticking = s.ticking /\ r.tick_ctr = s.tick_ctr
  /\ \A b \in IdleObjects \ {a} : IdleHeld(r, b) = IdleHeld(s, b)

LEMMA PostStep ==
  ASSUME NEW s, IdleGood(s), NEW a \in IdleObjects, NEW e \in Signals,
         ~IdleExhausted(s, a), NEW send_to_end \in BOOLEAN
  PROVE  LET r == event_post(s, a, e, send_to_end)
         IN  /\ Posted(s, r, a, e)
             /\ Len(IdleHeld(s, a)) < IdleEnd[a]
             /\ IdleHeld(r, a) = IF send_to_end THEN Append(IdleHeld(s, a), e)
                                 ELSE <<e>> \o IdleHeld(s, a)
  <1> DEFINE at == IF send_to_end THEN PostEnd(s, a, e) ELSE PostFront(s, a, e)
             put == [at EXCEPT !.nUsed[a] = @ + 1, !.moved = e]
             r == event_post(s, a, e, send_to_end)
             ring == s.queue[a]
             first == s.tail[a]
             next == s.head[a]
             count == s.nUsed[a]
             size == IdleEnd[a]
  <1>1. /\ s \in IdleRecord /\ EventRing(ring, size, first, count) /\ next = (first + count) % size
        /\ count \in Nat /\ size \in Nat \ {0} /\ count < size /\ Len(IdleHeld(s, a)) = count
    <2>1. s \in IdleRecord /\ EventRing(ring, size, first, count) /\ next = (first + count) % size
      BY DEF IdleGood, RingsGood
    <2>2. count \in 0 .. size /\ count # size /\ size \in Nat \ {0}
      BY <2>1, IdleObject DEF EventRing, IdleExhausted
    <2>3. count \in Nat /\ count < size
      <3> HIDE DEF count, size
      <3> QED BY <2>2
    <2> QED BY <2>1, <2>2, <2>3, IdleHeldLength DEF IdleGood
  <1>2. \E q2, tail2, head2 :
          /\ EventRing(q2, size, tail2, count + 1) /\ head2 = (tail2 + (count + 1)) % size
          /\ head2 \in Nat
          /\ EventsFrom(q2, size, tail2, count + 1) = IF send_to_end THEN Append(IdleHeld(s, a), e)
                                                 ELSE <<e>> \o IdleHeld(s, a)
          /\ at = [s EXCEPT !.queue[a] = q2, !.tail[a] = tail2, !.head[a] = head2]
    <2>1. CASE send_to_end
      <3> DEFINE q2 == [ring EXCEPT ![next] = e]
                 head2 == PlaceBehind(next, size)
      <3>1. /\ EventRing(q2, size, first, count + 1)
            /\ EventsFrom(q2, size, first, count + 1) = Append(EventsFrom(ring, size, first, count), e)
            /\ head2 = (first + (count + 1)) % size
            /\ head2 \in 0 .. size - 1
        <4>1. e \in Signals /\ EventRoom(ring, size, first, count)
          BY <1>1 DEF EventRoom
        <4>2. PutBehind(ring, size, first, count, e)
          <5> HIDE DEF ring, first, count, size
          <5> QED BY <4>1, EventBehind
        <4> HIDE DEF ring, first, next, count, size
        <4> QED BY <1>1, <4>2 DEF PutBehind
      <3>2. head2 \in Nat
        BY <1>1, <3>1
      <3>3. at = [s EXCEPT !.queue[a] = q2, !.tail[a] = first, !.head[a] = head2]
        <4>1. at = [s EXCEPT !.queue[a][s.head[a]] = e,
                             !.head[a] = IF @ + 1 = IdleEnd[a] THEN 0 ELSE @ + 1]
          BY <2>1 DEF PostEnd
        <4>2. s.tail = [s.tail EXCEPT ![a] = first]
          BY <1>1, IdleFields
        <4>3. head2 = IF s.head[a] + 1 = IdleEnd[a] THEN 0 ELSE s.head[a] + 1
          BY DEF PlaceBehind
        <4> HIDE DEF head2, at
        <4> QED BY <1>1, <4>1, <4>2, <4>3 DEF IdleRecord
      <3> HIDE DEF q2, head2, at, ring, first, next, count, size
      <3>4. EventsFrom(ring, size, first, count) = IdleHeld(s, a)
        BY IdleHeldIs DEF ring, first, count, size
      <3> QED BY <2>1, <3>1, <3>2, <3>3, <3>4
    <2>2. CASE ~send_to_end
      <3> DEFINE tail2 == PlaceBefore(first, size)
                 q2 == [ring EXCEPT ![tail2] = e]
      <3>1. /\ EventRing(q2, size, tail2, count + 1)
            /\ EventsFrom(q2, size, tail2, count + 1) = <<e>> \o EventsFrom(ring, size, first, count)
            /\ next = (tail2 + (count + 1)) % size
        <4>1. e \in Signals /\ EventRoom(ring, size, first, count)
          BY <1>1 DEF EventRoom
        <4>2. PutInFront(ring, size, first, count, e)
          <5> HIDE DEF ring, first, count, size
          <5> QED BY <4>1, EventInFront
        <4> HIDE DEF ring, first, next, count, size
        <4> QED BY <1>1, <4>2 DEF PutInFront
      <3>2. next \in Nat
        BY <1>1, IdleFields
      <3>3. at = [s EXCEPT !.queue[a] = q2, !.tail[a] = tail2, !.head[a] = next]
        <4>1. at = [s EXCEPT !.tail[a] = tail2, !.queue[a][tail2] = e]
          BY <2>2 DEF PostFront, PlaceBefore
        <4>2. s.head = [s.head EXCEPT ![a] = next]
          BY <1>1, IdleFields
        <4> HIDE DEF tail2, at
        <4> QED BY <1>1, <4>1, <4>2 DEF IdleRecord
      <3> HIDE DEF q2, tail2, at, ring, first, next, count, size
      <3>4. EventsFrom(ring, size, first, count) = IdleHeld(s, a)
        BY IdleHeldIs DEF ring, first, count, size
      <3> QED BY <2>2, <3>1, <3>2, <3>3, <3>4
    <2> QED BY <2>1, <2>2
  <1>3. PICK q2, tail2, head2 :
          /\ EventRing(q2, size, tail2, count + 1) /\ head2 = (tail2 + (count + 1)) % size
          /\ head2 \in Nat
          /\ EventsFrom(q2, size, tail2, count + 1) = IF send_to_end THEN Append(IdleHeld(s, a), e)
                                                 ELSE <<e>> \o IdleHeld(s, a)
          /\ at = [s EXCEPT !.queue[a] = q2, !.tail[a] = tail2, !.head[a] = head2]
    BY <1>2
  <1>4. q2 \in RingArrays /\ tail2 \in Nat /\ count + 1 \in Nat
    BY <1>1, <1>3, RingIsArray
  <1> HIDE DEF at
  <1>5. /\ put \in IdleRecord
        /\ put.queue = [s.queue EXCEPT ![a] = q2] /\ put.tail = [s.tail EXCEPT ![a] = tail2]
        /\ put.head = [s.head EXCEPT ![a] = head2] /\ put.nUsed = [s.nUsed EXCEPT ![a] = count + 1]
        /\ put.grp = s.grp /\ put.tbl = s.tbl /\ put.moved = e
        /\ put.ticking = s.ticking /\ put.tick_ctr = s.tick_ctr
    BY <1>1, <1>3, <1>4 DEF IdleRecord
  <1> DEFINE ready == [put EXCEPT !.grp = @ \cup {Row(a)}, !.tbl[Row(a)] = @ \cup {Column(a)}]
  <1>6. r = IF count + 1 > 1 THEN put ELSE ready
    <2>1. put.nUsed[a] = count + 1
      BY <1>1, <1>5, IdleFields
    <2>2. r = IF put.nUsed[a] > 1 THEN put ELSE ready
      BY DEF event_post, at
    <2> QED BY <2>1, <2>2
  <1> HIDE DEF put
  <1>7. Row(a) \in 0 .. 7 /\ Column(a) = 0 /\ a = 8 * Row(a)
    BY IdleObject
  <1>8. ready \in IdleRecord
        /\ ready.queue = put.queue /\ ready.tail = put.tail /\ ready.head = put.head
        /\ ready.nUsed = put.nUsed /\ ready.moved = put.moved
        /\ ready.ticking = put.ticking /\ ready.tick_ctr = put.tick_ctr
        /\ ready.grp = s.grp \cup {Row(a)}
        /\ ready.tbl = [s.tbl EXCEPT ![Row(a)] = @ \cup {0}]
    <2>1. s.grp \cup {Row(a)} \in SUBSET (0 .. 7)
      BY <1>1, <1>7, IdleFields
    <2>2. [s.tbl EXCEPT ![Row(a)] = @ \cup {0}] \in [0 .. 7 -> SUBSET (0 .. 7)]
      BY <1>1, <1>7, IdleFields
    <2>3. ready = [put EXCEPT !.grp = s.grp \cup {Row(a)},
                              !.tbl = [s.tbl EXCEPT ![Row(a)] = @ \cup {0}]]
      BY <1>5, <1>7 DEF IdleRecord
    <2> QED BY <1>5, <2>1, <2>2, <2>3 DEF IdleRecord
  <1> HIDE DEF ready, r
  <1>9. r \in IdleRecord
        /\ r.queue = put.queue /\ r.tail = put.tail /\ r.head = put.head
        /\ r.nUsed = put.nUsed /\ r.moved = e
        /\ r.ticking = s.ticking /\ r.tick_ctr = s.tick_ctr
    BY <1>5, <1>6, <1>8
  <1>10. /\ RingsGood(r)
         /\ IdleHeld(r, a) = EventsFrom(q2, IdleEnd[a], tail2, count + 1)
         /\ \A b \in IdleObjects \ {a} : IdleHeld(r, b) = IdleHeld(s, b)
    <2>1. EventRing(q2, IdleEnd[a], tail2, count + 1)
      BY <1>3
    <2>2. RingPut(s, r, a, q2, tail2, count + 1)
      BY <1>3, <1>5, <1>9 DEF RingPut
    <2> HIDE DEF count, size
    <2> QED BY <2>1, <2>2, RingChanged
  <1>11. r.nUsed[a] = count + 1 /\ \A b \in IdleObjects \ {a} : r.nUsed[b] = s.nUsed[b]
    BY <1>1, <1>5, <1>9, IdleFields
  <1>12. BitsGood(s)
    BY DEF IdleGood
  <1>13. BitsGood(r)
    <2>1. CASE count + 1 > 1
      <3>1. r.grp = s.grp /\ r.tbl = s.tbl
        BY <1>5, <1>6, <2>1
      <3>2. count > 0 /\ count + 1 > 0
        BY <1>1, <2>1
      <3>3. \A b \in IdleObjects : r.nUsed[b] > 0 <=> s.nUsed[b] > 0
        BY <1>11, <3>2
      <3> QED BY <1>12, <3>1, <3>3 DEF BitsGood
    <2>2. CASE ~(count + 1 > 1)
      <3>1. r = ready
        BY <1>6, <2>2
      <3>2. r.grp = s.grp \cup {Row(a)} /\ r.tbl[Row(a)] = s.tbl[Row(a)] \cup {0}
            /\ \A y \in 0 .. 7 \ {Row(a)} : r.tbl[y] = s.tbl[y]
        BY <1>1, <1>7, <1>8, <3>1, IdleFields
      <3>3. r.nUsed[a] > 0
        BY <1>1, <1>11
      <3>4. \A y \in 0 .. 7 : y \in r.grp <=> r.tbl[y] # {}
        BY <1>12, <3>2 DEF BitsGood
      <3>5. \A b \in IdleObjects : r.nUsed[b] > 0 <=> Column(b) \in r.tbl[Row(b)]
        <4> SUFFICES ASSUME NEW b \in IdleObjects
                     PROVE  r.nUsed[b] > 0 <=> Column(b) \in r.tbl[Row(b)]
          OBVIOUS
        <4>1. CASE b = a
          BY <1>7, <3>2, <3>3, <4>1
        <4>2. CASE b # a
          <5>1. Row(b) \in 0 .. 7 \ {Row(a)}
            BY <4>2, IdleObject, OtherRow
          <5> QED BY <1>11, <1>12, <3>2, <4>2, <5>1 DEF BitsGood
        <4> QED BY <4>1, <4>2
      <3>6. \A y \in 0 .. 7 : \A x \in r.tbl[y] : x = 0 /\ 8 * y \in IdleObjects
        <4> SUFFICES ASSUME NEW y \in 0 .. 7, NEW x \in r.tbl[y]
                     PROVE  x = 0 /\ 8 * y \in IdleObjects
          OBVIOUS
        <4>1. x \in s.tbl[y] \/ (y = Row(a) /\ x = 0)
          BY <3>2
        <4>2. CASE x \in s.tbl[y]
          BY <1>12, <4>2 DEF BitsGood
        <4>3. CASE y = Row(a) /\ x = 0
          BY <1>7, <4>3
        <4> QED BY <4>1, <4>2, <4>3
      <3> QED BY <3>4, <3>5, <3>6 DEF BitsGood
    <2> QED BY <2>1, <2>2
  <1>14. Posted(s, r, a, e)
    <2>1. IsInjective(s.ticking)
      BY DEF IdleGood
    <2> QED BY <1>9, <1>10, <1>13, <2>1 DEF Posted, IdleGood
  <1>15. IdleHeld(r, a) = IF send_to_end THEN Append(IdleHeld(s, a), e)
                          ELSE <<e>> \o IdleHeld(s, a)
    BY <1>3, <1>10
  <1> QED BY <1>1, <1>14, <1>15 DEF r

(* What leaves rings and bits as they are leaves all events.               *)
SameRings(s, r) ==
  /\ r \in IdleRecord /\ IsInjective(r.ticking)
  /\ r.queue = s.queue /\ r.tail = s.tail /\ r.head = s.head /\ r.nUsed = s.nUsed
  /\ r.grp = s.grp /\ r.tbl = s.tbl

LEMMA SameRingsLemma ==
  ASSUME NEW s, IdleGood(s), NEW r, SameRings(s, r)
  PROVE  IdleGood(r) /\ \A b : IdleHeld(r, b) = IdleHeld(s, b)
  <1>1. RingsGood(r)
    BY DEF IdleGood, RingsGood, SameRings
  <1>2. BitsGood(r)
    BY DEF IdleGood, BitsGood, SameRings
  <1>3. \A b : IdleHeld(r, b) = IdleHeld(s, b)
    BY IdleHeldIs DEF SameRings
  <1> QED BY <1>1, <1>2, <1>3 DEF IdleGood, SameRings

(* s with the count of an object and the list of those that tick changed.   *)
TickPut(s, r, a, n, list) == r = [s EXCEPT !.tick_ctr[a] = n, !.ticking = list]

LEMMA TickChanged ==
  ASSUME NEW s, IdleGood(s), NEW a \in IdleObjects, NEW n \in Nat,
         NEW list \in Seq(IdleObjects), IsInjective(list), NEW r, TickPut(s, r, a, n, list)
  PROVE  /\ IdleGood(r) /\ \A b : IdleHeld(r, b) = IdleHeld(s, b)
         /\ r.moved = s.moved
  <1>1. s \in IdleRecord
    BY DEF IdleGood
  <1>2. r \in IdleRecord /\ r.ticking = list /\ r.moved = s.moved
    BY <1>1 DEF IdleRecord, TickPut
  <1>3. /\ r.queue = s.queue /\ r.tail = s.tail /\ r.head = s.head /\ r.nUsed = s.nUsed
        /\ r.grp = s.grp /\ r.tbl = s.tbl
    BY <1>1 DEF IdleRecord, TickPut
  <1>4. SameRings(s, r)
    BY <1>2, <1>3 DEF SameRings
  <1> QED BY <1>2, <1>4, SameRingsLemma

(* What a tick does to one object: nothing, or its timeout is behind all.  *)
TickPosted(s, r, a) ==
  /\ IdleGood(r)
  /\ \A b \in IdleObjects \ {a} : IdleHeld(r, b) = IdleHeld(s, b)
  /\ \/ IdleHeld(r, a) = IdleHeld(s, a) /\ r.moved = s.moved
     \/ /\ Len(IdleHeld(s, a)) < IdleEnd[a] /\ r.moved = TIMEOUT_SIG
        /\ IdleHeld(r, a) = Append(IdleHeld(s, a), TIMEOUT_SIG)

LEMMA CountedStep ==
  ASSUME NEW s, IdleGood(s), NEW a \in IdleObjects
  PROVE  TickPosted(s, Counted(s, a), a)
  <1> DEFINE n == s.tick_ctr[a] - 1
             list == list_delete(s.ticking, a)
             down == [s EXCEPT !.tick_ctr[a] = n, !.ticking = s.ticking]
             off == [s EXCEPT !.tick_ctr[a] = n, !.ticking = list]
             r == Counted(s, a)
  <1>1. /\ s \in IdleRecord /\ s.tick_ctr[a] \in Nat
        /\ s.ticking \in Seq(IdleObjects) /\ IsInjective(s.ticking)
    BY IdleFields DEF IdleGood
  <1>2. list \in Seq(IdleObjects) /\ IsInjective(list)
    BY <1>1, DeleteLemma
  <1>3. r = IF s.tick_ctr[a] = 0 THEN s
            ELSE IF n > 0 THEN down ELSE event_post(off, a, TIMEOUT_SIG, TRUE)
    <2> DEFINE d == [s EXCEPT !.tick_ctr[a] = @ - 1]
    <2>1. d = down /\ d.tick_ctr[a] = n
      BY <1>1 DEF IdleRecord
    <2>2. [d EXCEPT !.ticking = list_delete(@, a)] = off
      BY <1>1 DEF IdleRecord
    <2>3. r = IF s.tick_ctr[a] = 0 THEN s
              ELSE IF d.tick_ctr[a] > 0 THEN d
              ELSE event_post([d EXCEPT !.ticking = list_delete(@, a)], a, TIMEOUT_SIG, TRUE)
      BY DEF Counted
    <2> HIDE DEF d, down, off, r
    <2> QED BY <2>1, <2>2, <2>3
  <1>4. CASE s.tick_ctr[a] = 0
    BY <1>3, <1>4 DEF TickPosted
  <1>5. CASE s.tick_ctr[a] # 0 /\ n > 0
    <2>1. n \in Nat
      BY <1>1, <1>5
    <2> HIDE DEF n, r
    <2>2. /\ IdleGood(down) /\ \A b : IdleHeld(down, b) = IdleHeld(s, b)
          /\ down.moved = s.moved
      <3>1. TickPut(s, down, a, n, s.ticking)
        BY DEF TickPut
      <3> HIDE DEF down
      <3> QED BY <1>1, <2>1, <3>1, TickChanged
    <2>3. r = down
      BY <1>3, <1>5
    <2> HIDE DEF down
    <2> QED BY <2>2, <2>3 DEF TickPosted, r
  <1>6. CASE s.tick_ctr[a] # 0 /\ ~(n > 0)
    <2>1. n \in Nat
      BY <1>1, <1>6
    <2> HIDE DEF n, r, list
    <2>2. /\ IdleGood(off) /\ \A b : IdleHeld(off, b) = IdleHeld(s, b)
          /\ off.moved = s.moved
      <3>1. TickPut(s, off, a, n, list)
        BY DEF TickPut
      <3> HIDE DEF off
      <3> QED BY <1>2, <2>1, <3>1, TickChanged
    <2>3. r = event_post(off, a, TIMEOUT_SIG, TRUE)
      BY <1>3, <1>6
    <2> HIDE DEF off
    <2>4. CASE IdleExhausted(off, a)
      <3>1. r = off
        BY <2>3, <2>4 DEF event_post
      <3> QED BY <2>2, <3>1 DEF TickPosted, r
    <2>5. CASE ~IdleExhausted(off, a)
      <3>1. TIMEOUT_SIG \in Signals
        BY DEF Signals
      <3>2. /\ Posted(off, r, a, TIMEOUT_SIG) /\ Len(IdleHeld(off, a)) < IdleEnd[a]
            /\ IdleHeld(r, a) = Append(IdleHeld(off, a), TIMEOUT_SIG)
        BY <2>2, <2>3, <2>5, <3>1, PostStep
      <3> QED BY <2>2, <3>2 DEF TickPosted, Posted, r
    <2> QED BY <2>4, <2>5
  <1> QED BY <1>4, <1>5, <1>6

(* The first i objects of the list have been counted down, from s to x.    *)
FirstTicked(list, i) == {list[j] : j \in 1 .. i}

TickedSome(s, gone, x) ==
  /\ IdleGood(x)
  /\ \A b \in IdleObjects :
       \/ IdleHeld(x, b) = IdleHeld(s, b)
       \/ /\ b \in gone /\ Len(IdleHeld(s, b)) < IdleEnd[b] /\ x.moved = TIMEOUT_SIG
          /\ IdleHeld(x, b) = Append(IdleHeld(s, b), TIMEOUT_SIG)

LEMMA TickNext ==
  ASSUME NEW s, IdleGood(s), NEW i \in 1 .. Len(s.ticking), NEW x,
         TickedSome(s, FirstTicked(s.ticking, i - 1), x)
  PROVE  TickedSome(s, FirstTicked(s.ticking, i), Counted(x, s.ticking[i]))
  <1> DEFINE list == s.ticking
             a == list[i]
             gone == FirstTicked(list, i - 1)
             all == FirstTicked(list, i)
             r == Counted(x, a)
  <1>1. list \in Seq(IdleObjects) /\ IsInjective(list)
    BY IdleFields DEF IdleGood
  <1>2. Len(list) \in Nat /\ DOMAIN list = 1 .. Len(list) /\ a \in IdleObjects
    BY <1>1, LenProperties, ElementOfSeq
  <1>3. a \notin gone
    BY <1>1, <1>2 DEF IsInjective, FirstTicked
  <1>4. gone \subseteq all /\ a \in all
    <2>1. \A j \in 1 .. i - 1 : j \in 1 .. i
      BY <1>2
    <2>2. i \in 1 .. i
      BY <1>2
    <2> QED BY <2>1, <2>2 DEF FirstTicked
  <1> HIDE DEF gone, all, r
  <1>5. TickPosted(x, r, a)
    <2> HIDE DEF a
    <2> QED BY <1>2, CountedStep DEF TickedSome, r
  <1>6. IdleHeld(x, a) = IdleHeld(s, a)
    BY <1>2, <1>3 DEF TickedSome, gone
  <1>7. TickedSome(s, gone, x)
    BY DEF gone
  <1> HIDE DEF a
  <1>8. TickedSome(s, all, r)
    <2> SUFFICES ASSUME NEW b \in IdleObjects
                 PROVE  \/ IdleHeld(r, b) = IdleHeld(s, b)
                        \/ /\ b \in all /\ Len(IdleHeld(s, b)) < IdleEnd[b] /\ r.moved = TIMEOUT_SIG
                           /\ IdleHeld(r, b) = Append(IdleHeld(s, b), TIMEOUT_SIG)
      BY <1>5 DEF TickedSome, TickPosted
    <2>1. CASE b = a
      BY <1>4, <1>5, <1>6, <2>1 DEF TickPosted
    <2>2. CASE b # a
      <3>1. IdleHeld(r, b) = IdleHeld(x, b)
        BY <1>5, <2>2 DEF TickPosted
      <3>2. r.moved = x.moved \/ r.moved = TIMEOUT_SIG
        BY <1>5 DEF TickPosted
      <3>3. \/ IdleHeld(x, b) = IdleHeld(s, b)
            \/ /\ b \in gone /\ Len(IdleHeld(s, b)) < IdleEnd[b] /\ x.moved = TIMEOUT_SIG
               /\ IdleHeld(x, b) = Append(IdleHeld(s, b), TIMEOUT_SIG)
        BY <1>7 DEF TickedSome
      <3> QED BY <1>4, <3>1, <3>2, <3>3
    <2> QED BY <2>1, <2>2
  <1> QED BY <1>8 DEF all, r, a

LEMMA TickRounds ==
  ASSUME NEW s, NEW list, Len(list) \in Nat,
         NEW S, NEW G \in [0 .. Len(list) -> SUBSET S], s \in G[0],
         \A i \in 1 .. Len(list) : \A x \in G[i - 1] : Counted(x, list[i]) \in G[i],
         NEW h,
         h = CHOOSE g : g = [i \in 0 .. Len(list) |->
                               IF i = 0 THEN s ELSE Counted(g[i - 1], list[i])]
  PROVE  h[Len(list)] \in G[Len(list)]
  <1> DEFINE N == Len(list)
             E(g) == [i \in 0 .. N |-> IF i = 0 THEN s ELSE Counted(g[i - 1], list[i])]
             F == [i \in 1 .. N |-> [x \in S |-> Counted(x, list[i])]]
  <1>2. \A i \in 1 .. N : i - 1 \in 0 .. N /\ i \in 0 .. N /\ i # 0
    OBVIOUS
  <1>3. \A i \in 1 .. N : \A x \in G[i - 1] : F[i][x] = Counted(x, list[i])
    BY <1>2
  <1>4. PICK g : Iterates(g, S, N, F, s) /\ \A i \in 0 .. N : g[i] \in G[i]
    <2>1. \A i \in 1 .. N : \A x \in G[i - 1] : F[i][x] \in G[i]
      BY <1>3
    <2>2. Staged(S, N, G, F)
      BY <2>1 DEF Staged
    <2>3. N \in Nat /\ s \in G[0]
      OBVIOUS
    <2> HIDE DEF F, E, N
    <2> QED BY <2>2, <2>3, Stages
  <1>5. /\ g \in [0 .. N -> S] /\ g[0] = s
        /\ \A i \in 1 .. N : g[i] = Counted(g[i - 1], list[i])
    BY <1>2, <1>3, <1>4 DEF Iterates
  <1> HIDE DEF F
  <1>6. g = E(g)
    BY <1>2, <1>5
  <1>7. h = E(h)
    <2>1. h = CHOOSE f : f = E(f)
      OBVIOUS
    <2> HIDE DEF E
    <2> QED BY <1>6, <2>1
  <1>8. h[0] = s /\ \A i \in 1 .. N : h[i] = Counted(h[i - 1], list[i])
    <2>1. E(h)[0] = s /\ \A i \in 1 .. N : E(h)[i] = Counted(h[i - 1], list[i])
      BY <1>2
    <2> HIDE DEF E
    <2> QED BY <1>7, <2>1
  <1> HIDE DEF E
  <1> DEFINE T == {i \in 0 .. N : h[i] = g[i]}
  <1>9. 0 \in T
    BY <1>5, <1>8
  <1>10. \A i \in 1 .. N : i - 1 \in T => i \in T
    BY <1>2, <1>5, <1>8
  <1>11. \A i \in 0 .. N : i \in T
    <2> HIDE DEF T
    <2> QED BY <1>9, <1>10, Rounds
  <1> QED BY <1>4, <1>11

(* The tick: some objects have their timeout behind all they had.          *)
LEMMA TickStep ==
  ASSUME IdleInv, idle_tick_isr
  PROVE  TickedSome(idle, IdleObjects, idle')
  <1> DEFINE list == idle.ticking
             N == Len(list)
             S == IdleRecord
             G == [i \in 0 .. N |-> {x \in S : TickedSome(idle, FirstTicked(list, i), x)}]
             h == CHOOSE g : g = [i \in 0 .. Len(list) |->
                                    IF i = 0 THEN idle ELSE Counted(g[i - 1], list[i])]
  <1>1. idle' = h[N]
    BY DEF idle_tick_isr
  <1>2. IdleGood(idle) /\ idle \in S /\ list \in Seq(IdleObjects)
    BY IdleFields DEF IdleInv, IdleGood
  <1>3. N \in Nat /\ DOMAIN list = 1 .. N
    BY <1>2, LenProperties
  <1>4. idle \in G[0]
    <2>1. TickedSome(idle, FirstTicked(list, 0), idle)
      BY <1>2 DEF TickedSome
    <2> QED BY <1>2, <1>3, <2>1
  <1>5. ASSUME NEW i \in 1 .. N, NEW x \in G[i - 1] PROVE Counted(x, list[i]) \in G[i]
    <2>1. i - 1 \in 0 .. N /\ i \in 0 .. N
      BY <1>3
    <2>2. TickedSome(idle, FirstTicked(list, i - 1), x)
      BY <2>1
    <2>3. TickedSome(idle, FirstTicked(list, i), Counted(x, list[i]))
      <3> HIDE DEF G
      <3> QED BY <1>2, <2>2, TickNext
    <2>4. Counted(x, list[i]) \in S
      BY <2>3 DEF TickedSome, IdleGood
    <2> QED BY <2>1, <2>3, <2>4
  <1>6. G \in [0 .. N -> SUBSET S]
    OBVIOUS
  <1>7. h[N] \in G[N]
    <2> DEFINE k == h
    <2>1. k = CHOOSE g : g = [i \in 0 .. Len(list) |->
                                IF i = 0 THEN idle ELSE Counted(g[i - 1], list[i])]
      OBVIOUS
    <2> HIDE DEF G, S, h, list, k
    <2>2. k[Len(list)] \in G[Len(list)]
      BY <1>3, <1>4, <1>5, <1>6, <2>1, TickRounds
    <2> QED BY <2>2 DEF k
  <1> HIDE DEF h
  <1>8. TickedSome(idle, FirstTicked(list, N), idle')
    BY <1>1, <1>3, <1>7
  <1>9. FirstTicked(list, N) \subseteq IdleObjects
    BY <1>2, <1>3, ElementOfSeq DEF FirstTicked
  <1> QED BY <1>8, <1>9 DEF TickedSome

-----------------------------------------------------------------------------

(* What a step does to the events of the objects.                          *)
Took(s, r) ==
  \E a \in IdleObjects :
    /\ \A b \in IdleObjects \ {a} : IdleHeld(r, b) = IdleHeld(s, b)
    /\ IdleHeld(s, a) = <<r.moved>> \o IdleHeld(r, a)
    /\ \A b \in IdleObjects : b < a => IdleHeld(s, b) = <<>>

FirstListed(s) ==
  raw_idle_map_table(s.grp) + raw_idle_map_table(s.tbl[raw_idle_map_table(s.grp) \div 8])

(* s after the idle task has given the first event of a.                   *)
FirstGiven(s, a) ==
  LET left == s.tbl[Row(a)] \ {Column(a)}
      t    == [s EXCEPT !.nUsed[a] = @ - 1, !.moved = s.queue[a][s.tail[a]],
                        !.tail[a] = PlaceBehind(s.tail[a], IdleEnd[a])]
  IN  IF t.nUsed[a] > 0 THEN t
      ELSE [t EXCEPT !.tbl[Row(a)] = left,
                     !.grp = IF left = {} THEN @ \ {Row(a)} ELSE @]

LEMMA RunGives ==
  ASSUME idle_run
  PROVE  idle.grp # {} /\ idle' = FirstGiven(idle, FirstListed(idle))
  BY DEF idle_run, FirstGiven, FirstListed, PlaceBehind

LEMMA RunStep ==
  ASSUME IdleInv, idle_run
  PROVE  IdleInv' /\ Took(idle, idle')
  <1> DEFINE m == Min(idle.grp)
             a == 8 * m
             ring == idle.queue[a]
             first == idle.tail[a]
             count == idle.nUsed[a]
             size == IdleEnd[a]
             on == PlaceBehind(first, size)
             e == ring[first]
             put == [idle EXCEPT !.nUsed[a] = count - 1, !.moved = e, !.tail[a] = on]
             bare == [put EXCEPT !.tbl[m] = {}, !.grp = @ \ {m}]
             r == idle'
  <1>1. IdleGood(idle) /\ idle \in IdleRecord /\ RingsGood(idle) /\ BitsGood(idle)
    BY DEF IdleInv, IdleGood
  <1>2. idle.grp # {} /\ idle.grp \in SUBSET (0 .. 7)
        /\ idle.tbl \in [0 .. 7 -> SUBSET (0 .. 7)]
    BY <1>1, IdleFields DEF idle_run
  <1>3. m \in idle.grp /\ m \in 0 .. 7 /\ \A y \in idle.grp : m <= y
    BY <1>2, MinLemma
  <1> HIDE DEF m
  <1>4. idle.tbl[m] = {0} /\ a \in IdleObjects
    BY <1>1, <1>3 DEF BitsGood
  <1>5. Row(a) = m /\ Column(a) = 0 /\ size \in 1 .. 255
    BY <1>3, <1>4, IdleObject
  <1>6. count > 0
    BY <1>1, <1>4, <1>5 DEF BitsGood
  <1>7. /\ EventRing(ring, size, first, count) /\ idle.head[a] = (first + count) % size
        /\ count \in Nat
    BY <1>1, <1>4, IdleFields DEF RingsGood
  <1>8. TakenOut(ring, size, first, count)
    <2>1. EventFound(ring, size, first, count)
      BY <1>6, <1>7 DEF EventFound
    <2> HIDE DEF ring, size, first, count
    <2> QED BY <2>1, EventOut
  <1>9. /\ EventRing(ring, size, on, count - 1)
        /\ EventsFrom(ring, size, first, count) = <<e>> \o EventsFrom(ring, size, on, count - 1)
        /\ (on + (count - 1)) % size = (first + count) % size
        /\ e \in Signals
    <2> HIDE DEF ring, size, first, count
    <2> QED BY <1>8 DEF TakenOut
  <1>10. idle' = IF put.nUsed[a] > 0 THEN put
                 ELSE [put EXCEPT !.tbl[m] = idle.tbl[m] \ {0},
                                  !.grp = IF idle.tbl[m] \ {0} = {} THEN @ \ {m} ELSE @]
    <2>1. raw_idle_map_table(idle.grp) = 8 * m /\ (8 * m) \div 8 = m
      BY <1>2, <1>3 DEF raw_idle_map_table, m
    <2>2. raw_idle_map_table({0}) = 0
      <3>1. {0} \subseteq Nat /\ {0} # {}
        OBVIOUS
      <3>2. Min({0}) = 0
        BY <3>1, MinLemma
      <3> QED BY <3>2 DEF raw_idle_map_table
    <2>3. FirstListed(idle) = a
      <3> HIDE DEF a
      <3>1. 8 * m + 0 = a
        BY <1>3 DEF a
      <3> QED BY <1>4, <2>1, <2>2, <3>1 DEF FirstListed
    <2>4. idle' = FirstGiven(idle, a)
      <3> HIDE DEF a
      <3> QED BY <2>3, RunGives
    <2> DEFINE left == idle.tbl[m] \ {0}
    <2>5. FirstGiven(idle, a) = IF put.nUsed[a] > 0 THEN put
                              ELSE [put EXCEPT !.tbl[m] = left,
                                               !.grp = IF left = {} THEN @ \ {m} ELSE @]
      <3> HIDE DEF a
      <3> QED BY <1>5 DEF FirstGiven
    <2> QED BY <2>4, <2>5
  <1>11. count - 1 \in Nat /\ on \in Nat
    <2>1. count - 1 \in Nat
      BY <1>6, <1>7
    <2> HIDE DEF ring, size, on, count, a
    <2>2. on \in 0 .. size - 1 /\ size \in Nat
      BY <1>9 DEF EventRing
    <2> QED BY <2>1, <2>2
  <1> HIDE DEF a, on, e
  <1>12. /\ put \in IdleRecord
         /\ put.queue = idle.queue /\ put.tail = [idle.tail EXCEPT ![a] = on]
         /\ put.head = idle.head /\ put.nUsed = [idle.nUsed EXCEPT ![a] = count - 1]
         /\ put.grp = idle.grp /\ put.tbl = idle.tbl /\ put.moved = e
         /\ put.ticking = idle.ticking /\ put.nUsed[a] = count - 1
    BY <1>1, <1>4, <1>9, <1>11 DEF IdleRecord
  <1> HIDE DEF put
  <1>13. /\ bare \in IdleRecord
         /\ bare.queue = put.queue /\ bare.tail = put.tail
         /\ bare.head = put.head /\ bare.nUsed = put.nUsed
         /\ bare.grp = idle.grp \ {m} /\ bare.tbl = [idle.tbl EXCEPT ![m] = {}]
         /\ bare.moved = put.moved /\ bare.ticking = put.ticking
    <2>1. idle.grp \ {m} \in SUBSET (0 .. 7) /\ [idle.tbl EXCEPT ![m] = {}] \in [0 .. 7 -> SUBSET (0 .. 7)]
      BY <1>2
    <2>2. bare = [put EXCEPT !.tbl = [idle.tbl EXCEPT ![m] = {}], !.grp = idle.grp \ {m}]
      BY <1>12 DEF IdleRecord
    <2> QED BY <1>12, <2>1, <2>2 DEF IdleRecord
  <1> HIDE DEF bare
  <1>14. r = IF count - 1 > 0 THEN put ELSE bare
    <2>1. idle.tbl[m] \ {0} = {}
      BY <1>4
    <2> QED BY <1>10, <1>12, <2>1 DEF bare
  <1> HIDE DEF r
  <1>15. /\ r \in IdleRecord
         /\ r.queue = idle.queue /\ r.tail = [idle.tail EXCEPT ![a] = on]
         /\ r.head = idle.head /\ r.nUsed = [idle.nUsed EXCEPT ![a] = count - 1]
         /\ r.moved = e /\ r.ticking = idle.ticking
    BY <1>12, <1>13, <1>14
  <1>16. RingPut(idle, r, a, ring, on, count - 1)
    <2>1. idle.queue = [idle.queue EXCEPT ![a] = ring]
      BY <1>1, IdleFields
    <2>2. idle.head = [idle.head EXCEPT ![a] = (on + (count - 1)) % IdleEnd[a]]
      <3>1. idle.head[a] = (on + (count - 1)) % IdleEnd[a]
        BY <1>7, <1>9
      <3>2. idle.head \in [IdleObjects -> Nat]
        BY <1>1, IdleFields
      <3> QED BY <3>1, <3>2
    <2> QED BY <1>15, <2>1, <2>2 DEF RingPut
  <1>17. /\ RingsGood(r)
         /\ IdleHeld(r, a) = EventsFrom(ring, IdleEnd[a], on, count - 1)
         /\ \A b \in IdleObjects \ {a} : IdleHeld(r, b) = IdleHeld(idle, b)
    <2>1. EventRing(ring, IdleEnd[a], on, count - 1)
      BY <1>9
    <2> HIDE DEF count, size, ring
    <2> QED BY <1>1, <1>4, <1>16, <2>1, RingChanged
  <1>18. r.nUsed[a] = count - 1 /\ \A b \in IdleObjects \ {a} : r.nUsed[b] = idle.nUsed[b]
    BY <1>1, <1>4, <1>15, IdleFields
  <1>19. BitsGood(r)
    <2>1. CASE count - 1 > 0
      <3>1. r.grp = idle.grp /\ r.tbl = idle.tbl
        BY <1>12, <1>14, <2>1
      <3>2. \A b \in IdleObjects : r.nUsed[b] > 0 <=> idle.nUsed[b] > 0
        BY <1>6, <1>18, <2>1
      <3> QED BY <1>1, <3>1, <3>2 DEF BitsGood
    <2>2. CASE ~(count - 1 > 0)
      <3>1. r = bare
        BY <1>14, <2>2
      <3>2. r.grp = idle.grp \ {m} /\ r.tbl[m] = {} /\ \A y \in 0 .. 7 \ {m} : r.tbl[y] = idle.tbl[y]
        BY <1>2, <1>3, <1>13, <3>1
      <3>3. \A y \in 0 .. 7 : y \in r.grp <=> r.tbl[y] # {}
        BY <1>1, <3>2 DEF BitsGood
      <3>4. \A b \in IdleObjects : r.nUsed[b] > 0 <=> Column(b) \in r.tbl[Row(b)]
        <4> SUFFICES ASSUME NEW b \in IdleObjects
                     PROVE  r.nUsed[b] > 0 <=> Column(b) \in r.tbl[Row(b)]
          OBVIOUS
        <4>1. CASE b = a
          BY <1>5, <1>18, <2>2, <3>2, <4>1
        <4>2. CASE b # a
          <5>1. Row(b) \in 0 .. 7 \ {m}
            BY <1>4, <1>5, <4>2, IdleObject, OtherRow
          <5> QED BY <1>1, <1>18, <3>2, <4>2, <5>1 DEF BitsGood
        <4> QED BY <4>1, <4>2
      <3>5. \A y \in 0 .. 7 : \A x \in r.tbl[y] : x = 0 /\ 8 * y \in IdleObjects
        <4> SUFFICES ASSUME NEW y \in 0 .. 7, NEW x \in r.tbl[y]
                     PROVE  x = 0 /\ 8 * y \in IdleObjects
          OBVIOUS
        <4>1. x \in idle.tbl[y]
          BY <3>2
        <4> QED BY <1>1, <4>1 DEF BitsGood
      <3> QED BY <3>3, <3>4, <3>5 DEF BitsGood
    <2> QED BY <2>1, <2>2
  <1>20. IdleGood(r)
    <2>1. IsInjective(idle.ticking)
      BY <1>1 DEF IdleGood
    <2> QED BY <1>15, <1>17, <1>19, <2>1 DEF IdleGood
  <1>21. IdleHeld(idle, a) = <<r.moved>> \o IdleHeld(r, a)
    <2>1. IdleHeld(idle, a) = EventsFrom(ring, size, first, count)
      BY IdleHeldIs
    <2> QED BY <1>9, <1>15, <1>17, <2>1
  <1>22. ASSUME NEW b \in IdleObjects, b < a PROVE IdleHeld(idle, b) = <<>>
    <2>1. Row(b) \in 0 .. 7 /\ Column(b) = 0 /\ b = 8 * Row(b)
      BY IdleObject
    <2>2. Row(b) < m
      BY <1>3, <1>22, <2>1 DEF a
    <2>3. Row(b) \notin idle.grp
      BY <1>2, <1>3, <2>1, <2>2
    <2>4. idle.nUsed[b] = 0
      <3>1. idle.tbl[Row(b)] = {}
        BY <1>1, <2>1, <2>3 DEF BitsGood
      <3>2. ~(idle.nUsed[b] > 0)
        BY <1>1, <3>1 DEF BitsGood
      <3>3. idle.nUsed[b] \in Nat
        BY <1>1, IdleFields
      <3> QED BY <3>2, <3>3
    <2>5. IdleHeld(idle, b) \in Seq(Signals) /\ Len(IdleHeld(idle, b)) = 0
      BY <1>1, <2>4, IdleHeldLength
    <2> QED BY <2>5, EmptySeq
  <1>23. Took(idle, r)
    BY <1>4, <1>17, <1>21, <1>22 DEF Took
  <1> QED BY <1>20, <1>23 DEF IdleInv, r

LEMMA StartStep ==
  ASSUME IdleInv, NEW a \in IdleObjects, NEW n \in 0 .. TickMax, IdleTickStart(a, n)
  PROVE  IdleInv' /\ \A b : IdleHeld(idle', b) = IdleHeld(idle, b)
  <1>1. n \in Nat
    BY IdleAssumption
  <1>2. /\ IdleGood(idle) /\ idle \in IdleRecord
        /\ idle.ticking \in Seq(IdleObjects) /\ IsInjective(idle.ticking)
    BY IdleFields DEF IdleInv, IdleGood
  <1>3. a \notin ToSet(idle.ticking)
    BY DEF IdleTickStart, ToSet, Range
  <1>4. Append(idle.ticking, a) \in Seq(IdleObjects) /\ IsInjective(Append(idle.ticking, a))
    BY <1>2, <1>3, AppendLemma
  <1>5. idle' = [idle EXCEPT !.tick_ctr[a] = n, !.ticking = Append(idle.ticking, a)]
    BY <1>2 DEF IdleTickStart, IdleRecord
  <1>6. TickPut(idle, idle', a, n, Append(idle.ticking, a))
    BY <1>5 DEF TickPut
  <1>7. IdleGood(idle') /\ \A b : IdleHeld(idle', b) = IdleHeld(idle, b)
    <2> DEFINE list == Append(idle.ticking, a)
    <2>1. list \in Seq(IdleObjects) /\ IsInjective(list) /\ TickPut(idle, idle', a, n, list)
      BY <1>4, <1>6
    <2> HIDE DEF list
    <2> QED BY <1>1, <1>2, <2>1, TickChanged
  <1> QED BY <1>7 DEF IdleInv

LEMMA IdlePostStep ==
  ASSUME IdleInv, NEW a \in IdleObjects, NEW e \in IdleEvents,
         idle_event_end_post(a, e) \/ idle_event_front_post(a, e)
  PROVE  /\ IdleInv' /\ idle'.moved = e
         /\ \A b \in IdleObjects \ {a} : IdleHeld(idle', b) = IdleHeld(idle, b)
         /\ Len(IdleHeld(idle, a)) < IdleEnd[a]
         /\ IdleHeld(idle', a) \in {Append(IdleHeld(idle, a), e), <<e>> \o IdleHeld(idle, a)}
  <1>1. PICK end \in BOOLEAN : ~IdleExhausted(idle, a) /\ idle' = event_post(idle, a, e, end)
    BY DEF idle_event_end_post, idle_event_front_post
  <1>2. e \in Signals /\ IdleGood(idle)
    BY DEF Signals, IdleInv
  <1> QED BY <1>1, <1>2, PostStep DEF Posted, IdleInv

LEMMA IdleStart == IdleInit => IdleInv
  <1> SUFFICES ASSUME IdleInit PROVE IdleGood(idle)
    BY DEF IdleInv
  <1> DEFINE zero == [b \in IdleObjects |-> 0]
             free == [b \in IdleObjects |-> [i \in 0 .. IdleEnd[b] - 1 |-> NoSig]]
             none == [y \in 0 .. 7 |-> {}]
  <1>1. idle = [head |-> zero, tail |-> zero, nUsed |-> zero, tick_ctr |-> zero,
                queue |-> free, grp |-> {}, tbl |-> none, ticking |-> <<>>, moved |-> NoSig]
    BY DEF IdleInit, idle_event_init
  <1>2. NoSig \in Signals
    BY DEF Signals
  <1>3. ASSUME NEW a \in IdleObjects
        PROVE  EventRing(free[a], IdleEnd[a], 0, 0) /\ 0 = (0 + 0) % IdleEnd[a]
    <2> DEFINE end == IdleEnd[a]
    <2>1. end \in Nat \ {0}
      BY IdleObject
    <2>2. free[a] = [i \in 0 .. end - 1 |-> NoSig]
      OBVIOUS
    <2> HIDE DEF end, free
    <2>3. 0 \in 0 .. end - 1 /\ 0 \in 0 .. end
      BY <2>1
    <2>4. (0 + 0) % end = 0
      BY <2>1
    <2> QED BY <1>2, <2>1, <2>2, <2>3, <2>4 DEF EventRing, end
  <1>4. zero \in [IdleObjects -> Nat] /\ none \in [0 .. 7 -> SUBSET (0 .. 7)]
    OBVIOUS
  <1>5. free \in [IdleObjects -> RingArrays]
    <2>1. \A a \in IdleObjects : free[a] \in RingArrays
      BY <1>3, RingIsArray
    <2> QED BY <2>1
  <1>6. \A a \in IdleObjects : zero[a] = 0
    OBVIOUS
  <1>7. \A y \in 0 .. 7 : none[y] = {}
    OBVIOUS
  <1> HIDE DEF zero, free, none
  <1>8. idle \in IdleRecord
    BY <1>1, <1>2, <1>4, <1>5 DEF IdleRecord
  <1>9. RingsGood(idle)
    BY <1>1, <1>3, <1>6 DEF RingsGood
  <1>10. BitsGood(idle)
    <2>1. \A a \in IdleObjects : Row(a) \in 0 .. 7
      BY IdleObject
    <2> QED BY <1>1, <1>6, <1>7, <2>1 DEF BitsGood
  <1>11. IsInjective(idle.ticking)
    BY <1>1 DEF IsInjective
  <1> QED BY <1>8, <1>9, <1>10, <1>11 DEF IdleGood

(* IdleNext by what it leaves behind, and what it does to the events.      *)
LEMMA IdleStepLemma ==
  ASSUME IdleInv, [IdleNext]_idle
  PROVE  IdleInv' /\ IdleStep
  <1>1. ASSUME NEW a \in IdleObjects, NEW e \in IdleEvents,
               idle_event_end_post(a, e) \/ idle_event_front_post(a, e)
        PROVE  IdleInv' /\ IdleStep
    BY <1>1, IdlePostStep DEF IdleStep
  <1>2. ASSUME NEW a \in IdleObjects, NEW n \in 0 .. TickMax, IdleTickStart(a, n)
        PROVE  IdleInv' /\ IdleStep
    BY <1>2, StartStep DEF IdleStep
  <1>3. CASE idle_tick_isr
    BY <1>3, TickStep DEF TickedSome, IdleInv, IdleStep
  <1>4. CASE idle_run
    BY <1>4, RunStep DEF Took, IdleStep
  <1>5. CASE UNCHANGED idle
    BY <1>5 DEF IdleInv, IdleStep
  <1> QED BY <1>1, <1>2, <1>3, <1>4, <1>5 DEF IdleNext

(* At every moment an object has its bits in the table when it has events, *)
(* for all objects and lengths of their rings: no event waits where the    *)
(* idle task does not look.                                                *)
THEOREM NoEventIsOverlooked == IdleSpec => []ReadyAreListed
  <1>1. IdleInv => ReadyAreListed
    BY DEF IdleInv, IdleGood, BitsGood, ReadyAreListed
  <1>2. IdleInv /\ [IdleNext]_idle => IdleInv'
    BY IdleStepLemma
  <1> QED BY <1>1, <1>2, IdleStart, PTL DEF IdleSpec

(* The events of an object are given in the order in which posts put them, *)
(* those of the lowest object first, and no step moves or loses one that   *)
(* is in a ring, also when a tick posts to many objects at once.           *)
THEOREM IdleEventsAreGivenInOrder == IdleSpec => [][IdleStep]_idle
  <1>1. IdleInv /\ [IdleNext]_idle => IdleInv' /\ IdleStep
    BY IdleStepLemma
  <1> QED BY <1>1, IdleStart, PTL DEF IdleSpec
=============================================================================
