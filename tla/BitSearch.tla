------------------------------ MODULE BitSearch ------------------------------
(***************************************************************************)
(* The bitmap of the run queue as it lies in memory: bit_set and bit_clear *)
(* of raw_pend.c work on its bytes, bit_search_first_one of raw_system.c   *)
(* reads it word by word (little endian) and halves each word.  A byte or  *)
(* a word is the set of the positions of its set bits.                     *)
(***************************************************************************)
EXTENDS Integers, SequencesExt

CONSTANTS LOG_WORD,  \* a word has 2^LOG_WORD bits (5)
          LOG_BYTE,  \* a byte has 2^LOG_BYTE bits (3)
          PRIO_MAX,  \* CONFIG_RAW_PRIO_MAX, the bits in use
          MaxBits    \* bound on the bits that are set at one time

ASSUME BitSearchAssumption ==
  /\ LOG_WORD \in Nat /\ LOG_BYTE \in 0 .. LOG_WORD
  /\ PRIO_MAX \in Nat \ {0}
  /\ MaxBits \in Nat

WORD == 2 ^ LOG_WORD
BYTE == 2 ^ LOG_BYTE
NUM_WORDS == (PRIO_MAX + WORD - 1) \div WORD
Prios == 0 .. PRIO_MAX - 1

VARIABLES task_bit_map,  \* the bytes of the words of the bitmap
          beyond,        \* the word that lies behind them
          ready          \* what the bitmap stands for: the priorities set

bitvars == <<task_bit_map, beyond, ready>>

Bytes == 0 .. NUM_WORDS * (WORD \div BYTE) - 1

(* What follows the bitmap in RAW_RUN_QUEUE is highest_priority. *)
BitInit ==
  /\ task_bit_map = [i \in Bytes |-> {}]
  /\ beyond \in {{}, 0 .. WORD - 1}
  /\ ready = {}

bit_set(map, offset) == [map EXCEPT ![offset \div BYTE] = @ \cup {offset % BYTE}]

bit_clear(map, offset) == [map EXCEPT ![offset \div BYTE] = @ \ {offset % BYTE}]

Set(p) ==
  /\ Cardinality(ready) < MaxBits
  /\ task_bit_map' = bit_set(task_bit_map, p)
  /\ ready' = ready \cup {p}
  /\ UNCHANGED beyond

Clear(p) ==
  /\ task_bit_map' = bit_clear(task_bit_map, p)
  /\ ready' = ready \ {p}
  /\ UNCHANGED beyond

BitNext == \E p \in Prios : Set(p) \/ Clear(p)

-----------------------------------------------------------------------------

(* cp[i]: the i-th word from base on, of which NUM_WORDS belong to it.     *)
Word(i) ==
  IF i >= NUM_WORDS THEN beyond
  ELSE {b \in 0 .. WORD - 1 :
          b % BYTE \in task_bit_map[(i * WORD + b) \div BYTE]}

(* One halving: if the n low bits are clear, look at the rest. *)
Halve(acc, n) ==
  IF acc.v \cap (0 .. n - 1) # {} THEN acc
  ELSE [v |-> {b - n : b \in acc.v}, position |-> acc.position + n]

Halves == [i \in 1 .. LOG_WORD |-> 2 ^ (LOG_WORD - i)]

(* Fault: a search that starts inside a word counts all of it. *)
PositionAt_whole(offset, i) == (i - offset \div WORD) * WORD

(* The value of position when the search reaches word i: 0 at the first,   *)
(* whose bits below offset are masked out.                                 *)
PositionAt(offset, i) ==
  LET first == offset \div WORD
  IN  IF i = first THEN 0 ELSE (i - first) * WORD - (offset % WORD)

Visible(offset, i) ==
  IF i = offset \div WORD THEN Word(i) \ (0 .. (offset % WORD) - 1) ELSE Word(i)

(* The index of the first set bit at or after offset, relative to offset,  *)
(* or -1 if there is none among width bits.                                *)
bit_search_first_one(offset, width) ==
  LET words == {i \in (offset \div WORD) .. NUM_WORDS :
                  PositionAt(offset, i) < width /\ Visible(offset, i) # {}}
      i     == Min(words)
      p     == PositionAt(offset, i)
      start == IF p = 0 THEN -(offset % WORD) ELSE p
      found == FoldLeft(Halve, [v |-> Visible(offset, i), position |-> start],
                        Halves).position
  IN  IF words # {} /\ found < width THEN found ELSE -1

-----------------------------------------------------------------------------

(* Every field has its type. *)
BitTypeOK ==
  /\ task_bit_map \in [Bytes -> SUBSET (0 .. BYTE - 1)]
  /\ beyond \subseteq 0 .. WORD - 1
  /\ ready \subseteq Prios

(* remove_ready_list searches from the priority that emptied; it gets the  *)
(* next ready priority, or -1 if none is left, from wherever it starts,    *)
(* across words, and whatever lies behind the bitmap.  RawRunQueue builds  *)
(* on this: its FirstSetBit is the reference definition here.              *)
SearchFindsNext ==
  \A offset \in Prios :
    LET later == {p \in ready : p >= offset}
    IN  bit_search_first_one(offset, PRIO_MAX - offset)
          = IF later = {} THEN -1 ELSE Min(later) - offset
=============================================================================
