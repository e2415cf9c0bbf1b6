------------------------------- MODULE RawFifo -------------------------------
(***************************************************************************)
(* The rings of bytes of the extension library.  in and out count all      *)
(* bytes that ever passed, modulo the width of the counters; the place of  *)
(* a byte is its number modulo the size.  The services of fifo.c run with  *)
(* interrupts disabled, those of fifo_lock.c between the two functions     *)
(* that their caller passes, which may let other tasks run: there copying  *)
(* and counting are two steps.                                             *)
(***************************************************************************)
EXTENDS Integers, SequencesExt, FiniteSetsExt

CONSTANTS
  FIFO_SIZE,   \* size of the ring, a power of two
  FIFO_INDEX,  \* in and out are counted modulo FIFO_INDEX (2^32)
  FifoBytes,   \* values of a byte
  FifoTasks,   \* the tasks that share a ring of fifo_lock.c
  NoTask

ASSUME FifoAssumption ==
  /\ FIFO_SIZE \in Nat \ {0} /\ \E k \in 0 .. 30 : FIFO_SIZE = 2 ^ k
  /\ FIFO_INDEX \in Nat /\ FIFO_SIZE < FIFO_INDEX /\ FIFO_INDEX % FIFO_SIZE = 0
  /\ NoTask \notin FifoTasks

VARIABLE
  fifo   \* in, out, free_bytes, data; moved, asked: what the last call
         \* copied and was asked for; user_lock: it is one of fifo_lock.c;
         \* locked: the task that has the lock, and what it has copied

NobodyIn == [task |-> NoTask, in |-> 0, out |-> 0, moved |-> <<>>, asked |-> 0]

fifo_init(lock) ==
  [user_lock |-> lock, in |-> 0, out |-> 0, free_bytes |-> FIFO_SIZE,
   data |-> [i \in 0 .. FIFO_SIZE - 1 |-> CHOOSE b \in FifoBytes : TRUE],
   moved |-> <<>>, asked |-> 0,
   locked |-> NobodyIn]

fifo_unused(f) == FIFO_SIZE - ((f.in - f.out) % FIFO_INDEX)

-----------------------------------------------------------------------------


(* The first bytes go up to the end of the ring, the others to its start.  *)
fifo_copy_in(f, src) ==
  LET off == f.in % FIFO_SIZE
      l   == Min({Len(src), FIFO_SIZE - off})
  IN  [i \in DOMAIN f.data |->
         CASE i \in off .. off + l - 1 -> src[i - off + 1]
           [] i < Len(src) - l         -> src[l + i + 1]
           [] OTHER                    -> f.data[i]]

kfifo_copy_out(f, len) ==
  LET off == f.out % FIFO_SIZE
      l   == Min({len, FIFO_SIZE - off})
  IN  [i \in 1 .. len |-> f.data[IF i <= l THEN off + i - 1 ELSE i - l - 1]]

internal_fifo_out_peek(f, len) ==
  kfifo_copy_out(f, Min({len, (f.in - f.out) % FIFO_INDEX}))

Accepted(f, src) == SubSeq(src, 1, Min({Len(src), fifo_unused(f)}))

Plus(i, n) == (i + n) % FIFO_INDEX

-----------------------------------------------------------------------------
(* fifo.c *)

fifo_in(src) ==
  LET put == Accepted(fifo, src)
  IN  fifo' = [fifo EXCEPT !.data = fifo_copy_in(fifo, put), !.in = Plus(@, Len(put)),
                           !.free_bytes = @ - Len(put),
                           !.moved = put, !.asked = Len(src)]

fifo_out_peek(len) ==
  fifo' = [fifo EXCEPT !.moved = internal_fifo_out_peek(fifo, len), !.asked = len]

fifo_out(len) ==
  LET got == internal_fifo_out_peek(fifo, len)
  IN  fifo' = [fifo EXCEPT !.out = Plus(@, Len(got)), !.free_bytes = @ + Len(got),
                           !.moved = got, !.asked = len]

fifo_out_all ==
  /\ FIFO_SIZE - fifo.free_bytes > 0
  /\ fifo_out(FIFO_SIZE - fifo.free_bytes)

-----------------------------------------------------------------------------
(* fifo_lock.c: t takes the lock of the user and copies.                   *)

Unlocked == fifo.locked.task = NoTask

fifo_lock_in(t, src) ==
  LET put == Accepted(fifo, src)
  IN  /\ Unlocked
      /\ fifo' = [fifo EXCEPT !.data = fifo_copy_in(fifo, put),
                              !.locked = [task |-> t, in |-> Len(put), out |-> 0,
                                          moved |-> put, asked |-> Len(src)]]

fifo_lock_out(t, len) ==
  LET got == internal_fifo_out_peek(fifo, len)
  IN  /\ Unlocked
      /\ fifo' = [fifo EXCEPT !.locked = [task |-> t, in |-> 0, out |-> Len(got),
                                          moved |-> got, asked |-> len]]

fifo_lock_out_all(t) ==
  /\ FIFO_SIZE - fifo.free_bytes > 0
  /\ fifo_lock_out(t, FIFO_SIZE - fifo.free_bytes)

fifo_lock_out_peek(len) == Unlocked /\ fifo_out_peek(len)

(* It counts what it copied, and gives the lock back. *)
fifo_lock_end ==
  LET l == fifo.locked
  IN  /\ ~Unlocked
      /\ fifo' = [fifo EXCEPT !.in = Plus(@, l.in), !.out = Plus(@, l.out),
                              !.free_bytes = @ - l.in + l.out,
                              !.moved = l.moved, !.asked = l.asked,
                              !.locked = NobodyIn]

-----------------------------------------------------------------------------

FifoInit == \E lock \in BOOLEAN : fifo = fifo_init(lock)

FifoNext ==
  \/ /\ ~fifo.user_lock
     /\ \/ \E src \in SeqOf(FifoBytes, FIFO_SIZE + 1) : fifo_in(src)
        \/ \E len \in 0 .. FIFO_SIZE + 1 : fifo_out(len) \/ fifo_out_peek(len)
        \/ fifo_out_all
  \/ /\ fifo.user_lock
     /\ \/ \E t \in FifoTasks, src \in SeqOf(FifoBytes, FIFO_SIZE + 1) : fifo_lock_in(t, src)
        \/ \E t \in FifoTasks, len \in 0 .. FIFO_SIZE + 1 :
             fifo_lock_out(t, len)
        \/ \E len \in 0 .. FIFO_SIZE + 1 : fifo_lock_out_peek(len)
        \/ \E t \in FifoTasks : fifo_lock_out_all(t)
        \/ fifo_lock_end

FifoSpec == FifoInit /\ [][FifoNext]_fifo

-----------------------------------------------------------------------------

(* The bytes between out and in, which is what the ring promises to keep.  *)
FifoHeld ==
  [i \in 1 .. (fifo.in - fifo.out) % FIFO_INDEX |-> fifo.data[(fifo.out + i - 1) % FIFO_SIZE]]

Fifo == INSTANCE Stream WITH held <- FifoHeld, moved <- fifo.moved, asked <- fifo.asked,
                             Capacity <- FIFO_SIZE

(* Every service puts in or takes out the oldest bytes, as many as there   *)
(* is room for or are there, while in and out wrap, each on its own.       *)
FifoStep == [Fifo!Next]_<<FifoHeld, fifo.moved, fifo.asked>>
=============================================================================
