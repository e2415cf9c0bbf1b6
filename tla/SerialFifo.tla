------------------------------ MODULE SerialFifo ------------------------------
(***************************************************************************)
(* The stream of bytes of a serial port.  A handler puts what it received  *)
(* into a block of a pool and posts the block to a queue; a reader, which  *)
(* holds the mutex even while it waits, empties the block it has, the      *)
(* stream, gives it back and receives the next.  Handlers come between     *)
(* any two calls of the kernel that a task makes.                          *)
(***************************************************************************)
EXTENDS Integers, SequencesExt, FiniteSetsExt

CONSTANTS
  SerialBlocks,  \* the blocks of the pool, as many as the queue has places
  SERIAL_BLOCK,  \* bytes of a block, cache_block_size
  SerialLens,    \* how many bytes are read or appended in one call
  BYTE_MOD       \* the bytes that arrive are numbered modulo BYTE_MOD

ASSUME SerialAssumption ==
  /\ 0 \notin SerialBlocks /\ SERIAL_BLOCK \in Nat \ {0}
  /\ SerialLens \subseteq Nat \ {0} /\ BYTE_MOD \in Nat \ {0}

VARIABLE
  serial   \* cache: the free blocks; content: what is in each; fifo: the
           \* queue; stream, pos, count: the reader's block and what is left
           \* of it; reader: the call that has the mutex; writer: the call of
           \* serial_fifo_append; moved: the bytes that the last step copied;
           \* next: the next byte to arrive; halted: an assertion loops, or the
           \* reader's block was given away

NoBlock == 0

(* SERIAL_NULL, which serial_fifo_read_abort posts. *)
AbortMark == 0

QUEUE_LEN == Cardinality(SerialBlocks)

NoReader == [pc |-> "idle", left |-> 0, forever |-> FALSE, rest |-> 0]
NoWriter == [left |-> 0, ptr |-> NoBlock, txlen |-> 0]

serial_fifo_init ==
  [cache |-> SerialBlocks, content |-> [b \in SerialBlocks |-> <<>>], fifo |-> <<>>,
   stream |-> NoBlock, pos |-> 0, count |-> 0, reader |-> NoReader, writer |-> NoWriter,
   moved |-> <<>>, next |-> 0, halted |-> FALSE]

Arriving(n) == [i \in 1 .. n |-> (serial.next + i - 1) % BYTE_MOD]

-----------------------------------------------------------------------------
(* Reading. *)

(* The call has all its bytes; one that wanted at least one byte goes on  *)
(* with those it need not wait for.                                        *)
Finished(r) ==
  IF r.rest > 0 THEN [NoReader EXCEPT !.pc = "copying", !.left = r.rest]
    ELSE NoReader

copy2buf(s, n) ==
  LET r == [s.reader EXCEPT !.left = @ - n]
  IN  [s EXCEPT !.moved = SubSeq(s.content[s.stream], s.pos, s.pos + n - 1),
                !.pos = @ + n, !.count = @ - n,
                !.reader = IF r.left = 0 THEN Finished(r) ELSE r]

Failed(s) ==
  [s EXCEPT !.stream = NoBlock, !.pos = 0, !.count = 0, !.moved = <<>>,
            !.reader = IF s.reader.pc = "draining" THEN NoReader ELSE Finished(s.reader)]

serial_read_noblock(len, forever) ==
  /\ serial.reader = NoReader
  /\ serial' = [serial EXCEPT !.moved = <<>>,
       !.reader = [NoReader EXCEPT !.pc = "copying", !.left = len, !.forever = forever]]

serial_read(len) == serial_read_noblock(len, TRUE)

serial_getchar == serial_read(1)

serial_read_at_least_one(len) ==
  /\ serial.reader = NoReader
  /\ serial' = [serial EXCEPT !.moved = <<>>,
       !.reader = [pc |-> "copying", left |-> 1, forever |-> TRUE, rest |-> len - 1]]

Copy ==
  /\ serial.reader.pc = "copying" /\ serial.count > 0
  /\ serial' = copy2buf(serial, Min({serial.reader.left, serial.count}))

(* serial_fifo_cache_refresh gives the block back, then receives.          *)
(* What a free block holds is of no use.                                   *)
Released(s) ==
  IF s.stream = NoBlock THEN s
  ELSE [s EXCEPT !.cache = @ \cup {s.stream}, !.content[s.stream] = <<>>]

Refreshing == [copying |-> "receiving", flushing |-> "draining"]

CacheRelease ==
  /\ serial.reader.pc \in DOMAIN Refreshing
  /\ serial.reader.pc = "copying" => serial.count = 0
  /\ serial' = [Released(serial) EXCEPT !.reader.pc = Refreshing[@], !.moved = <<>>]

Received(s) ==
  [s EXCEPT !.stream = Head(s.fifo).block, !.pos = 1, !.count = Head(s.fifo).len,
            !.moved = <<>>]

CacheReceive ==
  /\ serial.reader.pc \in {"receiving", "draining"} /\ serial.fifo # <<>>
  /\ LET s == IF Head(serial.fifo).block = AbortMark THEN Failed(serial)
              ELSE [Received(serial) EXCEPT
                      !.reader.pc = CHOOSE pc \in DOMAIN Refreshing : Refreshing[pc] = @]
     IN  serial' = [s EXCEPT !.fifo = Tail(@)]

(* The queue is empty, and remains so for the time the reader waits.       *)
CacheReceiveTimeout ==
  /\ serial.fifo = <<>>
  /\ \/ serial.reader.pc = "receiving" /\ ~serial.reader.forever
     \/ serial.reader.pc = "draining"
  /\ serial' = Failed(serial)

(* It does not take the mutex, so that the application must not flush      *)
(* while it reads.  Each turn of the loop is a refresh.                    *)
serial_fifo_flush ==
  /\ serial.reader = NoReader
  /\ serial' = [serial EXCEPT !.reader.pc = "flushing", !.moved = <<>>]

(* With the queue full it never returns.  One abort at a time is enough.   *)
serial_fifo_read_abort ==
  /\ \A i \in DOMAIN serial.fifo : serial.fifo[i].block # AbortMark
  /\ serial' = IF Len(serial.fifo) = QUEUE_LEN THEN [serial EXCEPT !.halted = TRUE]
               ELSE [serial EXCEPT !.fifo = <<[block |-> AbortMark, len |-> 0]>> \o @,
                                   !.moved = <<>>]

-----------------------------------------------------------------------------
(* Writing. *)

serial_alloc(s) == s.cache

(* Bytes in a block that was allocated; without a place in the queue they  *)
(* are lost, and so is the block.                                          *)
serial_append(s, b, n) ==
  IF Len(s.fifo) = QUEUE_LEN THEN [s EXCEPT !.moved = <<>>]
  ELSE [s EXCEPT !.fifo = Append(@, [block |-> b, len |-> n]),
                 !.moved = SubSeq(s.content[b], 1, n)]

(* A handler: n bytes arrived.  Without a block they are lost.             *)
serial_fifo_int_recv(n) ==
  LET s == [serial EXCEPT !.next = (@ + n) % BYTE_MOD]
  IN  \/ /\ serial_alloc(serial) = {}
         /\ serial' = [s EXCEPT !.moved = <<>>]
      \/ \E b \in serial_alloc(serial) :
           serial' = serial_append([s EXCEPT !.cache = @ \ {b}, !.content[b] = Arriving(n)],
                                   b, n)

(* A task appends len bytes, block by block. *)
serial_fifo_append(len) ==
  /\ serial.writer = NoWriter
  /\ serial' = [serial EXCEPT !.writer.left = len, !.moved = <<>>]

AppendCopy ==
  LET w == serial.writer
      n == Min({w.left, SERIAL_BLOCK})
  IN  /\ w.left > 0 /\ w.ptr = NoBlock
      /\ \E b \in serial_alloc(serial) :
           serial' = [serial EXCEPT
             !.cache = @ \ {b}, !.content[b] = Arriving(n), !.next = (@ + n) % BYTE_MOD,
             !.writer = [left |-> w.left - n, ptr |-> b, txlen |-> n], !.moved = <<>>]

(* Without a place in the queue, it leaves the loop. *)
AppendPost ==
  LET w == serial.writer
  IN  /\ w.ptr # NoBlock
      /\ serial' = [serial_append(serial, w.ptr, w.txlen) EXCEPT
           !.writer = IF w.left = 0 \/ Len(serial.fifo) = QUEUE_LEN THEN NoWriter
                      ELSE [w EXCEPT !.ptr = NoBlock]]

(* Without a block, it gives back the one that the reader still has, and   *)
(* waits for ever when there is none: nothing is promised after that.      *)
AppendStuck ==
  /\ serial.writer.left > 0 /\ serial.writer.ptr = NoBlock /\ serial_alloc(serial) = {}
  /\ serial' = [serial EXCEPT !.halted = TRUE]

-----------------------------------------------------------------------------

SerialInit == serial = serial_fifo_init

SerialNext ==
  /\ ~serial.halted
  /\ \/ \E len \in SerialLens :
          \/ serial_read(len) \/ serial_read_noblock(len, FALSE)
          \/ serial_read_at_least_one(len) \/ serial_fifo_append(len)
     \/ serial_getchar \/ Copy
     \/ CacheRelease \/ CacheReceive \/ CacheReceiveTimeout
     \/ serial_fifo_flush \/ serial_fifo_read_abort
     \/ \E n \in 1 .. SERIAL_BLOCK : serial_fifo_int_recv(n)
     \/ AppendCopy \/ AppendPost \/ AppendStuck

SerialSpec == SerialInit /\ [][SerialNext]_serial

-----------------------------------------------------------------------------

(* What is left of the block that the reader has, and of those it will get.*)
SerialHeld ==
  FoldLeft(LAMBDA bytes, m : bytes \o IF m.block = AbortMark THEN <<>>
                                      ELSE SubSeq(serial.content[m.block], 1, m.len),
           IF serial.count = 0 \/ serial.reader.pc = "draining" THEN <<>>
           ELSE SubSeq(serial.content[serial.stream], serial.pos,
                       serial.pos + serial.count - 1),
           serial.fifo)

Serial == INSTANCE Stream WITH
  held <- SerialHeld, moved <- serial.moved, asked <- Len(serial.moved),
  Capacity <- Cardinality(SerialBlocks) * SERIAL_BLOCK

(* The reader gets, in their order, the bytes of every block that was      *)
(* posted, whatever arrives while it changes blocks, and whatever waits    *)
(* end early; only a flush discards some.                                  *)
SerialStep ==
  IF serial.reader.pc \in {"flushing", "draining"} THEN Serial!Next \/ Serial!Drop
  ELSE Serial!Next
=============================================================================
