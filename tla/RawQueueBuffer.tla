--------------------------- MODULE RawQueueBuffer ---------------------------
(***************************************************************************)
(* Message queues that copy messages of different sizes into a ring of     *)
(* bytes, raw_queue_buffer.c.  A message is stored as a header, which      *)
(* holds its size, and its bytes; both are rounded up to HEADERSZ.         *)
(***************************************************************************)
EXTENDS RawObject

CONSTANTS Buffers,   \* RAW_QUEUE_BUFFER objects
          bufsz,     \* bytes of each
          HEADERSZ,  \* bytes of a header
          MsgSize    \* bytes of each message; none is longer than maxmsz

ASSUME QueueBufferAssumption ==
  /\ Buffers \subseteq Objects
  /\ HEADERSZ \in Nat \ {0} /\ bufsz \in Nat \ {0} /\ bufsz % HEADERSZ = 0
  /\ MsgSize \in [Messages -> Nat \ {0}]

VARIABLE buf_q  \* mem: the bytes of each buffer; bytes that were read are empty

Bytes == 0 .. bufsz - 1

(* Byte i of a message, the size in front of one, and nothing. *)
Byte(m, i) == [msg |-> m, n |-> i]
Header(n) == [msg |-> NoMsg, n |-> n]
Nothing == Header(0)

EmptyBuffer == [mem |-> [c \in Bytes |-> Nothing], head |-> 0, tail |-> 0,
                frbufsz |-> bufsz]

QueueBufferInit == buf_q = [q \in Buffers |-> EmptyBuffer]

ROUND_BUFFER_SIZE(n) == ((n + HEADERSZ - 1) \div HEADERSZ) * HEADERSZ

raw_queue_buffer_create(q) ==
  /\ ObjectCreate(q)
  /\ buf_q' = [buf_q EXCEPT ![q] = EmptyBuffer]
  /\ UNCHANGED msg

(* Fault: the header is not counted. *)
is_queue_buffer_free_bytes(buf, n) == n <= buf.frbufsz

is_queue_buffer_free(buf, n) == HEADERSZ + n <= buf.frbufsz

is_buffer_empty(buf) == buf.frbufsz = bufsz

(* Where byte i of a message of n bytes is stored whose bytes start at p:  *)
(* at most the bytes up to the end of the buffer, the others at its start. *)
Place(p, n, i) == IF bufsz - p < n /\ i >= bufsz - p THEN i - (bufsz - p) ELSE p + i

Advance(p, n) == IF p + n >= bufsz THEN 0 ELSE p + n

(* The place behind n bytes that start at p. *)
Behind(p, n) == IF bufsz - p < n THEN Advance(0, ROUND_BUFFER_SIZE(n - (bufsz - p)))
                                 ELSE Advance(p, ROUND_BUFFER_SIZE(n))

Cells(p, n) == {Place(p, n, i) : i \in 0 .. n - 1}

msg_to_end_buffer(buf, m) ==
  LET n     == MsgSize[m]
      start == Advance(buf.tail, HEADERSZ)
  IN  [mem     |-> [c \in Bytes |->
                      IF c \in Cells(start, n)
                      THEN Byte(m, CHOOSE i \in 0 .. n - 1 : Place(start, n, i) = c)
                      ELSE IF c = buf.tail THEN Header(n) ELSE buf.mem[c]],
       head    |-> buf.head,
       tail    |-> Behind(start, n),
       frbufsz |-> buf.frbufsz - (HEADERSZ + ROUND_BUFFER_SIZE(n))]

(* The buffer without its first message. *)
buffer_to_msg(buf) ==
  LET n     == buf.mem[buf.head].n
      start == Advance(buf.head, HEADERSZ)
  IN  [mem     |-> [c \in Bytes |-> IF c \in {buf.head} \cup Cells(start, n) THEN Nothing
                                   ELSE buf.mem[c]],
       head    |-> Behind(start, n),
       tail    |-> buf.tail,
       frbufsz |-> buf.frbufsz + HEADERSZ + ROUND_BUFFER_SIZE(n)]

BufferPostKeeps(q, m) ==
  /\ q \in exists
  /\ is_queue_buffer_free(buf_q[q], MsgSize[m])
  /\ k.block_list[q] = <<>>
  /\ buf_q' = [buf_q EXCEPT ![q] = msg_to_end_buffer(@, m)]
  /\ UNCHANGED msgvars

BufferPostDelivers(q, m) ==
  /\ q \in exists
  /\ is_queue_buffer_free(buf_q[q], MsgSize[m])
  /\ Deliver(q, m)
  /\ UNCHANGED buf_q

BufferReceive(t, q) ==
  /\ Runs(t) /\ q \in exists
  /\ ~is_buffer_empty(buf_q[q])
  /\ buf_q' = [buf_q EXCEPT ![q] = buffer_to_msg(@)]
  /\ UNCHANGED msgvars

BufferReceiveBlocks(t, q, timeout) ==
  /\ Runs(t) /\ q \in exists
  /\ is_buffer_empty(buf_q[q])
  /\ Block(t, q, timeout)
  /\ UNCHANGED <<msg, buf_q>>

raw_queue_buffer_flush(q) ==
  /\ q \in exists
  /\ buf_q' = [buf_q EXCEPT ![q] = EmptyBuffer]
  /\ UNCHANGED msgvars

(* The bytes of a deleted queue are not used again. *)
raw_queue_buffer_delete(q) ==
  /\ ObjectDelete(q)
  /\ buf_q' = [buf_q EXCEPT ![q] = EmptyBuffer]
  /\ UNCHANGED msg

QueueBufferNext ==
  \E q \in Buffers :
    \/ raw_queue_buffer_create(q) \/ raw_queue_buffer_flush(q) \/ raw_queue_buffer_delete(q)
    \/ \E m \in Messages : BufferPostKeeps(q, m) \/ BufferPostDelivers(q, m)
    \/ \E t \in Tasks : \/ BufferReceive(t, q)
                        \/ \E timeout \in Timeouts : BufferReceiveBlocks(t, q, timeout)

-----------------------------------------------------------------------------

(* The message whose header is at c, if all of it is there. *)
MessageAt(buf, c) ==
  LET n       == buf.mem[c].n
      byte(i) == buf.mem[Place(Advance(c, HEADERSZ), n, i)]
      m       == byte(0).msg
  IN  IF m \in Messages /\ n = MsgSize[m] /\ \A i \in 0 .. n - 1 : byte(i) = Byte(m, i)
      THEN m ELSE NoMsg

Headers(buf) == {c \in Bytes : buf.mem[c].msg = NoMsg /\ buf.mem[c].n > 0}

(* The messages from head on, as many as there are headers. *)
BufferContents(buf) ==
  LET start[i \in 1 .. Cardinality(Headers(buf))] ==
        IF i = 1 THEN buf.head
        ELSE Behind(Advance(start[i - 1], HEADERSZ), buf.mem[start[i - 1]].n)
  IN  [i \in 1 .. Cardinality(Headers(buf)) |-> MessageAt(buf, start[i])]

ByteBox(q) == INSTANCE Mailbox WITH
  Weight   <- [m \in Messages |-> HEADERSZ + ROUND_BUFFER_SIZE(MsgSize[m])],
  Capacity <- bufsz,
  box      <- BufferContents(buf_q[q]),
  room     <- buf_q[q].frbufsz,
  waiting  <- ToSet(k.block_list[q]),
  got      <- GotFrom(q),
  alive    <- q \in exists

(* raw_queue_buffer.c implements a message queue: messages of all sizes    *)
(* come out whole, wherever they wrap around the buffer.                   *)
BufferInit == \A q \in Buffers : ByteBox(q)!Init
BufferStep == \A q \in Buffers : [ByteBox(q)!Next]_(ByteBox(q)!vars)
=============================================================================
