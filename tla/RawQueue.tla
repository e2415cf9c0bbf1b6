------------------------------ MODULE RawQueue ------------------------------
(***************************************************************************)
(* Message queues, raw_queue.c: a ring of pointers.  A post to a full      *)
(* queue is refused and changes nothing.                                   *)
(***************************************************************************)
EXTENDS RawObject

CONSTANTS Queues,  \* RAW_QUEUE objects
          size     \* entries of each

ASSUME QueueAssumption == Queues \subseteq Objects /\ size \in Nat \ {0}

VARIABLE msg_q  \* the ring of each queue; an entry that was read is empty

Slots == 0 .. size - 1

EmptyRing == [slot |-> [i \in Slots |-> NoMsg], write |-> 0, read |-> 0,
              current_numbers |-> 0]

QueueInit == msg_q = [q \in Queues |-> EmptyRing]

raw_queue_create(q) ==
  /\ ObjectCreate(q)
  /\ msg_q' = [msg_q EXCEPT ![q] = EmptyRing]
  /\ UNCHANGED msg

Full(q) == msg_q[q].current_numbers >= size

(* SEND_TO_END and SEND_TO_FRONT *)
PostEnd(r, m) == [r EXCEPT !.slot[r.write] = m, !.write = (@ + 1) % size,
                           !.current_numbers = @ + 1]

PostFront(r, m) ==
  LET i == (r.read - 1) % size
  IN  [r EXCEPT !.slot[i] = m, !.read = i, !.current_numbers = @ + 1]

PostKeeps(q, m) ==
  /\ q \in exists /\ ~Full(q)
  /\ k.block_list[q] = <<>>
  /\ \E r \in {PostEnd(msg_q[q], m), PostFront(msg_q[q], m)} :
       msg_q' = [msg_q EXCEPT ![q] = r]
  /\ UNCHANGED msgvars

PostDelivers(q, m) ==
  /\ q \in exists /\ ~Full(q)
  /\ Deliver(q, m) \/ DeliverAll(q, m)
  /\ UNCHANGED msg_q

(* In a task, or in an interrupt handler with RAW_NO_WAIT.                 *)
Receive(q) ==
  /\ q \in exists
  /\ msg_q[q].current_numbers > 0
  /\ LET r == msg_q[q]
     IN  msg_q' = [msg_q EXCEPT ![q] = [r EXCEPT !.slot[r.read] = NoMsg,
                                                 !.read = (@ + 1) % size,
                                                 !.current_numbers = @ - 1]]
  /\ UNCHANGED msgvars

ReceiveBlocks(t, q, timeout) ==
  /\ Runs(t) /\ q \in exists
  /\ msg_q[q].current_numbers = 0
  /\ Block(t, q, timeout)
  /\ UNCHANGED <<msg, msg_q>>

raw_queue_flush(q) ==
  /\ q \in exists
  /\ msg_q' = [msg_q EXCEPT ![q] = EmptyRing]
  /\ UNCHANGED msgvars

(* The ring of a deleted queue is not used again. *)
raw_queue_delete(q) ==
  /\ ObjectDelete(q)
  /\ msg_q' = [msg_q EXCEPT ![q] = EmptyRing]
  /\ UNCHANGED msg

QueueNext ==
  \E q \in Queues :
    \/ raw_queue_create(q) \/ raw_queue_flush(q) \/ raw_queue_delete(q)
    \/ Receive(q)
    \/ \E m \in Messages : PostKeeps(q, m) \/ PostDelivers(q, m)
    \/ \E t \in Tasks, timeout \in Timeouts : ReceiveBlocks(t, q, timeout)

-----------------------------------------------------------------------------

(* The messages of a ring, the next one to be received first. *)
RingContents(r) ==
  [i \in 1 .. r.current_numbers |-> r.slot[(r.read + i - 1) % size]]

RingBox(q) == INSTANCE Mailbox WITH
  Weight   <- [m \in Messages |-> 1],
  Capacity <- size,
  box      <- RingContents(msg_q[q]),
  room     <- size - msg_q[q].current_numbers,
  waiting  <- ToSet(k.block_list[q]),
  got      <- GotFrom(q),
  alive    <- q \in exists

(* raw_queue.c implements a message queue, wherever its pointers are in    *)
(* the ring.                                                               *)
RingInit == \A q \in Queues : RingBox(q)!Init
RingStep == \A q \in Queues : [RingBox(q)!Next]_(RingBox(q)!vars)
=============================================================================
