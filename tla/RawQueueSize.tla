---------------------------- MODULE RawQueueSize ----------------------------
(***************************************************************************)
(* Message queues that also carry the size of a message, raw_queue_size.c: *)
(* linked lists of free and of used entries.  The task queues of           *)
(* raw_task_queue_size.c are these queues, found through a task.           *)
(***************************************************************************)
EXTENDS RawObject

CONSTANTS SizeQueues,      \* RAW_QUEUE_SIZE objects
          queue_msg_size   \* entries of each

ASSUME QueueSizeAssumption ==
  /\ SizeQueues \subseteq Objects
  /\ queue_msg_size \in Nat \ {0}

VARIABLE list_q  \* the entries of each queue and the pointers to them

Null == 0
Entries == 1 .. queue_msg_size

(* The entries in a row on the free list.  read and write are not set      *)
(* before the first message.                                               *)
EmptyList == [next |-> [e \in Entries |-> IF e = queue_msg_size THEN Null ELSE e + 1],
              msg_ptr |-> [e \in Entries |-> NoMsg],
              free_msg |-> 1, write |-> Null, read |-> Null, current_msg |-> 0]

QueueSizeInit == list_q = [q \in SizeQueues |-> EmptyList]

raw_queue_size_create(q) ==
  /\ ObjectCreate(q)
  /\ list_q' = [list_q EXCEPT ![q] = EmptyList]
  /\ UNCHANGED msg

(* A free entry takes m; the entry of a first message keeps the link it    *)
(* had on the free list.                                                   *)
Taken(l, m) == [l EXCEPT !.free_msg = l.next[@], !.msg_ptr[l.free_msg] = m,
                         !.current_msg = @ + 1]

PostFirst(l, m) == [Taken(l, m) EXCEPT !.write = l.free_msg, !.read = l.free_msg]

LinkEnd(l, m) ==
  [Taken(l, m) EXCEPT !.next = [@ EXCEPT ![l.write] = l.free_msg, ![l.free_msg] = Null],
                      !.write = l.free_msg]

LinkFront(l, m) ==
  [Taken(l, m) EXCEPT !.next[l.free_msg] = l.read, !.read = l.free_msg]

SizePostKeeps(q, m) ==
  /\ q \in exists
  /\ k.block_list[q] = <<>>
  /\ LET l == list_q[q]
     IN  /\ l.current_msg < queue_msg_size
         /\ \E l1 \in IF l.current_msg = 0 THEN {PostFirst(l, m)}
                      ELSE {LinkEnd(l, m), LinkFront(l, m)} :
              list_q' = [list_q EXCEPT ![q] = l1]
  /\ UNCHANGED msgvars

SizePostDelivers(q, m) ==
  /\ q \in exists
  /\ list_q[q].current_msg < queue_msg_size
  /\ Deliver(q, m) \/ DeliverAll(q, m)
  /\ UNCHANGED list_q

(* The entry of the message goes to the front of the free list.            *)
ReceiveFirst(l) ==
  LET l1 == [l EXCEPT !.read = l.next[@], !.next[l.read] = l.free_msg,
                      !.free_msg = l.read, !.msg_ptr[l.read] = NoMsg]
  IN  IF l1.read # Null THEN [l1 EXCEPT !.current_msg = @ - 1]
      ELSE [l1 EXCEPT !.write = Null, !.current_msg = 0]

SizeReceive(q) ==
  /\ q \in exists
  /\ list_q[q].current_msg > 0
  /\ list_q' = [list_q EXCEPT ![q] = ReceiveFirst(@)]
  /\ UNCHANGED msgvars

SizeReceiveBlocks(t, q, timeout) ==
  /\ Runs(t) /\ q \in exists
  /\ list_q[q].current_msg = 0
  /\ Block(t, q, timeout)
  /\ UNCHANGED <<msg, list_q>>

Emptied(l) == [l EXCEPT !.msg_ptr = [e \in Entries |-> NoMsg], !.current_msg = 0,
                        !.read = Null, !.write = Null]

(* Fault: the free list is the one of the flushed messages.                *)
Flushed_unlinked(l) ==
  IF l.current_msg = 0 THEN l ELSE [Emptied(l) EXCEPT !.free_msg = l.read]

(* The messages, linked as they are, go in front of the free entries.      *)
Flushed(l) ==
  IF l.current_msg = 0 THEN l
  ELSE [Emptied(l) EXCEPT !.next[l.write] = l.free_msg, !.free_msg = l.read]

raw_queue_size_flush(q) ==
  /\ q \in exists
  /\ list_q' = [list_q EXCEPT ![q] = Flushed(@)]
  /\ UNCHANGED msgvars

(* The entries of a deleted queue are not used again. *)
raw_queue_size_delete(q) ==
  /\ ObjectDelete(q)
  /\ list_q' = [list_q EXCEPT ![q] = EmptyList]
  /\ UNCHANGED msg

QueueSizeNext ==
  \E q \in SizeQueues :
    \/ raw_queue_size_create(q) \/ raw_queue_size_flush(q) \/ raw_queue_size_delete(q)
    \/ SizeReceive(q)
    \/ \E m \in Messages : SizePostKeeps(q, m) \/ SizePostDelivers(q, m)
    \/ \E t \in Tasks, timeout \in Timeouts : SizeReceiveBlocks(t, q, timeout)

-----------------------------------------------------------------------------

(* The first n entries of the list that starts at e. *)
Follow(l, e, n) ==
  LET step[i \in 1 .. n] == IF i = 1 THEN e ELSE l.next[step[i - 1]] IN [i \in 1 .. n |-> step[i]]

Used(l) == Follow(l, l.read, l.current_msg)
Free(l) == Follow(l, l.free_msg, queue_msg_size - l.current_msg)

(* Every entry is either free or holds a message, and the free list ends   *)
(* behind the last free one, although links are left over from one list    *)
(* when an entry moves to the other.                                       *)
NoEntryLost ==
  \A q \in exists \cap SizeQueues :
    LET l == list_q[q]
    IN  /\ ToSet(Used(l) \o Free(l)) = Entries
        /\ l.current_msg = queue_msg_size => l.free_msg = Null
        /\ l.current_msg < queue_msg_size => l.next[Last(Free(l))] = Null

ListBox(q) == INSTANCE Mailbox WITH
  Weight   <- [m \in Messages |-> 1],
  Capacity <- queue_msg_size,
  box      <- LET l == list_q[q]
              IN  [i \in 1 .. l.current_msg |-> l.msg_ptr[Used(l)[i]]],
  room     <- queue_msg_size - list_q[q].current_msg,
  waiting  <- ToSet(k.block_list[q]),
  got      <- GotFrom(q),
  alive    <- q \in exists

(* raw_queue_size.c implements a message queue. *)
ListInit == \A q \in SizeQueues : ListBox(q)!Init
ListStep == \A q \in SizeQueues : [ListBox(q)!Next]_(ListBox(q)!vars)
=============================================================================
