---------------------------- MODULE RawWorkQueue ----------------------------
(***************************************************************************)
(* Work queues, raw_work_queue.c: tasks and handlers leave functions to be *)
(* called by the task of a work queue.  The messages for it come from one  *)
(* list for all work queues, threaded through them.  Interrupts are        *)
(* disabled for the list and within the queue of the kernel, and enabled   *)
(* in between.                                                             *)
(***************************************************************************)
EXTENDS Integers, SequencesExt, FiniteSetsExt

CONSTANTS
  WorkMsgs,     \* how many messages there are
  WorkQueues,
  WorkLen,      \* places in the queue of each
  Schedulers,   \* the tasks and handlers that leave work
  Works         \* a function and what it is called with

ASSUME WorkAssumption == WorkMsgs \in Nat \ {0} /\ WorkLen \in Nat \ {0}

VARIABLE work   \* free: free_work_queue_msg; next, todo: the fields of the
                \* messages; queue; at: the message that the task of a
                \* queue is at, or WorkerWaits, or WorkerReceives; call: what a
                \* scheduler has taken from the list, and for which work;
                \* moved: the work posted or done last

Msgs == 1 .. WorkMsgs
NoMsgLeft == 0
WorkerWaits == 0          \* in raw_queue_receive
WorkerReceives == -1      \* before it

NoWorkCall == [msg |-> NoMsgLeft, q |-> CHOOSE q \in WorkQueues : TRUE, w |-> CHOOSE w \in Works : TRUE,
           refused |-> FALSE]

(* work_queue_create of all queues too. *)
global_work_queue_init ==
  [free |-> 1, next |-> [m \in Msgs |-> IF m = WorkMsgs THEN NoMsgLeft ELSE m + 1],
   todo |-> [m \in Msgs |-> NoWorkCall.w],
   queue |-> [q \in WorkQueues |-> <<>>], at |-> [q \in WorkQueues |-> WorkerReceives],
   call |-> [s \in Schedulers |-> NoWorkCall], moved |-> NoWorkCall.w]

FreeMsg(s, m) == [s EXCEPT !.next[m] = s.free, !.free = m]

-----------------------------------------------------------------------------
(* sche_work_queue: takes a message, posts it, and gives it back if the    *)
(* queue was full.                                                         *)

sche_work_queue(s, q, w) ==
  LET m == work.free
  IN  /\ work.call[s] = NoWorkCall /\ m # NoMsgLeft
      /\ work' = [work EXCEPT !.todo[m] = w, !.free = work.next[m],
                              !.call[s] = [msg |-> m, q |-> q, w |-> w, refused |-> FALSE]]

(* A task that waits is handed the message. *)
WorkPost(s) ==
  LET c == work.call[s]
      posted == [work EXCEPT !.call[s] = NoWorkCall, !.moved = c.w]
  IN  /\ c # NoWorkCall /\ ~c.refused
      /\ work' = IF work.at[c.q] = WorkerWaits THEN [posted EXCEPT !.at[c.q] = c.msg]
                 ELSE IF Len(work.queue[c.q]) < WorkLen
                 THEN [posted EXCEPT !.queue[c.q] = Append(@, c.msg)]
                 ELSE [work EXCEPT !.call[s].refused = TRUE]

WorkGivenBack(s) ==
  /\ work.call[s].refused
  /\ work' = [FreeMsg(work, work.call[s].msg) EXCEPT !.call[s] = NoWorkCall]

-----------------------------------------------------------------------------
(* work_queue_task.  The function that it calls is a scheduler like others. *)

WorkReceive(q) ==
  /\ work.at[q] = WorkerReceives
  /\ work' = IF work.queue[q] = <<>> THEN [work EXCEPT !.at[q] = WorkerWaits]
             ELSE [work EXCEPT !.at[q] = Head(work.queue[q]), !.queue[q] = Tail(@)]

WorkDone(q) ==
  /\ work.at[q] \in Msgs
  /\ work' = [FreeMsg(work, work.at[q]) EXCEPT !.at[q] = WorkerReceives,
                                               !.moved = work.todo[work.at[q]]]

-----------------------------------------------------------------------------

WorkInit == work = global_work_queue_init

WorkNext ==
  \/ \E s \in Schedulers :
       WorkPost(s) \/ WorkGivenBack(s) \/ \E q \in WorkQueues, w \in Works : sche_work_queue(s, q, w)
  \/ \E q \in WorkQueues : WorkReceive(q) \/ WorkDone(q)

-----------------------------------------------------------------------------

RECURSIVE WorkChain(_, _)
WorkChain(m, n) ==
  IF m = NoMsgLeft \/ n = 0 THEN <<>> ELSE <<m>> \o WorkChain(work.next[m], n - 1)

(* The messages of q, the one its task is at first. *)
WorkHeld(s, q) ==
  LET first == IF s.at[q] \in Msgs THEN <<s.at[q]>> ELSE <<>>
      msgs  == first \o s.queue[q]
  IN  [i \in DOMAIN msgs |-> s.todo[msgs[i]]]

(* Every message is in the list, in one queue, or with one task or handler, *)
(* and in one place only: work is not refused while a message is left.      *)
MessagesExact ==
  LET listed == WorkChain(work.free, WorkMsgs + 1)
      places ==
        {<<"list", i>> : i \in DOMAIN listed}
          \cup {<<"call", s>> : s \in {x \in Schedulers : work.call[x] # NoWorkCall}}
          \cup {<<"task", q>> : q \in {x \in WorkQueues : work.at[x] \in Msgs}}
          \cup UNION {{<<"queue", q, i>> : i \in DOMAIN work.queue[q]} : q \in WorkQueues}
      in(p) == CASE p[1] = "list" -> listed[p[2]]
                 [] p[1] = "call" -> work.call[p[2]].msg
                 [] p[1] = "task" -> work.at[p[2]]
                 [] p[1] = "queue" -> work.queue[p[2]][p[3]]
  IN  Cardinality(places) = WorkMsgs /\ {in(p) : p \in places} = Msgs

(* Work is done as it was left, once, and in the order it was left in.     *)
WorkStep ==
  \A q \in WorkQueues :
    LET was == WorkHeld(work, q)
        is  == WorkHeld(work', q)
    IN  is = was \/ is = Append(was, work'.moved) \/ was = <<work'.moved>> \o is

(* A state without the work done last and fields that no step reads.       *)
WorkView ==
  LET listed == Range(WorkChain(work.free, WorkMsgs + 1))
  IN  [work EXCEPT !.moved = NoWorkCall.w,
                   !.next = [m \in Msgs |-> IF m \in listed THEN @[m] ELSE NoMsgLeft],
                   !.todo = [m \in Msgs |-> IF m \in listed THEN NoWorkCall.w ELSE @[m]]]
=============================================================================
