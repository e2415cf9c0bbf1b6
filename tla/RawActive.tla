------------------------------ MODULE RawActive ------------------------------
(***************************************************************************)
(* Active objects, extension/rf: each is a task that takes events from a   *)
(* queue of the kernel and gives them to its state machine (RawStm).       *)
(* Events are static, or blocks of a pool that count how often they are in *)
(* a queue or in use; the block returns when the last user is done.  Other *)
(* tasks come between any two critical sections: of a post, the first      *)
(* counts and the second is the one of the queue.                          *)
(***************************************************************************)
EXTENDS Integers, SequencesExt, FiniteSetsExt

CONSTANTS
  Actors,        \* the active objects
  Publishers,    \* tasks that are none
  timer_task,    \* it posts the events of timers
  PoolEvents,    \* the blocks of the pool for events
  StaticEvents,  \* events that belong to no pool
  TimeEvents,    \* those of them with a timer
  ActiveSignals,
  StaticSig,     \* StaticSig[e]: the signal of a static event
  ACTIVE_LEN,    \* places in the queue of an object
  Troupes,       \* which of the tasks and events a behaviour has, and which
                 \* functions its application calls
  NoActor,
  NoActiveEvent

ActiveCalls ==
  {"end", "front", "broadcast", "register", "unregister", "defer", "recall", "delete", "fire"}

ASSUME ActiveAssumption ==
  /\ timer_task \notin Actors \cup Publishers /\ NoActor \notin Actors
  /\ NoActiveEvent \notin PoolEvents \cup StaticEvents /\ PoolEvents \cap StaticEvents = {}
  /\ TimeEvents \subseteq StaticEvents /\ StaticSig \in [StaticEvents -> ActiveSignals]
  /\ ACTIVE_LEN \in Nat \ {0}
  /\ Troupes \subseteq [tasks : SUBSET (Actors \cup Publishers), pool : SUBSET PoolEvents,
                        static : SUBSET StaticEvents, calls : SUBSET ActiveCalls]

VARIABLE active
  \* troupe: one of Troupes; free: the free blocks; ref, sig: the fields of the others; queue; at:
  \* the event an object handles, or ActorWaits or ActorReceives; user_data; deferred:
  \* the queue of an object for later; hand: the event a task has allocated
  \* and not posted; call: the function a task is in; list: active_queue_head
  \* of a signal; timer: once, periodic, to: of a time event; halted: an
  \* assertion failed

ActiveTasks == Actors \cup Publishers \cup {timer_task}

ActorWaits == "waits"        \* in raw_queue_receive
ActorReceives == "receives"  \* before it
ActorGone == "gone"          \* the task has deleted itself

NoActiveCall == [op |-> "none", pc |-> "none", e |-> NoActiveEvent, to |-> NoActor, iter |-> 0]

StoppedTimer == [on |-> FALSE, once |-> FALSE, to |-> NoActor]

(* active_broadcast_queue_init, active_object_create of every object, and  *)
(* active_time_event_create of every time event.                           *)
active_object_create(troupe) ==
  [troupe |-> troupe, free |-> troupe.pool, ref |-> [e \in PoolEvents |-> 0],
   sig |-> [e \in PoolEvents |-> CHOOSE s \in ActiveSignals : TRUE],
   queue |-> [a \in Actors |-> <<>>], at |-> [a \in Actors |-> ActorReceives],
   user_data |-> [a \in Actors |-> TRUE], deferred |-> [a \in Actors |-> <<>>],
   hand |-> [t \in ActiveTasks |-> NoActiveEvent], call |-> [t \in ActiveTasks |-> NoActiveCall],
   list |-> [s \in ActiveSignals |-> <<>>],
   timer |-> [e \in TimeEvents |-> StoppedTimer], halted |-> FALSE]

which_pool(e) == e \in PoolEvents
SigOf(e) == IF which_pool(e) THEN active.sig[e] ELSE StaticSig[e]

Handling(a) == active.at[a] \notin {ActorWaits, ActorReceives, ActorGone}

(* A task that can call a function: an object does so in its state machine. *)
Acts(t) ==
  /\ t \in active.troupe.tasks /\ active.call[t].op = "none"
  /\ t \in Actors => Handling(t)

(* A function that the application calls in this behaviour. *)
CallOffered(call) == call \in active.troupe.calls

(* What a task can post: its own event, once, the event that its state     *)
(* machine is given, and static events other than those of timers.         *)
Postable(t) ==
  ({active.hand[t]} \ {NoActiveEvent}) \cup (active.troupe.static \ TimeEvents)
    \cup (IF t \in Actors THEN {active.at[t]} ELSE {})

WithUser(s, e) == IF which_pool(e) THEN [s EXCEPT !.ref[e] = @ + 1] ELSE s

-----------------------------------------------------------------------------
(* Events. *)

active_event_memory_allocate(t, sig) ==
  /\ Acts(t) /\ active.hand[t] = NoActiveEvent
  /\ \E e \in active.free :
       active' = [active EXCEPT !.free = @ \ {e}, !.hand[t] = e, !.ref[e] = 0, !.sig[e] = sig]

(* The call of a post up to the queue. *)
Posting(t, op, e, a) ==
  active' = [WithUser(active, e) EXCEPT
               !.hand[t] = IF @ = e THEN NoActiveEvent ELSE @,
               !.call[t] = [op |-> op, pc |-> "queue", e |-> e, to |-> a, iter |-> 0]]

active_event_post_end(t, e, a) ==
  /\ CallOffered("end") /\ Acts(t) /\ e \in Postable(t) /\ active.user_data[a]
  /\ Posting(t, "end", e, a)

active_event_post_front(t, e, a) ==
  /\ CallOffered("front") /\ Acts(t) /\ e \in Postable(t) /\ active.user_data[a]
  /\ Posting(t, "front", e, a)

(* raw_queue_end_post or raw_queue_front_post: a task that waits is handed *)
(* the event; the assertion fails when there is no place.                  *)
InQueue(s, c) ==
  IF s.at[c.to] = ActorWaits THEN [s EXCEPT !.at[c.to] = c.e]
  ELSE IF Len(s.queue[c.to]) = ACTIVE_LEN THEN [s EXCEPT !.halted = TRUE]
  ELSE [s EXCEPT !.queue[c.to] = IF c.op = "front" THEN <<c.e>> \o @ ELSE Append(@, c.e)]

ActiveQueuePost(t) ==
  LET c == active.call[t]
  IN  /\ c.pc = "queue"
      /\ active' = [InQueue(active, c) EXCEPT
                      !.call[t] = IF c.op = "broadcast" THEN [c EXCEPT !.pc = "next"] ELSE NoActiveCall]

-----------------------------------------------------------------------------
(* active_memory_collect: the last user gives the block back, after the    *)
(* critical section that looked at the count.                              *)

Collected(s, t) ==
  IF s.call[t].op = "handled"
    THEN [s EXCEPT !.call[t] = NoActiveCall, !.at[t] = IF s.user_data[t] THEN ActorReceives ELSE ActorGone]
    ELSE [s EXCEPT !.call[t] = NoActiveCall]

active_memory_collect(t) ==
  LET c == active.call[t]
  IN  /\ c.pc = "collect"
      /\ active' = IF ~which_pool(c.e) THEN Collected(active, t)
                   ELSE IF active.ref[c.e] > 1
                   THEN Collected([active EXCEPT !.ref[c.e] = @ - 1], t)
                   ELSE [active EXCEPT !.call[t].pc = "release"]

ReleaseEvent(t) ==
  LET e == active.call[t].e
  IN  /\ active.call[t].pc = "release"
      /\ active' = IF active.ref[e] # 1 THEN [active EXCEPT !.halted = TRUE]
                   ELSE Collected([active EXCEPT !.free = @ \cup {e}], t)

-----------------------------------------------------------------------------
(* Broadcast.  An object registers for a signal once; nothing is           *)
(* unregistered while an event is broadcast, as the note at the function   *)
(* asks.  The next entry of the list is read before the event is posted.   *)

NextEntry(sig, i) == IF i < Len(active.list[sig]) THEN i + 1 ELSE 0

Broadcasting == \E t \in ActiveTasks : active.call[t].op = "broadcast"

active_broadcast_queue_register(a, sig) ==
  /\ CallOffered("register") /\ a \notin Range(active.list[sig]) /\ active.user_data[a]
  /\ active' = [active EXCEPT !.list[sig] = Append(@, a)]

active_broadcast_queue_unregister(a, sig) ==
  /\ CallOffered("unregister") /\ a \in Range(active.list[sig]) /\ ~Broadcasting
  /\ active' = [active EXCEPT !.list[sig] = SelectSeq(@, LAMBDA b : b # a)]

active_queue_event_broadcast(t, e) ==
  /\ CallOffered("broadcast") /\ Acts(t) /\ e \in Postable(t)
  /\ active' = [WithUser(active, e) EXCEPT
                  !.hand[t] = IF @ = e THEN NoActiveEvent ELSE @,
                  !.call[t] = [op |-> "broadcast", pc |-> "next", e |-> e, to |-> NoActor,
                               iter |-> NextEntry(SigOf(e), 0)]]

BroadcastNext(t) ==
  LET c == active.call[t]
      sig == SigOf(c.e)
  IN  /\ c.op = "broadcast" /\ c.pc = "next"
      /\ active' = IF c.iter = 0 THEN [active EXCEPT !.call[t].pc = "collect"]
                   ELSE [WithUser(active, c.e) EXCEPT
                           !.call[t] = [@ EXCEPT !.pc = "queue", !.to = active.list[sig][c.iter],
                                                 !.iter = NextEntry(sig, c.iter)]]

-----------------------------------------------------------------------------
(* active_task_function of an object, and what its state machine does.     *)

active_event_get(a) ==
  /\ active.at[a] = ActorReceives
  /\ active' = IF active.queue[a] = <<>> THEN [active EXCEPT !.at[a] = ActorWaits]
               ELSE [active EXCEPT !.at[a] = Head(active.queue[a]), !.queue[a] = Tail(@)]

(* hsm_exceute has returned. *)
ActorDone(a) ==
  /\ Acts(a) /\ active.hand[a] = NoActiveEvent
  /\ active' = [active EXCEPT !.call[a] = [NoActiveCall EXCEPT !.op = "handled", !.pc = "collect",
                                                         !.e = active.at[a]]]

(* The deferred event is not counted: only static ones can be deferred,    *)
(* others would return to the pool with the event in the queue.            *)
active_event_defer_post(a) ==
  /\ CallOffered("defer") /\ Acts(a) /\ active.at[a] \in StaticEvents /\ Len(active.deferred[a]) < ACTIVE_LEN
  /\ active.at[a] \notin Range(active.deferred[a])
  /\ active' = [active EXCEPT !.deferred[a] = Append(@, active.at[a])]

active_event_recall(a) ==
  /\ CallOffered("recall") /\ Acts(a) /\ active.deferred[a] # <<>>
  /\ active' = [WithUser(active, Head(active.deferred[a])) EXCEPT
                  !.deferred[a] = Tail(@),
                  !.call[a] = [op |-> "front", pc |-> "queue", e |-> Head(active.deferred[a]),
                               to |-> a, iter |-> 0]]

(* An object deletes itself when no event is left for it.  A task that     *)
(* waits in a queue that others delete fails the assertion after it.       *)
active_object_delete(a) ==
  /\ CallOffered("delete") /\ Acts(a) /\ active.user_data[a]
  /\ active.queue[a] = <<>> /\ active.deferred[a] = <<>>
  /\ \A t \in ActiveTasks : active.call[t].to # a
  /\ \A s \in ActiveSignals : a \notin Range(active.list[s])
  /\ \A e \in TimeEvents : active.timer[e].to # a
  /\ active' = [active EXCEPT !.user_data[a] = FALSE]

-----------------------------------------------------------------------------
(* Time events, on a software timer each. *)

active_time_event_fire(e, a, once) ==
  /\ CallOffered("fire") /\ e \in active.troupe.static /\ ~active.timer[e].on /\ active.user_data[a]
  /\ active' = [active EXCEPT !.timer[e] = [on |-> TRUE, once |-> once, to |-> a]]

active_time_event_deactivate(e) ==
  active.timer[e].on /\ active' = [active EXCEPT !.timer[e] = StoppedTimer]

active_time_event_post(e) ==
  LET a == active.timer[e].to
  IN  /\ active.timer[e].on /\ active.call[timer_task].op = "none"
      /\ active' = [active EXCEPT
                      !.timer[e] = IF @.once THEN StoppedTimer ELSE @,
                      !.call[timer_task] = [op |-> "end", pc |-> "queue", e |-> e, to |-> a,
                                            iter |-> 0]]

-----------------------------------------------------------------------------

ActiveInit == \E troupe \in Troupes : active = active_object_create(troupe)

ActiveNext ==
  /\ ~active.halted
  /\ \/ \E t \in ActiveTasks :
          \/ ActiveQueuePost(t) \/ BroadcastNext(t) \/ active_memory_collect(t) \/ ReleaseEvent(t)
          \/ \E sig \in ActiveSignals : active_event_memory_allocate(t, sig)
          \/ \E e \in PoolEvents \cup StaticEvents :
               \/ active_queue_event_broadcast(t, e)
               \/ \E a \in Actors \cap active.troupe.tasks :
                    active_event_post_end(t, e, a) \/ active_event_post_front(t, e, a)
     \/ \E a \in Actors \cap active.troupe.tasks :
          \/ active_event_get(a) \/ ActorDone(a) \/ active_object_delete(a)
          \/ active_event_defer_post(a) \/ active_event_recall(a)
          \/ \E sig \in ActiveSignals :
               active_broadcast_queue_register(a, sig) \/ active_broadcast_queue_unregister(a, sig)
          \/ \E e \in TimeEvents, once \in BOOLEAN : active_time_event_fire(e, a, once)
     \/ \E e \in TimeEvents : active_time_event_post(e) \/ active_time_event_deactivate(e)

-----------------------------------------------------------------------------

(* Who has an event: queues, objects, calls that have counted it, and the  *)
(* task that broadcasts it.                                                *)
UsersOf(e) ==
  UNION {{<<"queue", a, i>> : i \in {j \in DOMAIN active.queue[a] : active.queue[a][j] = e}} :
           a \in Actors}
    \cup {<<"object", a>> : a \in {b \in Actors : active.at[b] = e}}
    \cup {<<"post", t>> : t \in {u \in ActiveTasks : active.call[u].e = e /\ active.call[u].pc = "queue"}}
    \cup {<<"broadcast", t>> : t \in {u \in ActiveTasks : active.call[u].e = e /\ active.call[u].op = "broadcast"}}

(* The count of an event is the number of those who have it, whoever posts *)
(* and whoever is done with it in between; nobody has a block that is      *)
(* free, and one that nobody has is free or in the hand of one task.       *)
UsersCounted ==
  ~active.halted =>
    \A e \in active.troupe.pool :
      LET users   == UsersOf(e)
          holders == {t \in ActiveTasks : active.hand[t] = e}
      IN  IF e \in active.free THEN users = {} /\ holders = {}
          ELSE /\ active.ref[e] = Cardinality(users)
               /\ Cardinality(holders) = IF users = {} THEN 1 ELSE 0

ActivePool == INSTANCE Allocator WITH
  Area <- PoolEvents, given <- {{e} : e \in active.troupe.pool \ active.free}
=============================================================================
