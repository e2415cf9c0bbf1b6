------------------------------ MODULE RawProcess ------------------------------
(***************************************************************************)
(* Protothreads: process.c, which runs processes one after the other in    *)
(* one task and keeps their events and polls, and etimer.c, the process    *)
(* that posts an event to the owner of a timer that expires.  Handlers     *)
(* come between the calls of processes: they post events, ask for polls    *)
(* and count ticks.  What a process does in a call is the application's    *)
(* choice: one operation, and whether it ends.                             *)
(***************************************************************************)
EXTENDS Integers, SequencesExt, FiniteSetsExt

CONSTANTS
  Threads,         \* the processes of the application
  etimer_process,
  Etimers,         \* its timers
  Casts,           \* which of them a behaviour has, who gets messages, and
                   \* the intervals of timers
  PROCESS_NONE,    \* the null pointer, which also stands for all processes
  NUMEVENTS,       \* places in the ring of events, a power of two
  POLL_LIMIT,      \* poll_requested is never above it (it has one byte)
  CLOCK_MAX        \* the clock runs up to CLOCK_MAX, and does not wrap

ASSUME ProcessAssumption ==
  /\ etimer_process \notin Threads
  /\ PROCESS_NONE \notin Threads \cup {etimer_process}
  /\ NUMEVENTS \in Nat \ {0} /\ POLL_LIMIT \in Nat \ {0} /\ CLOCK_MAX \in Nat
  /\ Casts \subseteq [threads : SUBSET Threads \ {{}}, timers : SUBSET Etimers,
                     receivers : SUBSET (Threads \cup {PROCESS_NONE}),
                     intervals : SUBSET (1 .. CLOCK_MAX)]

VARIABLE
  proto   \* cast: one of Casts; head, next, state, needspoll: the list of
          \* processes; poll: poll_requested; asked: polls requested and not given; events,
          \* nevents, fevent: the ring; post: an event of the task that is
          \* counted and not written; moved: the last event put in or taken
          \* out; run: where process_run is; busy: the timer process is called;
          \* timers: the list of timers; owner, start, interval; expiration:
          \* next_expiration; clock; broken: an assertion failed,
          \* or a handler posted within a post of the task

Processes == Threads \cup {etimer_process}

Event(ev, p, t) == [ev |-> ev, to |-> p, timer |-> t]

NoEvent == Event("NONE", PROCESS_NONE, PROCESS_NONE)

AtRun == [pc |-> "run", back |-> "run", p |-> PROCESS_NONE, q |-> PROCESS_NONE, ev |-> NoEvent]

process_init(cast) ==
  [cast |-> cast, head |-> etimer_process, next |-> [p \in Processes |-> PROCESS_NONE],
   state |-> [p \in Processes |-> IF p \in Threads THEN "NONE" ELSE "RUNNING"],
   needspoll |-> [p \in Processes |-> FALSE], poll |-> 0, asked |-> {},
   events |-> [i \in 0 .. NUMEVENTS - 1 |-> NoEvent], nevents |-> 0, fevent |-> 0,
   post |-> NoEvent, moved |-> NoEvent, run |-> AtRun, busy |-> FALSE,
   timers |-> <<>>, owner |-> [t \in Etimers |-> PROCESS_NONE],
   start |-> [t \in Etimers |-> 0], interval |-> [t \in Etimers |-> 0],
   expiration |-> 0, clock |-> 0, broken |-> FALSE]

(* The processes that are met from p on. *)
RECURSIVE ListFrom(_, _)
ListFrom(s, p) == IF p = PROCESS_NONE THEN {} ELSE {p} \cup ListFrom(s, s.next[p])

-----------------------------------------------------------------------------
(* Events and polls. *)

(* The task counts its event, and writes it outside the critical section.  *)
process_post(s, e) ==
  IF s.nevents = NUMEVENTS THEN [s EXCEPT !.broken = TRUE]
  ELSE [s EXCEPT !.nevents = @ + 1, !.post = e]

Written(s, e) ==
  [s EXCEPT !.events[(s.fevent + s.nevents - 1) % NUMEVENTS] = e,
            !.post = NoEvent, !.moved = e]

process_poll(s, p) ==
  IF p = PROCESS_NONE \/ s.state[p] = "NONE" THEN s
  ELSE [s EXCEPT !.needspoll[p] = TRUE, !.poll = @ + 1, !.asked = @ \cup {p}]

etimer_request_poll(s) == process_poll(s, etimer_process)

-----------------------------------------------------------------------------
(* Timers. *)

timer_expired(s, t) == s.interval[t] < s.clock - s.start[t] + 1

Ends(s, t) == s.start[t] + s.interval[t]

timer_remaining(s, t) == Ends(s, t) - s.clock

(* How far off a timer is.  One that has expired seems to be farther off   *)
(* than any other, which the subtraction of unsigned numbers makes it.     *)
Distance(s, t) ==
  IF timer_remaining(s, t) < 0 THEN 2 * CLOCK_MAX + timer_remaining(s, t) + 1
  ELSE timer_remaining(s, t)

update_time(s) ==
  [s EXCEPT !.expiration = IF s.timers = <<>> THEN 0
                           ELSE s.clock + Min({Distance(s, t) : t \in Range(s.timers)})]

(* p is the process that runs. *)
add_timer(s, t, p) ==
  LET asked == etimer_request_poll(s)
  IN  IF asked.owner[t] # PROCESS_NONE /\ t \in Range(asked.timers) THEN update_time(asked)
      ELSE update_time([asked EXCEPT !.owner[t] = p, !.timers = <<t>> \o @])

timer_set(s, t, i) == [s EXCEPT !.interval[t] = i, !.start[t] = s.clock]
timer_reset(s, t) == [s EXCEPT !.start[t] = Ends(s, t)]
timer_restart(s, t) == [s EXCEPT !.start[t] = s.clock]

etimer_set(s, t, p, i) == add_timer(timer_set(s, t, i), t, p)
etimer_reset(s, t, p) == add_timer(timer_reset(s, t), t, p)
etimer_restart(s, t, p) == add_timer(timer_restart(s, t), t, p)

etimer_adjust(s, t, d) == update_time([s EXCEPT !.start[t] = @ + d])

Without(timers, t) == SelectSeq(timers, LAMBDA u : u # t)

etimer_stop(s, t) ==
  LET out == [s EXCEPT !.timers = Without(@, t), !.owner[t] = PROCESS_NONE]
  IN  IF t \in Range(s.timers) THEN update_time(out) ELSE out

(* Of the processes, only that of the timers reacts to the end of p.       *)
EtimerExited(s, p) == [s EXCEPT !.timers = SelectSeq(@, LAMBDA t : s.owner[t] # p)]

-----------------------------------------------------------------------------
(* Processes begin and end. *)

process_start(s, p) ==
  IF p \in ListFrom(s, s.head) THEN s
  ELSE [s EXCEPT !.next[p] = s.head, !.head = p, !.state[p] = "RUNNING"]

(* p keeps its next, by which a loop that is at p goes on.                 *)
exit_process(s, p) ==
  LET out == IF s.state[p] = "NONE" THEN s
             ELSE [EtimerExited(s, p) EXCEPT !.state[p] = "NONE", !.asked = @ \ {p}]
      before == CHOOSE q \in ListFrom(s, s.head) : s.next[q] = p
  IN  IF p \notin ListFrom(s, s.head) THEN s
      ELSE IF p = s.head THEN [out EXCEPT !.head = s.next[p]]
      ELSE [out EXCEPT !.next[before] = s.next[p]]

(* What p may do in a call.  It resets a timer only when that has expired, *)
(* and moves none to where it would have expired already.                  *)
Reactions(s, p) ==
  {s} \cup {process_post(s, Event("MSG", q, PROCESS_NONE)) : q \in s.cast.receivers}
      \cup {process_start(s, q) : q \in s.cast.threads}
      \cup {exit_process(s, q) : q \in s.cast.threads \ {p}}
      \cup {etimer_stop(s, t) : t \in s.cast.timers}
      \cup {etimer_adjust(s, t, 0 - 1) : t \in {u \in Range(s.timers) : timer_remaining(s, u) > 0}}
      \cup IF s.poll = POLL_LIMIT THEN {}
           ELSE {process_poll(s, q) : q \in s.cast.threads}
                  \cup {etimer_set(s, t, p, i) : t \in s.cast.timers, i \in s.cast.intervals}
                  \cup {etimer_restart(s, t, p) : t \in {u \in s.cast.timers : s.interval[u] > 0}}
                  \cup {etimer_reset(s, t, p) : t \in {u \in s.cast.timers : timer_expired(s, u)}}

call_process(s, p, ev) ==
  IF s.state[p] # "RUNNING" THEN {s}
  ELSE IF p = etimer_process THEN {[s EXCEPT !.busy = ev = "POLL"]}
  ELSE LET done == Reactions(s, p)
       IN  done \cup {exit_process(r, p) : r \in {d \in done : d.post = NoEvent}}

-----------------------------------------------------------------------------
(* process_run. *)

InTurn == proto.post = NoEvent /\ ~proto.busy

Polling(s, back) ==
  [s EXCEPT !.poll = @ - 1, !.run.pc = "polling", !.run.back = back, !.run.p = s.head]

process_run ==
  /\ proto.run.pc = "run"
  /\ proto' = IF proto.poll > 0 THEN Polling(proto, "event")
              ELSE [proto EXCEPT !.run.pc = "event"]


(* One turn of the loop of do_poll. *)
do_poll ==
  LET p == proto.run.p
      s == [proto EXCEPT !.needspoll[p] = FALSE, !.state[p] = "RUNNING", !.asked = @ \ {p}]
  IN  /\ proto.run.pc = "polling"
      /\ IF p = PROCESS_NONE THEN proto' = [proto EXCEPT !.run.pc = proto.run.back]
         ELSE \E r \in IF proto.needspoll[p] THEN call_process(s, p, "POLL") ELSE {proto} :
                proto' = [r EXCEPT !.run.p = r.next[p]]

TakenOut(s) ==
  [s EXCEPT !.moved = s.events[s.fevent], !.run.ev = s.events[s.fevent],
            !.fevent = (@ + 1) % NUMEVENTS, !.nevents = @ - 1]

do_event ==
  LET e == proto.events[proto.fevent]
      s == TakenOut(proto)
  IN  /\ proto.run.pc = "event"
      /\ IF proto.nevents = 0 THEN proto' = [proto EXCEPT !.run = AtRun]
         ELSE IF e.to = PROCESS_NONE
           THEN proto' = [s EXCEPT !.run.pc = "broadcast", !.run.q = s.head]
         ELSE \E r \in call_process([s EXCEPT !.run = AtRun], e.to, e.ev) : proto' = r

(* Before each process that the event goes to, processes may be polled.    *)
Broadcast ==
  LET q == proto.run.q
  IN  \/ /\ proto.run.pc = "broadcast"
         /\ proto' = IF q = PROCESS_NONE THEN [proto EXCEPT !.run = AtRun]
                     ELSE IF proto.poll > 0 THEN Polling(proto, "deliver")
                     ELSE [proto EXCEPT !.run.pc = "deliver"]
      \/ /\ proto.run.pc = "deliver"
         /\ \E r \in call_process(proto, q, proto.run.ev.ev) :
              proto' = [r EXCEPT !.run.pc = "broadcast", !.run.q = r.next[q]]

(* The event of the task, or of a timer, which leaves the list then.       *)
PostWrite ==
  LET e == proto.post
      s == Written(proto, e)
  IN  /\ e # NoEvent
      /\ proto' = IF e.ev # "TIMER" THEN s
                  ELSE update_time([s EXCEPT !.owner[e.timer] = PROCESS_NONE,
                                             !.timers = Without(@, e.timer)])

(* The timer process looks for the first timer that has expired, again     *)
(* from the start of the list after each.                                  *)
EtimerPolled ==
  LET over == {i \in DOMAIN proto.timers : timer_expired(proto, proto.timers[i])}
      t    == proto.timers[Min(over)]
  IN  /\ proto.busy /\ proto.post = NoEvent
      /\ proto' = IF over = {} THEN [proto EXCEPT !.busy = FALSE]
                  ELSE process_post(proto, Event("TIMER", proto.owner[t], t))

-----------------------------------------------------------------------------
(* Handlers. *)

process_post_isr(p) ==
  proto' = IF proto.post # NoEvent THEN [proto EXCEPT !.broken = TRUE]
           ELSE IF proto.nevents = NUMEVENTS THEN [proto EXCEPT !.broken = TRUE]
           ELSE Written(process_post(proto, Event("MSG", p, PROCESS_NONE)),
                        Event("MSG", p, PROCESS_NONE))

process_poll_isr(p) == proto.poll < POLL_LIMIT /\ proto' = process_poll(proto, p)

proto_tick_handler ==
  LET s == [proto EXCEPT !.clock = @ + 1]
  IN  /\ proto.poll < POLL_LIMIT /\ proto.clock < CLOCK_MAX /\ proto.cast.timers # {}
      /\ proto' = IF s.timers # <<>> /\ s.expiration <= s.clock THEN etimer_request_poll(s)
                  ELSE s

-----------------------------------------------------------------------------

ProcessInit ==
  \E cast \in Casts : \E p \in cast.threads : proto = process_start(process_init(cast), p)

ProcessNext ==
  /\ ~proto.broken
  /\ \/ InTurn /\ (process_run \/ do_poll \/ do_event \/ Broadcast)
     \/ PostWrite \/ EtimerPolled \/ proto_tick_handler
     \/ \E p \in proto.cast.receivers : process_post_isr(p)
     \/ \E p \in proto.cast.threads : process_poll_isr(p)

ProcessSpec == ProcessInit /\ [][ProcessNext]_proto

-----------------------------------------------------------------------------

EventsHeld ==
  [i \in 1 .. proto.nevents - (IF proto.post = NoEvent THEN 0 ELSE 1) |->
     proto.events[(proto.fevent + i - 1) % NUMEVENTS]]

Events == INSTANCE Stream WITH
  held <- EventsHeld, moved <- IF proto.moved = NoEvent THEN <<>> ELSE <<proto.moved>>,
  asked <- IF proto.moved = NoEvent THEN 0 ELSE 1, Capacity <- NUMEVENTS

(* A poll that was asked for is still counted, or the loop that gives the  *)
(* polls has not come to the process yet, wherever handlers ask for more.  *)
PollsNotLost ==
  \A p \in proto.asked :
    /\ proto.needspoll[p]
    /\ proto.poll > 0 \/ (proto.run.pc = "polling" /\ p \in ListFrom(proto, proto.run.p))

(* The timer process looks at a timer that has expired, its poll is asked  *)
(* for, or the next tick asks for it, although a tick compares only the    *)
(* next expiration with the clock.                                         *)
ExpiredArePolled ==
  \A t \in Range(proto.timers) :
    timer_expired(proto, t) =>
      \/ proto.busy \/ etimer_process \in proto.asked
      \/ proto.expiration <= proto.clock

(* A state without what no step reads: the event that was moved last, and  *)
(* the places of the ring that are free.                                   *)
ProcessView ==
  [proto EXCEPT !.moved = NoEvent,
                !.events = EventsHeld]
=============================================================================
