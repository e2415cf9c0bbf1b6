---------------------------- MODULE RawIdleEvent ----------------------------
(***************************************************************************)
(* Active objects of the idle task, raw_idle_event.c: each has a ring of   *)
(* events, to which tasks, handlers and the objects themselves post, and a *)
(* bit in a table of rows; the idle task gives the event of the first row  *)
(* and column to the state machine of the object (RawStm).  Each step is a *)
(* critical section.                                                       *)
(***************************************************************************)
EXTENDS RawList, FiniteSetsExt

CONSTANTS
  IdleObjects,  \* the active objects; an object is its prio
  IdleEnd,      \* IdleEnd[a]: the places in the ring of a
  IdleEvents,   \* what is posted
  TIMEOUT_SIG,  \* posted when tick_ctr of an object reaches 0
  NoSig,        \* what a place holds in the beginning
  TickMax       \* tick_ctr is never above it

(* The table of the map has eight times the number of a bit: only objects  *)
(* in the first column of a row can be told from it.                       *)
ASSUME IdleAssumption ==
  /\ IdleObjects \subseteq {8 * y : y \in 0 .. 7}
  /\ IdleEnd \in [IdleObjects -> 1 .. 255]
  /\ TIMEOUT_SIG \notin IdleEvents /\ TickMax \in Nat

VARIABLE idle   \* head, tail, nUsed, queue, tick_ctr of every object;
                \* grp: raw_idle_rdy_grp; tbl: raw_rdy_tbl; ticking:
                \* raw_idle_tick_head; moved: the event posted or given last

Row(a) == a \div 8
Column(a) == a % 8

idle_event_init ==
  LET zero == [a \in IdleObjects |-> 0]
  IN  [head |-> zero, tail |-> zero, nUsed |-> zero, tick_ctr |-> zero,
       queue |-> [a \in IdleObjects |-> [i \in 0 .. IdleEnd[a] - 1 |-> NoSig]],
       grp |-> {}, tbl |-> [y \in 0 .. 7 |-> {}], ticking |-> <<>>, moved |-> NoSig]

-----------------------------------------------------------------------------

PostFront(s, a, e) ==
  LET tail == (IF s.tail[a] = 0 THEN IdleEnd[a] ELSE s.tail[a]) - 1
  IN  [s EXCEPT !.tail[a] = tail, !.queue[a][tail] = e]

PostEnd(s, a, e) ==
  [s EXCEPT !.queue[a][s.head[a]] = e,
            !.head[a] = IF @ + 1 = IdleEnd[a] THEN 0 ELSE @ + 1]

IdleExhausted(s, a) == s.nUsed[a] = IdleEnd[a]

event_post(s, a, e, send_to_end) ==
  LET at  == IF send_to_end THEN PostEnd(s, a, e) ELSE PostFront(s, a, e)
      put == [at EXCEPT !.nUsed[a] = @ + 1, !.moved = e]
  IN  IF IdleExhausted(s, a) THEN s
      ELSE IF put.nUsed[a] > 1 THEN put
      ELSE [put EXCEPT !.grp = @ \cup {Row(a)}, !.tbl[Row(a)] = @ \cup {Column(a)}]

idle_event_end_post(a, e) ==
  ~IdleExhausted(idle, a) /\ idle' = event_post(idle, a, e, TRUE)
idle_event_front_post(a, e) ==
  ~IdleExhausted(idle, a) /\ idle' = event_post(idle, a, e, FALSE)

(* Objects whose count is 0 remain in the list; an event for which there   *)
(* is no room is lost.                                                     *)
Counted(s, a) ==
  LET down == [s EXCEPT !.tick_ctr[a] = @ - 1]
  IN  IF s.tick_ctr[a] = 0 THEN s
      ELSE IF down.tick_ctr[a] > 0 THEN down
      ELSE event_post([down EXCEPT !.ticking = list_delete(@, a)], a, TIMEOUT_SIG, TRUE)

idle_tick_isr ==
  LET list == idle.ticking
      after[i \in 0 .. Len(list)] == IF i = 0 THEN idle ELSE Counted(after[i - 1], list[i])
  IN  list # <<>> /\ idle' = after[Len(list)]

(* The application puts an object into the list of those that tick.        *)
IdleTickStart(a, n) ==
  /\ a \notin Range(idle.ticking)
  /\ idle' = [idle EXCEPT !.ticking = Append(@, a), !.tick_ctr[a] = n]

raw_idle_map_table(set) == IF set = {} THEN 0 ELSE 8 * Min(set)

idle_run ==
  LET y    == raw_idle_map_table(idle.grp)
      a    == y + raw_idle_map_table(idle.tbl[y \div 8])
      tail == idle.tail[a]
      left == idle.tbl[Row(a)] \ {Column(a)}
      s    == [idle EXCEPT !.nUsed[a] = @ - 1, !.moved = idle.queue[a][tail],
                           !.tail[a] = IF tail + 1 = IdleEnd[a] THEN 0 ELSE tail + 1]
  IN  /\ idle.grp # {}
      /\ idle' = IF s.nUsed[a] > 0 THEN s
                 ELSE [s EXCEPT !.tbl[Row(a)] = left,
                                !.grp = IF left = {} THEN @ \ {Row(a)} ELSE @]

-----------------------------------------------------------------------------

IdleInit == idle = idle_event_init

IdleNext ==
  \/ \E a \in IdleObjects, e \in IdleEvents :
       idle_event_end_post(a, e) \/ idle_event_front_post(a, e)
  \/ \E a \in IdleObjects, n \in 0 .. TickMax : IdleTickStart(a, n)
  \/ idle_tick_isr \/ idle_run

IdleSpec == IdleInit /\ [][IdleNext]_idle

-----------------------------------------------------------------------------

(* The events of a, the next to be given first. *)
IdleHeld(s, a) ==
  [i \in 1 .. s.nUsed[a] |-> s.queue[a][(s.tail[a] + i - 1) % IdleEnd[a]]]

(* An object that has events has its bits, and no other object has: no     *)
(* event stays with an object that the idle task does not look at.         *)
ReadyAreListed ==
  /\ \A a \in IdleObjects : idle.nUsed[a] > 0 <=> Column(a) \in idle.tbl[Row(a)]
  /\ \A y \in 0 .. 7 : y \in idle.grp <=> idle.tbl[y] # {}

(* An event goes to the end or to the front of what its object has, and    *)
(* the idle task takes the first event of the first object that has one,   *)
(* whatever was posted where before; all other events stay as they are.    *)
IdleStep ==
  \A a \in IdleObjects :
    LET was == IdleHeld(idle, a)
        is  == IdleHeld(idle', a)
    IN  \/ is = was
        \/ /\ Len(was) < IdleEnd[a]
           /\ is \in {Append(was, idle'.moved), <<idle'.moved>> \o was}
        \/ /\ was = <<idle'.moved>> \o is
           /\ \A b \in IdleObjects : b < a => IdleHeld(idle, b) = <<>>

(* A state without what no step reads: the event moved last, and the free  *)
(* places of the rings.                                                    *)
IdleView ==
  [idle EXCEPT !.moved = NoSig, !.queue = [a \in IdleObjects |-> IdleHeld(idle, a)]]
=============================================================================
