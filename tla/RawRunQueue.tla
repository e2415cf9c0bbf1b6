----------------------------- MODULE RawRunQueue -----------------------------
(***************************************************************************)
(* The run queue of the kernel, raw-os/kernel/raw_pend.c: one FIFO list of *)
(* ready tasks per priority, the bitmap of the priorities whose list is    *)
(* not empty, and the cached highest priority.  Priority 0 is the most     *)
(* urgent; IDLE_PRIORITY = PRIO_MAX - 1 is the idle task's.                *)
(*                                                                         *)
(* Only operators live here: every module that schedules tasks applies     *)
(* them to its own run queue rq, a record with the fields of               *)
(* RAW_RUN_QUEUE.  A doubly linked list is the sequence of its members.    *)
(***************************************************************************)
EXTENDS RawList

CONSTANTS Tasks,      \* the task control blocks the system may use
          PRIO_MAX    \* CONFIG_RAW_PRIO_MAX

ASSUME PrioMaxAssumption == PRIO_MAX \in Nat \ {0}

Prios == 0 .. PRIO_MAX - 1

IDLE_PRIORITY == PRIO_MAX - 1

run_queue_init == [task_ready_list  |-> [p \in Prios |-> <<>>],
                   task_bit_map     |-> {},
                   highest_priority |-> PRIO_MAX]

(* What bit_search_first_one(map, offset, PRIO_MAX - offset) finds: the    *)
(* first set bit at or after offset (module BitSearch models the search on *)
(* the words of the bitmap).                                               *)
FirstSetBit(map, offset) ==
  CHOOSE p \in map : p >= offset /\ \A q \in map : q >= offset => p <= q

Higher(p, h) == IF p < h THEN p ELSE h

(* t becomes ready at priority p: at the front of its list, ...            *)
add_ready_list_head(rq, t, p) ==
  [task_ready_list  |-> [rq.task_ready_list EXCEPT ![p] = <<t>> \o @],
   task_bit_map     |-> rq.task_bit_map \cup {p},
   highest_priority |-> Higher(p, rq.highest_priority)]

(* ... at its end, ...                                                     *)
add_ready_list_end(rq, t, p) ==
  [task_ready_list  |-> [rq.task_ready_list EXCEPT ![p] = Append(@, t)],
   task_bit_map     |-> rq.task_bit_map \cup {p},
   highest_priority |-> Higher(p, rq.highest_priority)]

(* ... or where the priority of the running task puts it.                  *)
add_ready_list(rq, t, p, activePrio) ==
  IF p = activePrio THEN add_ready_list_end(rq, t, p)
                    ELSE add_ready_list_head(rq, t, p)

(* Fault: the cached priority is kept when the highest list empties. *)
remove_ready_list_stale(rq, t, p) ==
  LET rest == list_delete(rq.task_ready_list[p], t)
  IN  [task_ready_list  |-> [rq.task_ready_list EXCEPT ![p] = rest],
       task_bit_map     |-> IF rest = <<>> THEN rq.task_bit_map \ {p}
                                           ELSE rq.task_bit_map,
       highest_priority |-> rq.highest_priority]

(* t, ready at priority p, leaves its list.  The bit and the cached        *)
(* priority are only recomputed when the list becomes empty.               *)
remove_ready_list(rq, t, p) ==
  LET rest == list_delete(rq.task_ready_list[p], t)
      map  == IF rest = <<>> THEN rq.task_bit_map \ {p} ELSE rq.task_bit_map
  IN  [task_ready_list  |-> [rq.task_ready_list EXCEPT ![p] = rest],
       task_bit_map     |-> map,
       highest_priority |-> IF rest = <<>> /\ p = rq.highest_priority
                            THEN FirstSetBit(map, p)
                            ELSE rq.highest_priority]

move_to_ready_list_end(rq, t, p) ==
  [task_ready_list  |-> [rq.task_ready_list EXCEPT
                           ![p] = Append(list_delete(@, t), t)],
   task_bit_map     |-> rq.task_bit_map,
   highest_priority |-> rq.highest_priority]

(* The task get_ready_task stores in high_ready_obj. *)
get_ready_task(rq) == rq.task_ready_list[rq.highest_priority][1]

OnReadyList(rq, t, p) == t \in ToSet(rq.task_ready_list[p])

-----------------------------------------------------------------------------

(* The run queue is well formed for the priorities prio: every list holds  *)
(* tasks of its own priority, no task twice, the bitmap marks exactly the  *)
(* non-empty lists and highest_priority is the first of them.              *)
ListsOK(rq, prio) ==
  \A p \in Prios :
    /\ IsInjective(rq.task_ready_list[p])
    /\ \A t \in ToSet(rq.task_ready_list[p]) : prio[t] = p

BitmapOK(rq) ==
  rq.task_bit_map = {p \in Prios : rq.task_ready_list[p] # <<>>}

HighestOK(rq) ==
  /\ rq.highest_priority \in rq.task_bit_map
  /\ \A p \in rq.task_bit_map : rq.highest_priority <= p

RunQueueOK(rq, prio) == ListsOK(rq, prio) /\ BitmapOK(rq) /\ HighestOK(rq)

RunQueues == [task_ready_list  : [Prios -> Seq(Tasks)],
              task_bit_map     : SUBSET Prios,
              highest_priority : 0 .. PRIO_MAX]
=============================================================================
