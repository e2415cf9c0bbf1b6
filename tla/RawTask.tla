------------------------------- MODULE RawTask -------------------------------
(***************************************************************************)
(* The states of a task and the lists it is linked in: raw_pend.c (the     *)
(* wait list of a kernel object), raw_tick.c (the list of tasks that wait  *)
(* for a tick) and the state machine of raw_task.c.                        *)
(*                                                                         *)
(* A service changes several fields and lists in one critical section by   *)
(* calling functions that call each other.  Each function is an operator   *)
(* from the kernel's state k to the new one.  The ready list is the set    *)
(* k.ready here; its order is the subject of RawRunQueue and RawSched.     *)
(***************************************************************************)
EXTENDS RawList

CONSTANTS Tasks,       \* task control blocks
          Objects,     \* kernel objects a task can wait for
          NoObj,       \* the null object pointer
          FifoObjects, \* objects created with RAW_BLOCKED_WAY_FIFO
          TICKS,       \* raw_tick_count is counted modulo TICKS
          COUNT_LIMIT, \* suspend_count at which raw_task_suspend fails (250)
          COUNT_MOD    \* suspend_count is counted modulo COUNT_MOD (256)

ASSUME TaskAssumption ==
  /\ NoObj \notin Objects
  /\ FifoObjects \subseteq Objects
  /\ TICKS \in Nat \ {0, 1}
  /\ COUNT_LIMIT \in Nat \ {0} /\ COUNT_MOD \in Nat \ {0}
  /\ COUNT_LIMIT < COUNT_MOD

FOREVER == TICKS        \* RAW_WAIT_FOREVER

PendStates == {"PEND", "PEND_TIMEOUT", "PEND_SUSPENDED", "PEND_TIMEOUT_SUSPENDED"}

TickStates == {"DLY", "DLY_SUSPENDED", "PEND_TIMEOUT", "PEND_TIMEOUT_SUSPENDED"}

(* Each state and its suspended form. *)
Suspended == [RDY          |-> "SUSPENDED",
              DLY          |-> "DLY_SUSPENDED",
              PEND         |-> "PEND_SUSPENDED",
              PEND_TIMEOUT |-> "PEND_TIMEOUT_SUSPENDED"]

Resumed(s) == CHOOSE r \in DOMAIN Suspended : Suspended[r] = s

States == DOMAIN Suspended \cup {Suspended[s] : s \in DOMAIN Suspended}
            \cup {"DELETED"}

Statuses == {"OK", "ABORT", "TIMEOUT", "DEL"}

(* The part of the kernel's state this module is about, with all tasks     *)
(* created and ready.                                                      *)
TaskInit(prio) ==
  [state          |-> [t \in Tasks |-> "RDY"],
   suspend_count  |-> [t \in Tasks |-> 0],
   priority       |-> prio,
   block_status   |-> [t \in Tasks |-> "OK"],
   block_obj      |-> [t \in Tasks |-> NoObj],
   tick_match     |-> [t \in Tasks |-> 0],
   ready          |-> Tasks,
   tick_head      |-> <<>>,
   raw_tick_count |-> 0,
   block_list     |-> [o \in Objects |-> <<>>]]

-----------------------------------------------------------------------------
(* raw_tick.c *)

(* The ticks from now until tick_match, in unsigned arithmetic. *)
Remaining(k, t) == (k.tick_match[t] - k.raw_tick_count) % TICKS

tick_list_insert_absolute(k, t, time) ==
  LET k1 == [k EXCEPT !.tick_match[t] = (k.raw_tick_count + time) % TICKS]
  IN  IF time = 0 THEN k
      ELSE [k1 EXCEPT !.tick_head = SortedInsert(@, t, k1.tick_match)]

tick_list_insert(k, t, time) ==
  LET k1 == [k EXCEPT !.tick_match[t] = (k.raw_tick_count + time) % TICKS]
  IN  IF time = 0 THEN k
      ELSE [k1 EXCEPT !.tick_head = SortedInsert(@, t, [u \in Tasks |-> Remaining(k1, u)])]

tick_list_remove(k, t) == [k EXCEPT !.tick_head = list_delete(@, t)]

-----------------------------------------------------------------------------
(* raw_pend.c *)

make_ready(k, t) == [k EXCEPT !.ready = @ \cup {t}, !.state[t] = "RDY"]

remove_ready(k, t) == [k EXCEPT !.ready = @ \ {t}]

(* list_delete(&task_ptr->task_list) of a task that waits for an object *)
unlink(k, t) == [k EXCEPT !.block_list[k.block_obj[t]] = list_delete(@, t)]

(* add_to_priority_list, after the tasks of the same priority *)
add_to_priority_list(k, o, t) ==
  [k EXCEPT !.block_list[o] = SortedInsert(@, t, k.priority)]

add_to_block_list(k, o, t) ==
  IF o \in FifoObjects THEN [k EXCEPT !.block_list[o] = Append(@, t)]
                       ELSE add_to_priority_list(k, o, t)

raw_pend_object(k, o, t, timeout) ==
  LET k1 == [k EXCEPT !.block_obj[t] = o,
                      !.state[t] = IF timeout = FOREVER THEN "PEND"
                                                        ELSE "PEND_TIMEOUT"]
      k2 == IF timeout = FOREVER THEN k1 ELSE tick_list_insert(k1, t, timeout)
  IN  add_to_block_list(remove_ready(k2, t), o, t)

(* Fault: the task stays in the tick list. *)
end_wait_ticking(k, t, status) ==
  LET k1 == unlink(k, t)
      k2 == IF k.state[t] \in {"PEND", "PEND_TIMEOUT"}
            THEN make_ready(k1, t)
            ELSE [k1 EXCEPT !.state[t] = "SUSPENDED"]
  IN  [k2 EXCEPT !.block_status[t] = status, !.block_obj[t] = NoObj]

(* The wait of t ends with this status; a suspended task stays suspended.  *)
end_wait(k, t, status) ==
  LET k1 == tick_list_remove(unlink(k, t), t)
      k2 == IF k.state[t] \in {"PEND", "PEND_TIMEOUT"}
            THEN make_ready(k1, t)
            ELSE [k1 EXCEPT !.state[t] = "SUSPENDED"]
  IN  [k2 EXCEPT !.block_status[t] = status, !.block_obj[t] = NoObj]

pend_task_wake_up(k, t) == end_wait(k, t, "OK")

(* The loop over the wait list of o: the waits of the tasks in who end     *)
(* with this status, one after the other.                                  *)
end_waits(k, o, who, status) ==
  LET list == k.block_list[o]
      after[i \in 0 .. Len(list)] ==
        IF i = 0 THEN k
        ELSE IF list[i] \in who THEN end_wait(after[i - 1], list[i], status)
        ELSE after[i - 1]
  IN  after[Len(list)]

(* All tasks that wait for o are woken because it is deleted. *)
delete_pend_objs(k, o) == end_waits(k, o, Tasks, "DEL")

(* Fault: a task keeps its place in the wait list. *)
change_pend_list_priority_kept(k, t) == k

change_pend_list_priority(k, t) ==
  LET o == k.block_obj[t]
  IN  IF o \in FifoObjects THEN k ELSE add_to_priority_list(unlink(k, t), o, t)

-----------------------------------------------------------------------------
(* tick_list_update: raw_tick_count advances and the tasks at the front of *)
(* the list whose time has come leave it.  The iterator reads the next     *)
(* task before it handles one.                                             *)

advance_tick(k) == [k EXCEPT !.raw_tick_count = (@ + 1) % TICKS]

due(k) ==
  LET i == SelectInSeq(k.tick_head, LAMBDA t : k.tick_match[t] # k.raw_tick_count)
  IN  IF i = 0 THEN k.tick_head ELSE SubSeq(k.tick_head, 1, i - 1)

expire(k, t) ==
  CASE k.state[t] \in {"PEND_TIMEOUT", "PEND_TIMEOUT_SUSPENDED"} ->
         end_wait(k, t, "TIMEOUT")
    [] k.state[t] = "DLY" ->
         [make_ready(tick_list_remove(k, t), t) EXCEPT !.block_status[t] = "OK"]
    [] k.state[t] = "DLY_SUSPENDED" ->
         [tick_list_remove(k, t) EXCEPT !.block_status[t] = "OK",
                                        !.state[t] = "SUSPENDED"]

(* The tasks of ts, one after the other. *)
expire_all(k, ts) ==
  LET after[i \in 0 .. Len(ts)] == IF i = 0 THEN k ELSE expire(after[i - 1], ts[i])
  IN  after[Len(ts)]

-----------------------------------------------------------------------------
(* raw_task.c *)

(* raw_sleep(dly) with dly > 0 *)
raw_sleep(k, t, dly) ==
  remove_ready(tick_list_insert([k EXCEPT !.state[t] = "DLY"], t, dly), t)

task_suspend(k, t) ==
  IF k.state[t] \in DOMAIN Suspended
  THEN remove_ready([k EXCEPT !.suspend_count[t] = 1,
                              !.state[t] = Suspended[@]], t)
  ELSE [k EXCEPT !.suspend_count[t] = (@ + 1) % COUNT_MOD]

task_resume(k, t) ==
  LET k1 == [k EXCEPT !.suspend_count[t] = (@ - 1) % COUNT_MOD]
  IN  IF k1.suspend_count[t] # 0 THEN k1
      ELSE IF k.state[t] = "SUSPENDED" THEN make_ready(k1, t)
      ELSE [k1 EXCEPT !.state[t] = Resumed(@)]

(* Fault: the wait keeps the status of the one before it. *)
wait_abort_silent(k, t) ==
  LET s == k.state[t]
  IN  CASE s = "SUSPENDED" -> make_ready(k, t)
        [] s \in {"DLY", "DLY_SUSPENDED"} -> make_ready(tick_list_remove(k, t), t)
        [] s \in PendStates ->
             [make_ready(tick_list_remove(unlink(k, t), t), t) EXCEPT
                !.block_obj[t] = NoObj]
        [] OTHER -> k

(* raw_task_wait_abort; the caller still has to call mutex_state_change.   *)
wait_abort(k, t) ==
  LET s == k.state[t]
  IN  CASE s = "SUSPENDED" -> make_ready(k, t)
        [] s \in {"DLY", "DLY_SUSPENDED"} ->
             [make_ready(tick_list_remove(k, t), t) EXCEPT !.block_status[t] = "ABORT"]
        [] s \in PendStates ->
             [make_ready(tick_list_remove(unlink(k, t), t), t) EXCEPT
                !.block_status[t] = "ABORT", !.block_obj[t] = NoObj]
        [] OTHER -> k

(* raw_task_create, on a control block not in use: every field is reset.   *)
raw_task_create(k, t, prio, auto_start) ==
  LET k1 == [k EXCEPT !.priority[t] = prio,
                      !.block_status[t] = "OK",
                      !.block_obj[t] = NoObj,
                      !.tick_match[t] = 0]
  IN  IF auto_start
      THEN make_ready([k1 EXCEPT !.suspend_count[t] = 0], t)
      ELSE [k1 EXCEPT !.suspend_count[t] = 1, !.state[t] = "SUSPENDED"]

(* Fault: a task that waits for an object stays in its wait list. *)
leave_lists_waiting(k, t) ==
  LET k1 == IF k.state[t] \in TickStates THEN tick_list_remove(k, t) ELSE k
  IN  [remove_ready(k1, t) EXCEPT !.state[t] = "DELETED"]

(* The lists t leaves when it is deleted.  block_obj keeps its value.      *)
leave_lists(k, t) ==
  LET s  == k.state[t]
      k1 == IF s \in PendStates THEN unlink(k, t) ELSE k
      k2 == IF s \in PendStates \cup {"DLY", "DLY_SUSPENDED"}
            THEN tick_list_remove(k1, t) ELSE k1
  IN  [remove_ready(k2, t) EXCEPT !.state[t] = "DELETED"]

-----------------------------------------------------------------------------

(* The state of every task says exactly which lists it is linked in.       *)
StateMatchesListsIn(k) ==
  \A t \in Tasks :
    /\ t \in k.ready <=> k.state[t] = "RDY"
    /\ t \in ToSet(k.tick_head) <=> k.state[t] \in TickStates
    /\ \A o \in Objects :
         t \in ToSet(k.block_list[o])
           <=> k.state[t] \in PendStates /\ k.block_obj[t] = o

(* No list holds a task twice. *)
ListsDistinctIn(k) ==
  IsInjective(k.tick_head) /\ \A o \in Objects : IsInjective(k.block_list[o])

(* The tick list is sorted by the time that remains, and no task in it is  *)
(* overdue: tick_list_update looks at its head only.                       *)
TickListSortedIn(k) ==
  \A i \in DOMAIN k.tick_head :
    /\ Remaining(k, k.tick_head[i]) > 0
    /\ i > 1 => Remaining(k, k.tick_head[i - 1]) <= Remaining(k, k.tick_head[i])

(* Tasks wait for an object in order of their current priority. *)
WaitListSortedIn(k) ==
  \A o \in Objects \ FifoObjects : \A i \in DOMAIN k.block_list[o] :
    i > 1 => k.priority[k.block_list[o][i - 1]] <= k.priority[k.block_list[o][i]]

=============================================================================
