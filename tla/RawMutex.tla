------------------------------ MODULE RawMutex ------------------------------
(***************************************************************************)
(* Mutexes with priority inheritance and priority ceiling, raw_mutex.c,    *)
(* together with every service of raw_task.c and raw_tick.c that can reach *)
(* a task which owns a mutex or waits for one.                             *)
(*                                                                         *)
(* A service is one critical section; what follows it in the calling task  *)
(* (raw_sched, and block_state_post_process once the task runs again) is a *)
(* step of its own.  Which of the ready tasks runs is left open: RawSched  *)
(* models that choice.  A call that the scheduler lock turns down changes  *)
(* nothing and needs no action.                                            *)
(***************************************************************************)
EXTENDS RawTask, FiniteSetsExt

CONSTANTS
  NoTask,           \* the null task pointer
  PRIO_MAX,         \* CONFIG_RAW_PRIO_MAX
  Policy,           \* Policy[m]: "INHERIT", "CEILING" or "NONE"
  Ceiling,          \* ceiling_prio of each mutex
  InitPrio,         \* priority each task is created with
  RECURSION_LEVELS, \* CONFIG_RAW_MUTEX_RECURSION_LEVELS
  NestLimit,        \* bound on owner_nested
  \* what the application does: timeouts it waits or sleeps with, priorities
  \* it asks for, tasks it suspends, aborts, changes and deletes, and
  \* mutexes it deletes
  Timeouts, Delays, NewPrios, SuspendTasks, AbortTasks, ChangeTasks,
  DeleteTasks, DeleteMutexes

Mutexes == Objects
Prios == 0 .. PRIO_MAX - 1

ASSUME MutexAssumption ==
  /\ NoTask \notin Tasks
  /\ PRIO_MAX \in Nat \ {0}
  /\ FifoObjects = {}
  /\ Policy \in [Mutexes -> {"INHERIT", "CEILING", "NONE"}]
  /\ Ceiling \in [Mutexes -> Prios]
  /\ InitPrio \in [Tasks -> Prios]
  /\ RECURSION_LEVELS \in Nat
  /\ Timeouts \subseteq 1 .. TICKS - 1 \cup {FOREVER}
  /\ Delays \subseteq 1 .. TICKS - 1
  /\ NewPrios \subseteq Prios
  /\ SuspendTasks \cup AbortTasks \cup ChangeTasks \cup DeleteTasks \subseteq Tasks
  /\ DeleteMutexes \subseteq Mutexes

VARIABLES
  sys,   \* sys.k: the kernel's state (module RawTask); the rest is the mutexes'
  call   \* call[t]: the mutex of the raw_mutex_get t has not returned from

vars == <<sys, call>>

k == sys.k

Init ==
  /\ sys = [k            |-> TaskInit(InitPrio),
            bpriority    |-> InitPrio,
            mtxlist      |-> [t \in Tasks |-> <<>>],
            mtxtsk       |-> [m \in Mutexes |-> NoTask],
            owner_nested |-> [m \in Mutexes |-> 0],
            exists       |-> Mutexes,
            levels       |-> 0,
            system_error |-> FALSE]
  /\ call = [t \in Tasks |-> NoObj]

-----------------------------------------------------------------------------
(***************************************************************************)
(* The priority protocols.  mtxlist[t] is the list of the mutexes t owns,  *)
(* the latest first.                                                       *)
(***************************************************************************)

(* The priority a mutex demands of its owner. *)
Demand(s, m) ==
  CASE Policy[m] = "CEILING" -> {Ceiling[m]}
    [] Policy[m] = "INHERIT" /\ s.k.block_list[m] # <<>> ->
         {s.k.priority[Head(s.k.block_list[m])]}
    [] OTHER -> {}

Owned(s, t) == ToSet(s.mtxlist[t])

(* Fault: only the mutexes t owns limit its priority. *)
CeilingLimit_owned(s, t) ==
  Max({0} \cup {Ceiling[m] : m \in {n \in Owned(s, t) : Policy[n] = "CEILING"}})

(* chg_pri_mutex: the priority t gets when p is asked for, and the lowest  *)
(* ceiling that forbids it.                                                *)
CeilingLimit(s, t) ==
  Max({0} \cup {Ceiling[m] : m \in {n \in Owned(s, t) \cup ({s.k.block_obj[t]} \ {NoObj}) :
                                      n \in s.exists /\ Policy[n] = "CEILING"}})

chg_pri_mutex(s, t, p) == Min({p} \cup UNION {Demand(s, m) : m \in Owned(s, t)})

demanded(s, t) == chg_pri_mutex(s, t, s.bpriority[t])

(***************************************************************************)
(* change_internal_task_priority, mtx_chg_pri and release_mutex call each  *)
(* other along a chain of tasks that wait for mutexes, and nothing but     *)
(* the level of recursion changes on the way back: the recursion is a      *)
(* loop.  In a state w of the loop, w.task gets the priority w.prio next   *)
(* (NoTask: nobody does) and w.calls calls of mtx_chg_pri are to return.   *)
(***************************************************************************)

(* Faults: the owner is never lowered; an error path keeps the level.      *)
mtx_chg_pri_raise(w, t, old) ==
  LET s     == w.sys
      m     == s.k.block_obj[t]
      owner == s.mtxtsk[m]
  IN  IF /\ m \in s.exists /\ Policy[m] = "INHERIT"
         /\ s.k.priority[owner] > s.k.priority[t]
      THEN [w EXCEPT !.task = owner, !.prio = s.k.priority[t]]
      ELSE [w EXCEPT !.task = NoTask]

mtx_chg_pri_level(w, t, old) ==
  LET s     == [w.sys EXCEPT !.levels = @ + 1]
      owner == s.mtxtsk[s.k.block_obj[t]]
  IN  IF s.k.priority[owner] > s.k.priority[t]
      THEN [w EXCEPT !.sys = s, !.task = owner, !.prio = s.k.priority[t]]
      ELSE [w EXCEPT !.sys = s, !.task = NoTask]

(* The priority of t, which waits for a mutex, was old: pass the change on *)
(* to the owner.                                                           *)
mtx_chg_pri(w, t, old) ==
  LET s      == w.sys
      m      == s.k.block_obj[t]
      owner  == s.mtxtsk[m]
      within == [w EXCEPT !.sys.levels = @ + 1, !.calls = @ + 1, !.task = NoTask]
  IN  IF s.levels > RECURSION_LEVELS
      THEN [w EXCEPT !.sys.system_error = TRUE, !.task = NoTask]
      ELSE IF m \notin s.exists \/ Policy[m] # "INHERIT" THEN within
      ELSE IF s.k.priority[owner] > s.k.priority[t]
      THEN [within EXCEPT !.task = owner, !.prio = s.k.priority[t]]
      ELSE IF s.k.priority[owner] = old /\ demanded(s, owner) # old
      THEN [within EXCEPT !.task = owner, !.prio = demanded(s, owner)]
      ELSE within

(* One call of change_internal_task_priority. *)
change_one(w) ==
  LET t     == w.task
      s     == [w.sys EXCEPT !.k.priority[t] = w.prio]
      state == w.sys.k.state[t]
  IN  IF t = NoTask THEN w
      ELSE IF state \in PendStates
      THEN mtx_chg_pri([w EXCEPT !.sys = [s EXCEPT !.k = change_pend_list_priority(@, t)]],
                       t, w.sys.k.priority[t])
      ELSE IF state = "DELETED" THEN [w EXCEPT !.task = NoTask]
      ELSE [w EXCEPT !.sys = s, !.task = NoTask]

(* The level of recursion ends a chain that is longer than the loop.       *)
change_internal_task_priority(s, t, p) ==
  LET last == RECURSION_LEVELS + 2
      after[i \in 0 .. last] ==
        IF i = 0 THEN [sys |-> s, task |-> t, prio |-> p, calls |-> 0]
        ELSE change_one(after[i - 1])
  IN  [after[last].sys EXCEPT !.levels = @ - after[last].calls]

(* release_mutex(tcb, 0): t gets the priority that its base priority and   *)
(* the mutexes it owns demand.                                             *)
adjust(s, t) ==
  IF demanded(s, t) = s.k.priority[t] THEN s
  ELSE change_internal_task_priority(s, t, demanded(s, t))

(* m leaves the list of t first. *)
release_mutex(s, t, m) == adjust([s EXCEPT !.mtxlist[t] = list_delete(@, m)], t)

(* t stopped waiting for o without getting it. *)
mutex_state_change(s, t, o) ==
  IF /\ o \in s.exists /\ Policy[o] = "INHERIT"
     /\ s.k.priority[s.mtxtsk[o]] = s.k.priority[t]
  THEN adjust(s, s.mtxtsk[o]) ELSE s

(* m gets the owner t. *)
own(s, m, t) == [s EXCEPT !.mtxtsk[m] = t, !.mtxlist[t] = <<m>> \o @]

raise_to_ceiling(s, m, t) ==
  IF Policy[m] = "CEILING" /\ s.k.priority[t] > Ceiling[m]
  THEN change_internal_task_priority(s, t, Ceiling[m]) ELSE s

(* t, which waits for m, gets it. *)
wake_owner(s, m, t) ==
  raise_to_ceiling(own([s EXCEPT !.k = pend_task_wake_up(@, t)], m, t), m, t)

(* Fault: the last task that waits gets it. *)
hand_over_last(s, m) == wake_owner(s, m, Last(s.k.block_list[m]))

(* The first task that waits for m gets it. *)
hand_over(s, m) == wake_owner(s, m, Head(s.k.block_list[m]))

free_one(s, m) ==
  IF s.k.block_list[m] = <<>> THEN [s EXCEPT !.mtxtsk[m] = NoTask] ELSE hand_over(s, m)

(* Fault: a deleted task keeps its mutexes. *)
raw_task_free_mutex_none(s, t) == s

raw_task_free_mutex(s, t) ==
  LET list == s.mtxlist[t]
      after[i \in 0 .. Len(list)] == IF i = 0 THEN s ELSE free_one(after[i - 1], list[i])
  IN  after[Len(list)]

-----------------------------------------------------------------------------
(***************************************************************************)
(* Services of raw_mutex.c, called by t, which runs.                       *)
(***************************************************************************)

Runs(t) == t \in k.ready /\ call[t] = NoObj

(* The owner gets the mutex once more. *)
GetNested(t, m) ==
  /\ Runs(t) /\ m \in sys.exists
  /\ sys.mtxtsk[m] = t
  /\ sys.owner_nested[m] < NestLimit
  /\ sys' = [sys EXCEPT !.owner_nested[m] = @ + 1]
  /\ UNCHANGED call

MayGet(t, m) ==
  /\ Runs(t) /\ m \in sys.exists
  /\ Policy[m] = "CEILING" => sys.bpriority[t] >= Ceiling[m]

GetFree(t, m) ==
  /\ MayGet(t, m)
  /\ sys.mtxtsk[m] = NoTask
  /\ sys' = raise_to_ceiling([own(sys, m, t) EXCEPT !.owner_nested[m] = 1], m, t)
  /\ UNCHANGED call

GetBlocks(t, m, timeout) ==
  /\ MayGet(t, m)
  /\ sys.mtxtsk[m] \notin {NoTask, t}
  /\ LET owner == sys.mtxtsk[m]
         s1 == IF Policy[m] = "INHERIT" /\ k.priority[t] < k.priority[owner]
               THEN change_internal_task_priority(sys, owner, k.priority[t]) ELSE sys
     IN  sys' = [s1 EXCEPT !.k = raw_pend_object(@, m, t, timeout)]
  /\ call' = [call EXCEPT ![t] = m]

(* block_state_post_process: the blocked raw_mutex_get returns. *)
GetReturns(t) ==
  /\ t \in k.ready /\ call[t] # NoObj
  /\ call' = [call EXCEPT ![t] = NoObj]
  /\ UNCHANGED sys

PutNested(t, m) ==
  /\ Runs(t) /\ m \in sys.exists
  /\ sys.mtxtsk[m] = t /\ sys.owner_nested[m] > 1
  /\ sys' = [sys EXCEPT !.owner_nested[m] = @ - 1]
  /\ UNCHANGED call

raw_mutex_put(t, m) ==
  /\ Runs(t) /\ m \in sys.exists
  /\ sys.mtxtsk[m] = t /\ sys.owner_nested[m] = 1
  /\ LET s1 == release_mutex([sys EXCEPT !.owner_nested[m] = 0], t, m)
     IN  sys' = IF s1.k.block_list[m] = <<>> THEN [s1 EXCEPT !.mtxtsk[m] = NoTask]
                ELSE [hand_over(s1, m) EXCEPT !.owner_nested[m] = 1]
  /\ UNCHANGED call

(* In a task or in an interrupt handler.  mtxtsk keeps its value. *)
raw_mutex_delete(m) ==
  /\ m \in sys.exists
  /\ LET s1 == [sys EXCEPT !.exists = @ \ {m}]
         s2 == IF sys.mtxtsk[m] = NoTask THEN s1
               ELSE release_mutex(s1, sys.mtxtsk[m], m)
     IN  sys' = [s2 EXCEPT !.k = delete_pend_objs(@, m)]
  /\ UNCHANGED call

(* On a mutex that was deleted and that no task is about to return from.   *)
raw_mutex_create(m) ==
  /\ m \notin sys.exists
  /\ \A t \in Tasks : call[t] # m
  /\ sys' = [sys EXCEPT !.exists = @ \cup {m}, !.mtxtsk[m] = NoTask,
                        !.k.block_list[m] = <<>>]
  /\ UNCHANGED call

-----------------------------------------------------------------------------
(* Services of raw_task.c applied to t; any task may be the caller. *)

(* The tick task runs tick_list_update once per tick. *)
Expire(s, t) ==
  LET o  == s.k.block_obj[t]
      s1 == [s EXCEPT !.k = expire(@, t)]
  IN  IF o = NoObj THEN s1 ELSE mutex_state_change(s1, t, o)

tick_list_update ==
  /\ LET s1   == [sys EXCEPT !.k = advance_tick(@)]
         list == due(s1.k)
         after[i \in 0 .. Len(list)] == IF i = 0 THEN s1 ELSE Expire(after[i - 1], list[i])
     IN  sys' = after[Len(list)]
  /\ UNCHANGED call

Sleep(t, dly) ==
  /\ Runs(t)
  /\ sys' = [sys EXCEPT !.k = raw_sleep(@, t, dly)]
  /\ UNCHANGED call

Suspend(t) ==
  /\ k.state[t] # "DELETED"
  /\ k.suspend_count[t] < COUNT_LIMIT - 1 \/ k.state[t] \in DOMAIN Suspended
  /\ sys' = [sys EXCEPT !.k = task_suspend(@, t)]
  /\ UNCHANGED call

Resume(t) ==
  /\ k.state[t] \notin DOMAIN Suspended \cup {"DELETED"}
  /\ sys' = [sys EXCEPT !.k = task_resume(@, t)]
  /\ UNCHANGED call

raw_task_wait_abort(t) ==
  /\ k.state[t] \notin {"RDY", "DELETED"}
  /\ LET o  == k.block_obj[t]
         s1 == [sys EXCEPT !.k = wait_abort(@, t)]
     IN  sys' = IF o = NoObj THEN s1 ELSE mutex_state_change(s1, t, o)
  /\ UNCHANGED call

(* Of a deleted task it would change nothing but bpriority, which          *)
(* raw_task_create sets.                                                   *)
raw_task_priority_change(t, p) ==
  /\ k.state[t] # "DELETED"
  /\ p >= CeilingLimit(sys, t)
  /\ LET s1 == [sys EXCEPT !.bpriority[t] = p]
     IN  sys' = change_internal_task_priority(s1, t, chg_pri_mutex(sys, t, p))
  /\ UNCHANGED call

(* Of a deleted task it would work on the mutexes of a list that is out of *)
(* date; the application does not delete a task twice.                     *)
raw_task_delete(t) ==
  /\ k.state[t] # "DELETED"
  /\ LET s1 == [raw_task_free_mutex(sys, t) EXCEPT !.k = leave_lists(@, t)]
     IN  sys' = IF k.state[t] \in PendStates THEN mutex_state_change(s1, t, k.block_obj[t])
                ELSE s1
  /\ call' = [call EXCEPT ![t] = NoObj]

Create(t, auto_start) ==
  /\ k.state[t] = "DELETED"
  /\ sys' = [sys EXCEPT !.k = raw_task_create(@, t, InitPrio[t], auto_start),
                        !.bpriority[t] = InitPrio[t], !.mtxlist[t] = <<>>]
  /\ UNCHANGED call

-----------------------------------------------------------------------------

MutexServices ==
  \E t \in Tasks :
    \/ GetReturns(t)
    \/ \E m \in Mutexes :
         \/ GetNested(t, m) \/ GetFree(t, m)
         \/ PutNested(t, m) \/ raw_mutex_put(t, m)
         \/ \E timeout \in Timeouts : GetBlocks(t, m, timeout)

TaskServices ==
  \/ tick_list_update
  \/ \E t \in Tasks, dly \in Delays : Sleep(t, dly)
  \/ \E t \in SuspendTasks : Suspend(t) \/ Resume(t)
  \/ \E t \in AbortTasks : raw_task_wait_abort(t)
  \/ \E t \in ChangeTasks, p \in NewPrios : raw_task_priority_change(t, p)
  \/ \E t \in DeleteTasks :
       \/ raw_task_delete(t)
       \/ \E auto_start \in BOOLEAN : Create(t, auto_start)

Lifecycle ==
  \E m \in DeleteMutexes : raw_mutex_delete(m) \/ raw_mutex_create(m)

Next == MutexServices \/ TaskServices \/ Lifecycle

Spec == Init /\ [][Next]_vars

-----------------------------------------------------------------------------
(***************************************************************************)
(* Properties                                                              *)
(***************************************************************************)

Live(t) == k.state[t] # "DELETED"

(* Ready list, tick list and wait lists hold exactly the tasks whose state *)
(* says so, once each, whatever mixture of wake-ups, timeouts, aborts,     *)
(* suspensions and deletions happened.                                     *)
StateMatchesLists == StateMatchesListsIn(k) /\ ListsDistinctIn(k)

(* No timed wait is overdue, although the list is only sorted at insertion *)
(* and raw_tick_count wraps.                                               *)
TickListSorted == TickListSortedIn(k)

(* A mutex is handed to the most urgent waiter: the wait list stays sorted *)
(* while the protocols change the priorities of the tasks in it.           *)
WaitListSorted == WaitListSortedIn(k)

(* The priority of a task is exactly its base priority, raised by what the *)
(* mutexes it owns demand: release_mutex, mtx_chg_pri, mutex_state_change  *)
(* and chg_pri_mutex neither forget an inherited priority nor keep one.    *)
PriorityExact ==
  \A t \in Tasks : Live(t) => k.priority[t] = demanded(sys, t)

(* mtxtsk and the mtxlists agree, owners are live tasks, and a task waits  *)
(* only for a mutex that somebody else owns.                               *)
OwnersConsistent ==
  /\ \A t \in Tasks : IsInjective(sys.mtxlist[t])
  /\ \A m \in Mutexes, t \in Tasks :
       Live(t) => (m \in Owned(sys, t) <=> m \in sys.exists /\ sys.mtxtsk[m] = t)
  /\ \A m \in sys.exists : sys.mtxtsk[m] # NoTask => Live(sys.mtxtsk[m])
  /\ \A m \in Mutexes : k.block_list[m] # <<>> =>
       /\ m \in sys.exists
       /\ sys.mtxtsk[m] \notin {NoTask} \cup ToSet(k.block_list[m])

(* What a blocked raw_mutex_get tells its caller is still true when the    *)
(* caller runs again: RAW_SUCCESS means it owns the mutex, unless the      *)
(* mutex was deleted meanwhile, and any other answer means it does not.    *)
AnswerMatchesOwner ==
  \A t \in Tasks : t \in k.ready /\ call[t] # NoObj =>
    LET owns == sys.mtxtsk[call[t]] = t /\ call[t] \in sys.exists
    IN  IF k.block_status[t] = "OK" THEN owns \/ call[t] \notin sys.exists ELSE ~owns

(* No task with a base priority above the ceiling owns or waits for a      *)
(* ceiling mutex, so its owner never runs below a contender.               *)
CeilingRespected ==
  \A m \in sys.exists, t \in Tasks :
    Policy[m] = "CEILING" /\ Live(t) /\ (m \in Owned(sys, t) \/ k.block_obj[t] = m)
      => sys.bpriority[t] >= Ceiling[m]

(* The recursion of the protocols stays within its limit. *)
NoSystemError == ~sys.system_error /\ sys.levels = 0

(* An owner loses a mutex only by giving it back, or when it or the mutex  *)
(* is deleted; the next owner is the most urgent task that waited.         *)
OwnershipPasses ==
  [][\A m \in sys.exists :
       LET old == sys.mtxtsk[m]
           new == sys'.mtxtsk[m]
       IN  new # old /\ old # NoTask =>
             /\ \/ m \notin sys'.exists
                \/ k'.state[old] = "DELETED"
                \/ raw_mutex_put(old, m)
             /\ new # NoTask => k.block_list[m] # <<>> /\ new = Head(k.block_list[m])]_vars

(* owner_nested counts the gets the owner has not given back: a new owner  *)
(* starts with one.                                                        *)
NewOwnerStartsAtOne ==
  [][\A m \in sys.exists :
       sys'.mtxtsk[m] \notin {NoTask, sys.mtxtsk[m]} => sys'.owner_nested[m] = 1]_vars
=============================================================================
