------------------------------ MODULE RawObject ------------------------------
(***************************************************************************)
(* Tasks that wait for kernel objects other than mutexes: the services of  *)
(* raw_task.c and raw_tick.c that may end such a wait, the two halves of a *)
(* service that blocks, shared by the semaphores, events and queues, and   *)
(* how the queues hand a message to a task that waits.                     *)
(*                                                                         *)
(* A service is one critical section; block_state_post_process runs in a   *)
(* step of its own, once the task is ready again.  Which of the ready      *)
(* tasks runs is left open (RawSched models that choice), and a call that  *)
(* is turned down without a change needs no action.                        *)
(***************************************************************************)
EXTENDS RawTask, FiniteSets

CONSTANTS
  PRIO_MAX, InitPrio,
  MaxObjects,       \* bound on the objects in use at a time
  \* what the application does: timeouts it waits or sleeps with, priorities
  \* it asks for, and tasks it suspends, aborts, changes and deletes
  Timeouts, Delays, NewPrios, SuspendTasks, AbortTasks, ChangeTasks, DeleteTasks,
  Messages, NoMsg   \* a message stands for its pointer, its bytes and its size

Prios == 0 .. PRIO_MAX - 1

ASSUME ObjectAssumption ==
  /\ PRIO_MAX \in Nat \ {0} /\ InitPrio \in [Tasks -> Prios]
  /\ MaxObjects \in Nat \ {0}
  /\ Timeouts \subseteq 1 .. TICKS - 1 \cup {FOREVER}
  /\ Delays \subseteq 1 .. TICKS - 1
  /\ NewPrios \subseteq Prios
  /\ SuspendTasks \cup AbortTasks \cup ChangeTasks \cup DeleteTasks \subseteq Tasks
  /\ NoMsg \notin Messages

VARIABLES
  k,      \* the kernel's state (module RawTask)
  call,   \* call[t]: the object of the service t has blocked in
  exists, \* the objects whose object_type is that of their kind
  msg     \* msg[t]: task_ptr->msg, until t has returned with it

objvars == <<k, call, exists>>

ObjectInit ==
  /\ k = TaskInit(InitPrio)
  /\ call = [t \in Tasks |-> NoObj]
  /\ exists = {}

(* t may call a service. *)
Runs(t) == t \in k.ready /\ call[t] = NoObj

(* The first half of a service that blocks, after its tests.               *)
Block(t, o, timeout) ==
  /\ k' = raw_pend_object(k, o, t, timeout)
  /\ call' = [call EXCEPT ![t] = o]
  /\ UNCHANGED exists

(* The second half: block_state_post_process tells t how its wait ended.   *)
Return(t) ==
  /\ t \in k.ready /\ call[t] # NoObj
  /\ call' = [call EXCEPT ![t] = NoObj]
  /\ UNCHANGED <<k, exists>>

(* The wait of t for o is over, successfully, and t does not know it yet.  *)
Granted(t, o) ==
  /\ call[t] = o /\ k.block_status[t] = "OK"
  /\ k.state[t] \in {"RDY", "SUSPENDED"}

(* An object is in use while it exists or a task has not returned from it. *)
InUse == exists \cup ({call[t] : t \in Tasks} \ {NoObj})

ObjectCreate(o) ==
  /\ o \notin exists /\ Cardinality(InUse \cup {o}) <= MaxObjects
  /\ exists' = exists \cup {o}
  /\ k' = [k EXCEPT !.block_list[o] = <<>>]
  /\ UNCHANGED call

ObjectDelete(o) ==
  /\ o \in exists
  /\ exists' = exists \ {o}
  /\ k' = delete_pend_objs(k, o)
  /\ UNCHANGED call

-----------------------------------------------------------------------------
(* Messages in the control blocks of tasks that waited for them. *)

msgvars == <<objvars, msg>>

MessageInit == msg = [t \in Tasks |-> NoMsg]

(* A message that is posted while tasks wait for o goes to the first of    *)
(* them ...                                                                *)
Deliver(o, m) ==
  /\ k.block_list[o] # <<>>
  /\ LET t == Head(k.block_list[o])
     IN  msg' = [msg EXCEPT ![t] = m] /\ k' = pend_task_wake_up(k, t)
  /\ UNCHANGED <<call, exists>>

(* ... or, with WAKE_ALL_QUEUE, to all of them.                            *)
DeliverAll(o, m) ==
  /\ k.block_list[o] # <<>>
  /\ msg' = [t \in Tasks |-> IF t \in ToSet(k.block_list[o]) THEN m ELSE msg[t]]
  /\ k' = end_waits(k, o, Tasks, "OK")
  /\ UNCHANGED <<call, exists>>

(* What each task was given of the messages posted to o. *)
GotFrom(o) == [t \in Tasks |-> IF Granted(t, o) THEN msg[t] ELSE NoMsg]

-----------------------------------------------------------------------------
(* Services of raw_task.c applied to t, and the tick. *)

tick_list_update ==
  /\ k' = LET k1 == advance_tick(k) IN expire_all(k1, due(k1))
  /\ UNCHANGED <<call, exists>>

Sleep(t, dly) ==
  /\ Runs(t)
  /\ k' = raw_sleep(k, t, dly)
  /\ UNCHANGED <<call, exists>>

Suspend(t) ==
  /\ k.state[t] # "DELETED"
  /\ k.suspend_count[t] < COUNT_LIMIT - 1 \/ k.state[t] \in DOMAIN Suspended
  /\ k' = task_suspend(k, t)
  /\ UNCHANGED <<call, exists>>

Resume(t) ==
  /\ k.state[t] \notin DOMAIN Suspended \cup {"DELETED"}
  /\ k' = task_resume(k, t)
  /\ UNCHANGED <<call, exists>>

raw_task_wait_abort(t) ==
  /\ k.state[t] \notin {"RDY", "DELETED"}
  /\ k' = wait_abort(k, t)
  /\ UNCHANGED <<call, exists>>

raw_task_priority_change(t, p) ==
  /\ k.state[t] # "DELETED"
  /\ LET k1 == [k EXCEPT !.priority[t] = p]
     IN  k' = IF k.state[t] \in PendStates THEN change_pend_list_priority(k1, t) ELSE k1
  /\ UNCHANGED <<call, exists>>

raw_task_delete(t) ==
  /\ k.state[t] # "DELETED"
  /\ k' = leave_lists(k, t)
  /\ call' = [call EXCEPT ![t] = NoObj]
  /\ UNCHANGED exists

Create(t, auto_start) ==
  /\ k.state[t] = "DELETED"
  /\ k' = raw_task_create(k, t, InitPrio[t], auto_start)
  /\ UNCHANGED <<call, exists>>

TaskServices ==
  \/ tick_list_update
  \/ \E t \in Tasks, dly \in Delays : Sleep(t, dly)
  \/ \E t \in SuspendTasks : Suspend(t) \/ Resume(t)
  \/ \E t \in AbortTasks : raw_task_wait_abort(t)
  \/ \E t \in ChangeTasks, p \in NewPrios : raw_task_priority_change(t, p)
  \/ \E t \in DeleteTasks, auto_start \in BOOLEAN : Create(t, auto_start)

(* t is done with the service it had blocked in. *)
Finish(t) == Return(t) \/ (t \in DeleteTasks /\ raw_task_delete(t))

-----------------------------------------------------------------------------

(* Ready list, tick list and wait lists hold exactly the tasks whose state *)
(* says so, and nobody waits for an object that was deleted.               *)
WaitersWait ==
  /\ StateMatchesListsIn(k) /\ ListsDistinctIn(k)
  /\ \A o \in Objects \ exists : k.block_list[o] = <<>>
  /\ \A t \in Tasks : k.state[t] \in PendStates => call[t] = k.block_obj[t]
=============================================================================
