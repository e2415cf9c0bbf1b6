------------------------------- MODULE RawSem -------------------------------
(***************************************************************************)
(* Counting semaphores, raw_sem.c; the task semaphores of raw_task_sem.c   *)
(* are these semaphores, found through a task.                             *)
(***************************************************************************)
EXTENDS RawObject

CONSTANTS Sems,       \* semaphores
          COUNT_MAX,  \* the greatest count
          InitCounts  \* counts the application creates and sets them with

ASSUME SemAssumption ==
  /\ Sems \subseteq Objects
  /\ COUNT_MAX \in Nat \ {0}
  /\ InitCounts \subseteq 0 .. COUNT_MAX - 1

VARIABLE count

SemInit == count = [s \in Sems |-> 0]

raw_semaphore_create(s, c) ==
  /\ ObjectCreate(s)
  /\ count' = [count EXCEPT ![s] = c]

(* Fault: a unit is counted although a task waits for it. *)
PutCounts_always(s) ==
  /\ s \in exists
  /\ count[s] < COUNT_MAX
  /\ count' = [count EXCEPT ![s] = @ + 1]
  /\ UNCHANGED objvars

(* semaphore_put with no task that waits; at COUNT_MAX it is refused.      *)
PutCounts(s) ==
  /\ s \in exists
  /\ k.block_list[s] = <<>> /\ count[s] < COUNT_MAX
  /\ count' = [count EXCEPT ![s] = @ + 1]
  /\ UNCHANGED objvars

(* WAKE_ONE_SEM *)
PutWakes(s) ==
  /\ s \in exists
  /\ k.block_list[s] # <<>>
  /\ k' = pend_task_wake_up(k, Head(k.block_list[s]))
  /\ UNCHANGED <<call, exists, count>>

(* WAKE_ALL_SEM *)
PutWakesAll(s) ==
  /\ s \in exists
  /\ k.block_list[s] # <<>>
  /\ k' = end_waits(k, s, Tasks, "OK")
  /\ UNCHANGED <<call, exists, count>>

GetCounts(t, s) ==
  /\ Runs(t) /\ s \in exists
  /\ count[s] > 0
  /\ count' = [count EXCEPT ![s] = @ - 1]
  /\ UNCHANGED objvars

GetBlocks(t, s, timeout) ==
  /\ Runs(t) /\ s \in exists
  /\ count[s] = 0
  /\ Block(t, s, timeout)
  /\ UNCHANGED count

(* Refused while tasks wait. *)
raw_semaphore_set(s, c) ==
  /\ s \in exists
  /\ count[s] > 0 \/ k.block_list[s] = <<>>
  /\ count' = [count EXCEPT ![s] = c]
  /\ UNCHANGED objvars

(* The count of a deleted semaphore is not used again. *)
raw_semaphore_delete(s) ==
  /\ ObjectDelete(s)
  /\ count' = [count EXCEPT ![s] = 0]

SemNext ==
  \E s \in Sems :
    \/ PutCounts(s) \/ PutWakes(s) \/ PutWakesAll(s)
    \/ \E t \in Tasks :
         GetCounts(t, s) \/ \E timeout \in Timeouts : GetBlocks(t, s, timeout)
    \/ raw_semaphore_delete(s)
    \/ \E c \in InitCounts : raw_semaphore_create(s, c) \/ raw_semaphore_set(s, c)

-----------------------------------------------------------------------------

(* The semaphore s as module Semaphore specifies it. *)
Abstract(s) == INSTANCE Semaphore WITH
  units    <- count[s],
  waiting  <- ToSet(k.block_list[s]),
  granted  <- {t \in Tasks : Granted(t, s)},
  alive    <- s \in exists

(* raw_sem.c implements counting semaphores, whatever ends the waits of    *)
(* its tasks: no unit is lost, counted while a task waits, or given twice. *)
SemIsSemaphore ==
  /\ \A s \in Sems : Abstract(s)!Init
  /\ [][\A s \in Sems : UNCHANGED Abstract(s)!vars \/ Abstract(s)!Next]_<<objvars, count>>
=============================================================================
