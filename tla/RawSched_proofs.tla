--------------------------- MODULE RawSched_proofs ---------------------------
(***************************************************************************)
(* Safety of preemption in RawSched, proved for any set of tasks, any      *)
(* number of priorities, any depth of interrupt nesting and of scheduler   *)
(* locks; before it, what the operations of the run queue preserve and     *)
(* what they change.                                                       *)
(***************************************************************************)
EXTENDS RawSched, RawList_proofs

(***************************************************************************)
(* The operations on the run queue.                                        *)
(***************************************************************************)

(* The head of the highest list exists and has the highest priority. *)
LEMMA HeadLemma ==
  ASSUME NEW old \in RunQueues, NEW prio \in [Tasks -> Prios],
         RunQueueOK(old, prio)
  PROVE  /\ old.highest_priority \in Prios
         /\ get_ready_task(old) \in Tasks
         /\ get_ready_task(old) \in ToSet(old.task_ready_list[old.highest_priority])
         /\ prio[get_ready_task(old)] = old.highest_priority
         /\ OnReadyList(old, get_ready_task(old), prio[get_ready_task(old)])
  <1>1. /\ old.highest_priority \in Prios
        /\ old.task_ready_list[old.highest_priority] # <<>>
    BY DEF RunQueueOK, BitmapOK, HighestOK
  <1>2. old.task_ready_list[old.highest_priority] \in Seq(Tasks)
    BY <1>1 DEF RunQueues
  <1>3. /\ get_ready_task(old) \in ToSet(old.task_ready_list[old.highest_priority])
        /\ get_ready_task(old) \in Tasks
    BY <1>1, <1>2, EmptyLemma DEF get_ready_task
  <1> QED BY <1>1, <1>3 DEF RunQueueOK, ListsOK, OnReadyList

NoneReady(old) == old.task_bit_map = {} /\ old.highest_priority = PRIO_MAX

(* The lists of new are those of old, and t in the list of priority p. *)
Inserted(old, new, t, p) ==
  \A q \in Prios :
    ToSet(new.task_ready_list[q]) =
      IF q = p THEN ToSet(old.task_ready_list[q]) \cup {t}
               ELSE ToSet(old.task_ready_list[q])

(* Inserting a task moves no other task into or out of any list. *)
LEMMA InsertedOther ==
  ASSUME NEW old, NEW new, NEW t, NEW p, Inserted(old, new, t, p),
         NEW q \in Prios, NEW u, u # t
  PROVE  u \in ToSet(new.task_ready_list[q]) <=> u \in ToSet(old.task_ready_list[q])
  <1>1. CASE q = p
    BY <1>1 DEF Inserted
  <1>2. CASE q # p
    BY <1>2 DEF Inserted
  <1> QED BY <1>1, <1>2

(* An insertion of t, which is on no list, at either end of the list of    *)
(* its priority keeps the queue well formed and adds t alone.              *)
LEMMA InsertLemma ==
  ASSUME NEW old \in RunQueues, NEW prio \in [Tasks -> Prios],
         ListsOK(old, prio), BitmapOK(old),
         HighestOK(old) \/ NoneReady(old),
         NEW t \in Tasks, ~OnReadyList(old, t, prio[t]),
         NEW new,
         \/ new = add_ready_list_head(old, t, prio[t])
         \/ new = add_ready_list_end(old, t, prio[t])
  PROVE  /\ new \in RunQueues
         /\ RunQueueOK(new, prio)
         /\ Inserted(old, new, t, prio[t])
  <1> DEFINE p == prio[t]
             l == old.task_ready_list[p]
             n == new.task_ready_list
  <1>1. /\ p \in Prios /\ l \in Seq(Tasks)
        /\ IsInjective(l) /\ t \notin ToSet(l)
        /\ old.task_bit_map \subseteq Prios
        /\ old.highest_priority \in 0 .. PRIO_MAX
        /\ PRIO_MAX \in Nat
    BY PrioMaxAssumption DEF RunQueues, ListsOK, OnReadyList
  <1>2. PICK ins \in {<<t>> \o l, Append(l, t)} :
          new = [task_ready_list  |-> [old.task_ready_list EXCEPT ![p] = ins],
                 task_bit_map     |-> old.task_bit_map \cup {p},
                 highest_priority |-> Higher(p, old.highest_priority)]
    <2>1. CASE new = add_ready_list_head(old, t, p)
      BY <1>1, <2>1 DEF add_ready_list_head, RunQueues
    <2>2. CASE new = add_ready_list_end(old, t, p)
      BY <1>1, <2>2 DEF add_ready_list_end, RunQueues
    <2> QED BY <2>1, <2>2
  <1>3. /\ ins \in Seq(Tasks) /\ ins # <<>> /\ IsInjective(ins)
        /\ ToSet(ins) = ToSet(l) \cup {t}
    <2> HIDE DEF l
    <2>1. CASE ins = <<t>> \o l
      BY <1>1, <2>1, ConsLemma
    <2>2. CASE ins = Append(l, t)
      BY <1>1, <2>2, AppendLemma
    <2> QED BY <2>1, <2>2
  <1>4. /\ new.task_ready_list = [old.task_ready_list EXCEPT ![p] = ins]
        /\ new.task_bit_map = old.task_bit_map \cup {p}
        /\ new.highest_priority = Higher(p, old.highest_priority)
    BY <1>2
  <1>5. /\ n \in [Prios -> Seq(Tasks)]
        /\ n[p] = ins
        /\ \A q \in Prios : q # p => n[q] = old.task_ready_list[q]
    BY <1>1, <1>3, <1>4 DEF RunQueues
  <1>6. new.highest_priority \in 0 .. PRIO_MAX
    BY <1>1, <1>4 DEF Higher, Prios
  <1>7. new \in RunQueues
    BY <1>1, <1>2, <1>4, <1>5, <1>6 DEF RunQueues
  <1> HIDE DEF n
  <1>8. \A q \in Prios : /\ IsInjective(n[q])
                         /\ \A u \in ToSet(n[q]) : prio[u] = q
    BY <1>1, <1>3, <1>5 DEF ListsOK
  <1>9. new.task_bit_map = {q \in Prios : n[q] # <<>>}
    BY <1>1, <1>3, <1>4, <1>5 DEF BitmapOK
  <1>10. HighestOK(new)
    BY <1>1, <1>4 DEF HighestOK, NoneReady, Higher, Prios
  <1> QED BY <1>3, <1>5, <1>7, <1>8, <1>9, <1>10
          DEF RunQueueOK, ListsOK, BitmapOK, Inserted, n

(* Removing a ready task, while another one stays ready, keeps the queue   *)
(* well formed and removes that task alone; highest_priority is found by   *)
(* the search from the priority of the removed task on.                    *)
LEMMA RemoveLemma ==
  ASSUME NEW old \in RunQueues, NEW prio \in [Tasks -> Prios],
         RunQueueOK(old, prio),
         NEW t \in Tasks, OnReadyList(old, t, prio[t]),
         NEW u \in Tasks \ {t}, OnReadyList(old, u, prio[u]),
         NEW new, new = remove_ready_list(old, t, prio[t])
  PROVE  /\ new \in RunQueues
         /\ RunQueueOK(new, prio)
         /\ \A p \in Prios :
              ToSet(new.task_ready_list[p]) = ToSet(old.task_ready_list[p]) \ {t}
  <1> DEFINE p == prio[t]
             l == old.task_ready_list[p]
             rest == list_delete(l, t)
             map == IF rest = <<>> THEN old.task_bit_map \ {p}
                                   ELSE old.task_bit_map
             n == [old.task_ready_list EXCEPT ![p] = rest]
             high == IF rest = <<>> /\ p = old.highest_priority
                     THEN FirstSetBit(map, p) ELSE old.highest_priority
  <1>1. /\ p \in Prios /\ l \in Seq(Tasks)
        /\ IsInjective(l) /\ t \in ToSet(l)
        /\ old.task_bit_map \subseteq Prios
        /\ old.highest_priority \in old.task_bit_map
        /\ old.task_ready_list \in [Prios -> Seq(Tasks)]
    BY DEF RunQueues, ListsOK, OnReadyList, RunQueueOK, HighestOK
  <1>2. /\ rest \in Seq(Tasks) /\ IsInjective(rest)
        /\ ToSet(rest) = ToSet(l) \ {t}
    BY <1>1, DeleteLemma
  <1>3. /\ new = [task_ready_list |-> n, task_bit_map |-> map,
                  highest_priority |-> high]
        /\ new.task_ready_list = n
        /\ new.task_bit_map = map
        /\ new.highest_priority = high
    BY DEF remove_ready_list
  <1> HIDE DEF rest
  <1>4. /\ n \in [Prios -> Seq(Tasks)]
        /\ n[p] = rest
        /\ \A q \in Prios : q # p => n[q] = old.task_ready_list[q]
    BY <1>1, <1>2
  <1>5. \A q \in Prios \ {p} : t \notin ToSet(old.task_ready_list[q])
    BY DEF RunQueueOK, ListsOK
  <1>6. \A q \in Prios : /\ ToSet(n[q]) = ToSet(old.task_ready_list[q]) \ {t}
                         /\ IsInjective(n[q])
    BY <1>2, <1>4, <1>5 DEF RunQueueOK, ListsOK
  <1> HIDE DEF n
  <1>7. ListsOK(new, prio)
    BY <1>3, <1>6 DEF ListsOK, RunQueueOK
  <1>8. map = {q \in Prios : n[q] # <<>>}
    <2>1. old.task_bit_map = {q \in Prios : old.task_ready_list[q] # <<>>}
      BY DEF RunQueueOK, BitmapOK
    <2>2. p \in old.task_bit_map
      BY <1>1, <2>1, EmptyLemma
    <2> QED BY <1>4, <2>1, <2>2
  <1>9. prio[u] \in map
    <2>1. u \in ToSet(n[prio[u]]) /\ prio[u] \in Prios
      BY <1>6 DEF OnReadyList
    <2>2. n[prio[u]] \in Seq(Tasks)
      BY <1>4, <2>1
    <2> QED BY <1>8, <2>1, <2>2, EmptyLemma
  <1>10. high \in map /\ \A q \in map : high <= q
    <2>1. /\ old.highest_priority \in old.task_bit_map
          /\ \A q \in old.task_bit_map : old.highest_priority <= q
      BY DEF RunQueueOK, HighestOK
    <2>2. CASE rest = <<>> /\ p = old.highest_priority
      <3>1. \A q \in map : q \in Nat /\ p <= q
        BY <1>1, <2>1, <2>2 DEF Prios
      <3>2. map \subseteq Nat /\ map # {}
        BY <1>9, <3>1
      <3>3. high = FirstSetBit(map, p)
        BY <2>2
      <3> HIDE DEF map, high
      <3>4. \E h \in map : \A q \in map : h <= q
        BY <3>2, LeastElement
      <3> QED BY <3>1, <3>3, <3>4 DEF FirstSetBit
    <2>3. CASE rest # <<>>
      BY <2>1, <2>3
    <2>4. CASE p # old.highest_priority
      BY <2>1, <2>4
    <2> QED BY <2>2, <2>3, <2>4
  <1> HIDE DEF map, high
  <1>11. new \in RunQueues
    <2>1. map \subseteq Prios /\ high \in 0 .. PRIO_MAX
      BY <1>8, <1>10, PrioMaxAssumption DEF Prios
    <2> QED BY <1>3, <1>4, <2>1 DEF RunQueues
  <1>12. BitmapOK(new) /\ HighestOK(new)
    BY <1>3, <1>8, <1>10 DEF BitmapOK, HighestOK
  <1> QED BY <1>3, <1>6, <1>7, <1>11, <1>12 DEF RunQueueOK

(* A rotation of the list of a ready task changes its order alone. *)
LEMMA RotateLemma ==
  ASSUME NEW old \in RunQueues, NEW prio \in [Tasks -> Prios],
         RunQueueOK(old, prio),
         NEW t \in Tasks, OnReadyList(old, t, prio[t]),
         NEW new, new = move_to_ready_list_end(old, t, prio[t])
  PROVE  /\ new \in RunQueues
         /\ RunQueueOK(new, prio)
         /\ \A p \in Prios :
              ToSet(new.task_ready_list[p]) = ToSet(old.task_ready_list[p])
  <1> DEFINE p == prio[t]
             l == old.task_ready_list[p]
             r == Append(list_delete(l, t), t)
             n == [old.task_ready_list EXCEPT ![p] = r]
  <1>1. /\ p \in Prios /\ l \in Seq(Tasks) /\ l # <<>>
        /\ IsInjective(l) /\ t \in ToSet(l)
        /\ old.task_ready_list \in [Prios -> Seq(Tasks)]
    BY EmptyLemma DEF RunQueues, ListsOK, OnReadyList, RunQueueOK
  <1>2. /\ r \in Seq(Tasks) /\ r # <<>> /\ IsInjective(r)
        /\ ToSet(r) = ToSet(l)
    <2>1. /\ list_delete(l, t) \in Seq(Tasks) /\ IsInjective(list_delete(l, t))
          /\ ToSet(list_delete(l, t)) = ToSet(l) \ {t}
      BY <1>1, DeleteLemma
    <2> DEFINE d == list_delete(l, t)
    <2>2. t \notin ToSet(d)
      BY <2>1
    <2> HIDE DEF d
    <2>3. /\ Append(d, t) \in Seq(Tasks) /\ Append(d, t) # <<>>
          /\ IsInjective(Append(d, t))
          /\ ToSet(Append(d, t)) = ToSet(d) \cup {t}
      BY <2>1, <2>2, AppendLemma DEF d
    <2> QED BY <1>1, <2>1, <2>3 DEF d
  <1>3. new = [task_ready_list |-> n, task_bit_map |-> old.task_bit_map,
               highest_priority |-> old.highest_priority]
    BY DEF move_to_ready_list_end
  <1> HIDE DEF r
  <1>4. /\ n \in [Prios -> Seq(Tasks)]
        /\ \A q \in Prios : /\ ToSet(n[q]) = ToSet(old.task_ready_list[q])
                            /\ IsInjective(n[q])
                            /\ n[q] = <<>> <=> old.task_ready_list[q] = <<>>
    BY <1>1, <1>2 DEF RunQueueOK, ListsOK
  <1>5. /\ new.task_ready_list = n
        /\ new.task_bit_map = old.task_bit_map
        /\ new.highest_priority = old.highest_priority
        /\ new \in RunQueues
    BY <1>3, <1>4 DEF RunQueues
  <1> HIDE DEF n
  <1>6. ListsOK(new, prio) /\ BitmapOK(new) /\ HighestOK(new)
    BY <1>4, <1>5 DEF RunQueueOK, ListsOK, BitmapOK, HighestOK
  <1> QED BY <1>4, <1>5, <1>6 DEF RunQueueOK

-----------------------------------------------------------------------------
(***************************************************************************)
(* The scheduler.                                                          *)
(***************************************************************************)

(* Before raw_os_start nothing runs; afterwards there is a running task.   *)
StartInv ==
  /\ ~raw_os_active => /\ raw_int_nesting = 0 /\ raw_sched_lock = 0
                       /\ ~pendsv /\ crit = "off"
  /\ raw_os_active => raw_task_active \in Tasks /\ high_ready_obj \in Tasks

(* The idle task is always ready, so the ready queue is never empty and    *)
(* highest_priority is always that of a task.                              *)
QueueInv == RunQueueConsistent /\ Ready(Idle)

(* No switch is requested while a task is in a critical section. *)
PendInv == InCritical /\ raw_int_nesting = 0 => ~pendsv

(* RunningIsHighest, extended to the part of a critical section that has   *)
(* changed nothing yet.                                                    *)
RunInv ==
  TaskRuns /\ crit \in {"off", "clean"} /\ pc[raw_task_active] = "run"
    => /\ Ready(raw_task_active)
       /\ raw_sched_lock = 0 /\ ~late => raw_task_active = get_ready_task(rq)

IInv ==
  /\ TypeOK
  /\ StartInv
  /\ QueueInv
  /\ SwitchTarget
  /\ LockedTaskStays
  /\ PendInv
  /\ RunInv

-----------------------------------------------------------------------------
(***************************************************************************)
(* The steps that change the run queue.                                    *)
(***************************************************************************)

(* A task that is not on the list of its priority is on no list. *)
LEMMA OnNoList ==
  ASSUME NEW t \in Tasks, RunQueueConsistent, ~Ready(t), NEW p \in Prios
  PROVE  t \notin ToSet(rq.task_ready_list[p])
  BY DEF RunQueueConsistent, RunQueueOK, ListsOK, Ready, OnReadyList

(* The priority of a task that is not ready may change at will. *)
LEMMA SetPriority ==
  ASSUME TypeOK, RunQueueConsistent, NEW t \in Tasks, ~Ready(t), NEW p \in Prios,
         NEW prio, prio = [priority EXCEPT ![t] = p]
  PROVE  /\ prio \in [Tasks -> Prios]
         /\ RunQueueOK(rq, prio)
         /\ ~OnReadyList(rq, t, prio[t])
         /\ \A u \in Tasks : OnReadyList(rq, u, prio[u]) <=> Ready(u)
  <1>1. prio \in [Tasks -> Prios] /\ prio[t] = p
    BY DEF TypeOK
  <1>2. \A u \in Tasks \ {t} : prio[u] = priority[u]
    BY DEF TypeOK
  <1>3. \A q \in Prios : t \notin ToSet(rq.task_ready_list[q])
    BY OnNoList
  <1>4. \A q \in Prios : ToSet(rq.task_ready_list[q]) \subseteq Tasks
    BY EmptyLemma DEF TypeOK, RunQueues
  <1>5. ListsOK(rq, prio)
    BY <1>2, <1>3, <1>4 DEF RunQueueConsistent, RunQueueOK, ListsOK
  <1> QED BY <1>1, <1>2, <1>3, <1>5
          DEF RunQueueConsistent, RunQueueOK, Ready, OnReadyList

(* A task enters the run queue. *)
LEMMA InsertStep ==
  ASSUME TypeOK, RunQueueConsistent, NEW t \in Tasks, ~Ready(t), NEW p \in Prios,
         priority' = [priority EXCEPT ![t] = p],
         rq' \in {add_ready_list_head(rq, t, p), add_ready_list_end(rq, t, p)}
  PROVE  /\ rq' \in RunQueues /\ priority' \in [Tasks -> Prios]
         /\ RunQueueConsistent'
         /\ \A u \in Tasks : Ready(u)' <=> Ready(u) \/ u = t
  <1>1. /\ priority' \in [Tasks -> Prios] /\ priority'[t] = p
        /\ RunQueueOK(rq, priority')
        /\ ~OnReadyList(rq, t, priority'[t])
        /\ \A u \in Tasks : OnReadyList(rq, u, priority'[u]) <=> Ready(u)
    BY SetPriority DEF TypeOK
  <1>2. /\ ListsOK(rq, priority') /\ BitmapOK(rq) /\ HighestOK(rq)
        /\ rq.task_bit_map # {}
        /\ rq \in RunQueues
    BY <1>1 DEF RunQueueOK, HighestOK, TypeOK
  <1>3. /\ rq' \in RunQueues
        /\ RunQueueOK(rq', priority')
        /\ Inserted(rq, rq', t, priority'[t])
    <2>1. \/ rq' = add_ready_list_head(rq, t, priority'[t])
          \/ rq' = add_ready_list_end(rq, t, priority'[t])
      BY <1>1
    <2> QED BY <1>1, <1>2, <2>1, InsertLemma
  <1>4. \A u \in Tasks : Ready(u)' <=> Ready(u) \/ u = t
    BY <1>1, <1>3 DEF Ready, OnReadyList, Inserted
  <1> QED BY <1>1, <1>3, <1>4 DEF RunQueueConsistent

(* A task other than the idle task leaves the run queue. *)
LEMMA RemoveStep ==
  ASSUME TypeOK, QueueInv, SchedAssumption, NEW t \in Tasks \ {Idle}, Ready(t),
         NEW new, new = remove_ready_list(rq, t, priority[t])
  PROVE  /\ new \in RunQueues
         /\ RunQueueOK(new, priority)
         /\ \A u \in Tasks :
              OnReadyList(new, u, priority[u]) <=> Ready(u) /\ u # t
  <1>1. /\ rq \in RunQueues /\ priority \in [Tasks -> Prios]
        /\ RunQueueOK(rq, priority)
        /\ OnReadyList(rq, t, priority[t])
        /\ Idle \in Tasks \ {t} /\ OnReadyList(rq, Idle, priority[Idle])
    BY DEF TypeOK, QueueInv, RunQueueConsistent, Ready, SchedAssumption
  <1>2. /\ new \in RunQueues
        /\ RunQueueOK(new, priority)
        /\ \A q \in Prios :
             ToSet(new.task_ready_list[q]) = ToSet(rq.task_ready_list[q]) \ {t}
    BY <1>1, RemoveLemma
  <1> QED BY <1>1, <1>2 DEF Ready, OnReadyList

(* The list of a ready task is rotated. *)
LEMMA RotateStep ==
  ASSUME TypeOK, QueueInv, NEW t \in Tasks, Ready(t), priority' = priority,
         rq' = move_to_ready_list_end(rq, t, priority[t])
  PROVE  /\ rq' \in RunQueues
         /\ RunQueueConsistent'
         /\ \A u \in Tasks : Ready(u)' <=> Ready(u)
  <1>1. /\ rq \in RunQueues /\ priority \in [Tasks -> Prios]
        /\ RunQueueOK(rq, priority)
        /\ OnReadyList(rq, t, priority[t])
    BY DEF TypeOK, QueueInv, RunQueueConsistent, Ready
  <1>2. /\ rq' \in RunQueues
        /\ RunQueueOK(rq', priority)
        /\ \A q \in Prios :
             ToSet(rq'.task_ready_list[q]) = ToSet(rq.task_ready_list[q])
    BY <1>1, RotateLemma
  <1> QED BY <1>1, <1>2 DEF RunQueueConsistent, Ready, OnReadyList

(* The task the scheduler picks exists and is ready. *)
LEMMA HeadStep ==
  ASSUME TypeOK, QueueInv
  PROVE  get_ready_task(rq) \in Tasks /\ Ready(get_ready_task(rq))
  BY HeadLemma DEF TypeOK, QueueInv, RunQueueConsistent, Ready

-----------------------------------------------------------------------------

(* The state before raw_os_start, with the idle task created, has IInv. *)
LEMMA InitInv == Init => IInv
  <1> SUFFICES ASSUME Init PROVE IInv
    OBVIOUS
  <1> USE PrioMaxAssumption, SchedAssumption
  <1> DEFINE empty == run_queue_init
  <1>1. /\ empty \in RunQueues
        /\ empty.task_bit_map = {}
        /\ empty.highest_priority = PRIO_MAX
        /\ \A p \in Prios : empty.task_ready_list[p] = <<>>
    BY DEF run_queue_init, RunQueues
  <1>2. /\ priority \in [Tasks -> Prios] /\ priority[Idle] = IDLE_PRIORITY
        /\ Idle \in Tasks
    BY DEF Init
  <1>3. /\ ListsOK(empty, priority) /\ BitmapOK(empty)
        /\ ~OnReadyList(empty, Idle, priority[Idle])
        /\ NoneReady(empty)
    BY <1>1, <1>2 DEF NoneReady, ListsOK, BitmapOK, OnReadyList, IsInjective, ToSet
  <1>4. rq = add_ready_list_end(empty, Idle, priority[Idle])
    BY <1>2 DEF Init
  <1> HIDE DEF empty
  <1>5. /\ rq \in RunQueues
        /\ RunQueueOK(rq, priority)
        /\ Inserted(empty, rq, Idle, priority[Idle])
    BY <1>1, <1>2, <1>3, <1>4, InsertLemma
  <1>6. Ready(Idle)
    BY <1>2, <1>5 DEF Ready, OnReadyList, Inserted
  <1>7. TypeOK
    <2>1. 0 \in 0 .. INT_NESTED_LEVEL /\ 0 \in 0 .. LockLimit
      OBVIOUS
    <2>2. time_slice \in [Tasks -> 1 .. TimeTotal]
      BY DEF Init
    <2>3. /\ sched_way \in [Tasks -> {"RR", "FIFO"}]
          /\ pc \in [Tasks -> {"run", "sched"}]
      BY DEF Init
    <2> QED BY <1>2, <1>5, <2>1, <2>2, <2>3 DEF Init, TypeOK, CritStates
  <1> QED BY <1>5, <1>6, <1>7
          DEF Init, IInv, StartInv, QueueInv, RunQueueConsistent, SwitchTarget,
              LockedTaskStays, PendInv, RunInv, InCritical, TaskRuns

(* A step that leaves the run queue and the priorities alone. *)
LEMMA QueueStable ==
  ASSUME QueueInv, rq' = rq, priority' = priority
  PROVE  /\ QueueInv'
         /\ \A t : Ready(t)' <=> Ready(t)
         /\ get_ready_task(rq') = get_ready_task(rq)
  BY DEF QueueInv, RunQueueConsistent, Ready

(* A critical section that changes the run queue and leaves the running    *)
(* task's scheduling state to CriticalExit and raw_sched.                  *)
LEMMA CriticalStep ==
  ASSUME IInv, InCritical, UNCHANGED osVars, UNCHANGED sliceVars,
         raw_task_active' = raw_task_active, high_ready_obj' = high_ready_obj,
         late' = late, pc' \in [Tasks -> {"run", "sched"}],
         crit' \in {"own", "dirty"},
         rq' \in RunQueues, priority' \in [Tasks -> Prios],
         RunQueueConsistent',
         Ready(Idle)',
         raw_sched_lock > 0 => Ready(raw_task_active)'
  PROVE  IInv'
  <1>1. TypeOK'
    BY DEF IInv, TypeOK, osVars, intVars, sliceVars, CritStates
  <1>2. StartInv' /\ PendInv' /\ QueueInv'
    BY DEF IInv, StartInv, PendInv, QueueInv, InCritical, osVars, intVars
  <1>3. SwitchTarget' /\ RunInv'
    BY DEF IInv, PendInv, SwitchTarget, RunInv, InCritical, TaskRuns, osVars,
           intVars
  <1>4. LockedTaskStays'
    BY DEF IInv, LockedTaskStays, osVars, Ready
  <1> QED BY <1>1, <1>2, <1>3, <1>4 DEF IInv

-----------------------------------------------------------------------------
(***************************************************************************)
(* Every action preserves the invariant.  First those that leave the run   *)
(* queue alone, then the changes inside critical sections, then the rest.  *)
(***************************************************************************)

(* raw_os_start gives the processor to the head of the highest list. *)
LEMMA raw_os_startInv == IInv /\ raw_os_start => IInv'
  <1> SUFFICES ASSUME IInv, raw_os_start PROVE IInv'
    OBVIOUS
  <1>1. /\ QueueInv' /\ \A t : Ready(t)' <=> Ready(t)
        /\ get_ready_task(rq') = get_ready_task(rq)
    BY QueueStable DEF IInv, raw_os_start
  <1>2. get_ready_task(rq) \in Tasks
    BY HeadStep DEF IInv
  <1>3. TypeOK'
    BY <1>2 DEF IInv, TypeOK, raw_os_start, intVars, sliceVars
  <1> QED BY <1>1, <1>2, <1>3
          DEF IInv, StartInv, SwitchTarget, LockedTaskStays, PendInv, RunInv,
              TaskRuns, InCritical, raw_os_start, intVars, sliceVars

(* Disabling the interrupts changes nothing that IInv speaks of. *)
LEMMA CriticalEnterInv == IInv /\ CriticalEnter => IInv'
  <1> SUFFICES ASSUME IInv, CriticalEnter PROVE IInv'
    OBVIOUS
  <1>1. /\ QueueInv' /\ \A t : Ready(t)' <=> Ready(t)
        /\ get_ready_task(rq') = get_ready_task(rq)
    BY QueueStable DEF IInv, CriticalEnter
  <1> USE DEF CriticalEnter, osVars, intVars, taskVars, sliceVars
  <1>2. TypeOK'
    BY DEF IInv, TypeOK, CritStates
  <1>3. StartInv' /\ PendInv'
    BY DEF IInv, TypeOK, StartInv, PendInv, InCritical, TaskAt, TaskRuns,
           HandlerRuns
  <1>4. SwitchTarget' /\ LockedTaskStays'
    BY <1>1 DEF IInv, SwitchTarget, LockedTaskStays
  <1>5. RunInv'
    BY <1>1 DEF IInv, RunInv, TaskAt, TaskRuns, HandlerRuns
  <1> QED BY <1>1, <1>2, <1>3, <1>4, <1>5 DEF IInv

(* A service that leaves its critical section has yet to call raw_sched. *)
LEMMA CriticalExitInv == IInv /\ CriticalExit => IInv'
  <1> SUFFICES ASSUME IInv, CriticalExit PROVE IInv'
    OBVIOUS
  <1>1. /\ QueueInv' /\ \A t : Ready(t)' <=> Ready(t)
        /\ get_ready_task(rq') = get_ready_task(rq)
    BY QueueStable DEF IInv, CriticalExit
  <1>2. raw_task_active \in Tasks
    BY DEF IInv, StartInv, CriticalExit, InCritical
  <1> USE DEF CriticalExit, osVars, intVars, sliceVars
  <1>3. TypeOK'
    BY DEF IInv, TypeOK, CritStates
  <1>4. StartInv' /\ PendInv' /\ SwitchTarget' /\ LockedTaskStays'
    BY <1>1 DEF IInv, StartInv, PendInv, InCritical, SwitchTarget,
                LockedTaskStays
  <1>5. RunInv'
    <2>1. CASE HandlerRuns
      BY <2>1 DEF IInv, TypeOK, RunInv, TaskRuns, HandlerRuns
    <2>2. CASE crit = "clean"
      BY <1>1, <2>2 DEF IInv, RunInv, TaskRuns
    <2>3. CASE ~HandlerRuns /\ crit # "clean"
      BY <1>2, <2>3 DEF IInv, TypeOK, RunInv
    <2> QED BY <2>1, <2>2, <2>3
  <1> QED BY <1>1, <1>3, <1>4, <1>5 DEF IInv

(* A service that returns without raw_sched may be late. *)
LEMMA CriticalExitNoSchedInv == IInv /\ CriticalExitNoSched => IInv'
  <1> SUFFICES ASSUME IInv, CriticalExitNoSched PROVE IInv'
    OBVIOUS
  <1>1. /\ QueueInv' /\ \A t : Ready(t)' <=> Ready(t)
        /\ get_ready_task(rq') = get_ready_task(rq)
    BY QueueStable DEF IInv, CriticalExitNoSched
  <1> USE DEF CriticalExitNoSched, osVars, intVars, sliceVars
  <1>2. TypeOK'
    BY DEF IInv, TypeOK, CritStates
  <1>3. StartInv' /\ PendInv' /\ SwitchTarget' /\ LockedTaskStays' /\ RunInv'
    BY <1>1 DEF IInv, StartInv, PendInv, InCritical, SwitchTarget,
                LockedTaskStays, RunInv
  <1> QED BY <1>1, <1>2, <1>3 DEF IInv

(* raw_sched requests a switch to the head of the highest list, or none. *)
LEMMA raw_schedInv == IInv /\ raw_sched => IInv'
  <1> SUFFICES ASSUME IInv, raw_sched PROVE IInv'
    OBVIOUS
  <1>1. /\ QueueInv' /\ \A t : Ready(t)' <=> Ready(t)
        /\ get_ready_task(rq') = get_ready_task(rq)
    BY QueueStable DEF IInv, raw_sched
  <1>2. /\ get_ready_task(rq) \in Tasks /\ Ready(get_ready_task(rq))
        /\ raw_task_active \in Tasks
    BY HeadStep DEF IInv, StartInv, raw_sched, TaskAt, TaskRuns
  <1> USE DEF raw_sched, intVars, sliceVars, TaskAt, TaskRuns
  <1>3. CASE raw_sched_lock > 0
    <2>1. TypeOK'
      BY <1>3 DEF IInv, TypeOK
    <2> QED BY <1>1, <1>3, <2>1
            DEF IInv, StartInv, PendInv, InCritical, SwitchTarget,
                LockedTaskStays, RunInv
  <1>4. CASE ~(raw_sched_lock > 0)
    <2>1. TypeOK'
      BY <1>2, <1>4 DEF IInv, TypeOK, Decide
    <2> QED BY <1>1, <1>2, <1>4, <2>1
            DEF IInv, StartInv, PendInv, InCritical, SwitchTarget,
                LockedTaskStays, RunInv, Decide
  <1> QED BY <1>3, <1>4

(* Taking the scheduler lock needs the running task to be ready. *)
LEMMA raw_disable_scheInv == IInv /\ raw_disable_sche => IInv'
  <1> SUFFICES ASSUME IInv, raw_disable_sche PROVE IInv'
    OBVIOUS
  <1>1. /\ QueueInv' /\ \A t : Ready(t)' <=> Ready(t)
        /\ get_ready_task(rq') = get_ready_task(rq)
    BY QueueStable DEF IInv, raw_disable_sche
  <1> USE DEF raw_disable_sche, intVars, taskVars, sliceVars, TaskAt, TaskRuns
  <1>2. TypeOK'
    BY SchedAssumption DEF IInv, TypeOK
  <1> QED BY <1>1, <1>2
          DEF IInv, TypeOK, StartInv, PendInv, InCritical, SwitchTarget,
              LockedTaskStays, RunInv

(* The last unlock makes the decision that the lock held back. *)
LEMMA raw_enable_scheInv == IInv /\ raw_enable_sche => IInv'
  <1> SUFFICES ASSUME IInv, raw_enable_sche PROVE IInv'
    OBVIOUS
  <1>1. /\ QueueInv' /\ \A t : Ready(t)' <=> Ready(t)
        /\ get_ready_task(rq') = get_ready_task(rq)
    BY QueueStable DEF IInv, raw_enable_sche
  <1>2. raw_task_active \in Tasks
    BY DEF IInv, StartInv, raw_enable_sche, TaskAt, TaskRuns
  <1> USE DEF raw_enable_sche, intVars, sliceVars, TaskAt, TaskRuns
  <1>3. TypeOK'
    <2>1. raw_sched_lock' \in 0 .. LockLimit
      BY SchedAssumption DEF IInv, TypeOK
    <2>2. pc' \in [Tasks -> {"run", "sched"}]
      BY <1>2 DEF IInv, TypeOK
    <2> QED BY <2>1, <2>2 DEF IInv, TypeOK
  <1>4. StartInv' /\ PendInv' /\ SwitchTarget' /\ LockedTaskStays'
    BY <1>1 DEF IInv, TypeOK, StartInv, PendInv, InCritical, SwitchTarget,
                LockedTaskStays
  <1>5. RunInv'
    BY <1>1, <1>2 DEF IInv, TypeOK, RunInv
  <1> QED BY <1>1, <1>3, <1>4, <1>5 DEF IInv

(* The scheduling policy of a task is no part of IInv. *)
LEMMA raw_set_sched_wayInv ==
  ASSUME IInv, NEW t \in PolicyTasks, NEW policy \in {"RR", "FIFO"},
         raw_set_sched_way(t, policy)
  PROVE  IInv'
  <1>1. /\ QueueInv' /\ \A u : Ready(u)' <=> Ready(u)
        /\ get_ready_task(rq') = get_ready_task(rq)
    BY QueueStable DEF IInv, raw_set_sched_way
  <1> USE DEF raw_set_sched_way, osVars, intVars, taskVars, TaskAt, TaskRuns
  <1>2. TypeOK'
    BY DEF IInv, TypeOK
  <1> QED BY <1>1, <1>2
          DEF IInv, StartInv, PendInv, InCritical, SwitchTarget,
              LockedTaskStays, RunInv

(* A handler that starts interrupts no critical section. *)
LEMMA EnterInv == IInv /\ (EnterHandler \/ SysTick_Handler) => IInv'
  <1> SUFFICES ASSUME IInv, raw_enter_interrupt,
                      systick' \in {"none", "due", "done"}
               PROVE  IInv'
    BY DEF EnterHandler, SysTick_Handler, IInv, TypeOK
  <1>1. /\ QueueInv' /\ \A t : Ready(t)' <=> Ready(t)
        /\ get_ready_task(rq') = get_ready_task(rq)
    BY QueueStable DEF IInv, raw_enter_interrupt
  <1> USE DEF raw_enter_interrupt, taskVars, sliceVars
  <1>2. TypeOK' /\ raw_int_nesting' # 0
    BY SchedAssumption DEF IInv, TypeOK
  <1> QED BY <1>1, <1>2
          DEF IInv, StartInv, PendInv, InCritical, SwitchTarget,
              LockedTaskStays, RunInv, TaskRuns

(* The outermost handler decides anew, the others leave the decision to it. *)
LEMMA raw_finish_intInv == IInv /\ raw_finish_int => IInv'
  <1> SUFFICES ASSUME IInv, raw_finish_int PROVE IInv'
    OBVIOUS
  <1>1. /\ QueueInv' /\ \A t : Ready(t)' <=> Ready(t)
        /\ get_ready_task(rq') = get_ready_task(rq)
    BY QueueStable DEF IInv, raw_finish_int, FinishNesting
  <1>2. /\ get_ready_task(rq) \in Tasks /\ Ready(get_ready_task(rq))
        /\ raw_os_active
    BY HeadStep, SchedAssumption
       DEF IInv, TypeOK, StartInv, raw_finish_int, FinishNesting,
           HandlerRuns
  <1> USE DEF raw_finish_int, FinishNesting, sliceVars, HandlerRuns
  <1>3. raw_int_nesting' \in 0 .. INT_NESTED_LEVEL
    BY SchedAssumption DEF IInv, TypeOK
  <1>4. systick' \in {"none", "due", "done"}
    BY DEF IInv, TypeOK
  <1>5. CASE raw_int_nesting' > 0 \/ raw_sched_lock > 0
    <2>1. TypeOK'
      BY <1>3, <1>4, <1>5 DEF IInv, TypeOK
    <2> QED BY <1>1, <1>2, <1>3, <1>5, <2>1
            DEF IInv, StartInv, PendInv, InCritical, SwitchTarget,
                LockedTaskStays, RunInv, TaskRuns
  <1>6. CASE ~(raw_int_nesting' > 0 \/ raw_sched_lock > 0)
    <2>1. TypeOK'
      BY <1>2, <1>3, <1>4, <1>6 DEF IInv, TypeOK, Decide
    <2> QED BY <1>1, <1>2, <1>6, <2>1
            DEF IInv, StartInv, PendInv, InCritical, SwitchTarget,
                LockedTaskStays, RunInv, TaskRuns, Decide
  <1> QED BY <1>5, <1>6

(* PendSV loads the target of the pending switch. *)
LEMMA PendSV_HandlerInv == IInv /\ PendSV_Handler => IInv'
  <1> SUFFICES ASSUME IInv, PendSV_Handler PROVE IInv'
    OBVIOUS
  <1>1. /\ QueueInv' /\ \A t : Ready(t)' <=> Ready(t)
        /\ get_ready_task(rq') = get_ready_task(rq)
    BY QueueStable DEF IInv, PendSV_Handler
  <1>2. Ready(high_ready_obj) /\ high_ready_obj = get_ready_task(rq)
    BY HeadStep DEF IInv, SwitchTarget, PendSV_Handler
  <1> USE DEF PendSV_Handler, sliceVars, intVars
  <1>3. TypeOK'
    BY DEF IInv, TypeOK
  <1>4. StartInv' /\ PendInv' /\ SwitchTarget' /\ LockedTaskStays'
    BY DEF IInv, TypeOK, StartInv, PendInv, InCritical, SwitchTarget,
           LockedTaskStays
  <1>5. RunInv'
    BY <1>1, <1>2 DEF RunInv
  <1> QED BY <1>1, <1>3, <1>4, <1>5 DEF IInv

(* Tasks created before raw_os_start only enter the run queue. *)
LEMMA BootCreateInv ==
  ASSUME IInv, NEW t \in Tasks, BootCreate(t)
  PROVE  IInv'
  <1> USE DEF BootCreate, osVars, intVars, taskVars, sliceVars
  <1>1. priority[t] \in Prios /\ priority' = [priority EXCEPT ![t] = priority[t]]
    BY DEF IInv, TypeOK
  <1>2. /\ rq' \in RunQueues /\ RunQueueConsistent'
        /\ \A u \in Tasks : Ready(u)' <=> Ready(u) \/ u = t
    BY <1>1, InsertStep DEF IInv, QueueInv
  <1>3. TypeOK' /\ QueueInv'
    BY <1>2, SchedAssumption DEF IInv, TypeOK, QueueInv
  <1> QED BY <1>3
          DEF IInv, StartInv, PendInv, InCritical, SwitchTarget,
              LockedTaskStays, RunInv, TaskRuns

(* A wake-up keeps the queue consistent; who made it decides later. *)
LEMMA MakeReadyInv ==
  ASSUME IInv, NEW t \in Tasks, MakeReady(t)
  PROVE  IInv'
  <1> USE DEF MakeReady, Dirty, taskVars
  <1>1. priority[t] \in Prios /\ priority' = [priority EXCEPT ![t] = priority[t]]
    BY DEF IInv, TypeOK
  <1>2. rq' \in {add_ready_list_head(rq, t, priority[t]),
                add_ready_list_end(rq, t, priority[t])}
    BY DEF add_ready_list
  <1>3. /\ rq' \in RunQueues /\ priority' \in [Tasks -> Prios]
        /\ RunQueueConsistent'
        /\ \A u \in Tasks : Ready(u)' <=> Ready(u) \/ u = t
    BY <1>1, <1>2, InsertStep DEF IInv, QueueInv
  <1>4. /\ pc' \in [Tasks -> {"run", "sched"}]
        /\ raw_task_active \in Tasks
    BY DEF IInv, TypeOK, StartInv, InCritical
  <1>5. Ready(Idle)' /\ (raw_sched_lock > 0 => Ready(raw_task_active)')
    BY <1>3, <1>4, SchedAssumption DEF IInv, QueueInv, LockedTaskStays
  <1> QED BY <1>3, <1>4, <1>5, CriticalStep

(* A task created later is one more ready task. *)
LEMMA CreateTaskInv ==
  ASSUME IInv, NEW t \in Tasks, CreateTask(t)
  PROVE  IInv'
  <1> USE DEF CreateTask, Dirty
  <1>1. InitPrio[t] \in Prios
    BY SchedAssumption
  <1>2. /\ rq' \in RunQueues /\ priority' \in [Tasks -> Prios]
        /\ RunQueueConsistent'
        /\ \A u \in Tasks : Ready(u)' <=> Ready(u) \/ u = t
    BY <1>1, InsertStep DEF IInv, QueueInv
  <1>3. /\ pc' \in [Tasks -> {"run", "sched"}]
        /\ raw_task_active \in Tasks
    BY DEF IInv, TypeOK, StartInv, InCritical
  <1>4. Ready(Idle)' /\ (raw_sched_lock > 0 => Ready(raw_task_active)')
    BY <1>2, <1>3, SchedAssumption DEF IInv, QueueInv, LockedTaskStays
  <1> QED BY <1>2, <1>3, <1>4, CriticalStep

(* Nobody makes the idle task unready, nor the running one under the lock. *)
LEMMA MakeUnreadyInv ==
  ASSUME IInv, NEW t \in Tasks, MakeUnready(t)
  PROVE  IInv'
  <1> USE DEF MakeUnready, Dirty, taskVars
  <1>1. /\ rq' \in RunQueues
        /\ RunQueueOK(rq', priority)
        /\ \A u \in Tasks :
             OnReadyList(rq', u, priority[u]) <=> Ready(u) /\ u # t
    BY RemoveStep, SchedAssumption DEF IInv
  <1>2. RunQueueConsistent' /\ \A u \in Tasks : Ready(u)' <=> Ready(u) /\ u # t
    BY <1>1 DEF RunQueueConsistent, Ready
  <1>3. /\ pc' \in [Tasks -> {"run", "sched"}] /\ priority' \in [Tasks -> Prios]
        /\ raw_task_active \in Tasks
    BY DEF IInv, TypeOK, StartInv, InCritical
  <1>4. Ready(Idle)' /\ (raw_sched_lock > 0 => Ready(raw_task_active)')
    BY <1>2, <1>3, SchedAssumption DEF IInv, TypeOK, QueueInv, LockedTaskStays
  <1> QED BY <1>1, <1>2, <1>3, <1>4, CriticalStep

(* raw_sleep(0) moves the running task behind those of its priority. *)
LEMMA YieldInv == IInv /\ Yield => IInv'
  <1> SUFFICES ASSUME IInv, Yield PROVE IInv'
    OBVIOUS
  <1> USE DEF Yield, Dirty, taskVars
  <1>1. /\ pc' \in [Tasks -> {"run", "sched"}] /\ priority' \in [Tasks -> Prios]
        /\ raw_task_active \in Tasks /\ InCritical
    BY DEF IInv, TypeOK, StartInv, InCritical
  <1>2. /\ rq' \in RunQueues
        /\ RunQueueConsistent'
        /\ \A u \in Tasks : Ready(u)' <=> Ready(u)
    BY <1>1, RotateStep DEF IInv
  <1>3. Ready(Idle)' /\ (raw_sched_lock > 0 => Ready(raw_task_active)')
    BY <1>1, <1>2, SchedAssumption DEF IInv, QueueInv, LockedTaskStays
  <1> QED BY <1>1, <1>2, <1>3, CriticalStep

(* A task that changes its priority leaves one list and enters another. *)
LEMMA ChangePriorityInv ==
  ASSUME IInv, NEW t \in Tasks, NEW p \in NewPrios,
         change_internal_task_priority(t, p)
  PROVE  IInv'
  <1> USE DEF change_internal_task_priority, taskVars
  <1>1. /\ pc' \in [Tasks -> {"run", "sched"}]
        /\ raw_task_active \in Tasks /\ InCritical
        /\ p \in Prios /\ t \in Tasks \ {Idle}
        /\ priority' \in [Tasks -> Prios]
    BY SchedAssumption DEF IInv, TypeOK, StartInv, InCritical
  <1>2. /\ rq' \in RunQueues /\ RunQueueConsistent'
        /\ \A u \in Tasks : Ready(u)' <=> Ready(u)
    <2>1. CASE ~Ready(t)
      <3>1. /\ RunQueueOK(rq, priority')
            /\ \A u \in Tasks : OnReadyList(rq, u, priority'[u]) <=> Ready(u)
        BY <1>1, <2>1, SetPriority DEF IInv, QueueInv
      <3> QED BY <2>1, <3>1 DEF RunQueueConsistent, Ready, IInv, TypeOK
    <2>2. CASE Ready(t)
      <3> DEFINE without == remove_ready_list(rq, t, priority[t])
      <3>1. /\ without \in RunQueues
            /\ RunQueueOK(without, priority)
            /\ \A u \in Tasks :
                 OnReadyList(without, u, priority[u]) <=> Ready(u) /\ u # t
        BY <1>1, <2>2, RemoveStep, SchedAssumption DEF IInv
      <3>2. rq' \in {add_ready_list_head(without, t, p),
                    add_ready_list_end(without, t, p)}
        BY <2>2
      <3> HIDE DEF without
      <3>3. /\ RunQueueOK(without, priority')
            /\ ~OnReadyList(without, t, p)
            /\ \A u \in Tasks \ {t} :
                 OnReadyList(without, u, priority'[u]) <=> Ready(u)
        <4>1. \A q \in Prios : t \notin ToSet(without.task_ready_list[q])
          BY <3>1 DEF RunQueueOK, ListsOK, OnReadyList
        <4>2. \A u \in Tasks \ {t} : priority'[u] = priority[u]
          BY DEF IInv, TypeOK
        <4>3. \A q \in Prios : ToSet(without.task_ready_list[q]) \subseteq Tasks
          BY <3>1, EmptyLemma DEF RunQueues
        <4>4. ListsOK(without, priority')
          BY <3>1, <4>1, <4>2, <4>3 DEF RunQueueOK, ListsOK
        <4> QED BY <1>1, <3>1, <4>1, <4>2, <4>4 DEF RunQueueOK, OnReadyList
      <3>4. priority'[t] = p
        BY DEF IInv, TypeOK
      <3>5. /\ rq' \in RunQueues /\ RunQueueOK(rq', priority')
            /\ Inserted(without, rq', t, priority'[t])
        <4>1. /\ ListsOK(without, priority') /\ BitmapOK(without)
              /\ HighestOK(without)
              /\ ~OnReadyList(without, t, priority'[t])
          BY <3>3, <3>4 DEF RunQueueOK
        <4>2. \/ rq' = add_ready_list_head(without, t, priority'[t])
              \/ rq' = add_ready_list_end(without, t, priority'[t])
          BY <3>2, <3>4
        <4> QED BY <1>1, <3>1, <4>1, <4>2, InsertLemma
      <3>6. \A u \in Tasks : Ready(u)' <=> Ready(u)
        <4>1. Ready(t)'
          BY <1>1, <3>5 DEF Inserted, Ready, OnReadyList
        <4>2. ASSUME NEW u \in Tasks \ {t} PROVE Ready(u)' <=> Ready(u)
          <5>1. priority'[u] \in Prios
            BY <1>1
          <5>2. u \in ToSet(rq'.task_ready_list[priority'[u]]) <=>
                  u \in ToSet(without.task_ready_list[priority'[u]])
            BY <3>5, <5>1, InsertedOther
          <5> QED BY <3>3, <5>2 DEF Ready, OnReadyList
        <4> QED BY <2>2, <4>1, <4>2
      <3> QED BY <3>5, <3>6 DEF RunQueueConsistent
    <2> QED BY <2>1, <2>2
  <1>3. Ready(Idle)' /\ (raw_sched_lock > 0 => Ready(raw_task_active)')
    BY <1>1, <1>2, SchedAssumption DEF IInv, QueueInv, LockedTaskStays
  <1> QED BY <1>1, <1>2, <1>3, CriticalStep

(* The end of a time slice only rotates one list. *)
LEMMA TimeSliceInv == IInv /\ calculate_time_slice => IInv'
  <1> SUFFICES ASSUME IInv, calculate_time_slice PROVE IInv'
    OBVIOUS
  <1> DEFINE prio == priority[raw_task_active]
             list == rq.task_ready_list[prio]
             t    == list[1]
  <1> USE DEF calculate_time_slice, taskVars
  <1>1. /\ raw_os_active /\ raw_task_active \in Tasks
        /\ prio \in Prios /\ list \in Seq(Tasks)
        /\ raw_int_nesting # 0
    BY DEF IInv, TypeOK, StartInv, HandlerRuns, RunQueues
  <1>2. /\ rq' \in RunQueues /\ RunQueueConsistent'
        /\ time_slice' \in [Tasks -> 1 .. TimeTotal]
        /\ \A u \in Tasks : Ready(u)' <=> Ready(u)
    <2>1. CASE rq' = rq /\ time_slice' = time_slice
      BY <2>1, QueueStable DEF IInv, TypeOK, QueueInv
    <2>2. ASSUME ~(Len(list) < 2)
          PROVE  t \in Tasks /\ Ready(t) /\ priority[t] = prio
      <3>1. list # <<>>
        BY <1>1, <2>2
      <3>2. t \in ToSet(list) /\ t \in Tasks
        BY <1>1, <3>1, EmptyLemma
      <3> QED BY <1>1, <3>2
              DEF IInv, QueueInv, RunQueueConsistent, RunQueueOK, ListsOK,
                  Ready, OnReadyList
    <2>3. CASE ~(Len(list) < 2) /\ time_slice[t] > 1
               /\ time_slice' = [time_slice EXCEPT ![t] = @ - 1] /\ rq' = rq
      <3>1. time_slice[t] \in 1 .. TimeTotal /\ TimeTotal \in Nat
        BY <2>2, <2>3, SchedAssumption DEF IInv, TypeOK
      <3>2. time_slice[t] - 1 \in 1 .. TimeTotal
        <4>1. \A n \in 1 .. TimeTotal : n > 1 => n - 1 \in 1 .. TimeTotal
          BY <3>1
        <4>2. time_slice[t] > 1
          BY <2>3
        <4> HIDE DEF t
        <4> QED BY <3>1, <4>1, <4>2
      <3> HIDE DEF t
      <3>3. time_slice' \in [Tasks -> 1 .. TimeTotal]
        BY <2>3, <3>2 DEF IInv, TypeOK
      <3> QED BY <2>3, <3>3, QueueStable DEF IInv, TypeOK, QueueInv
    <2>4. CASE ~(Len(list) < 2)
               /\ time_slice' = [time_slice EXCEPT ![t] = TimeTotal]
               /\ rq' = move_to_ready_list_end(rq, t, prio)
      <3>1. rq' = move_to_ready_list_end(rq, t, priority[t])
        BY <2>2, <2>4
      <3>2. /\ t \in Tasks /\ Ready(t)
            /\ TimeTotal \in 1 .. TimeTotal
        <4>1. t \in Tasks /\ Ready(t)
          BY <2>2, <2>4
        <4>2. TimeTotal \in 1 .. TimeTotal
          BY SchedAssumption
        <4> HIDE DEF t
        <4> QED BY <4>1, <4>2
      <3> HIDE DEF t
      <3>3. time_slice' \in [Tasks -> 1 .. TimeTotal]
        BY <2>4, <3>2 DEF IInv, TypeOK
      <3> QED BY <3>1, <3>2, <3>3, RotateStep DEF IInv
    <2> QED BY <2>1, <2>3, <2>4
  <1>3. TypeOK' /\ QueueInv'
    BY <1>2, SchedAssumption DEF IInv, TypeOK, QueueInv
  <1>4. LockedTaskStays'
    BY <1>1, <1>2 DEF IInv, LockedTaskStays
  <1> QED BY <1>1, <1>3, <1>4
          DEF IInv, StartInv, PendInv, InCritical, SwitchTarget, RunInv,
              TaskRuns

-----------------------------------------------------------------------------

(* IInv is inductive: one case for each action. *)
LEMMA NextInv == IInv /\ [Next]_vars => IInv'
  <1> SUFFICES ASSUME IInv, [Next]_vars PROVE IInv'
    OBVIOUS
  <1>1. CASE Kernel
    BY <1>1, CriticalExitInv, raw_schedInv, raw_finish_intInv, PendSV_HandlerInv
       DEF Kernel
  <1>2. CASE Services
    BY <1>2, CriticalEnterInv, CriticalExitNoSchedInv, YieldInv, MakeReadyInv,
       MakeUnreadyInv, CreateTaskInv, ChangePriorityInv DEF Services
  <1>3. CASE Application
    BY <1>3, raw_os_startInv, raw_disable_scheInv, raw_enable_scheInv,
       BootCreateInv, raw_set_sched_wayInv DEF Application
  <1>4. CASE Interrupts
    BY <1>4, EnterInv, TimeSliceInv DEF Interrupts
  <1>5. CASE UNCHANGED vars
    <2>1. /\ QueueInv' /\ \A t : Ready(t)' <=> Ready(t)
          /\ get_ready_task(rq') = get_ready_task(rq)
      BY <1>5, QueueStable DEF IInv, vars
    <2> QED BY <1>5, <2>1
            DEF vars, intVars, IInv, TypeOK, StartInv, PendInv, InCritical,
                SwitchTarget, LockedTaskStays, RunInv, TaskRuns
  <1> QED BY <1>1, <1>2, <1>3, <1>4, <1>5 DEF Next

(* The inductive invariant holds in every reachable state. *)
THEOREM Invariance == Spec => []IInv
  BY InitInv, NextInv, PTL DEF Spec

(* Every variable of the scheduler keeps its type. *)
THEOREM TypeCorrect == Spec => []TypeOK
  <1>1. IInv => TypeOK
    BY DEF IInv
  <1> QED BY <1>1, Invariance, PTL

(* Bitmap, cached priority and lists of raw_ready_queue always agree. *)
THEOREM QueueConsistent == Spec => []RunQueueConsistent
  <1>1. IInv => RunQueueConsistent
    BY DEF IInv, QueueInv
  <1> QED BY <1>1, Invariance, PTL

(* PendSV always switches to the head of the highest ready list. *)
THEOREM SwitchTargetOK == Spec => []SwitchTarget
  <1>1. IInv => SwitchTarget
    BY DEF IInv
  <1> QED BY <1>1, Invariance, PTL

(* No wake-up is lost: the task that runs is the highest ready one. *)
THEOREM HighestRuns == Spec => []RunningIsHighest
  <1>1. IInv => RunningIsHighest
    BY DEF IInv, RunInv, RunningIsHighest, TaskAt
  <1> QED BY <1>1, Invariance, PTL

(* While a task holds the scheduler lock it is ready and no switch is due. *)
THEOREM LockHeld == Spec => []LockedTaskStays
  <1>1. IInv => LockedTaskStays
    BY DEF IInv
  <1> QED BY <1>1, Invariance, PTL

(* The processor changes hands only while the scheduler is not locked. *)
THEOREM LockedTaskRuns == Spec => NoSwitchWhileLocked
  <1>1. IInv /\ [Next]_vars
          => [raw_sched_lock > 0 => raw_task_active' = raw_task_active]_vars
    <2> SUFFICES ASSUME IInv, Next, raw_sched_lock > 0
                 PROVE  raw_task_active' = raw_task_active
      BY DEF vars
    <2>1. ~pendsv /\ raw_os_active
      BY DEF IInv, TypeOK, LockedTaskStays, StartInv
    <2> QED BY <2>1
            DEF Next, Kernel, Services, Application, Interrupts, taskVars, Dirty,
                CriticalExit, raw_sched, raw_finish_int, FinishNesting,
                PendSV_Handler,
                CriticalEnter, CriticalExitNoSched, Yield, MakeReady,
                MakeUnready, CreateTask, change_internal_task_priority,
                raw_os_start, raw_disable_sche, raw_enable_sche, BootCreate,
                raw_set_sched_way, EnterHandler, SysTick_Handler,
                raw_enter_interrupt, calculate_time_slice
  <1> QED BY <1>1, Invariance, PTL DEF Spec, NoSwitchWhileLocked
=============================================================================
