---------------------------- MODULE RawIpc_proofs ----------------------------
(***************************************************************************)
(* Proofs about the kernel's objects for communication, for any number of  *)
(* tasks and objects, any timeouts and any services that end waits early.  *)
(*                                                                         *)
(* What a step does to the tasks that wait for an object, and to those     *)
(* whose wait succeeded, is all that an object's own state has to agree    *)
(* with.  The first part says that of every kind of step; the invariants   *)
(* of semaphores and events follow from it, and then, for each kind of     *)
(* queue, how its memory holds its messages and that it is a mailbox.      *)
(***************************************************************************)
EXTENDS RawIpc, RawTask_proofs, FiniteSetTheorems, TLAPS

(* A task that waits has blocked in a service of the object it waits for;  *)
(* a task that sleeps or is deleted has blocked in none; no task waits for *)
(* an object that does not exist.                                          *)
CoreInv ==
  /\ KInv(k)
  /\ call \in [Tasks -> Objects \cup {NoObj}] /\ exists \in SUBSET Objects
  /\ \A t \in Tasks : /\ k.state[t] \in PendStates => call[t] = k.block_obj[t]
                      /\ k.state[t] \in IdleStates => call[t] = NoObj
  /\ \A o \in Objects \ exists : Waiting(k, o) = {}

(* Object o is none of a step's business. *)
Keeps(o) ==
  /\ Waiting(k', o) = Waiting(k, o)
  /\ \A t \in Tasks : Granted(t, o)' <=> Granted(t, o)

(* The waits of the tasks of W for o succeed. *)
Woken(o, W) ==
  /\ Waiting(k', o) = Waiting(k, o) \ W
  /\ \A t \in Tasks : Granted(t, o)' <=> Granted(t, o) \/ t \in W

(* Some waits end, none succeeds. *)
Shrinks(o) ==
  /\ Waiting(k', o) \subseteq Waiting(k, o)
  /\ \A t \in Tasks : Granted(t, o)' <=> Granted(t, o)

LEMMA GrantedIs ==
  /\ \A t, o : Granted(t, o) <=> call[t] = o /\ Done(k, t)
  /\ \A t, o : Granted(t, o)' <=> call'[t] = o /\ Done(k', t)
  BY DEF Granted, Done

(* A task waits for the object it has blocked in, and no such wait has     *)
(* succeeded yet.                                                          *)
LEMMA WaitersAre ==
  ASSUME CoreInv, NEW o \in Objects, NEW t \in Waiting(k, o)
  PROVE  /\ t \in Tasks /\ k.state[t] \in PendStates /\ call[t] = o
         /\ ~Done(k, t) /\ \A x : ~Granted(t, x)
  <1>1. k.block_list[o] \in Seq(Tasks)
    BY DEF CoreInv, KInv, KStates
  <1>2. t \in Tasks
    BY <1>1, EmptyLemma DEF Waiting
  <1>3. k.state[t] \in PendStates /\ k.block_obj[t] = o
    BY <1>2 DEF CoreInv, KInv, StateMatchesListsIn, Waiting
  <1>4. ~Done(k, t)
    BY <1>3 DEF Done, PendStates
  <1> QED BY <1>2, <1>3, <1>4, GrantedIs DEF CoreInv

-----------------------------------------------------------------------------
(***************************************************************************)
(* The kinds of steps.                                                     *)
(***************************************************************************)

LEMMA CalmStep ==
  ASSUME CoreInv, KInv(k'), Calm(k, k', {t \in Tasks : call[t] = NoObj}),
         UNCHANGED <<call, exists>>
  PROVE  CoreInv' /\ \A o \in Objects : Shrinks(o)
  <1> DEFINE I == {t \in Tasks : call[t] = NoObj}
  <1>1. ASSUME NEW t \in Tasks
        PROVE  /\ k'.state[t] \in PendStates
                    => k.state[t] \in PendStates /\ k'.block_obj[t] = k.block_obj[t]
               /\ call[t] # NoObj => k'.state[t] \notin IdleStates /\ (Done(k', t) <=> Done(k, t))
    BY DEF Calm
  <1>2. \A o \in Objects : Waiting(k', o) \subseteq Waiting(k, o)
    <2>1. \A o \in Objects : Waiting(k, o) =
            {t \in Tasks : k.state[t] \in PendStates /\ k.block_obj[t] = o}
      BY WaitingIs DEF CoreInv
    <2>2. \A o \in Objects : Waiting(k', o) =
            {t \in Tasks : k'.state[t] \in PendStates /\ k'.block_obj[t] = o}
      BY WaitingIs
    <2> QED BY <1>1, <2>1, <2>2
  <1>3. \A o \in Objects, t \in Tasks : Granted(t, o)' <=> Granted(t, o)
    <2>1. \A o \in Objects : o # NoObj
      BY TaskAssumption
    <2> QED BY <1>1, <2>1, GrantedIs
  <1>4. CoreInv'
    BY <1>1, <1>2 DEF CoreInv, Waiting
  <1> QED BY <1>2, <1>3, <1>4 DEF Shrinks

(* The services of raw_task.c, and the tick. *)
LEMMA TaskServicesStep ==
  ASSUME CoreInv, TaskServices
  PROVE  CoreInv' /\ exists' = exists /\ \A o \in Objects : Shrinks(o)
  <1> DEFINE I == {t \in Tasks : call[t] = NoObj}
  <1>1. KInv(k) /\ \A t \in Tasks \ I : k.state[t] \notin IdleStates
    BY DEF CoreInv
  <1>2. UNCHANGED <<call, exists>>
    BY DEF TaskServices, tick_list_update, Sleep, Suspend, Resume, raw_task_wait_abort,
           raw_task_priority_change, Create
  <1>3. /\ TICKS \in Nat \ {0} /\ COUNT_MOD \in Nat \ {0}
        /\ \A dly \in Delays : dly \in Int /\ dly # 0
        /\ \A p \in NewPrios : p \in Int
        /\ \A t \in Tasks : InitPrio[t] \in Int
        /\ SuspendTasks \cup AbortTasks \cup ChangeTasks \cup DeleteTasks \subseteq Tasks
    BY TaskAssumption, ObjectAssumption DEF Prios
  <1> DEFINE Result == KInv(k') /\ Calm(k, k', I)
  <1>4. ASSUME tick_list_update PROVE Result
    <2>1. k' = LET k1 == advance_tick(k) IN expire_all(k1, due(k1))
      BY <1>4 DEF tick_list_update
    <2> HIDE DEF I
    <2> QED BY <1>1, <1>3, <2>1, TickCalm
  <1>5. ASSUME NEW t \in Tasks, NEW dly \in Delays, Sleep(t, dly) PROVE Result
    <2>1. k' = raw_sleep(k, t, dly) /\ t \in I /\ k.state[t] = "RDY"
      BY <1>1, <1>5 DEF Sleep, Runs, KInv, StateMatchesListsIn
    <2>2. dly \in Int /\ dly # 0
      BY <1>3
    <2> HIDE DEF I
    <2> QED BY <1>1, <1>3, <2>1, <2>2, SleepCalm
  <1>6. ASSUME NEW t \in SuspendTasks, Suspend(t) PROVE Result
    <2>1. k' = task_suspend(k, t) /\ t \in Tasks
      BY <1>3, <1>6 DEF Suspend
    <2> HIDE DEF I
    <2> QED BY <1>1, <1>3, <2>1, SuspendCalm
  <1>7. ASSUME NEW t \in SuspendTasks, Resume(t) PROVE Result
    <2>1. k' = task_resume(k, t) /\ t \in Tasks
      BY <1>3, <1>7 DEF Resume
    <2>2. k.state[t] \notin DOMAIN Suspended \cup {"DELETED"}
      BY <1>7 DEF Resume
    <2> HIDE DEF I
    <2> QED BY <1>1, <1>3, <2>1, <2>2, ResumeCalm
  <1>8. ASSUME NEW t \in AbortTasks, raw_task_wait_abort(t) PROVE Result
    <2>1. k' = wait_abort(k, t) /\ t \in Tasks
      BY <1>3, <1>8 DEF raw_task_wait_abort
    <2>2. k.state[t] \notin {"RDY", "DELETED"}
      BY <1>8 DEF raw_task_wait_abort
    <2> HIDE DEF I
    <2> QED BY <1>1, <2>1, <2>2, AbortCalm
  <1>9. ASSUME NEW t \in ChangeTasks, NEW p \in NewPrios, raw_task_priority_change(t, p)
        PROVE  Result
    <2>1. k' = LET k1 == [k EXCEPT !.priority[t] = p]
               IN  IF k.state[t] \in PendStates THEN change_pend_list_priority(k1, t) ELSE k1
      BY <1>9 DEF raw_task_priority_change
    <2>2. t \in Tasks /\ p \in Int
      BY <1>3
    <2> HIDE DEF I
    <2> QED BY <1>1, <2>1, <2>2, PriorityCalm
  <1>10. ASSUME NEW t \in DeleteTasks, NEW auto_start \in BOOLEAN, Create(t, auto_start)
         PROVE  Result
    <2>1. k' = raw_task_create(k, t, InitPrio[t], auto_start) /\ k.state[t] = "DELETED"
      BY <1>10 DEF Create
    <2>2. t \in Tasks /\ InitPrio[t] \in Int
      BY <1>3
    <2> HIDE DEF I
    <2> QED BY <1>1, <2>1, <2>2, CreateCalm
  <1>11. Result
    <2> HIDE DEF Result
    <2> QED BY <1>4, <1>5, <1>6, <1>7, <1>8, <1>9, <1>10 DEF TaskServices
  <1> QED BY <1>2, <1>11, CalmStep

(* One task stops waiting or returns, and its call is over. *)
LEMMA FinishStep ==
  ASSUME CoreInv, NEW t \in Tasks, Finish(t)
  PROVE  /\ CoreInv' /\ exists' = exists
         /\ \A o \in Objects :
              /\ Waiting(k', o) = Waiting(k, o) \ {t}
              /\ \A u \in Tasks : Granted(u, o)' <=> Granted(u, o) /\ u # t
  <1>1. KInv(k) /\ call \in [Tasks -> Objects \cup {NoObj}]
    BY DEF CoreInv
  <1>2. /\ KInv(k') /\ OthersKept(k, k', t)
        /\ call' = [call EXCEPT ![t] = NoObj] /\ exists' = exists
        /\ k'.state[t] \notin PendStates
    <2>1. CASE Return(t)
      BY <1>1, <2>1 DEF Return, OthersKept, KInv, StateMatchesListsIn, PendStates
    <2>2. CASE raw_task_delete(t)
      <3>1. k' = leave_lists(k, t)
        BY <2>2 DEF raw_task_delete
      <3>2. KInv(k') /\ OthersKept(k, k', t) /\ k'.state[t] = "DELETED"
        BY <1>1, <3>1, DeleteTaskLemma
      <3> QED BY <2>2, <3>2 DEF raw_task_delete, PendStates
    <2> QED BY <2>1, <2>2 DEF Finish
  <1>3. call'[t] = NoObj /\ \A u \in Tasks \ {t} : call'[u] = call[u]
    BY <1>1, <1>2
  <1>4. \A o \in Objects : Waiting(k', o) = Waiting(k, o) \ {t}
    <2>1. \A o \in Objects : Waiting(k, o) =
            {u \in Tasks : k.state[u] \in PendStates /\ k.block_obj[u] = o}
      BY <1>1, WaitingIs
    <2>2. \A o \in Objects : Waiting(k', o) =
            {u \in Tasks : k'.state[u] \in PendStates /\ k'.block_obj[u] = o}
      BY <1>2, WaitingIs
    <2> QED BY <1>2, <2>1, <2>2 DEF OthersKept
  <1>5. \A o \in Objects, u \in Tasks : Granted(u, o)' <=> Granted(u, o) /\ u # t
    <2>1. \A o \in Objects : o # NoObj
      BY TaskAssumption
    <2>2. \A u \in Tasks \ {t} : Done(k', u) <=> Done(k, u)
      BY <1>2 DEF OthersKept, Done
    <2> QED BY <1>3, <2>1, <2>2, GrantedIs
  <1>6. CoreInv'
    <2>1. \A u \in Tasks : /\ k'.state[u] \in PendStates => call'[u] = k'.block_obj[u]
                           /\ k'.state[u] \in IdleStates => call'[u] = NoObj
      <3> SUFFICES ASSUME NEW u \in Tasks
                   PROVE  /\ k'.state[u] \in PendStates => call'[u] = k'.block_obj[u]
                          /\ k'.state[u] \in IdleStates => call'[u] = NoObj
        OBVIOUS
      <3>1. CASE u = t
        BY <1>2, <1>3, <3>1
      <3>2. CASE u # t
        BY <1>2, <1>3, <3>2 DEF CoreInv, OthersKept
      <3> QED BY <3>1, <3>2
    <2>2. call' \in [Tasks -> Objects \cup {NoObj}] /\ exists' \in SUBSET Objects
      BY <1>1, <1>2 DEF CoreInv
    <2>3. \A o \in Objects \ exists' : Waiting(k', o) = {}
      BY <1>2, <1>4 DEF CoreInv
    <2> QED BY <1>2, <2>1, <2>2, <2>3 DEF CoreInv, Waiting
  <1> QED BY <1>2, <1>4, <1>5, <1>6

(* The first half of a service that blocks. *)
LEMMA BlockStep ==
  ASSUME CoreInv, NEW t \in Tasks, NEW o \in Objects, o \in exists, Runs(t),
         NEW timeout \in Timeouts, Block(t, o, timeout)
  PROVE  /\ CoreInv' /\ exists' = exists
         /\ Waiting(k', o) = Waiting(k, o) \cup {t}
         /\ \A u \in Tasks : Granted(u, o)' <=> Granted(u, o)
         /\ \A x \in Objects \ {o} : Keeps(x)
         /\ \A x \in Objects : t \notin Waiting(k, x) /\ ~Granted(t, x)
  <1>1. KInv(k) /\ call \in [Tasks -> Objects \cup {NoObj}]
    BY DEF CoreInv
  <1>2. k.state[t] = "RDY" /\ call[t] = NoObj
    BY <1>1 DEF Runs, KInv, StateMatchesListsIn
  <1>3. /\ k' = raw_pend_object(k, o, t, timeout)
        /\ call' = [call EXCEPT ![t] = o] /\ exists' = exists
    BY DEF Block
  <1>4. TICKS \in Nat \ {0} /\ timeout \in Int /\ timeout # 0
    BY TaskAssumption, ObjectAssumption DEF FOREVER
  <1>5. /\ KInv(k') /\ OthersKept(k, k', t)
        /\ k'.state[t] \in PendStates /\ k'.block_obj[t] = o
    BY <1>1, <1>2, <1>3, <1>4, PendLemma
  <1>6. call'[t] = o /\ \A u \in Tasks \ {t} : call'[u] = call[u]
    BY <1>1, <1>3
  <1>7. k.state[t] \notin PendStates
    BY <1>2 DEF PendStates
  <1>8. /\ \A x \in Objects : Waiting(k, x) =
             {u \in Tasks : k.state[u] \in PendStates /\ k.block_obj[u] = x}
        /\ \A x \in Objects : Waiting(k', x) =
             {u \in Tasks : k'.state[u] \in PendStates /\ k'.block_obj[u] = x}
    BY <1>1, <1>5, WaitingIs
  <1>9. Waiting(k', o) = Waiting(k, o) \cup {t}
    BY <1>5, <1>8 DEF OthersKept
  <1>10. \A x \in Objects \ {o} : Waiting(k', x) = Waiting(k, x)
    BY <1>5, <1>7, <1>8 DEF OthersKept
  <1>11. \A x \in Objects, u \in Tasks : Granted(u, x)' <=> Granted(u, x)
    <2>1. \A x \in Objects : x # NoObj
      BY TaskAssumption
    <2>2. \A u \in Tasks \ {t} : Done(k', u) <=> Done(k, u)
      BY <1>5 DEF OthersKept, Done
    <2>3. ~Done(k', t)
      BY <1>5 DEF Done, PendStates
    <2> QED BY <1>2, <1>6, <2>1, <2>2, <2>3, GrantedIs
  <1>12. \A x \in Objects : t \notin Waiting(k, x) /\ ~Granted(t, x)
    <2>1. \A x \in Objects : x # NoObj
      BY TaskAssumption
    <2> QED BY <1>2, <1>7, <1>8, <2>1, GrantedIs
  <1>13. CoreInv'
    <2>1. k'.state[t] \notin IdleStates
      BY <1>5 DEF PendStates, IdleStates
    <2>2. \A u \in Tasks : /\ k'.state[u] \in PendStates => call'[u] = k'.block_obj[u]
                           /\ k'.state[u] \in IdleStates => call'[u] = NoObj
      BY <1>5, <1>6, <2>1 DEF CoreInv, OthersKept
    <2>3. call' \in [Tasks -> Objects \cup {NoObj}] /\ exists' \in SUBSET Objects
      BY <1>1, <1>3 DEF CoreInv
    <2>4. \A x \in Objects \ exists' : Waiting(k', x) = {}
      BY <1>3, <1>10 DEF CoreInv
    <2> QED BY <1>5, <2>2, <2>3, <2>4 DEF CoreInv, Waiting
  <1> QED BY <1>3, <1>9, <1>10, <1>11, <1>12, <1>13 DEF Keeps

(* The waits of tasks for o end. *)
LEMMA EndedStep ==
  ASSUME CoreInv, NEW o \in Objects, NEW W \in SUBSET Waiting(k, o),
         KInv(k'), Ended(k, k', W), NEW status, \A t \in W : k'.block_status[t] = status,
         call' = call, exists' \in SUBSET Objects,
         \A x \in Objects \ exists' : Waiting(k', x) = {}
  PROVE  /\ CoreInv'
         /\ \A x \in Objects \ {o} : Keeps(x)
         /\ status = "OK" => Woken(o, W)
         /\ status # "OK" => Waiting(k', o) = Waiting(k, o) \ W
                               /\ \A t \in Tasks : Granted(t, o)' <=> Granted(t, o)
  <1>1. \A t \in W : t \in Tasks /\ call[t] = o /\ ~Done(k, t) /\ \A x : ~Granted(t, x)
    BY WaitersAre
  <1>2. \A t \in W : k'.state[t] \in {"RDY", "SUSPENDED"}
    BY DEF Ended
  <1>3. \A t \in Tasks \ W : /\ k'.state[t] = k.state[t]
                             /\ k'.block_status[t] = k.block_status[t]
                             /\ k'.block_obj[t] = k.block_obj[t]
    BY DEF Ended
  <1>4. \A x \in Objects : Waiting(k', x) = Waiting(k, x) \ W
    BY DEF Ended
  <1>5. \A x \in Objects \ {o} : Waiting(k', x) = Waiting(k, x)
    <2>1. \A x \in Objects \ {o}, t \in W : t \notin Waiting(k, x)
      BY <1>1, WaitersAre
    <2> QED BY <1>4, <2>1
  <1>6. /\ \A t \in Tasks \ W : Done(k', t) <=> Done(k, t)
        /\ \A t \in W : Done(k', t) <=> status = "OK"
    BY <1>2, <1>3 DEF Done
  <1>7. \A x \in Objects \ {o}, t \in Tasks : Granted(t, x)' <=> Granted(t, x)
    BY <1>1, <1>6, GrantedIs
  <1>8. /\ status = "OK" => \A t \in Tasks : Granted(t, o)' <=> Granted(t, o) \/ t \in W
        /\ status # "OK" => \A t \in Tasks : Granted(t, o)' <=> Granted(t, o)
    BY <1>1, <1>6, GrantedIs
  <1>9. CoreInv'
    <2>1. \A t \in W : k'.state[t] \notin PendStates /\ k'.state[t] \notin IdleStates
      BY <1>2 DEF PendStates, IdleStates
    <2>2. \A t \in Tasks : /\ k'.state[t] \in PendStates => call'[t] = k'.block_obj[t]
                           /\ k'.state[t] \in IdleStates => call'[t] = NoObj
      BY <1>3, <2>1 DEF CoreInv
    <2>3. call' \in [Tasks -> Objects \cup {NoObj}] /\ exists' \in SUBSET Objects
      BY DEF CoreInv
    <2> QED BY <2>2, <2>3 DEF CoreInv, Waiting
  <1> QED BY <1>4, <1>5, <1>7, <1>8, <1>9 DEF Keeps, Woken

(* The waits for o that end are those of the tasks in who. *)
LEMMA WakeStep ==
  ASSUME CoreInv, NEW o \in Objects, NEW who, k' = end_waits(k, o, who, "OK"),
         UNCHANGED <<call, exists>>
  PROVE  /\ CoreInv' /\ exists' = exists
         /\ Woken(o, Waiting(k, o) \cap who)
         /\ \A x \in Objects \ {o} : Keeps(x)
  <1> DEFINE W == Waiting(k, o) \cap who
  <1>1. KInv(k) /\ "OK" \in Statuses
    BY DEF CoreInv, Statuses
  <1>2. KInv(k') /\ Ended(k, k', W) /\ \A t \in W : k'.block_status[t] = "OK"
    <2> DEFINE r == end_waits(k, o, who, "OK")
    <2>1. KInv(r) /\ Ended(k, r, W) /\ \A t \in W : r.block_status[t] = "OK"
      <3> DEFINE st == "OK"
      <3>1. r = end_waits(k, o, who, st) /\ st \in Statuses
        BY <1>1
      <3> HIDE DEF r, st
      <3>2. KInv(r) /\ Ended(k, r, Waiting(k, o) \cap who)
        BY <1>1, <3>1, EndWaitsLemma
      <3>3. \A t \in Waiting(k, o) \cap who : r.block_status[t] = st
        BY <1>1, <3>1, EndWaitsLemma
      <3> QED BY <3>2, <3>3 DEF st
    <2> QED BY <2>1
  <1>3. W \in SUBSET Waiting(k, o)
    OBVIOUS
  <1>4. \A x \in Objects \ exists' : Waiting(k', x) = {}
    BY <1>2 DEF CoreInv, Ended
  <1>5. exists' \in SUBSET Objects /\ call' = call
    BY DEF CoreInv
  <1> HIDE DEF W
  <1>6. CoreInv' /\ Woken(o, W) /\ \A x \in Objects \ {o} : Keeps(x)
    BY <1>2, <1>3, <1>4, <1>5, EndedStep
  <1> QED BY <1>6 DEF W

(* The wait of the first task that waits for o. *)
LEMMA WakeFirstStep ==
  ASSUME CoreInv, NEW o \in Objects, k.block_list[o] # <<>>,
         k' = pend_task_wake_up(k, Head(k.block_list[o])), UNCHANGED <<call, exists>>
  PROVE  /\ CoreInv' /\ exists' = exists
         /\ Head(k.block_list[o]) \in Waiting(k, o)
         /\ Woken(o, {Head(k.block_list[o])})
         /\ \A x \in Objects \ {o} : Keeps(x)
  <1> DEFINE t == Head(k.block_list[o])
  <1>1. KInv(k) /\ "OK" \in Statuses
    BY DEF CoreInv, Statuses
  <1>2. t \in Waiting(k, o)
    <2>1. k.block_list[o] \in Seq(Tasks)
      BY <1>1 DEF KInv, KStates
    <2>2. t = k.block_list[o][1]
      BY <2>1
    <2> QED BY <2>1, <2>2, EmptyLemma DEF Waiting
  <1>3. k' = end_wait(k, t, "OK")
    BY DEF pend_task_wake_up
  <1> HIDE DEF t
  <1>4. t \in Tasks /\ k.state[t] \in PendStates
    BY <1>2, WaitersAre
  <1>5. KInv(k') /\ Ended(k, k', {t}) /\ k'.block_status[t] = "OK"
    <2> DEFINE r == end_wait(k, t, "OK")
    <2>1. KInv(r) /\ Ended(k, r, {t}) /\ r.block_status[t] = "OK"
      <3>1. r = end_wait(k, t, "OK")
        OBVIOUS
      <3> HIDE DEF r
      <3> QED BY <1>1, <1>4, <3>1, EndWaitLemma
    <2> QED BY <1>3, <2>1
  <1>6. {t} \in SUBSET Waiting(k, o) /\ \A u \in {t} : k'.block_status[u] = "OK"
    BY <1>2, <1>5
  <1>7. \A x \in Objects \ exists' : Waiting(k', x) = {}
    BY <1>5 DEF CoreInv, Ended
  <1>8. exists' \in SUBSET Objects /\ call' = call
    BY DEF CoreInv
  <1>9. CoreInv' /\ Woken(o, {t}) /\ \A x \in Objects \ {o} : Keeps(x)
    BY <1>5, <1>6, <1>7, <1>8, EndedStep
  <1> QED BY <1>2, <1>9 DEF t

LEMMA CreateStep ==
  ASSUME CoreInv, NEW o \in Objects, ObjectCreate(o)
  PROVE  /\ CoreInv' /\ o \notin exists /\ exists' = exists \cup {o}
         /\ Waiting(k, o) = {}
         /\ \A x \in Objects : Keeps(x)
  <1>1. KInv(k) /\ o \notin exists /\ exists' = exists \cup {o} /\ call' = call
    BY DEF CoreInv, ObjectCreate
  <1>2. Waiting(k, o) = {}
    BY <1>1 DEF CoreInv
  <1>3. k' = k
    <2>1. k.block_list[o] = <<>>
      <3>1. k.block_list[o] \in Seq(Tasks)
        BY <1>1 DEF KInv, KStates
      <3> QED BY <1>2, <3>1, EmptyLemma DEF Waiting
    <2>2. k' = [k EXCEPT !.block_list[o] = <<>>]
      BY DEF ObjectCreate
    <2> QED BY <1>1, <2>1, <2>2 DEF KInv, KStates
  <1>4. CoreInv'
    BY <1>1, <1>3 DEF CoreInv, Waiting
  <1>5. \A x \in Objects : Keeps(x)
    BY <1>1, <1>3 DEF Keeps, Granted
  <1> QED BY <1>1, <1>2, <1>4, <1>5

LEMMA DeleteStep ==
  ASSUME CoreInv, NEW o \in Objects, ObjectDelete(o)
  PROVE  /\ CoreInv' /\ o \in exists /\ exists' = exists \ {o}
         /\ Waiting(k', o) = {}
         /\ \A t \in Tasks : Granted(t, o)' <=> Granted(t, o)
         /\ \A x \in Objects \ {o} : Keeps(x)
  <1>1. KInv(k) /\ o \in exists /\ exists' = exists \ {o} /\ call' = call
    BY DEF CoreInv, ObjectDelete
  <1> DEFINE W == Waiting(k, o)
             st == "DEL"
             r == delete_pend_objs(k, o)
  <1>2. W \in SUBSET Tasks
    BY WaitersAre
  <1>3. k' = r /\ st \in Statuses /\ st # "OK"
    BY DEF ObjectDelete, Statuses
  <1>4. KInv(k') /\ Ended(k, k', W) /\ \A t \in W : k'.block_status[t] = st
    <2>1. r = delete_pend_objs(k, o) /\ KInv(k)
      BY <1>1
    <2> HIDE DEF r
    <2>2. /\ KInv(r) /\ Ended(k, r, Waiting(k, o))
          /\ \A t \in Waiting(k, o) : r.block_status[t] = "DEL"
          /\ Gentle(k, r)
      BY <2>1, DeleteObjsLemma
    <2> QED BY <1>3, <2>2
  <1> HIDE DEF st, r
  <1>5. Waiting(k', o) = {}
    BY <1>4 DEF Ended
  <1>6. \A x \in Objects \ exists' : Waiting(k', x) = {}
    BY <1>1, <1>4, <1>5 DEF CoreInv, Ended
  <1>7. exists' \in SUBSET Objects /\ W \in SUBSET Waiting(k, o)
    BY <1>1 DEF CoreInv
  <1> HIDE DEF W
  <1>8. /\ CoreInv' /\ \A x \in Objects \ {o} : Keeps(x)
        /\ \A t \in Tasks : Granted(t, o)' <=> Granted(t, o)
    BY <1>1, <1>3, <1>4, <1>6, <1>7, EndedStep
  <1> QED BY <1>1, <1>5, <1>8

(* One object is a step's business. *)
Elsewhere(o) ==
  \A x \in Objects \ {o} : Keeps(x) /\ (x \in exists' <=> x \in exists)

LEMMA UnchangedStep ==
  ASSUME CoreInv, UNCHANGED objvars
  PROVE  CoreInv' /\ exists' = exists /\ \A o \in Objects : Keeps(o)
  BY DEF CoreInv, Waiting, Keeps, Granted, objvars

(* A message is delivered to the tasks of W. *)
LEMMA DeliverStep ==
  ASSUME CoreInv, NEW o \in Objects, NEW m, Deliver(o, m) \/ DeliverAll(o, m),
         DOMAIN msg = Tasks, msg = [t \in Tasks |-> msg[t]]
  PROVE  /\ CoreInv' /\ exists' = exists
         /\ \A x \in Objects \ {o} : Keeps(x)
         /\ \E W : /\ W # {} /\ W \subseteq Waiting(k, o) /\ Woken(o, W)
                   /\ W = Waiting(k, o) \/ \E t \in Waiting(k, o) : W = {t}
                   /\ msg' = [t \in Tasks |-> IF t \in W THEN m ELSE msg[t]]
  <1>1. CASE Deliver(o, m)
    <2> DEFINE t == Head(k.block_list[o])
    <2>1. /\ k.block_list[o] # <<>> /\ k' = pend_task_wake_up(k, t)
          /\ UNCHANGED <<call, exists>> /\ msg' = [msg EXCEPT ![t] = m]
      BY <1>1 DEF Deliver
    <2>2. /\ CoreInv' /\ exists' = exists /\ t \in Waiting(k, o) /\ Woken(o, {t})
          /\ \A x \in Objects \ {o} : Keeps(x)
      BY <2>1, WakeFirstStep
    <2> HIDE DEF t
    <2>3. msg' = [u \in Tasks |-> IF u \in {t} THEN m ELSE msg[u]]
      BY <2>1, <2>2, WaitersAre
    <2> QED BY <2>2, <2>3
  <1>2. CASE DeliverAll(o, m)
    <2> DEFINE all == Tasks
               W == Waiting(k, o) \cap all
    <2>1. /\ k' = end_waits(k, o, all, "OK") /\ UNCHANGED <<call, exists>>
          /\ k.block_list[o] # <<>>
          /\ msg' = [t \in Tasks |-> IF t \in Waiting(k, o) THEN m ELSE msg[t]]
      BY <1>2 DEF DeliverAll, Waiting
    <2>2. W = Waiting(k, o)
      BY WaitersAre
    <2> HIDE DEF all
    <2>3. CoreInv' /\ exists' = exists /\ Woken(o, W) /\ \A x \in Objects \ {o} : Keeps(x)
      BY <2>1, WakeStep
    <2>4. W # {}
      <3>1. k.block_list[o] \in Seq(Tasks)
        BY DEF CoreInv, KInv, KStates
      <3> QED BY <2>1, <2>2, <3>1, EmptyLemma DEF Waiting
    <2> HIDE DEF W
    <2> QED BY <2>1, <2>2, <2>3, <2>4
  <1> QED BY <1>1, <1>2

-----------------------------------------------------------------------------
(***************************************************************************)
(* Semaphores.                                                             *)
(***************************************************************************)

(* No unit is kept while a task waits. *)
SemInv ==
  /\ count \in [Sems -> 0 .. COUNT_MAX]
  /\ \A s \in Sems : Waiting(k, s) # {} => count[s] = 0

AbstractStep(s) == UNCHANGED Abstract(s)!vars \/ Abstract(s)!Next

LEMMA SemKeeps ==
  ASSUME NEW s \in Sems, Keeps(s), count'[s] = count[s], s \in exists' <=> s \in exists
  PROVE  AbstractStep(s)
  <1>1. /\ ToSet(k'.block_list[s]) = ToSet(k.block_list[s])
        /\ {t \in Tasks : Granted(t, s)'} = {t \in Tasks : Granted(t, s)}
    BY DEF Keeps, Waiting
  <1>2. (s \in exists') = (s \in exists)
    OBVIOUS
  <1>3. UNCHANGED Abstract(s)!vars
    BY <1>1, <1>2 DEF Abstract!vars
  <1> QED BY <1>3 DEF AbstractStep

(* Tasks stop waiting for a semaphore. *)
LEMMA SemShrinks ==
  ASSUME NEW s \in Sems, Shrinks(s), count'[s] = count[s], s \in exists' <=> s \in exists
  PROVE  AbstractStep(s)
  <1> DEFINE ts == Waiting(k, s) \ Waiting(k', s)
  <1>1. /\ Waiting(k', s) = Waiting(k, s) \ ts /\ ts \in SUBSET Waiting(k, s)
        /\ {t \in Tasks : Granted(t, s)'} = {t \in Tasks : Granted(t, s)}
        /\ (s \in exists') = (s \in exists)
    BY DEF Shrinks
  <1> HIDE DEF ts
  <1>2. Abstract(s)!Leave(ts)
    BY <1>1 DEF Abstract!Leave, Waiting
  <1>3. ts \in SUBSET ToSet(k.block_list[s])
    BY <1>1 DEF Waiting
  <1>4. Abstract(s)!Next
    BY <1>2, <1>3 DEF Abstract!Next
  <1> QED BY <1>4 DEF AbstractStep

(* t returns from a semaphore it may have been given, or is deleted.       *)
LEMMA SemFinish ==
  ASSUME CoreInv, NEW t \in Tasks, NEW s \in Sems,
         Waiting(k', s) = Waiting(k, s) \ {t},
         \A u \in Tasks : Granted(u, s)' <=> Granted(u, s) /\ u # t,
         count'[s] = count[s], s \in exists' <=> s \in exists
  PROVE  AbstractStep(s)
  <1>1. s \in Objects
    BY SemAssumption
  <1>2. CASE t \in Waiting(k, s)
    <2>1. ~Granted(t, s)
      BY <1>1, <1>2, WaitersAre
    <2>2. Shrinks(s)
      BY <2>1 DEF Shrinks
    <2> QED BY <2>2, SemShrinks
  <1>3. CASE t \notin Waiting(k, s)
    <2>1. /\ ToSet(k'.block_list[s]) = ToSet(k.block_list[s])
          /\ {u \in Tasks : Granted(u, s)'} = {u \in Tasks : Granted(u, s)} \ {t}
          /\ (s \in exists') = (s \in exists)
      BY <1>3 DEF Waiting
    <2>2. Abstract(s)!Return(t)
      BY <2>1 DEF Abstract!Return
    <2>3. Abstract(s)!Next
      BY <2>2 DEF Abstract!Next
    <2> QED BY <2>3 DEF AbstractStep
  <1> QED BY <1>2, <1>3

(* The services of raw_sem.c. *)
LEMMA SemStep ==
  ASSUME CoreInv, SemInv, SemNext
  PROVE  /\ CoreInv' /\ SemInv' /\ \A s \in Sems : AbstractStep(s)
         /\ \E s \in Sems : Elsewhere(s)
  <1> DEFINE Result(s) ==
        /\ CoreInv' /\ Elsewhere(s) /\ AbstractStep(s)
        /\ count' = [count EXCEPT ![s] = count'[s]] /\ count'[s] \in 0 .. COUNT_MAX
        /\ Waiting(k', s) # {} => count'[s] = 0
  <1>0. /\ COUNT_MAX \in Nat \ {0} /\ Sems \subseteq Objects
        /\ InitCounts \subseteq 0 .. COUNT_MAX
    BY SemAssumption
  <1>1. ASSUME NEW s \in Sems
        PROVE  /\ s \in Objects /\ count[s] \in 0 .. COUNT_MAX
               /\ Waiting(k, s) # {} => count[s] = 0
               /\ k.block_list[s] = <<>> <=> Waiting(k, s) = {}
    <2>1. k.block_list[s] \in Seq(Tasks)
      BY <1>0 DEF CoreInv, KInv, KStates
    <2> QED BY <1>0, <2>1, EmptyLemma DEF SemInv, Waiting
  <1>2. ASSUME NEW s \in Sems, UNCHANGED objvars
        PROVE  /\ CoreInv' /\ Elsewhere(s) /\ exists' = exists
               /\ ToSet(k'.block_list[s]) = ToSet(k.block_list[s])
               /\ Waiting(k', s) = Waiting(k, s)
               /\ {t \in Tasks : Granted(t, s)'} = {t \in Tasks : Granted(t, s)}
    BY <1>1, <1>2, UnchangedStep DEF Elsewhere, Keeps, Waiting
  <1>3. ASSUME NEW s \in Sems, PutCounts(s) PROVE Result(s)
    <2>1. /\ s \in exists /\ Waiting(k, s) = {} /\ count[s] < COUNT_MAX
          /\ count' = [count EXCEPT ![s] = @ + 1] /\ UNCHANGED objvars
      BY <1>1, <1>3 DEF PutCounts
    <2>2. count'[s] = count[s] + 1 /\ count' = [count EXCEPT ![s] = count'[s]]
      BY <2>1 DEF SemInv
    <2>3. Abstract(s)!Keep
      BY <1>2, <2>1, <2>2 DEF Abstract!Keep, Waiting
    <2>4. Abstract(s)!Next
      BY <2>3 DEF Abstract!Next
    <2>5. count'[s] \in 0 .. COUNT_MAX /\ Waiting(k', s) = {}
      BY <1>0, <1>1, <1>2, <2>1, <2>2
    <2> QED BY <1>2, <2>1, <2>2, <2>4, <2>5 DEF AbstractStep
  <1>4. ASSUME NEW s \in Sems, s \in exists, NEW W \in SUBSET Waiting(k, s),
               W # {}, Woken(s, W), count' = count, exists' = exists,
               W = Waiting(k, s) \/ \E t \in Waiting(k, s) : W = {t}
        PROVE  AbstractStep(s)
    <2>1. W \subseteq Tasks
      BY <1>1, WaitersAre
    <2>2. /\ ToSet(k'.block_list[s]) = ToSet(k.block_list[s]) \ W
          /\ {t \in Tasks : Granted(t, s)'} = {t \in Tasks : Granted(t, s)} \cup W
          /\ (s \in exists') = (s \in exists) /\ count[s] = 0
      BY <1>1, <1>4, <2>1 DEF Woken, Waiting
    <2>3. Abstract(s)!Give(W)
      BY <1>4, <2>2 DEF Abstract!Give
    <2>4. W = ToSet(k.block_list[s]) \/ \E t \in ToSet(k.block_list[s]) : W = {t}
      BY <1>4 DEF Waiting
    <2>5. Abstract(s)!Next
      BY <2>3, <2>4 DEF Abstract!Next
    <2> QED BY <2>5 DEF AbstractStep
  <1>5. ASSUME NEW s \in Sems, PutWakes(s) PROVE Result(s)
    <2> DEFINE t == Head(k.block_list[s])
    <2>1. /\ s \in exists /\ k.block_list[s] # <<>> /\ count' = count
          /\ k' = pend_task_wake_up(k, t) /\ UNCHANGED <<call, exists>>
      BY <1>5 DEF PutWakes
    <2>2. /\ CoreInv' /\ exists' = exists /\ t \in Waiting(k, s)
          /\ Woken(s, {t}) /\ \A x \in Objects \ {s} : Keeps(x)
      BY <1>1, <2>1, WakeFirstStep
    <2> HIDE DEF t
    <2>3. {t} \in SUBSET Waiting(k, s) /\ {t} # {}
      BY <2>2
    <2>4. AbstractStep(s)
      BY <1>4, <2>1, <2>2, <2>3
    <2>5. Waiting(k', s) # {} => count'[s] = 0
      BY <1>1, <2>1, <2>2
    <2> QED BY <1>1, <2>1, <2>2, <2>4, <2>5 DEF Elsewhere, SemInv
  <1>6. ASSUME NEW s \in Sems, PutWakesAll(s) PROVE Result(s)
    <2> DEFINE all == Tasks
               W == Waiting(k, s) \cap all
    <2>1. /\ s \in exists /\ k.block_list[s] # <<>> /\ count' = count
          /\ k' = end_waits(k, s, all, "OK") /\ UNCHANGED <<call, exists>>
      BY <1>6 DEF PutWakesAll
    <2>2. W = Waiting(k, s) /\ W # {}
      BY <1>1, <2>1, WaitersAre
    <2> HIDE DEF all
    <2>3. CoreInv' /\ exists' = exists /\ Woken(s, W) /\ \A x \in Objects \ {s} : Keeps(x)
      BY <1>1, <2>1, WakeStep
    <2>4. W \in SUBSET Waiting(k, s)
      OBVIOUS
    <2> HIDE DEF W
    <2>5. AbstractStep(s)
      BY <1>4, <2>1, <2>2, <2>3, <2>4
    <2>6. Waiting(k', s) # {} => count'[s] = 0
      BY <1>1, <2>1, <2>2
    <2> QED BY <1>1, <2>1, <2>3, <2>5, <2>6 DEF Elsewhere, SemInv
  <1>7. ASSUME NEW s \in Sems, NEW t \in Tasks, GetCounts(t, s) PROVE Result(s)
    <2>1. /\ s \in exists /\ count[s] > 0
          /\ count' = [count EXCEPT ![s] = @ - 1] /\ UNCHANGED objvars
      BY <1>7 DEF GetCounts
    <2>2. count'[s] = count[s] - 1 /\ count' = [count EXCEPT ![s] = count'[s]]
      BY <2>1 DEF SemInv
    <2>3. Abstract(s)!Get
      BY <1>2, <2>1, <2>2 DEF Abstract!Get
    <2>4. Abstract(s)!Next
      BY <2>3 DEF Abstract!Next
    <2>5. count'[s] \in 0 .. COUNT_MAX /\ Waiting(k', s) = {}
      BY <1>0, <1>1, <1>2, <2>1, <2>2
    <2> QED BY <1>2, <2>1, <2>2, <2>4, <2>5 DEF AbstractStep
  <1>8. ASSUME NEW s \in Sems, NEW t \in Tasks, NEW timeout \in Timeouts,
               GetBlocks(t, s, timeout)
        PROVE  Result(s)
    <2>1. /\ Runs(t) /\ s \in exists /\ count[s] = 0 /\ Block(t, s, timeout)
          /\ count' = count
      BY <1>8 DEF GetBlocks
    <2>2. /\ CoreInv' /\ exists' = exists /\ Waiting(k', s) = Waiting(k, s) \cup {t}
          /\ \A u \in Tasks : Granted(u, s)' <=> Granted(u, s)
          /\ \A x \in Objects \ {s} : Keeps(x)
      BY <1>1, <2>1, BlockStep
    <2>3. /\ {u \in Tasks : Granted(u, s)'} = {u \in Tasks : Granted(u, s)}
          /\ ToSet(k'.block_list[s]) = ToSet(k.block_list[s]) \cup {t}
      BY <2>2 DEF Waiting
    <2>4. Abstract(s)!Wait(t)
      BY <2>1, <2>2, <2>3 DEF Abstract!Wait
    <2>5. Abstract(s)!Next
      BY <2>4 DEF Abstract!Next
    <2> QED BY <1>1, <2>1, <2>2, <2>5 DEF AbstractStep, Elsewhere, SemInv
  <1>9. ASSUME NEW s \in Sems, NEW c \in InitCounts, raw_semaphore_set(s, c)
        PROVE  Result(s)
    <2>1. /\ s \in exists /\ Waiting(k, s) = {}
          /\ count' = [count EXCEPT ![s] = c] /\ UNCHANGED objvars
      BY <1>1, <1>9 DEF raw_semaphore_set
    <2>2. count'[s] = c /\ c \in 0 .. COUNT_MAX
      BY <1>0, <2>1 DEF SemInv
    <2>3. Abstract(s)!Set
      BY <1>2, <2>1, <2>2 DEF Abstract!Set, Waiting
    <2>4. Abstract(s)!Next
      BY <2>3 DEF Abstract!Next
    <2> QED BY <1>2, <2>1, <2>2, <2>4 DEF AbstractStep
  <1>10. ASSUME NEW s \in Sems, NEW c \in InitCounts, raw_semaphore_create(s, c)
         PROVE  Result(s)
    <2>1. ObjectCreate(s) /\ count' = [count EXCEPT ![s] = c]
      BY <1>10 DEF raw_semaphore_create
    <2>2. /\ CoreInv' /\ s \notin exists /\ exists' = exists \cup {s}
          /\ Waiting(k, s) = {} /\ \A x \in Objects : Keeps(x)
      BY <1>1, <2>1, CreateStep
    <2>3. count'[s] = c /\ c \in 0 .. COUNT_MAX
      BY <1>0, <2>1 DEF SemInv
    <2>4. /\ ToSet(k'.block_list[s]) = ToSet(k.block_list[s]) /\ Waiting(k', s) = {}
          /\ {t \in Tasks : Granted(t, s)'} = {t \in Tasks : Granted(t, s)}
      BY <1>1, <2>2 DEF Keeps, Waiting
    <2>5. Abstract(s)!Create
      BY <2>2, <2>3, <2>4 DEF Abstract!Create
    <2>6. Abstract(s)!Next
      BY <2>5 DEF Abstract!Next
    <2> QED BY <2>1, <2>2, <2>3, <2>4, <2>6 DEF AbstractStep, Elsewhere
  <1>11. ASSUME NEW s \in Sems, raw_semaphore_delete(s) PROVE Result(s)
    <2>1. ObjectDelete(s) /\ count' = [count EXCEPT ![s] = 0]
      BY <1>11 DEF raw_semaphore_delete
    <2>2. /\ CoreInv' /\ s \in exists /\ exists' = exists \ {s} /\ Waiting(k', s) = {}
          /\ \A t \in Tasks : Granted(t, s)' <=> Granted(t, s)
          /\ \A x \in Objects \ {s} : Keeps(x)
      BY <1>1, <2>1, DeleteStep
    <2>3. count'[s] = 0 /\ 0 \in 0 .. COUNT_MAX
      BY <1>0, <2>1 DEF SemInv
    <2>4. /\ ToSet(k'.block_list[s]) = {}
          /\ {t \in Tasks : Granted(t, s)'} = {t \in Tasks : Granted(t, s)}
      BY <2>2 DEF Waiting
    <2>5. Abstract(s)!Delete
      BY <2>2, <2>3, <2>4 DEF Abstract!Delete
    <2>6. Abstract(s)!Next
      BY <2>5 DEF Abstract!Next
    <2> QED BY <2>1, <2>2, <2>3, <2>6 DEF AbstractStep, Elsewhere
  <1>12. PICK s \in Sems : Result(s)
    <2> HIDE DEF Result
    <2> QED BY <1>3, <1>5, <1>6, <1>7, <1>8, <1>9, <1>10, <1>11 DEF SemNext
  <1>13. \A x \in Sems \ {s} : count'[x] = count[x]
    BY <1>12 DEF SemInv
  <1>14. \A x \in Sems \ {s} : Keeps(x) /\ (x \in exists' <=> x \in exists)
    BY <1>0, <1>12 DEF Elsewhere
  <1>15. SemInv'
    <2>1. count' \in [Sems -> 0 .. COUNT_MAX]
      BY <1>12 DEF SemInv
    <2>2. \A x \in Sems : Waiting(k', x) # {} => count'[x] = 0
      BY <1>12, <1>13, <1>14 DEF SemInv, Keeps
    <2> QED BY <2>1, <2>2 DEF SemInv, Waiting
  <1>16. \A x \in Sems \ {s} : AbstractStep(x)
    BY <1>13, <1>14, SemKeeps
  <1> QED BY <1>12, <1>15, <1>16
-----------------------------------------------------------------------------
(***************************************************************************)
(* Message queues.                                                         *)
(***************************************************************************)

MsgInv == msg \in [Tasks -> Messages \cup {NoMsg}]

(* What the services of the three kinds of queues do to the tasks. *)
QueueKernel(o) ==
  \/ UNCHANGED msgvars
  \/ \E m \in Messages : Deliver(o, m) \/ DeliverAll(o, m)
  \/ \E t \in Tasks, timeout \in Timeouts :
       Runs(t) /\ o \in exists /\ Block(t, o, timeout) /\ UNCHANGED msg
  \/ (ObjectCreate(o) \/ ObjectDelete(o)) /\ UNCHANGED msg

LEMMA QueueKernelStep ==
  ASSUME CoreInv, MsgInv, NEW o \in Objects, QueueKernel(o)
  PROVE  CoreInv' /\ MsgInv' /\ Elsewhere(o)
  <1>1. CASE UNCHANGED msgvars
    <2>1. UNCHANGED objvars /\ msg' = msg
      BY <1>1 DEF msgvars
    <2> QED BY <2>1, UnchangedStep DEF Elsewhere, MsgInv
  <1>2. ASSUME NEW m \in Messages, Deliver(o, m) \/ DeliverAll(o, m)
        PROVE  CoreInv' /\ MsgInv' /\ Elsewhere(o)
    <2>1. DOMAIN msg = Tasks /\ msg = [t \in Tasks |-> msg[t]]
      BY DEF MsgInv
    <2>2. /\ CoreInv' /\ exists' = exists /\ \A x \in Objects \ {o} : Keeps(x)
          /\ \E W : msg' = [t \in Tasks |-> IF t \in W THEN m ELSE msg[t]]
      BY <1>2, <2>1, DeliverStep
    <2> QED BY <2>2 DEF Elsewhere, MsgInv
  <1>3. ASSUME NEW t \in Tasks, NEW timeout \in Timeouts, Runs(t), o \in exists,
               Block(t, o, timeout), UNCHANGED msg
        PROVE  CoreInv' /\ MsgInv' /\ Elsewhere(o)
    <2>1. CoreInv' /\ exists' = exists /\ \A x \in Objects \ {o} : Keeps(x)
      BY <1>3, BlockStep
    <2> QED BY <1>3, <2>1 DEF Elsewhere, MsgInv
  <1>4. CASE ObjectCreate(o) /\ UNCHANGED msg
    <2>1. CoreInv' /\ exists' = exists \cup {o} /\ \A x \in Objects : Keeps(x)
      BY <1>4, CreateStep
    <2> QED BY <1>4, <2>1 DEF Elsewhere, MsgInv
  <1>5. CASE ObjectDelete(o) /\ UNCHANGED msg
    <2>1. CoreInv' /\ exists' = exists \ {o} /\ \A x \in Objects \ {o} : Keeps(x)
      BY <1>5, DeleteStep
    <2> QED BY <1>5, <2>1 DEF Elsewhere, MsgInv
  <1> QED BY <1>1, <1>2, <1>3, <1>4, <1>5 DEF QueueKernel

LEMMA QueueKernels ==
  /\ QueueNext => \E q \in Queues : QueueKernel(q)
  /\ QueueSizeNext => \E q \in SizeQueues : QueueKernel(q)
  /\ QueueBufferNext => \E q \in Buffers : QueueKernel(q)
  <1>1. QueueNext => \E q \in Queues : QueueKernel(q)
    BY DEF QueueNext, QueueKernel, raw_queue_create, raw_queue_flush, raw_queue_delete,
           Receive, PostKeeps, PostDelivers, ReceiveBlocks
  <1>2. QueueSizeNext => \E q \in SizeQueues : QueueKernel(q)
    BY DEF QueueSizeNext, QueueKernel, raw_queue_size_create, raw_queue_size_flush,
           raw_queue_size_delete, SizeReceive, SizePostKeeps, SizePostDelivers,
           SizeReceiveBlocks
  <1>3. QueueBufferNext => \E q \in Buffers : QueueKernel(q)
    BY DEF QueueBufferNext, QueueKernel, raw_queue_buffer_create, raw_queue_buffer_flush,
           raw_queue_buffer_delete, BufferReceive, BufferPostKeeps, BufferPostDelivers,
           BufferReceiveBlocks
  <1> QED BY <1>1, <1>2, <1>3

LEMMA QueuesStep ==
  ASSUME CoreInv, MsgInv, QueueNext \/ QueueSizeNext \/ QueueBufferNext
  PROVE  /\ CoreInv' /\ MsgInv'
         /\ QueueNext => \E q \in Queues : Elsewhere(q)
         /\ QueueSizeNext => \E q \in SizeQueues : Elsewhere(q)
         /\ QueueBufferNext => \E q \in Buffers : Elsewhere(q)
  <1>1. Queues \subseteq Objects /\ SizeQueues \subseteq Objects /\ Buffers \subseteq Objects
    BY QueueAssumption, QueueSizeAssumption, QueueBufferAssumption
  <1> QED BY <1>1, QueueKernels, QueueKernelStep

-----------------------------------------------------------------------------
(***************************************************************************)
(* Events.                                                                 *)
(***************************************************************************)

Wanted == [flags : SUBSET Flags, all : BOOLEAN, clear : BOOLEAN]

EventInv ==
  /\ flags \in [Events -> SUBSET Flags]
  /\ wants \in [Tasks -> Wanted]
  /\ actual \in [Tasks -> SUBSET Flags]
  /\ EventsNotMissed

(* A request that is not satisfied is not satisfied by fewer flags. *)
LEMMA FewerFlags ==
  ASSUME NEW fs, NEW gs, gs \subseteq fs, NEW r, ~Satisfied(fs, r)
  PROVE  ~Satisfied(gs, r)
  BY DEF Satisfied

(* Tasks stop waiting for events, and a task that is done with one has no  *)
(* request any more.                                                       *)
LEMMA EventsKeep ==
  ASSUME EventInv, UNCHANGED eventvars,
         \A e \in Events : Shrinks(e)
  PROVE  EventInv'
  <1>1. ASSUME NEW e \in Events
        PROVE  /\ \A t \in ToSet(k'.block_list[e]) : t \in ToSet(k.block_list[e])
               /\ \A t \in Tasks : Granted(t, e)' <=> Granted(t, e)
    BY DEF Shrinks, Waiting
  <1>2. flags' = flags /\ wants' = wants /\ actual' = actual
    BY DEF eventvars
  <1>3. EventsNotMissed'
    BY <1>1, <1>2 DEF EventInv, EventsNotMissed, Satisfied
  <1> QED BY <1>2, <1>3 DEF EventInv

LEMMA EventsFinish ==
  ASSUME CoreInv, EventInv, NEW t \in Tasks, EventFinish(t),
         \A e \in Events : /\ Waiting(k', e) = Waiting(k, e) \ {t}
                           /\ \A u \in Tasks : Granted(u, e)' <=> Granted(u, e) /\ u # t
  PROVE  EventInv'
  <1>1. /\ flags' = flags /\ wants' \in [Tasks -> Wanted] /\ actual' \in [Tasks -> SUBSET Flags]
        /\ \A u \in Tasks \ {t} : wants'[u] = wants[u] /\ actual'[u] = actual[u]
    BY DEF EventInv, EventFinish, NoRequest, Wanted
  <1>2. \A e \in Events : \A u \in ToSet(k'.block_list[e]) :
          u \in ToSet(k.block_list[e]) /\ u \in Tasks \ {t}
    BY WaitersAre, EventAssumption DEF Waiting
  <1> QED BY <1>1, <1>2 DEF EventInv, EventsNotMissed, Satisfied

(* The action of the property ServedTogether. *)
Together ==
  \A e \in Events, t, u \in Tasks :
    /\ {t, u} \subseteq ToSet(k.block_list[e]) /\ Granted(t, e)'
    /\ Satisfied(actual'[t], wants[u])
    => Granted(u, e)'

LEMMA NobodyServed ==
  ASSUME CoreInv, \A e \in Events, t \in Tasks : Granted(t, e)' => Granted(t, e)
  PROVE  Together
  BY WaitersAre, EventAssumption DEF Together, Waiting

(* The services of raw_event.c. *)
LEMMA EventStep ==
  ASSUME CoreInv, EventInv, EventNext
  PROVE  CoreInv' /\ EventInv' /\ Together /\ \E e \in Events : Elsewhere(e)
  <1> DEFINE Waiters(e) == \A t \in Waiting(k', e) : ~Satisfied(flags'[e], wants'[t])
             Told(e) == \A t \in Tasks : Granted(t, e)' => Satisfied(actual'[t], wants'[t])
             Result(e) ==
               /\ CoreInv' /\ Elsewhere(e) /\ Together
               /\ flags' = [flags EXCEPT ![e] = flags'[e]] /\ flags'[e] \in SUBSET Flags
               /\ wants' \in [Tasks -> Wanted] /\ actual' \in [Tasks -> SUBSET Flags]
               /\ Waiters(e) /\ Told(e)
               /\ \A t \in Tasks : wants'[t] # wants[t] \/ actual'[t] # actual[t]
                    => \A x \in Events \ {e} : t \notin Waiting(k, x) /\ ~Granted(t, x)
  <1>0. Events \subseteq Objects /\ Requests \subseteq Wanted
    BY EventAssumption DEF Wanted
  <1>1. /\ flags \in [Events -> SUBSET Flags] /\ wants \in [Tasks -> Wanted]
        /\ actual \in [Tasks -> SUBSET Flags]
        /\ \A e \in Events :
             /\ \A t \in Waiting(k, e) : ~Satisfied(flags[e], wants[t])
             /\ \A t \in Tasks : Granted(t, e) => Satisfied(actual[t], wants[t])
    BY DEF EventInv, EventsNotMissed, Waiting
  (* The flags change, no task's wait does. *)
  <1>2. ASSUME NEW e \in Events, UNCHANGED objvars, wants' = wants, actual' = actual,
               NEW fs \in SUBSET Flags, flags' = [flags EXCEPT ![e] = fs], fs \subseteq flags[e]
        PROVE  Result(e)
    <2>1. CoreInv' /\ exists' = exists /\ \A o \in Objects : Keeps(o)
      BY <1>2, UnchangedStep
    <2>2. flags'[e] = fs
      BY <1>1, <1>2
    <2>3. Waiters(e) /\ Told(e)
      BY <1>0, <1>1, <1>2, <2>1, <2>2, FewerFlags DEF Keeps
    <2>4. Together
      BY <1>0, <2>1, NobodyServed DEF Keeps
    <2> QED BY <1>1, <1>2, <2>1, <2>2, <2>3, <2>4 DEF Elsewhere
  <1>3. ASSUME NEW e \in Events, NEW t \in Tasks, NEW r \in Requests, GetFlags(t, e, r)
        PROVE  Result(e)
    <2> DEFINE fs == IF r.clear THEN flags[e] \ r.flags ELSE flags[e]
    <2>1. /\ UNCHANGED objvars /\ wants' = wants /\ actual' = actual
          /\ flags' = [flags EXCEPT ![e] = fs]
      BY <1>1, <1>3 DEF GetFlags
    <2>2. fs \in SUBSET Flags /\ fs \subseteq flags[e]
      BY <1>1
    <2> HIDE DEF fs, Result
    <2> QED BY <1>2, <2>1, <2>2
  <1>4. ASSUME NEW e \in Events, NEW gs \in SUBSET Flags, SetAnd(e, gs) PROVE Result(e)
    <2> DEFINE fs == flags[e] \cap gs
    <2>1. /\ UNCHANGED objvars /\ wants' = wants /\ actual' = actual
          /\ flags' = [flags EXCEPT ![e] = fs]
      BY <1>1, <1>4 DEF SetAnd
    <2>2. fs \in SUBSET Flags /\ fs \subseteq flags[e]
      BY <1>1
    <2> HIDE DEF fs, Result
    <2> QED BY <1>2, <2>1, <2>2
  <1>5. ASSUME NEW e \in Events, NEW t \in Tasks, NEW r \in Requests, NEW timeout \in Timeouts,
               GetFlagsBlocks(t, e, r, timeout)
        PROVE  Result(e)
    <2>1. /\ Runs(t) /\ e \in exists /\ ~Satisfied(flags[e], r)
          /\ wants' = [wants EXCEPT ![t] = r] /\ Block(t, e, timeout)
          /\ flags' = flags /\ actual' = actual
      BY <1>5 DEF GetFlagsBlocks
    <2>2. /\ CoreInv' /\ exists' = exists /\ Waiting(k', e) = Waiting(k, e) \cup {t}
          /\ \A u \in Tasks : Granted(u, e)' <=> Granted(u, e)
          /\ \A x \in Objects \ {e} : Keeps(x)
          /\ \A x \in Objects : t \notin Waiting(k, x) /\ ~Granted(t, x)
      BY <1>0, <2>1, BlockStep
    <2>3. Waiters(e)
      <3>1. wants'[t] = r /\ \A u \in Tasks \ {t} : wants'[u] = wants[u]
        BY <1>1, <2>1
      <3>2. Waiting(k, e) \subseteq Tasks
        BY <1>0, WaitersAre
      <3> QED BY <1>1, <2>1, <2>2, <3>1, <3>2
    <2>4. Told(e)
      BY <1>0, <1>1, <2>1, <2>2
    <2>5. Together
      BY <1>0, <2>2, NobodyServed DEF Keeps
    <2>6. wants' \in [Tasks -> Wanted]
      BY <1>0, <1>1, <2>1
    <2>7. \A u \in Tasks : wants'[u] # wants[u] \/ actual'[u] # actual[u] => u = t
      BY <1>1, <2>1
    <2> QED BY <1>0, <1>1, <2>1, <2>2, <2>3, <2>4, <2>5, <2>6, <2>7 DEF Elsewhere
  <1>6. ASSUME NEW e \in Events, NEW gs \in SUBSET Flags, SetOr(e, gs) PROVE Result(e)
    <2> DEFINE current == flags[e] \cup gs
               ts == Served(e, current)
               fs == current \ UNION {wants[t].flags : t \in {u \in ts : wants[u].clear}}
    <2>1. /\ k' = end_waits(k, e, ts, "OK") /\ UNCHANGED <<call, exists>> /\ wants' = wants
          /\ actual' = [t \in Tasks |-> IF t \in ts THEN current ELSE actual[t]]
          /\ flags' = [flags EXCEPT ![e] = fs]
      BY <1>6 DEF SetOr
    <2>2. current \in SUBSET Flags /\ fs \subseteq current
      BY <1>1
    <2>3. ts = {t \in Waiting(k, e) : Satisfied(current, wants[t])}
      BY DEF Served, Waiting
    <2> HIDE DEF current, ts, fs
    <2>4. ts \subseteq Tasks /\ \A t \in ts, x \in Objects : ~Granted(t, x) /\ (t \in Waiting(k, x) => x = e)
      BY <1>0, <2>3, WaitersAre
    <2>5. /\ CoreInv' /\ exists' = exists /\ Woken(e, Waiting(k, e) \cap ts)
          /\ \A x \in Objects \ {e} : Keeps(x)
      BY <1>0, <2>1, WakeStep
    <2>6. /\ Waiting(k', e) = Waiting(k, e) \ ts
          /\ \A t \in Tasks : Granted(t, e)' <=> Granted(t, e) \/ t \in ts
      <3>1. Waiting(k, e) \cap ts = ts
        BY <2>3
      <3> QED BY <2>5, <3>1 DEF Woken
    <2>7. flags'[e] = fs /\ flags'[e] \in SUBSET Flags
      BY <1>1, <2>1, <2>2
    <2>8. /\ \A t \in ts : actual'[t] = current
          /\ \A t \in Tasks \ ts : actual'[t] = actual[t]
      BY <2>1, <2>4
    <2>9. Waiters(e)
      BY <2>1, <2>2, <2>3, <2>6, <2>7, FewerFlags
    <2>10. Told(e)
      BY <1>1, <2>1, <2>3, <2>6, <2>8
    <2>11. Together
      <3> SUFFICES ASSUME NEW x \in Events, NEW t \in Tasks, NEW u \in Tasks,
                          t \in Waiting(k, x), u \in Waiting(k, x), Granted(t, x)',
                          Satisfied(actual'[t], wants[u])
                   PROVE  Granted(u, x)'
        BY DEF Together, Waiting
      <3>1. ~Granted(t, x)
        BY <1>0, WaitersAre
      <3>2. x = e
        BY <1>0, <2>5, <3>1 DEF Keeps
      <3>3. t \in ts
        BY <2>6, <3>1, <3>2
      <3>4. u \in ts
        BY <2>3, <2>8, <3>2, <3>3
      <3> QED BY <2>6, <3>2, <3>4
    <2>12. actual' \in [Tasks -> SUBSET Flags]
      BY <1>1, <2>1, <2>2
    <2>13. \A t \in Tasks : wants'[t] # wants[t] \/ actual'[t] # actual[t] => t \in ts
      BY <2>1, <2>8
    <2>14. flags' = [flags EXCEPT ![e] = flags'[e]]
      BY <2>1, <2>7
    <2> QED BY <1>0, <1>1, <2>1, <2>4, <2>5, <2>7, <2>9, <2>10, <2>11, <2>12, <2>13, <2>14
            DEF Elsewhere
  <1>7. ASSUME NEW e \in Events, NEW fs \in SUBSET Flags, raw_event_create(e, fs) PROVE Result(e)
    <2>1. /\ ObjectCreate(e) /\ flags' = [flags EXCEPT ![e] = fs]
          /\ wants' = wants /\ actual' = actual
      BY <1>7 DEF raw_event_create
    <2>2. /\ CoreInv' /\ exists' = exists \cup {e}
          /\ Waiting(k, e) = {} /\ \A x \in Objects : Keeps(x)
      BY <1>0, <2>1, CreateStep
    <2>3. flags'[e] = fs
      BY <1>1, <2>1
    <2>4. Waiters(e) /\ Told(e)
      BY <1>0, <1>1, <2>1, <2>2 DEF Keeps
    <2>5. Together
      BY <1>0, <2>2, NobodyServed DEF Keeps
    <2> QED BY <1>1, <2>1, <2>2, <2>3, <2>4, <2>5 DEF Elsewhere
  <1>8. ASSUME NEW e \in Events, raw_event_delete(e) PROVE Result(e)
    <2>1. /\ ObjectDelete(e) /\ flags' = [flags EXCEPT ![e] = {}]
          /\ wants' = wants /\ actual' = actual
      BY <1>8 DEF raw_event_delete
    <2>2. /\ CoreInv' /\ exists' = exists \ {e} /\ Waiting(k', e) = {}
          /\ \A t \in Tasks : Granted(t, e)' <=> Granted(t, e)
          /\ \A x \in Objects \ {e} : Keeps(x)
      BY <1>0, <2>1, DeleteStep
    <2>3. flags'[e] = {}
      BY <1>1, <2>1
    <2>4. Waiters(e) /\ Told(e)
      BY <1>0, <1>1, <2>1, <2>2
    <2>5. Together
      BY <1>0, <2>2, NobodyServed DEF Keeps
    <2> QED BY <1>1, <2>1, <2>2, <2>3, <2>4, <2>5 DEF Elsewhere
  <1>9. PICK e \in Events : Result(e)
    <2> HIDE DEF Result
    <2> QED BY <1>3, <1>4, <1>5, <1>6, <1>7, <1>8 DEF EventNext
  <1>10. \A x \in Events \ {e} : flags'[x] = flags[x] /\ Keeps(x)
    BY <1>0, <1>1, <1>9 DEF Elsewhere
  <1>11. ASSUME NEW x \in Events PROVE Waiters(x) /\ Told(x)
    <2>1. CASE x = e
      BY <1>9, <2>1
    <2>2. CASE x # e
      <3>1. Waiting(k', x) = Waiting(k, x) /\ Waiting(k, x) \subseteq Tasks
        BY <1>0, <1>10, <2>2, WaitersAre DEF Keeps
      <3>2. \A t \in Tasks : t \in Waiting(k, x) \/ Granted(t, x)
              => wants'[t] = wants[t] /\ actual'[t] = actual[t]
        BY <1>9, <2>2
      <3>3. \A t \in Tasks : Granted(t, x)' <=> Granted(t, x)
        BY <1>10, <2>2 DEF Keeps
      <3> QED BY <1>1, <1>10, <2>2, <3>1, <3>2, <3>3
    <2> QED BY <2>1, <2>2
  <1>12. EventInv'
    <2>1. flags' \in [Events -> SUBSET Flags]
      BY <1>1, <1>9
    <2>2. EventsNotMissed'
      BY <1>11 DEF EventsNotMissed, Waiting, Satisfied
    <2> QED BY <1>9, <2>1, <2>2 DEF EventInv
  <1> QED BY <1>9, <1>12

-----------------------------------------------------------------------------
(***************************************************************************)
(* The objects together.                                                   *)
(***************************************************************************)

IInv == CoreInv /\ MsgInv /\ SemInv /\ EventInv

LEMMA KindsDisjoint ==
  /\ \A s \in Sems : s \in Objects \ (Queues \cup SizeQueues \cup Buffers \cup Events)
  /\ \A e \in Events : e \in Objects \ (Sems \cup Queues \cup SizeQueues \cup Buffers)
  /\ \A q \in Queues : q \in Objects \ (SizeQueues \cup Buffers)
  /\ \A q \in SizeQueues : q \in Objects \ (Queues \cup Buffers)
  /\ \A q \in Buffers : q \in Objects \ (Queues \cup SizeQueues)
  <1> DEFINE kind == <<Sems, Queues, SizeQueues, Buffers, Events>>
  <1>1. \A i, j \in 1 .. 5 : i # j => kind[i] \cap kind[j] = {}
    BY IpcAssumption
  <1>2. /\ kind[1] = Sems /\ kind[2] = Queues /\ kind[3] = SizeQueues
        /\ kind[4] = Buffers /\ kind[5] = Events
    OBVIOUS
  <1> HIDE DEF kind
  <1>3. /\ kind[1] \cap kind[2] = {} /\ kind[1] \cap kind[3] = {}
        /\ kind[1] \cap kind[4] = {} /\ kind[1] \cap kind[5] = {}
        /\ kind[5] \cap kind[2] = {} /\ kind[5] \cap kind[3] = {}
        /\ kind[5] \cap kind[4] = {}
        /\ kind[2] \cap kind[3] = {} /\ kind[2] \cap kind[4] = {}
        /\ kind[3] \cap kind[4] = {}
    BY <1>1
  <1> QED BY <1>2, <1>3, SemAssumption, EventAssumption, QueueAssumption,
             QueueSizeAssumption, QueueBufferAssumption

LEMMA InitInv == Init => IInv
  <1> SUFFICES ASSUME Init PROVE IInv
    OBVIOUS
  <1>1. InitPrio \in [Tasks -> Int]
    BY ObjectAssumption DEF Prios
  <1>2. k = TaskInit(InitPrio) /\ call = [t \in Tasks |-> NoObj] /\ exists = {}
    BY DEF Init, ObjectInit
  <1>3. KInv(k) /\ \A t \in Tasks : k.state[t] = "RDY"
    BY <1>1, <1>2, TaskInitLemma
  <1>4. \A o \in Objects : Waiting(k, o) = {}
    <2>1. \A o \in Objects : Waiting(k, o) =
            {t \in Tasks : k.state[t] \in PendStates /\ k.block_obj[t] = o}
      BY <1>3, WaitingIs
    <2> QED BY <1>3, <2>1 DEF PendStates
  <1>5. \A o \in Objects, t \in Tasks : ~Granted(t, o)
    <2>1. \A o \in Objects : o # NoObj
      BY TaskAssumption
    <2> QED BY <1>2, <2>1 DEF Granted
  <1>6. CoreInv
    BY <1>2, <1>3, <1>4 DEF CoreInv, PendStates, IdleStates
  <1>7. MsgInv
    BY DEF Init, MessageInit, MsgInv
  <1>8. SemInv
    BY <1>4, SemAssumption DEF Init, SemInit, SemInv
  <1>9. EventInv
    <2>1. /\ flags = [e \in Events |-> {}] /\ wants = [t \in Tasks |-> NoRequest]
          /\ actual = [t \in Tasks |-> {}]
      BY DEF Init, EventInit
    <2>2. NoRequest \in Wanted
      BY DEF NoRequest, Wanted
    <2>3. EventsNotMissed
      BY <1>4, <1>5, EventAssumption DEF EventsNotMissed, Waiting
    <2> QED BY <2>1, <2>2, <2>3 DEF EventInv
  <1> QED BY <1>6, <1>7, <1>8, <1>9 DEF IInv

(* What every step keeps, and what it shows of semaphores and events. *)
LEMMA NextStep ==
  ASSUME IInv, Next
  PROVE  IInv' /\ Together /\ \A s \in Sems : AbstractStep(s)
  <1> DEFINE Result == IInv' /\ Together /\ \A s \in Sems : AbstractStep(s)
  <1>0. CoreInv /\ MsgInv /\ SemInv /\ EventInv
    BY DEF IInv
  <1>1. (\A s \in Sems : s \in Objects) /\ (\A e \in Events : e \in Objects)
    BY KindsDisjoint
  (* Semaphores and events that a step leaves alone. *)
  <1>2. ASSUME count' = count, \A s \in Sems : Keeps(s) /\ (s \in exists' <=> s \in exists)
        PROVE  SemInv' /\ \A s \in Sems : AbstractStep(s)
    <2>1. \A s \in Sems : Waiting(k', s) = Waiting(k, s)
      BY <1>2 DEF Keeps
    <2>2. SemInv'
      BY <1>0, <1>2, <2>1 DEF SemInv, Waiting
    <2>3. \A s \in Sems : AbstractStep(s)
      BY <1>2, SemKeeps
    <2> QED BY <2>2, <2>3
  <1>3. ASSUME UNCHANGED eventvars, \A e \in Events : Keeps(e)
        PROVE  EventInv' /\ Together
    <2>1. \A e \in Events : Shrinks(e)
      BY <1>3 DEF Keeps, Shrinks
    <2>2. EventInv'
      BY <1>0, <1>3, <2>1, EventsKeep
    <2>3. Together
      BY <1>0, <1>3, NobodyServed DEF Keeps
    <2> QED BY <2>2, <2>3
  <1>4. ASSUME TaskServices, UNCHANGED <<msg, count, msg_q, list_q, buf_q, eventvars>>
        PROVE  Result
    <2>1. CoreInv' /\ exists' = exists /\ \A o \in Objects : Shrinks(o)
      BY <1>0, <1>4, TaskServicesStep
    <2>2. \A s \in Sems : AbstractStep(s)
      BY <1>1, <1>4, <2>1, SemShrinks
    <2>3. SemInv'
      BY <1>0, <1>1, <1>4, <2>1 DEF SemInv, Shrinks, Waiting
    <2>4. EventInv'
      BY <1>0, <1>1, <1>4, <2>1, EventsKeep
    <2>5. Together
      BY <1>0, <1>1, <2>1, NobodyServed DEF Shrinks
    <2>6. MsgInv'
      BY <1>0, <1>4 DEF MsgInv
    <2> QED BY <2>1, <2>2, <2>3, <2>4, <2>5, <2>6 DEF IInv
  <1>5. ASSUME NEW t \in Tasks, Finish(t), msg' = [msg EXCEPT ![t] = NoMsg], EventFinish(t),
               UNCHANGED <<count, msg_q, list_q, buf_q>>
        PROVE  Result
    <2>1. /\ CoreInv' /\ exists' = exists
          /\ \A o \in Objects :
               /\ Waiting(k', o) = Waiting(k, o) \ {t}
               /\ \A u \in Tasks : Granted(u, o)' <=> Granted(u, o) /\ u # t
      BY <1>0, <1>5, FinishStep
    <2>2. \A s \in Sems : AbstractStep(s)
      BY <1>0, <1>1, <1>5, <2>1, SemFinish
    <2>3. SemInv'
      BY <1>0, <1>1, <1>5, <2>1 DEF SemInv, Waiting
    <2>4. EventInv'
      BY <1>0, <1>1, <1>5, <2>1, EventsFinish
    <2>5. Together
      BY <1>0, <1>1, <2>1, NobodyServed
    <2>6. MsgInv'
      BY <1>0, <1>5 DEF MsgInv
    <2> QED BY <2>1, <2>2, <2>3, <2>4, <2>5, <2>6 DEF IInv
  <1>6. ASSUME SemNext, UNCHANGED <<msg, msg_q, list_q, buf_q, eventvars>> PROVE Result
    <2>1. /\ CoreInv' /\ SemInv' /\ \A s \in Sems : AbstractStep(s)
          /\ \E s \in Sems : Elsewhere(s)
      BY <1>0, <1>6, SemStep
    <2>2. \A e \in Events : Keeps(e)
      BY <2>1, KindsDisjoint DEF Elsewhere
    <2>3. EventInv' /\ Together
      BY <1>3, <1>6, <2>2
    <2>4. MsgInv'
      BY <1>0, <1>6 DEF MsgInv
    <2> QED BY <2>1, <2>3, <2>4 DEF IInv
  <1>7. ASSUME QueueNext \/ QueueSizeNext \/ QueueBufferNext, count' = count, UNCHANGED eventvars
        PROVE  Result
    <2>1. /\ CoreInv' /\ MsgInv'
          /\ \E q \in Queues \cup SizeQueues \cup Buffers : Elsewhere(q)
      BY <1>0, <1>7, QueuesStep
    <2>2. /\ \A e \in Events : Keeps(e)
          /\ \A s \in Sems : Keeps(s) /\ (s \in exists' <=> s \in exists)
      BY <2>1, KindsDisjoint DEF Elsewhere
    <2>3. EventInv' /\ Together
      BY <1>3, <1>7, <2>2
    <2>4. SemInv' /\ \A s \in Sems : AbstractStep(s)
      BY <1>2, <1>7, <2>2
    <2> QED BY <2>1, <2>3, <2>4 DEF IInv
  <1>8. ASSUME EventNext, UNCHANGED <<msg, count, msg_q, list_q, buf_q>> PROVE Result
    <2>1. CoreInv' /\ EventInv' /\ Together /\ \E e \in Events : Elsewhere(e)
      BY <1>0, <1>8, EventStep
    <2>2. \A s \in Sems : Keeps(s) /\ (s \in exists' <=> s \in exists)
      BY <2>1, KindsDisjoint DEF Elsewhere
    <2>3. SemInv' /\ \A s \in Sems : AbstractStep(s)
      BY <1>2, <1>8, <2>2
    <2>4. MsgInv'
      BY <1>0, <1>8 DEF MsgInv
    <2> QED BY <2>1, <2>3, <2>4 DEF IInv
  <1>9. Result
    <2> HIDE DEF Result
    <2> QED BY <1>4, <1>5, <1>6, <1>7, <1>8 DEF Next
  <1> QED BY <1>9

LEMMA StutterStep ==
  ASSUME IInv, UNCHANGED vars
  PROVE  IInv'
  <1>1. /\ k' = k /\ call' = call /\ exists' = exists /\ msg' = msg /\ count' = count
        /\ flags' = flags /\ wants' = wants /\ actual' = actual
    BY DEF vars, objvars, eventvars
  <1>2. CoreInv' /\ MsgInv' /\ SemInv'
    BY <1>1 DEF IInv, CoreInv, MsgInv, SemInv, Waiting
  <1>3. EventInv'
    BY <1>1 DEF IInv, EventInv, EventsNotMissed, Granted, Satisfied
  <1> QED BY <1>2, <1>3 DEF IInv

(* The inductive invariant: who waits, who was served, and what the count  *)
(* of a semaphore and the flags of an event say about them.                *)
THEOREM Invariance == Spec => []IInv
  <1>1. Init => IInv
    BY InitInv
  <1>2. IInv /\ [Next]_vars => IInv'
    BY NextStep, StutterStep
  <1> QED BY <1>1, <1>2, PTL DEF Spec

(* The ready list, the tick list and the wait lists hold exactly the tasks *)
(* whose state says so, whatever ends their waits (raw_pend.c, raw_tick.c, *)
(* raw_task.c), and nobody waits for an object that was deleted.           *)
THEOREM WaitersAreListed == Spec => []WaitersWait
  <1>1. IInv => WaitersWait
    <2> SUFFICES ASSUME IInv PROVE WaitersWait
      OBVIOUS
    <2>1. \A o \in Objects \ exists : k.block_list[o] = <<>>
      <3>1. \A o \in Objects : k.block_list[o] \in Seq(Tasks)
        BY DEF IInv, CoreInv, KInv, KStates
      <3> QED BY <3>1, EmptyLemma DEF IInv, CoreInv, Waiting
    <2> QED BY <2>1 DEF IInv, CoreInv, KInv, WaitersWait
  <1> QED BY <1>1, Invariance, PTL

(* Every semaphore of raw_sem.c is a counting semaphore: a unit that is    *)
(* put is kept, or wakes a task that waits, never both and never neither,  *)
(* whatever timeouts, aborts, suspensions and deletions come between.      *)
THEOREM SemaphoresAreExact == Spec => SemIsSemaphore
  <1>1. Init => \A s \in Sems : Abstract(s)!Init
    <2> SUFFICES ASSUME Init, NEW s \in Sems PROVE Abstract(s)!Init
      OBVIOUS
    <2>1. CoreInv /\ s \in Objects /\ exists = {} /\ call = [t \in Tasks |-> NoObj]
      BY InitInv, KindsDisjoint DEF Init, ObjectInit, IInv
    <2>2. Waiting(k, s) = {}
      BY <2>1 DEF CoreInv
    <2>3. {t \in Tasks : Granted(t, s)} = {}
      BY <2>1, TaskAssumption DEF Granted
    <2>4. count[s] = 0
      BY DEF Init, SemInit
    <2> QED BY <2>1, <2>2, <2>3, <2>4 DEF Abstract!Init, Waiting
  <1>2. IInv /\ [Next]_vars
          => [\A s \in Sems : UNCHANGED Abstract(s)!vars \/ Abstract(s)!Next]_<<objvars, count>>
    <2> SUFFICES ASSUME IInv, [Next]_vars, UNCHANGED <<objvars, count>> => FALSE
                 PROVE  \A s \in Sems : UNCHANGED Abstract(s)!vars \/ Abstract(s)!Next
      OBVIOUS
    <2>1. Next
      BY DEF vars, objvars
    <2> QED BY <2>1, NextStep DEF AbstractStep
  <1> QED BY <1>1, <1>2, Invariance, PTL DEF Spec, SemIsSemaphore

(* No task waits for event flags that are set, and a task whose wait for   *)
(* flags succeeded was told of flags that it had asked for (raw_event.c).  *)
THEOREM NoEventMissed == Spec => []EventsNotMissed
  <1>1. IInv => EventsNotMissed
    BY DEF IInv, EventInv
  <1> QED BY <1>1, Invariance, PTL

(* Flags that wake one task wake every task that is content with them,     *)
(* even if one of them has the flags cleared (event_set).                  *)
THEOREM WokenTogether == Spec => ServedTogether
  <1>1. IInv /\ [Next]_vars
          => [\A e \in Events, t, u \in Tasks :
                /\ {t, u} \subseteq ToSet(k.block_list[e]) /\ Granted(t, e)'
                /\ Satisfied(actual'[t], wants[u])
                => Granted(u, e)']_<<objvars, eventvars>>
    <2> SUFFICES ASSUME IInv, [Next]_vars, UNCHANGED <<objvars, eventvars>> => FALSE
                 PROVE  Together
      BY DEF Together
    <2>1. Next
      BY DEF vars, objvars, eventvars
    <2> QED BY <2>1, NextStep
  <1> QED BY <1>1, Invariance, PTL DEF Spec, ServedTogether

-----------------------------------------------------------------------------
(***************************************************************************)
(* Message queues as mailboxes.  First the tasks: what a step that does    *)
(* nothing to a queue o can mean to the tasks that wait for a message, or  *)
(* that were given one, and what a service of the queue means to them.     *)
(***************************************************************************)

(* Tasks leave, or a task goes on with its message. *)
Outside(o) ==
  /\ (o \in exists') = (o \in exists)
  /\ \/ Waiting(k', o) \subseteq Waiting(k, o) /\ GotFrom(o)' = GotFrom(o)
     \/ /\ Waiting(k', o) = Waiting(k, o)
        /\ \E t \in Tasks : GotFrom(o)' = [GotFrom(o) EXCEPT ![t] = NoMsg]

(* A message m goes to tasks that wait. *)
Delivered(o, m) ==
  \E W : /\ W # {} /\ W \subseteq Waiting(k, o)
         /\ W = Waiting(k, o) \/ \E t \in Waiting(k, o) : W = {t}
         /\ Waiting(k', o) = Waiting(k, o) \ W
         /\ GotFrom(o)' = [t \in Tasks |-> IF t \in W THEN m ELSE GotFrom(o)[t]]

(* What a task was given, by object. *)
LEMMA GotIs ==
  \A o : /\ GotFrom(o) = [t \in Tasks |-> IF Granted(t, o) THEN msg[t] ELSE NoMsg]
         /\ GotFrom(o)' = [t \in Tasks |-> IF Granted(t, o)' THEN msg'[t] ELSE NoMsg]
  BY DEF GotFrom

(* Nothing was given while the same waits count as served. *)
LEMMA SameGot ==
  ASSUME NEW o, \A t \in Tasks : Granted(t, o)' <=> Granted(t, o),
         \A t \in Tasks : Granted(t, o) => msg'[t] = msg[t]
  PROVE  GotFrom(o)' = GotFrom(o)
  <1>1. \A t \in Tasks : (IF Granted(t, o)' THEN msg'[t] ELSE NoMsg)
                           = (IF Granted(t, o) THEN msg[t] ELSE NoMsg)
    OBVIOUS
  <1> QED BY <1>1, GotIs

(* Waits that end without a service, and steps that end none. *)
LEMMA ShrinksOutside ==
  ASSUME NEW o, Shrinks(o), msg' = msg, o \in exists' <=> o \in exists
  PROVE  Outside(o)
  <1>1. GotFrom(o)' = GotFrom(o)
    BY SameGot DEF Shrinks
  <1> QED BY <1>1 DEF Outside, Shrinks

LEMMA KeepsOutside ==
  ASSUME NEW o, Keeps(o), msg' = msg, o \in exists' <=> o \in exists
  PROVE  Outside(o) /\ Waiting(k', o) = Waiting(k, o) /\ GotFrom(o)' = GotFrom(o)
  <1>1. Shrinks(o)
    BY DEF Keeps, Shrinks
  <1>2. GotFrom(o)' = GotFrom(o)
    BY SameGot DEF Keeps
  <1> QED BY <1>1, <1>2, ShrinksOutside DEF Keeps

(* A task that goes on from its wait. *)
LEMMA FinishOutside ==
  ASSUME CoreInv, MsgInv, NEW t \in Tasks, NEW o \in Objects,
         Waiting(k', o) = Waiting(k, o) \ {t},
         \A u \in Tasks : Granted(u, o)' <=> Granted(u, o) /\ u # t,
         msg' = [msg EXCEPT ![t] = NoMsg], exists' = exists
  PROVE  Outside(o)
  <1>1. \A u \in Tasks : u # t => msg'[u] = msg[u]
    BY DEF MsgInv
  <1>2. CASE t \in Waiting(k, o)
    <2>1. ~Granted(t, o)
      BY <1>2, WaitersAre
    <2>2. GotFrom(o)' = GotFrom(o)
      <3>1. \A u \in Tasks : Granted(u, o)' <=> Granted(u, o)
        BY <2>1
      <3>2. \A u \in Tasks : Granted(u, o) => msg'[u] = msg[u]
        BY <1>1, <2>1
      <3> QED BY <3>1, <3>2, SameGot
    <2> QED BY <2>2 DEF Outside
  <1>3. CASE t \notin Waiting(k, o)
    <2>1. \A u \in Tasks : (IF Granted(u, o)' THEN msg'[u] ELSE NoMsg)
                             = IF u = t THEN NoMsg ELSE IF Granted(u, o) THEN msg[u] ELSE NoMsg
      BY <1>1
    <2>2. GotFrom(o)' = [GotFrom(o) EXCEPT ![t] = NoMsg]
      <3>1. GotFrom(o)' = [u \in Tasks |-> IF u = t THEN NoMsg
                                           ELSE IF Granted(u, o) THEN msg[u] ELSE NoMsg]
        BY <2>1, GotIs
      <3>2. GotFrom(o) = [u \in Tasks |-> IF Granted(u, o) THEN msg[u] ELSE NoMsg]
        BY GotIs
      <3> QED BY <3>1, <3>2
    <2> QED BY <1>3, <2>2 DEF Outside
  <1> QED BY <1>2, <1>3

(* What a message delivered to the tasks that wait for o means to o and to *)
(* another queue x.                                                        *)
LEMMA DeliverGot ==
  ASSUME CoreInv, MsgInv, NEW o \in Objects, NEW m, Deliver(o, m) \/ DeliverAll(o, m)
  PROVE  /\ exists' = exists /\ Delivered(o, m)
         /\ \A x \in Objects \ {o} : Outside(x)
  <1>1. DOMAIN msg = Tasks /\ msg = [t \in Tasks |-> msg[t]]
    BY DEF MsgInv
  <1>2. /\ exists' = exists /\ \A x \in Objects \ {o} : Keeps(x)
        /\ \E W : /\ W # {} /\ W \subseteq Waiting(k, o) /\ Woken(o, W)
                  /\ W = Waiting(k, o) \/ \E t \in Waiting(k, o) : W = {t}
                  /\ msg' = [t \in Tasks |-> IF t \in W THEN m ELSE msg[t]]
    BY <1>1, DeliverStep
  <1>3. PICK W : /\ W # {} /\ W \subseteq Waiting(k, o) /\ Woken(o, W)
                 /\ W = Waiting(k, o) \/ \E t \in Waiting(k, o) : W = {t}
                 /\ msg' = [t \in Tasks |-> IF t \in W THEN m ELSE msg[t]]
    BY <1>2
  <1>4. \A t \in W : t \in Tasks /\ \A x : ~Granted(t, x)
    BY <1>3, WaitersAre
  <1>5. GotFrom(o)' = [t \in Tasks |-> IF t \in W THEN m ELSE GotFrom(o)[t]]
    <2>1. \A t \in Tasks : Granted(t, o)' <=> Granted(t, o) \/ t \in W
      BY <1>3 DEF Woken
    <2>2. \A t \in Tasks : msg'[t] = IF t \in W THEN m ELSE msg[t]
      BY <1>3
    <2>3. \A t \in Tasks : GotFrom(o)[t] = IF Granted(t, o) THEN msg[t] ELSE NoMsg
      BY GotIs
    <2>4. \A t \in Tasks : (IF Granted(t, o)' THEN msg'[t] ELSE NoMsg)
                             = IF t \in W THEN m ELSE GotFrom(o)[t]
      BY <2>1, <2>2, <2>3
    <2> QED BY <2>4, GotIs
  <1>6. Delivered(o, m)
    BY <1>3, <1>5 DEF Delivered, Woken
  <1>7. ASSUME NEW x \in Objects \ {o} PROVE Outside(x)
    <2>1. Keeps(x)
      BY <1>2
    <2>2. \A t \in Tasks : Granted(t, x) => msg'[t] = msg[t]
      BY <1>3, <1>4
    <2>3. GotFrom(x)' = GotFrom(x)
      BY <2>1, <2>2, SameGot DEF Keeps
    <2> QED BY <1>2, <2>1, <2>3 DEF Outside, Keeps
  <1> QED BY <1>2, <1>6, <1>7

(* A service of one queue is nothing to another. *)
LEMMA QueueOutside ==
  ASSUME CoreInv, MsgInv, NEW o \in Objects, QueueKernel(o), NEW x \in Objects \ {o}
  PROVE  Outside(x)
  <1>1. CASE UNCHANGED msgvars
    <2>1. UNCHANGED objvars /\ msg' = msg
      BY <1>1 DEF msgvars
    <2> QED BY <2>1, UnchangedStep, KeepsOutside
  <1>2. ASSUME NEW m \in Messages, Deliver(o, m) \/ DeliverAll(o, m) PROVE Outside(x)
    BY <1>2, DeliverGot
  <1>3. ASSUME NEW t \in Tasks, NEW timeout \in Timeouts, Runs(t), o \in exists,
               Block(t, o, timeout), UNCHANGED msg
        PROVE  Outside(x)
    <2>1. exists' = exists /\ Keeps(x)
      BY <1>3, BlockStep
    <2> QED BY <1>3, <2>1, KeepsOutside
  <1>4. CASE ObjectCreate(o) /\ UNCHANGED msg
    <2>1. exists' = exists \cup {o} /\ Keeps(x)
      BY <1>4, CreateStep
    <2> QED BY <1>4, <2>1, KeepsOutside
  <1>5. CASE ObjectDelete(o) /\ UNCHANGED msg
    <2>1. exists' = exists \ {o} /\ Keeps(x)
      BY <1>5, DeleteStep
    <2> QED BY <1>5, <2>1, KeepsOutside
  <1> QED BY <1>1, <1>2, <1>3, <1>4, <1>5 DEF QueueKernel

(* A sequence is known by its length and its elements: how the contents of *)
(* a queue differ after a message was put at the end, at the front, or     *)
(* taken.                                                                  *)
LEMMA AppendIs ==
  ASSUME NEW S, NEW s \in Seq(S), NEW t \in Seq(S), NEW x \in S, Len(t) = Len(s) + 1,
         \A i \in 1 .. Len(s) : t[i] = s[i], t[Len(s) + 1] = x
  PROVE  t = Append(s, x)
  <1>1. Len(s) \in Nat
    BY LenProperties
  <1>2. /\ Append(s, x) \in Seq(S) /\ Len(Append(s, x)) = Len(s) + 1
        /\ \A i \in 1 .. Len(s) : Append(s, x)[i] = s[i]
        /\ Append(s, x)[Len(s) + 1] = x
    BY AppendProperties
  <1>3. \A i \in 1 .. Len(s) + 1 : i \in 1 .. Len(s) \/ i = Len(s) + 1
    BY <1>1
  <1>4. \A i \in 1 .. Len(t) : t[i] = Append(s, x)[i]
    BY <1>2, <1>3
  <1> QED BY <1>2, <1>4, SeqEqual

LEMMA ConsIs ==
  ASSUME NEW S, NEW s \in Seq(S), NEW t \in Seq(S), NEW x \in S, Len(t) = Len(s) + 1,
         t[1] = x, \A i \in 1 .. Len(s) : t[i + 1] = s[i]
  PROVE  t = <<x>> \o s
  <1>1. Len(s) \in Nat
    BY LenProperties
  <1>2. <<x>> \in Seq(S) /\ Len(<<x>>) = 1 /\ <<x>>[1] = x
    OBVIOUS
  <1>3. /\ <<x>> \o s \in Seq(S) /\ Len(<<x>> \o s) = Len(<<x>>) + Len(s)
        /\ \A i \in 1 .. Len(<<x>>) + Len(s) :
             (<<x>> \o s)[i] = IF i <= Len(<<x>>) THEN <<x>>[i] ELSE s[i - Len(<<x>>)]
    BY <1>2, ConcatProperties
  <1>4. Len(<<x>> \o s) = Len(s) + 1
    BY <1>1, <1>2, <1>3
  <1>5. ASSUME NEW i \in 1 .. Len(t) PROVE t[i] = (<<x>> \o s)[i]
    <2>1. CASE i = 1
      BY <1>1, <1>2, <1>3, <2>1
    <2>2. CASE i # 1
      <3>1. i - 1 \in 1 .. Len(s) /\ (i - 1) + 1 = i
        BY <1>1, <2>2
      <3>2. t[(i - 1) + 1] = s[i - 1]
        BY <3>1
      <3> QED BY <1>1, <1>2, <1>3, <2>2, <3>1, <3>2
    <2> QED BY <2>1, <2>2
  <1> QED BY <1>3, <1>4, <1>5, SeqEqual

LEMMA TailIs ==
  ASSUME NEW S, NEW s \in Seq(S), NEW t \in Seq(S), s # <<>>, Len(t) = Len(s) - 1,
         \A i \in 1 .. Len(s) - 1 : t[i] = s[i + 1]
  PROVE  t = Tail(s) /\ Head(s) \in S
  <1>1. /\ Head(s) \in S /\ Tail(s) \in Seq(S) /\ Len(Tail(s)) = Len(s) - 1
        /\ \A i \in 1 .. Len(Tail(s)) : Tail(s)[i] = s[i + 1]
    BY HeadTailProperties
  <1>2. \A i \in 1 .. Len(t) : t[i] = Tail(s)[i]
    BY <1>1
  <1>3. t = Tail(s)
    BY <1>1, <1>2, SeqEqual
  <1> QED BY <1>1, <1>3

(* What the services of a queue o mean to the tasks. *)
Same(o) ==
  /\ o \in exists /\ o \in exists'
  /\ Waiting(k', o) = Waiting(k, o) /\ GotFrom(o)' = GotFrom(o)

Opened(o) ==
  /\ o \notin exists /\ o \in exists'
  /\ Waiting(k', o) = Waiting(k, o) /\ GotFrom(o)' = GotFrom(o)

Closed(o) ==
  /\ o \in exists /\ o \notin exists'
  /\ Waiting(k', o) = {} /\ GotFrom(o)' = GotFrom(o)

Handed(o, m) == o \in exists /\ o \in exists' /\ Delivered(o, m)

Waits(o) ==
  /\ o \in exists /\ o \in exists'
  /\ \E t \in Tasks : Waiting(k', o) = Waiting(k, o) \cup {t}
  /\ GotFrom(o)' = GotFrom(o)

(* The steps of raw_queue.c, raw_queue_size.c and raw_queue_buffer.c are   *)
(* of these kinds.                                                         *)
LEMMA SameStep ==
  ASSUME CoreInv, NEW o \in Objects, o \in exists, UNCHANGED msgvars
  PROVE  Same(o)
  <1>1. UNCHANGED objvars /\ msg' = msg
    BY DEF msgvars
  <1>2. exists' = exists /\ Keeps(o)
    BY <1>1, UnchangedStep
  <1>3. Waiting(k', o) = Waiting(k, o) /\ GotFrom(o)' = GotFrom(o)
    BY <1>1, <1>2, KeepsOutside
  <1> QED BY <1>2, <1>3 DEF Same

LEMMA OpenedStep ==
  ASSUME CoreInv, NEW o \in Objects, ObjectCreate(o), msg' = msg
  PROVE  Opened(o)
  <1>1. o \notin exists /\ exists' = exists \cup {o} /\ Keeps(o)
    BY CreateStep
  <1>2. GotFrom(o)' = GotFrom(o)
    BY <1>1, SameGot DEF Keeps
  <1> QED BY <1>1, <1>2 DEF Opened, Keeps

LEMMA ClosedStep ==
  ASSUME CoreInv, NEW o \in Objects, ObjectDelete(o), msg' = msg
  PROVE  Closed(o)
  <1>1. /\ o \in exists /\ exists' = exists \ {o} /\ Waiting(k', o) = {}
        /\ \A t \in Tasks : Granted(t, o)' <=> Granted(t, o)
    BY DeleteStep
  <1>2. GotFrom(o)' = GotFrom(o)
    BY <1>1, SameGot
  <1> QED BY <1>1, <1>2 DEF Closed

LEMMA ServedStep ==
  ASSUME CoreInv, MsgInv, NEW o \in Objects, o \in exists,
         NEW m, Deliver(o, m) \/ DeliverAll(o, m)
  PROVE  Handed(o, m)
  BY DeliverGot DEF Handed

LEMMA WaitsStep ==
  ASSUME CoreInv, NEW t \in Tasks, NEW o \in Objects, o \in exists, Runs(t),
         NEW timeout \in Timeouts, Block(t, o, timeout), msg' = msg
  PROVE  Waits(o)
  <1>1. /\ exists' = exists /\ Waiting(k', o) = Waiting(k, o) \cup {t}
        /\ \A u \in Tasks : Granted(u, o)' <=> Granted(u, o)
    BY BlockStep
  <1>2. GotFrom(o)' = GotFrom(o)
    BY <1>1, SameGot
  <1> QED BY <1>1, <1>2 DEF Waits

(* The steps of a mailbox whose messages go from b to b1 and whose room    *)
(* goes from r to r1.                                                      *)
MailStep(o, weight, capacity, b, b1, r, r1) ==
  \/ (Outside(o) \/ Opened(o)) /\ b1 = b /\ r1 = r
  \/ /\ Same(o) /\ Waiting(k, o) = {}
     /\ \E m \in Messages : /\ r >= weight[m] /\ r1 = r - weight[m]
                            /\ b1 \in {Append(b, m), <<m>> \o b}
  \/ Same(o) /\ b # <<>> /\ b1 = Tail(b) /\ r1 = r + weight[Head(b)]
  \/ (Same(o) \/ Closed(o)) /\ b1 = <<>> /\ r1 = capacity
  \/ (Waits(o) \/ \E m \in Messages : Handed(o, m)) /\ b = <<>> /\ b1 = b /\ r1 = r

(* Messages are kept only while no task waits and the queue exists. *)
LEMMA MailKept ==
  ASSUME NEW o, NEW weight, NEW capacity, NEW b, NEW b1, NEW r, NEW r1,
         MailStep(o, weight, capacity, b, b1, r, r1),
         Waiting(k, o) # {} \/ o \notin exists => b = <<>>
  PROVE  Waiting(k', o) # {} \/ o \notin exists' => b1 = <<>>
  <1>1. CASE (Outside(o) \/ Opened(o)) /\ b1 = b
    BY <1>1 DEF Outside, Opened
  <1>2. CASE Same(o) /\ Waiting(k, o) = {}
    BY <1>2 DEF Same
  <1>3. CASE Same(o) /\ b # <<>>
    BY <1>3 DEF Same
  <1>4. CASE b1 = <<>>
    BY <1>4
  <1> QED BY <1>1, <1>2, <1>3, <1>4 DEF MailStep

-----------------------------------------------------------------------------
(***************************************************************************)
(* The ring of raw_queue.c.                                                *)
(***************************************************************************)

Rings == [slot : [Slots -> Messages \cup {NoMsg}], write : Slots, read : Slots,
          current_numbers : 0 .. size]

(* The slot i places behind slot a. *)
Onward(a, i) == IF a + i < size THEN a + i ELSE a + i - size

(* The write pointer is behind the last message. *)
RingOK(r) ==
  /\ r \in Rings
  /\ r.write = Onward(r.read, r.current_numbers)
  /\ \A i \in 1 .. r.current_numbers : r.slot[Onward(r.read, i - 1)] \in Messages

(* The code's remainder is one comparison. *)
LEMMA OnwardIs ==
  ASSUME NEW a \in Slots, NEW i \in 0 .. size
  PROVE  (a + i) % size = Onward(a, i) /\ Onward(a, i) \in Slots
  <1>1. size \in Nat \ {0}
    BY QueueAssumption
  <1>2. CASE i = size
    <2>1. (a + size) % size = a
      BY <1>1 DEF Slots
    <2> QED BY <1>1, <1>2, <2>1 DEF Slots, Onward
  <1>3. CASE i # size
    <2>1. a \in 0 .. size - 1 /\ i \in 0 .. size - 1
      BY <1>1, <1>3 DEF Slots
    <2>2. (a + i) % size = IF a + i < size THEN a + i ELSE a + i - size
      BY <1>1, <2>1, ModSum
    <2> QED BY <1>1, <2>1, <2>2 DEF Onward, Slots
  <1> QED BY <1>2, <1>3

(* What is received next, and what is received after it. *)
LEMMA ContentsAre ==
  ASSUME NEW r, RingOK(r)
  PROVE  /\ RingContents(r) \in Seq(Messages)
         /\ Len(RingContents(r)) = r.current_numbers
         /\ \A i \in 1 .. r.current_numbers :
              RingContents(r)[i] = r.slot[Onward(r.read, i - 1)]
  <1>1. r.read \in Slots /\ r.current_numbers \in 0 .. size /\ size \in Nat
    BY QueueAssumption DEF RingOK, Rings
  <1>2. \A i \in 1 .. r.current_numbers :
          /\ (r.read + i - 1) % size = Onward(r.read, i - 1)
          /\ r.slot[Onward(r.read, i - 1)] \in Messages
    <2> SUFFICES ASSUME NEW i \in 1 .. r.current_numbers
                 PROVE  /\ (r.read + i - 1) % size = Onward(r.read, i - 1)
                        /\ r.slot[Onward(r.read, i - 1)] \in Messages
      OBVIOUS
    <2>1. i - 1 \in 0 .. size /\ r.read + i - 1 = r.read + (i - 1)
      BY <1>1 DEF Slots
    <2>2. (r.read + (i - 1)) % size = Onward(r.read, i - 1)
      BY <1>1, <2>1, OnwardIs
    <2> QED BY <2>1, <2>2 DEF RingOK
  <1>3. RingContents(r) = [i \in 1 .. r.current_numbers |-> r.slot[Onward(r.read, i - 1)]]
    BY <1>2 DEF RingContents
  <1>4. r.current_numbers \in Nat
    BY <1>1
  <1>5. [i \in 1 .. r.current_numbers |-> r.slot[Onward(r.read, i - 1)]] \in Seq(Messages)
    BY <1>2, <1>4, IsASeq
  <1> QED BY <1>3, <1>4, <1>5, LenProperties

(* What the operations on a ring do to its contents. *)
LEMMA EmptyRingLemma ==
  /\ RingOK(EmptyRing) /\ RingContents(EmptyRing) = <<>>
  /\ EmptyRing.current_numbers = 0
  <1>1. 0 \in Slots /\ 0 \in 0 .. size
    BY QueueAssumption DEF Slots
  <1>2. EmptyRing \in Rings
    BY <1>1 DEF EmptyRing, Rings
  <1>3. EmptyRing.read = 0 /\ EmptyRing.write = 0 /\ EmptyRing.current_numbers = 0
    BY DEF EmptyRing
  <1>4. Onward(0, 0) = 0
    BY QueueAssumption DEF Onward
  <1>5. RingOK(EmptyRing)
    BY <1>2, <1>3, <1>4 DEF RingOK
  <1>6. RingContents(EmptyRing) \in Seq(Messages) /\ Len(RingContents(EmptyRing)) = 0
    BY <1>3, <1>5, ContentsAre
  <1> QED BY <1>3, <1>5, <1>6, EmptySeq

LEMMA PostEndLemma ==
  ASSUME NEW r, RingOK(r), NEW m \in Messages, r.current_numbers < size
  PROVE  /\ RingOK(PostEnd(r, m))
         /\ PostEnd(r, m).current_numbers = r.current_numbers + 1
         /\ RingContents(PostEnd(r, m)) = Append(RingContents(r), m)
  <1> DEFINE r1 == PostEnd(r, m)
             n == r.current_numbers
  <1>1. r \in Rings /\ r.read \in Slots /\ r.write \in Slots /\ n \in 0 .. size - 1
        /\ size \in Nat \ {0} /\ r.write = Onward(r.read, n)
    BY QueueAssumption DEF RingOK, Rings
  <1>2. (r.write + 1) % size = Onward(r.write, 1)
    BY <1>1, OnwardIs
  <1>3. Onward(r.write, 1) = Onward(r.read, n + 1) /\ Onward(r.write, 1) \in Slots
    BY <1>1 DEF Onward, Slots
  <1>4. r1 = [r EXCEPT !.slot = [@ EXCEPT ![r.write] = m], !.write = Onward(r.write, 1),
                       !.current_numbers = n + 1]
    BY <1>1, <1>2 DEF PostEnd, Rings
  <1>5. r1 \in Rings
    <2>1. n + 1 \in 0 .. size /\ Onward(r.write, 1) \in Slots
      BY <1>1, <1>3
    <2>2. [r.slot EXCEPT ![r.write] = m] \in [Slots -> Messages \cup {NoMsg}]
      BY <1>1 DEF Rings
    <2> QED BY <1>1, <1>4, <2>1, <2>2 DEF Rings
  <1>6. /\ r1.slot = [r.slot EXCEPT ![r.write] = m] /\ r1.write = Onward(r.read, n + 1)
        /\ r1.read = r.read /\ r1.current_numbers = n + 1
    BY <1>1, <1>3, <1>4 DEF Rings
  <1>7. r.slot \in [Slots -> Messages \cup {NoMsg}]
    BY <1>1 DEF Rings
  <1> HIDE DEF r1
  <1>8. \A i \in 1 .. n : /\ r1.slot[Onward(r.read, i - 1)] = r.slot[Onward(r.read, i - 1)]
                          /\ r.slot[Onward(r.read, i - 1)] \in Messages
    <2> SUFFICES ASSUME NEW i \in 1 .. n
                 PROVE  r1.slot[Onward(r.read, i - 1)] = r.slot[Onward(r.read, i - 1)]
      BY DEF RingOK
    <2>1. Onward(r.read, i - 1) # r.write /\ Onward(r.read, i - 1) \in Slots
      BY <1>1 DEF Onward, Slots
    <2> QED BY <1>6, <1>7, <2>1
  <1>9. r1.slot[Onward(r.read, n)] = m
    BY <1>1, <1>6, <1>7
  <1>10. \A i \in 1 .. n + 1 : i \in 1 .. n \/ (i = n + 1 /\ i - 1 = n)
    BY <1>1
  <1>11. RingOK(r1)
    <2>1. \A i \in 1 .. n + 1 : r1.slot[Onward(r.read, i - 1)] \in Messages
      BY <1>8, <1>9, <1>10
    <2> QED BY <1>5, <1>6, <2>1 DEF RingOK
  <1>12. RingContents(r1) = Append(RingContents(r), m)
    <2> DEFINE s == RingContents(r)
               s1 == RingContents(r1)
    <2>1. s \in Seq(Messages) /\ Len(s) = n /\ \A i \in 1 .. n : s[i] = r.slot[Onward(r.read, i - 1)]
      BY ContentsAre
    <2>2. s1 \in Seq(Messages) /\ Len(s1) = n + 1
          /\ \A i \in 1 .. n + 1 : s1[i] = r1.slot[Onward(r.read, i - 1)]
      <3>1. /\ s1 \in Seq(Messages) /\ Len(s1) = r1.current_numbers
            /\ \A i \in 1 .. r1.current_numbers : s1[i] = r1.slot[Onward(r1.read, i - 1)]
        BY <1>11, ContentsAre
      <3> QED BY <1>6, <3>1
    <2> HIDE DEF s, s1
    <2>3. \A i \in 1 .. n : i \in 1 .. n + 1 /\ s1[i] = s[i]
      BY <1>1, <1>8, <2>1, <2>2
    <2>4. n + 1 \in 1 .. n + 1 /\ (n + 1) - 1 = n
      BY <1>1
    <2>5. s1[n + 1] = m
      BY <1>9, <2>2, <2>4
    <2>6. s1 = Append(s, m)
      BY <2>1, <2>2, <2>3, <2>5, AppendIs
    <2> QED BY <2>6 DEF s, s1
  <1> QED BY <1>6, <1>11, <1>12 DEF r1

LEMMA PostFrontLemma ==
  ASSUME NEW r, RingOK(r), NEW m \in Messages, r.current_numbers < size
  PROVE  /\ RingOK(PostFront(r, m))
         /\ PostFront(r, m).current_numbers = r.current_numbers + 1
         /\ RingContents(PostFront(r, m)) = <<m>> \o RingContents(r)
  <1> DEFINE r1 == PostFront(r, m)
             n == r.current_numbers
             p == IF r.read = 0 THEN size - 1 ELSE r.read - 1
  <1>1. r \in Rings /\ r.read \in Slots /\ r.write \in Slots /\ n \in 0 .. size - 1
        /\ size \in Nat \ {0} /\ r.write = Onward(r.read, n)
    BY QueueAssumption DEF RingOK, Rings
  <1>2. (r.read - 1) % size = p /\ p \in Slots
    <2>1. CASE size = 1
      BY <1>1, <2>1 DEF Slots
    <2>2. CASE size # 1
      <3>1. r.read \in 0 .. size - 1 /\ 1 \in 0 .. size - 1
        BY <1>1, <2>2 DEF Slots
      <3>2. (r.read - 1) % size = IF 1 <= r.read THEN r.read - 1 ELSE r.read - 1 + size
        BY <1>1, <3>1, ModDifference
      <3> QED BY <1>1, <3>1, <3>2 DEF Slots
    <2> QED BY <2>1, <2>2
  <1>3. r1 = [r EXCEPT !.slot = [@ EXCEPT ![p] = m], !.read = p, !.current_numbers = n + 1]
    BY <1>1, <1>2 DEF PostFront, Rings
  <1>4. r1 \in Rings
    <2>1. n + 1 \in 0 .. size
      BY <1>1
    <2>2. [r.slot EXCEPT ![p] = m] \in [Slots -> Messages \cup {NoMsg}]
      BY <1>1 DEF Rings
    <2> QED BY <1>1, <1>2, <1>3, <2>1, <2>2 DEF Rings
  <1>5. /\ r1.slot = [r.slot EXCEPT ![p] = m] /\ r1.write = r.write
        /\ r1.read = p /\ r1.current_numbers = n + 1
    BY <1>1, <1>3 DEF Rings
  <1>6. r.slot \in [Slots -> Messages \cup {NoMsg}]
    BY <1>1 DEF Rings
  <1> HIDE DEF r1
  <1>7. \A i \in 1 .. n : /\ Onward(p, i) = Onward(r.read, i - 1)
                          /\ r1.slot[Onward(p, i)] = r.slot[Onward(r.read, i - 1)]
                          /\ r.slot[Onward(r.read, i - 1)] \in Messages
    <2> SUFFICES ASSUME NEW i \in 1 .. n
                 PROVE  /\ Onward(p, i) = Onward(r.read, i - 1)
                        /\ r1.slot[Onward(p, i)] = r.slot[Onward(r.read, i - 1)]
      BY DEF RingOK
    <2>1. /\ Onward(p, i) = Onward(r.read, i - 1) /\ Onward(p, i) # p
          /\ Onward(p, i) \in Slots
      BY <1>1 DEF Onward, Slots
    <2> QED BY <1>2, <1>5, <1>6, <2>1
  <1>8. Onward(p, 0) = p /\ r1.slot[p] = m
    <2>1. Onward(p, 0) = p
      BY <1>1 DEF Onward, Slots
    <2>2. r1.slot[p] = m
      BY <1>2, <1>5, <1>6
    <2> QED BY <2>1, <2>2
  <1>9. Onward(p, n + 1) = r.write
    BY <1>1 DEF Onward, Slots
  <1> HIDE DEF p
  <1>10. /\ r1.slot[Onward(p, 1 - 1)] = m
         /\ \A i \in 2 .. n + 1 : /\ r1.slot[Onward(p, i - 1)] = r.slot[Onward(r.read, i - 1 - 1)]
                                  /\ r.slot[Onward(r.read, i - 1 - 1)] \in Messages
    <2>1. \A i \in 2 .. n + 1 : i - 1 \in 1 .. n
      BY <1>1
    <2> QED BY <1>7, <1>8, <2>1
  <1>11. \A i \in 1 .. n + 1 : i \in 2 .. n + 1 \/ i = 1
    BY <1>1
  <1>12. RingOK(r1)
    <2>1. \A i \in 1 .. n + 1 : r1.slot[Onward(p, i - 1)] \in Messages
      BY <1>10, <1>11
    <2> QED BY <1>4, <1>5, <1>9, <2>1 DEF RingOK
  <1>13. RingContents(r1) = <<m>> \o RingContents(r)
    <2> DEFINE s == RingContents(r)
               s1 == RingContents(r1)
    <2>1. s \in Seq(Messages) /\ Len(s) = n /\ \A i \in 1 .. n : s[i] = r.slot[Onward(r.read, i - 1)]
      BY ContentsAre
    <2>2. s1 \in Seq(Messages) /\ Len(s1) = n + 1
          /\ \A i \in 1 .. n + 1 : s1[i] = r1.slot[Onward(p, i - 1)]
      <3>1. /\ s1 \in Seq(Messages) /\ Len(s1) = r1.current_numbers
            /\ \A i \in 1 .. r1.current_numbers : s1[i] = r1.slot[Onward(r1.read, i - 1)]
        BY <1>12, ContentsAre
      <3> QED BY <1>5, <3>1
    <2> HIDE DEF s, s1
    <2>3. s1[1] = m
      <3>1. 1 \in 1 .. n + 1
        BY <1>1
      <3> QED BY <1>10, <2>2, <3>1
    <2>4. \A i \in 1 .. n : s1[i + 1] = s[i]
      <3>1. \A i \in 1 .. n : i + 1 \in 2 .. n + 1 /\ i + 1 \in 1 .. n + 1 /\ (i + 1) - 1 - 1 = i - 1
        BY <1>1
      <3> QED BY <1>10, <2>1, <2>2, <3>1
    <2>5. s1 = <<m>> \o s
      BY <2>1, <2>2, <2>3, <2>4, ConsIs
    <2> QED BY <2>5 DEF s, s1
  <1> QED BY <1>5, <1>12, <1>13 DEF r1

(* The ring after its next message was received. *)
Received(r) == [r EXCEPT !.slot[r.read] = NoMsg, !.read = (@ + 1) % size,
                         !.current_numbers = @ - 1]

LEMMA ReceiveLemma ==
  ASSUME NEW r, RingOK(r), r.current_numbers > 0
  PROVE  /\ RingOK(Received(r))
         /\ Received(r).current_numbers = r.current_numbers - 1
         /\ RingContents(r) # <<>> /\ Head(RingContents(r)) \in Messages
         /\ RingContents(Received(r)) = Tail(RingContents(r))
  <1> DEFINE r1 == Received(r)
             n == r.current_numbers
  <1>1. r \in Rings /\ r.read \in Slots /\ r.write \in Slots /\ n \in 1 .. size
        /\ size \in Nat \ {0} /\ r.write = Onward(r.read, n)
    BY QueueAssumption DEF RingOK, Rings
  <1>2. (r.read + 1) % size = Onward(r.read, 1)
    BY <1>1, OnwardIs
  <1>3. Onward(r.read, 1) \in Slots
    BY <1>1 DEF Onward, Slots
  <1>4. r1 = [r EXCEPT !.slot = [@ EXCEPT ![r.read] = NoMsg], !.read = Onward(r.read, 1),
                       !.current_numbers = n - 1]
    BY <1>1, <1>2 DEF Received, Rings
  <1>5. r1 \in Rings
    <2>1. n - 1 \in 0 .. size
      BY <1>1
    <2>2. [r.slot EXCEPT ![r.read] = NoMsg] \in [Slots -> Messages \cup {NoMsg}]
      BY <1>1 DEF Rings
    <2> QED BY <1>1, <1>3, <1>4, <2>1, <2>2 DEF Rings
  <1>6. /\ r1.slot = [r.slot EXCEPT ![r.read] = NoMsg] /\ r1.write = r.write
        /\ r1.read = Onward(r.read, 1) /\ r1.current_numbers = n - 1
    BY <1>1, <1>3, <1>4 DEF Rings
  <1>7. r.slot \in [Slots -> Messages \cup {NoMsg}]
    BY <1>1 DEF Rings
  <1> HIDE DEF r1
  <1>8. \A i \in 1 .. n - 1 :
          /\ r1.slot[Onward(r1.read, i - 1)] = r.slot[Onward(r.read, i)]
          /\ r.slot[Onward(r.read, i)] \in Messages
    <2> SUFFICES ASSUME NEW i \in 1 .. n - 1
                 PROVE  /\ r1.slot[Onward(r1.read, i - 1)] = r.slot[Onward(r.read, i)]
                        /\ r.slot[Onward(r.read, i)] \in Messages
      OBVIOUS
    <2>1. /\ Onward(Onward(r.read, 1), i - 1) = Onward(r.read, i)
          /\ Onward(r.read, i) # r.read /\ Onward(r.read, i) \in Slots
      BY <1>1 DEF Onward, Slots
    <2>2. i + 1 \in 1 .. n /\ (i + 1) - 1 = i
      BY <1>1
    <2>3. r.slot[Onward(r.read, (i + 1) - 1)] \in Messages
      BY <2>2 DEF RingOK
    <2> QED BY <1>6, <1>7, <2>1, <2>2, <2>3
  <1>9. Onward(Onward(r.read, 1), n - 1) = r.write
    BY <1>1 DEF Onward, Slots
  <1>10. RingOK(r1)
    <2>1. \A i \in 1 .. n - 1 : r1.slot[Onward(r1.read, i - 1)] \in Messages
      BY <1>8
    <2> QED BY <1>5, <1>6, <1>9, <2>1 DEF RingOK
  <1> DEFINE s == RingContents(r)
             s1 == RingContents(r1)
  <1>11. s \in Seq(Messages) /\ Len(s) = n /\ \A i \in 1 .. n : s[i] = r.slot[Onward(r.read, i - 1)]
    BY ContentsAre
  <1>12. s1 \in Seq(Messages) /\ Len(s1) = n - 1
         /\ \A i \in 1 .. n - 1 : s1[i] = r1.slot[Onward(r1.read, i - 1)]
    <2>1. /\ s1 \in Seq(Messages) /\ Len(s1) = r1.current_numbers
          /\ \A i \in 1 .. r1.current_numbers : s1[i] = r1.slot[Onward(r1.read, i - 1)]
      BY <1>10, ContentsAre
    <2> QED BY <1>6, <2>1
  <1> HIDE DEF s, s1
  <1>13. s # <<>>
    BY <1>1, <1>11, EmptySeq
  <1>14. \A i \in 1 .. n - 1 : i + 1 \in 1 .. n /\ (i + 1) - 1 = i
    BY <1>1
  <1>15. \A i \in 1 .. n - 1 : s1[i] = s[i + 1]
    BY <1>8, <1>11, <1>12, <1>14
  <1>16. s1 = Tail(s) /\ Head(s) \in Messages
    BY <1>11, <1>12, <1>13, <1>15, TailIs
  <1> QED BY <1>6, <1>10, <1>13, <1>16 DEF s, s1, r1

-----------------------------------------------------------------------------
(***************************************************************************)
(* The queues of raw_queue.c as mailboxes.                                 *)
(***************************************************************************)

(* A queue keeps messages only while no task waits and it exists. *)
RingInv ==
  /\ msg_q \in [Queues -> Rings]
  /\ \A q \in Queues :
       /\ RingOK(msg_q[q])
       /\ Waiting(k, q) # {} \/ q \notin exists => RingContents(msg_q[q]) = <<>>

(* A step of the mailbox, or of nothing; and the step as the ring shows    *)
(* it.                                                                     *)
RingAbstract(q) == UNCHANGED RingBox(q)!vars \/ RingBox(q)!Next

RingMail(q) ==
  MailStep(q, [m \in Messages |-> 1], size,
           RingContents(msg_q[q]), RingContents(msg_q'[q]),
           size - msg_q[q].current_numbers, size - msg_q'[q].current_numbers)

(* Every such step is one of the mailbox. *)
LEMMA RingMailbox ==
  ASSUME NEW q \in Queues, RingMail(q)
  PROVE  RingAbstract(q)
  <1> DEFINE weight == [m \in Messages |-> 1]
             b == RingContents(msg_q[q])
             b1 == RingContents(msg_q'[q])
             r == size - msg_q[q].current_numbers
             r1 == size - msg_q'[q].current_numbers
  <1>1. CASE Outside(q) /\ b1 = b /\ r1 = r
    <2>1. (q \in exists') = (q \in exists)
      BY <1>1 DEF Outside
    <2>2. CASE Waiting(k', q) \subseteq Waiting(k, q) /\ GotFrom(q)' = GotFrom(q)
      <3> DEFINE ts == Waiting(k, q) \ Waiting(k', q)
      <3>1. Waiting(k', q) = Waiting(k, q) \ ts /\ ts \in SUBSET Waiting(k, q)
        BY <2>2
      <3> HIDE DEF ts
      <3>2. RingBox(q)!Leave(ts)
        BY <1>1, <2>1, <2>2, <3>1 DEF RingBox!Leave, Waiting
      <3> QED BY <3>1, <3>2 DEF RingAbstract, RingBox!Next, Waiting
    <2>3. ASSUME Waiting(k', q) = Waiting(k, q), NEW t \in Tasks,
                 GotFrom(q)' = [GotFrom(q) EXCEPT ![t] = NoMsg]
          PROVE  RingAbstract(q)
      <3>1. RingBox(q)!Return(t)
        BY <1>1, <2>1, <2>3 DEF RingBox!Return, Waiting
      <3> QED BY <3>1 DEF RingAbstract, RingBox!Next
    <2> QED BY <1>1, <2>2, <2>3 DEF Outside
  <1>2. CASE Opened(q) /\ b1 = b /\ r1 = r
    <2>1. RingBox(q)!Create
      BY <1>2 DEF RingBox!Create, Opened, Waiting
    <2> QED BY <2>1 DEF RingAbstract, RingBox!Next
  <1>3. ASSUME Same(q), Waiting(k, q) = {}, NEW m \in Messages, r >= weight[m],
               r1 = r - weight[m], b1 \in {Append(b, m), <<m>> \o b}
        PROVE  RingAbstract(q)
    <2>1. RingBox(q)!Keep(m)
      BY <1>3 DEF RingBox!Keep, Same, Waiting
    <2> QED BY <2>1 DEF RingAbstract, RingBox!Next
  <1>4. CASE Same(q) /\ b # <<>> /\ b1 = Tail(b) /\ r1 = r + weight[Head(b)]
    <2>1. RingBox(q)!Take
      BY <1>4 DEF RingBox!Take, Same, Waiting
    <2> QED BY <2>1 DEF RingAbstract, RingBox!Next
  <1>5. CASE Same(q) /\ b1 = <<>> /\ r1 = size
    <2>1. RingBox(q)!Flush
      BY <1>5 DEF RingBox!Flush, Same, Waiting
    <2> QED BY <2>1 DEF RingAbstract, RingBox!Next
  <1>6. CASE Closed(q) /\ b1 = <<>> /\ r1 = size
    <2>1. RingBox(q)!Delete
      BY <1>6 DEF RingBox!Delete, Closed, Waiting
    <2> QED BY <2>1 DEF RingAbstract, RingBox!Next
  <1>7. CASE Waits(q) /\ b = <<>> /\ b1 = b /\ r1 = r
    <2>1. PICK t \in Tasks : Waiting(k', q) = Waiting(k, q) \cup {t}
      BY <1>7 DEF Waits
    <2>2. RingBox(q)!Wait(t)
      BY <1>7, <2>1 DEF RingBox!Wait, Waits, Waiting
    <2> QED BY <2>2 DEF RingAbstract, RingBox!Next
  <1>8. ASSUME NEW m \in Messages, Handed(q, m), b = <<>>, b1 = b, r1 = r
        PROVE  RingAbstract(q)
    <2>1. PICK W : /\ W # {} /\ W \subseteq Waiting(k, q)
                   /\ W = Waiting(k, q) \/ \E t \in Waiting(k, q) : W = {t}
                   /\ Waiting(k', q) = Waiting(k, q) \ W
                   /\ GotFrom(q)' = [t \in Tasks |-> IF t \in W THEN m ELSE GotFrom(q)[t]]
      BY <1>8 DEF Handed, Delivered
    <2>2. RingBox(q)!Give(m, W)
      BY <1>8, <2>1 DEF RingBox!Give, Handed, Waiting
    <2>3. W = ToSet(k.block_list[q]) \/ \E t \in ToSet(k.block_list[q]) : W = {t}
      BY <2>1 DEF Waiting
    <2> QED BY <2>2, <2>3 DEF RingAbstract, RingBox!Next
  <1> HIDE DEF weight, b, b1, r, r1
  <1>9. MailStep(q, weight, size, b, b1, r, r1)
    BY DEF RingMail, weight, b, b1, r, r1
  <1> QED BY <1>1, <1>2, <1>3, <1>4, <1>5, <1>6, <1>7, <1>8, <1>9 DEF MailStep

(* The services of raw_queue.c. *)
LEMMA RingServices ==
  ASSUME CoreInv, MsgInv, RingInv, NEW q \in Queues, q \in Objects,
         \/ raw_queue_create(q) \/ raw_queue_flush(q) \/ raw_queue_delete(q)
         \/ Receive(q)
         \/ \E m \in Messages : PostKeeps(q, m) \/ PostDelivers(q, m)
         \/ \E t \in Tasks, timeout \in Timeouts : ReceiveBlocks(t, q, timeout)
  PROVE  RingMail(q) /\ \E r : RingOK(r) /\ msg_q' = [msg_q EXCEPT ![q] = r]
  <1> DEFINE r == msg_q[q]
             weight == [m \in Messages |-> 1]
             Mail(r1) == MailStep(q, weight, size, RingContents(r), RingContents(r1),
                                  size - r.current_numbers, size - r1.current_numbers)
  <1>1. /\ size \in Nat \ {0} /\ r.current_numbers \in 0 .. size /\ RingOK(r)
        /\ msg_q \in [Queues -> Rings]
        /\ Waiting(k, q) # {} \/ q \notin exists => RingContents(r) = <<>>
    BY QueueAssumption DEF RingInv, Rings
  <1>2. k.block_list[q] = <<>> <=> Waiting(k, q) = {}
    <2>1. k.block_list[q] \in Seq(Tasks)
      BY DEF CoreInv, KInv, KStates
    <2> QED BY <2>1, EmptyLemma DEF Waiting
  <1>3. RingContents(r) = <<>> <=> r.current_numbers = 0
    BY <1>1, ContentsAre, EmptySeq
  <1>4. ASSUME NEW r1, RingOK(r1), msg_q' = [msg_q EXCEPT ![q] = r1], Mail(r1)
        PROVE  RingMail(q) /\ \E x : RingOK(x) /\ msg_q' = [msg_q EXCEPT ![q] = x]
    <2>1. msg_q'[q] = r1
      BY <1>1, <1>4
    <2>2. RingMail(q)
      BY <1>4, <2>1 DEF RingMail
    <2> QED BY <1>4, <2>2
  <1>5. msg_q' = msg_q => msg_q' = [msg_q EXCEPT ![q] = r]
    BY <1>1
  <1> HIDE DEF r, weight, Mail
  <1>6. RingOK(EmptyRing) /\ RingContents(EmptyRing) = <<>> /\ size - EmptyRing.current_numbers = size
    BY <1>1, EmptyRingLemma
  <1>7. CASE raw_queue_create(q)
    <2>1. Opened(q) /\ msg_q' = [msg_q EXCEPT ![q] = EmptyRing]
      BY <1>7, OpenedStep DEF raw_queue_create
    <2>2. RingContents(r) = <<>> /\ size - r.current_numbers = size
      BY <1>1, <1>3, <2>1 DEF Opened
    <2>3. Mail(EmptyRing)
      BY <1>6, <2>1, <2>2 DEF Mail, MailStep
    <2> QED BY <1>4, <1>6, <2>1, <2>3
  <1>8. CASE raw_queue_flush(q)
    <2>1. Same(q) /\ msg_q' = [msg_q EXCEPT ![q] = EmptyRing]
      BY <1>8, SameStep DEF raw_queue_flush
    <2>2. Mail(EmptyRing)
      BY <1>6, <2>1 DEF Mail, MailStep
    <2> QED BY <1>4, <1>6, <2>1, <2>2
  <1>9. CASE raw_queue_delete(q)
    <2>1. Closed(q) /\ msg_q' = [msg_q EXCEPT ![q] = EmptyRing]
      BY <1>9, ClosedStep DEF raw_queue_delete
    <2>2. Mail(EmptyRing)
      BY <1>6, <2>1 DEF Mail, MailStep
    <2> QED BY <1>4, <1>6, <2>1, <2>2
  <1>10. CASE Receive(q)
    <2>1. /\ Same(q) /\ r.current_numbers > 0
          /\ msg_q' = [msg_q EXCEPT ![q] = Received(r)]
      BY <1>10, SameStep DEF Receive, Received, r
    <2>2. /\ RingOK(Received(r))
          /\ Received(r).current_numbers = r.current_numbers - 1
          /\ RingContents(r) # <<>> /\ Head(RingContents(r)) \in Messages
          /\ RingContents(Received(r)) = Tail(RingContents(r))
      BY <1>1, <2>1, ReceiveLemma
    <2>3. weight[Head(RingContents(r))] = 1
      BY <2>2 DEF weight
    <2>4. size - Received(r).current_numbers = size - r.current_numbers + 1
      BY <1>1, <2>2
    <2>5. Mail(Received(r))
      BY <2>1, <2>2, <2>3, <2>4 DEF Mail, MailStep
    <2> QED BY <1>4, <2>1, <2>2, <2>5
  <1>11. ASSUME NEW m \in Messages, PostKeeps(q, m)
         PROVE  RingMail(q) /\ \E x : RingOK(x) /\ msg_q' = [msg_q EXCEPT ![q] = x]
    <2>1. /\ Same(q) /\ Waiting(k, q) = {} /\ ~(r.current_numbers >= size)
          /\ \E r1 \in {PostEnd(r, m), PostFront(r, m)} : msg_q' = [msg_q EXCEPT ![q] = r1]
      BY <1>2, <1>11, SameStep DEF PostKeeps, Full, r
    <2>2. PICK r1 \in {PostEnd(r, m), PostFront(r, m)} : msg_q' = [msg_q EXCEPT ![q] = r1]
      BY <2>1
    <2>3. r.current_numbers < size
      BY <1>1, <2>1
    <2>4. /\ RingOK(r1) /\ r1.current_numbers = r.current_numbers + 1
          /\ RingContents(r1) \in {Append(RingContents(r), m), <<m>> \o RingContents(r)}
      <3>1. CASE r1 = PostEnd(r, m)
        BY <1>1, <2>3, <3>1, PostEndLemma
      <3>2. CASE r1 = PostFront(r, m)
        BY <1>1, <2>3, <3>2, PostFrontLemma
      <3> QED BY <2>2, <3>1, <3>2
    <2>5. /\ weight[m] = 1 /\ size - r.current_numbers >= 1
          /\ size - r1.current_numbers = size - r.current_numbers - 1
      BY <1>1, <2>3, <2>4 DEF weight
    <2>6. Mail(r1)
      BY <2>1, <2>4, <2>5 DEF Mail, MailStep
    <2> QED BY <1>4, <2>2, <2>4, <2>6
  <1>12. ASSUME NEW m \in Messages, PostDelivers(q, m)
         PROVE  RingMail(q) /\ \E x : RingOK(x) /\ msg_q' = [msg_q EXCEPT ![q] = x]
    <2>1. Handed(q, m) /\ msg_q' = msg_q
      BY <1>12, ServedStep DEF PostDelivers
    <2>2. RingContents(r) = <<>>
      BY <1>1, <2>1 DEF Handed, Delivered
    <2>3. Mail(r)
      BY <2>1, <2>2 DEF Mail, MailStep
    <2> QED BY <1>1, <1>4, <1>5, <2>1, <2>3
  <1>13. ASSUME NEW t \in Tasks, NEW timeout \in Timeouts, ReceiveBlocks(t, q, timeout)
         PROVE  RingMail(q) /\ \E x : RingOK(x) /\ msg_q' = [msg_q EXCEPT ![q] = x]
    <2>1. Waits(q) /\ msg_q' = msg_q /\ r.current_numbers = 0
      BY <1>13, WaitsStep DEF ReceiveBlocks, r
    <2>2. Mail(r)
      BY <1>3, <2>1 DEF Mail, MailStep
    <2> QED BY <1>1, <1>4, <1>5, <2>1, <2>2
  <1> QED BY <1>7, <1>8, <1>9, <1>10, <1>11, <1>12, <1>13

(* The invariant is kept by steps like these ... *)
LEMMA RingsKept ==
  ASSUME RingInv, msg_q' \in [Queues -> Rings],
         \A q \in Queues : RingMail(q) /\ RingOK(msg_q'[q])
  PROVE  RingInv' /\ \A q \in Queues : RingAbstract(q)
  <1>1. ASSUME NEW q \in Queues
        PROVE  /\ RingOK(msg_q'[q]) /\ RingAbstract(q)
               /\ Waiting(k', q) # {} \/ q \notin exists' => RingContents(msg_q'[q]) = <<>>
    <2>1. Waiting(k, q) # {} \/ q \notin exists => RingContents(msg_q[q]) = <<>>
      BY DEF RingInv
    <2>2. Waiting(k', q) # {} \/ q \notin exists' => RingContents(msg_q'[q]) = <<>>
      BY <2>1, MailKept DEF RingMail
    <2> QED BY <2>2, RingMailbox
  <1> QED BY <1>1 DEF RingInv

LEMMA RingsOutside ==
  ASSUME RingInv, msg_q' = msg_q, \A q \in Queues : Outside(q)
  PROVE  RingInv' /\ \A q \in Queues : RingAbstract(q)
  <1>1. \A q \in Queues : RingMail(q) /\ RingOK(msg_q'[q])
    BY DEF RingInv, RingMail, MailStep
  <1> QED BY <1>1, RingsKept DEF RingInv

(* ... and the steps of the queues are. *)
LEMMA RingsServed ==
  ASSUME CoreInv, MsgInv, RingInv, QueueNext
  PROVE  RingInv' /\ \A q \in Queues : RingAbstract(q)
  <1>1. PICK q \in Queues :
          \/ raw_queue_create(q) \/ raw_queue_flush(q) \/ raw_queue_delete(q)
          \/ Receive(q)
          \/ \E m \in Messages : PostKeeps(q, m) \/ PostDelivers(q, m)
          \/ \E t \in Tasks, timeout \in Timeouts : ReceiveBlocks(t, q, timeout)
    BY DEF QueueNext
  <1>2. q \in Objects
    BY QueueAssumption
  <1>3. QueueKernel(q)
    BY <1>1 DEF QueueKernel, raw_queue_create, raw_queue_flush, raw_queue_delete,
                Receive, PostKeeps, PostDelivers, ReceiveBlocks
  <1>4. RingMail(q) /\ \E r : RingOK(r) /\ msg_q' = [msg_q EXCEPT ![q] = r]
    BY <1>1, <1>2, RingServices
  <1>5. PICK r : RingOK(r) /\ msg_q' = [msg_q EXCEPT ![q] = r]
    BY <1>4
  <1>6. msg_q' \in [Queues -> Rings] /\ \A x \in Queues : RingOK(msg_q'[x])
    BY <1>5 DEF RingOK, RingInv
  <1>7. ASSUME NEW x \in Queues \ {q} PROVE RingMail(x)
    <2>1. msg_q'[x] = msg_q[x]
      BY <1>5 DEF RingInv
    <2>2. x \in Objects \ {q}
      BY QueueAssumption
    <2>3. Outside(x)
      BY <1>2, <1>3, <2>2, QueueOutside
    <2> QED BY <2>1, <2>3 DEF RingMail, MailStep
  <1> QED BY <1>4, <1>6, <1>7, RingsKept

(* The steps of everything else. *)
LEMMA NextQueues ==
  ASSUME IInv, Next
  PROVE  \/ QueueNext /\ UNCHANGED <<list_q, buf_q>>
         \/ QueueSizeNext /\ UNCHANGED <<msg_q, buf_q>>
         \/ QueueBufferNext /\ UNCHANGED <<msg_q, list_q>>
         \/ /\ UNCHANGED <<msg_q, list_q, buf_q>>
            /\ \A q \in Queues \cup SizeQueues \cup Buffers : Outside(q)
  <1> DEFINE All == Queues \cup SizeQueues \cup Buffers
  <1>0. CoreInv /\ MsgInv /\ SemInv /\ EventInv
    BY DEF IInv
  <1>1. All \subseteq Objects
    BY QueueAssumption, QueueSizeAssumption, QueueBufferAssumption
  <1>2. \A s \in Sems \cup Events : s \notin All
    BY KindsDisjoint
  <1> HIDE DEF All
  <1>3. ASSUME TaskServices, msg' = msg PROVE \A q \in All : Outside(q)
    <2>1. exists' = exists /\ \A o \in Objects : Shrinks(o)
      BY <1>0, <1>3, TaskServicesStep
    <2> QED BY <1>1, <1>3, <2>1, ShrinksOutside
  <1>4. ASSUME NEW t \in Tasks, Finish(t), msg' = [msg EXCEPT ![t] = NoMsg]
        PROVE  \A q \in All : Outside(q)
    <2>1. /\ exists' = exists
          /\ \A o \in Objects :
               /\ Waiting(k', o) = Waiting(k, o) \ {t}
               /\ \A u \in Tasks : Granted(u, o)' <=> Granted(u, o) /\ u # t
      BY <1>0, <1>4, FinishStep
    <2> QED BY <1>0, <1>1, <1>4, <2>1, FinishOutside
  <1>5. ASSUME NEW o \in Sems \cup Events, Elsewhere(o), msg' = msg
        PROVE  \A q \in All : Outside(q)
    <2>1. \A q \in All : Keeps(q) /\ (q \in exists' <=> q \in exists)
      BY <1>1, <1>2, <1>5 DEF Elsewhere
    <2> QED BY <1>5, <2>1, KeepsOutside
  <1>6. ASSUME SemNext, msg' = msg PROVE \A q \in All : Outside(q)
    <2>1. \E s \in Sems : Elsewhere(s)
      BY <1>0, <1>6, SemStep
    <2> QED BY <1>5, <1>6, <2>1
  <1>7. ASSUME EventNext, msg' = msg PROVE \A q \in All : Outside(q)
    <2>1. \E e \in Events : Elsewhere(e)
      BY <1>0, <1>7, EventStep
    <2> QED BY <1>5, <1>7, <2>1
  <1> QED BY <1>3, <1>4, <1>6, <1>7 DEF Next, All

LEMMA NextRings ==
  ASSUME IInv, RingInv, Next
  PROVE  RingInv' /\ \A q \in Queues : RingAbstract(q)
  <1>1. CoreInv /\ MsgInv
    BY DEF IInv
  <1>2. CASE QueueNext
    BY <1>1, <1>2, RingsServed
  <1>3. ASSUME msg_q' = msg_q, QueueSizeNext \/ QueueBufferNext
        PROVE  \A q \in Queues : Outside(q)
    <2>1. PICK o \in SizeQueues \cup Buffers : QueueKernel(o)
      BY <1>3, QueueKernels
    <2>2. /\ \A q \in Queues : q \in Objects \ {o}
          /\ o \in Objects
      BY KindsDisjoint, QueueSizeAssumption, QueueBufferAssumption
    <2> QED BY <1>1, <2>1, <2>2, QueueOutside
  <1> QED BY <1>2, <1>3, NextQueues, RingsOutside

-----------------------------------------------------------------------------
(***************************************************************************)
(* The linked lists of raw_queue_size.c.                                   *)
(***************************************************************************)

(* f has the first n entries of the list that starts at e. *)
Linked(l, e, n, f) ==
  /\ f = [i \in 1 .. n |-> f[i]]
  /\ n > 0 => f[1] = e
  /\ \A i \in 1 .. n - 1 : f[i + 1] = l.next[f[i]]

(* Follow finds those entries: what it chooses satisfies its equation, and *)
(* place by place the equation leaves no choice.                           *)
LEMMA FollowIs ==
  ASSUME NEW l, NEW e, NEW n \in Nat, NEW f, Linked(l, e, n, f)
  PROVE  Follow(l, e, n) = f
  <1> DEFINE F(g) == [i \in 1 .. n |-> IF i = 1 THEN e ELSE l.next[g[i - 1]]]
             step == CHOOSE g : g = F(g)
  <1>0. /\ f = [i \in 1 .. n |-> f[i]]
        /\ n > 0 => f[1] = e
        /\ \A i \in 1 .. n - 1 : f[i + 1] = l.next[f[i]]
    BY DEF Linked
  <1>1. f = F(f)
    <2>1. \A i \in 1 .. n : f[i] = IF i = 1 THEN e ELSE l.next[f[i - 1]]
      <3> SUFFICES ASSUME NEW i \in 1 .. n, i # 1 PROVE f[i] = l.next[f[i - 1]]
        BY <1>0
      <3>1. i - 1 \in 1 .. n - 1 /\ (i - 1) + 1 = i
        OBVIOUS
      <3>2. f[(i - 1) + 1] = l.next[f[i - 1]]
        BY <1>0, <3>1
      <3> QED BY <3>1, <3>2
    <2> QED BY <1>0, <2>1
  <1>2. step = F(step)
    <2> HIDE DEF F
    <2> QED BY <1>1
  <1> HIDE DEF step
  <1>3. \A i \in 1 .. n : step[i] = IF i = 1 THEN e ELSE l.next[step[i - 1]]
    BY <1>2
  <1> DEFINE T == {0} \cup {i \in 1 .. n : step[i] = f[i]}
  <1>4. \A i \in 0 .. n : i \in T
    <2>1. \A i \in 1 .. n : i - 1 \in T => i \in T
      <3> SUFFICES ASSUME NEW i \in 1 .. n, i - 1 \in T PROVE step[i] = f[i]
        OBVIOUS
      <3>1. CASE i = 1
        BY <1>0, <1>3, <3>1
      <3>2. CASE i # 1
        <4>1. i - 1 \in 1 .. n - 1 /\ (i - 1) + 1 = i
          BY <3>2
        <4>2. step[i - 1] = f[i - 1]
          BY <4>1
        <4>3. f[(i - 1) + 1] = l.next[f[i - 1]]
          BY <1>0, <4>1
        <4> QED BY <1>3, <3>2, <4>1, <4>2, <4>3
      <3> QED BY <3>1, <3>2
    <2>2. 0 \in T
      OBVIOUS
    <2> HIDE DEF T
    <2> QED BY <2>1, <2>2, Rounds
  <1>5. \A i \in 1 .. n : step[i] = f[i]
    BY <1>4
  <1>6. [i \in 1 .. n |-> step[i]] = f
    BY <1>0, <1>5
  <1>7. Follow(l, e, n) = [i \in 1 .. n |-> step[i]]
    BY DEF Follow, step, F
  <1> QED BY <1>6, <1>7

Lists == [next : [Entries -> Entries \cup {Null}],
          msg_ptr : [Entries -> Messages \cup {NoMsg}],
          free_msg : Entries \cup {Null}, write : Entries \cup {Null},
          read : Entries \cup {Null}, current_msg : 0 .. queue_msg_size]

Orders == [Entries -> Entries]

(* The entries in the order o: those of the messages, in the order in      *)
(* which they will be received, and then the free ones.  The link of the   *)
(* last message is left open.                                              *)
InOrder(l, o) ==
  /\ \A i, j \in Entries : i # j => o[i] # o[j]
  /\ \A e \in Entries : \E i \in Entries : o[i] = e
  /\ \A i \in Entries : i # l.current_msg /\ i # queue_msg_size => l.next[o[i]] = o[i + 1]
  /\ l.current_msg < queue_msg_size
       => l.next[o[queue_msg_size]] = Null /\ l.free_msg = o[l.current_msg + 1]
  /\ l.current_msg = queue_msg_size => l.free_msg = Null
  /\ l.current_msg > 0 => l.read = o[1] /\ l.write = o[l.current_msg]
  /\ \A i \in 1 .. l.current_msg : l.msg_ptr[o[i]] \in Messages

ListOK(l) == l \in Lists /\ \E o \in Orders : InOrder(l, o)

(* The messages of a queue, the next one first. *)
ListContents(l) == [i \in 1 .. l.current_msg |-> l.msg_ptr[Used(l)[i]]]

(* Both lists are read off the order, and with them the contents. *)
LEMMA UsedAndFree ==
  ASSUME NEW l \in Lists, NEW o \in Orders, InOrder(l, o)
  PROVE  /\ Used(l) = [i \in 1 .. l.current_msg |-> o[i]]
         /\ Free(l) = [i \in 1 .. queue_msg_size - l.current_msg |-> o[l.current_msg + i]]
  <1> DEFINE n == l.current_msg
             m == queue_msg_size - n
             u == [i \in 1 .. n |-> o[i]]
             f == [i \in 1 .. m |-> o[n + i]]
  <1>1. queue_msg_size \in Nat \ {0} /\ n \in 0 .. queue_msg_size /\ n \in Nat /\ m \in Nat
    BY QueueSizeAssumption DEF Lists
  <1>2. Used(l) = u
    <2>1. n > 0 => u[1] = l.read
      BY <1>1 DEF InOrder
    <2>2. \A i \in 1 .. n - 1 : u[i + 1] = l.next[u[i]]
      <3>1. \A i \in 1 .. n - 1 : /\ i \in Entries /\ i # n /\ i # queue_msg_size
                                  /\ i \in 1 .. n /\ i + 1 \in 1 .. n
        BY <1>1 DEF Entries
      <3> QED BY <3>1 DEF InOrder
    <2>3. u = [i \in 1 .. n |-> u[i]]
      OBVIOUS
    <2> HIDE DEF u, n
    <2>4. Linked(l, l.read, n, u)
      BY <2>1, <2>2, <2>3 DEF Linked
    <2>5. Follow(l, l.read, n) = u
      BY <1>1, <2>4, FollowIs
    <2> QED BY <2>5 DEF Used, n
  <1>3. Free(l) = f
    <2>1. m > 0 => f[1] = l.free_msg
      BY <1>1 DEF InOrder
    <2>2. \A i \in 1 .. m - 1 : f[i + 1] = l.next[f[i]]
      <3> SUFFICES ASSUME NEW i \in 1 .. m - 1 PROVE f[i + 1] = l.next[f[i]]
        OBVIOUS
      <3>1. /\ n + i \in Entries /\ n + i # n /\ n + i # queue_msg_size
            /\ i \in 1 .. m /\ i + 1 \in 1 .. m /\ (n + i) + 1 = n + (i + 1)
        BY <1>1 DEF Entries
      <3>2. l.next[o[n + i]] = o[(n + i) + 1]
        BY <3>1 DEF InOrder
      <3> QED BY <3>1, <3>2
    <2>3. f = [i \in 1 .. m |-> f[i]]
      OBVIOUS
    <2> HIDE DEF f, m
    <2>4. Linked(l, l.free_msg, m, f)
      BY <2>1, <2>2, <2>3 DEF Linked
    <2>5. Follow(l, l.free_msg, m) = f
      BY <1>1, <2>4, FollowIs
    <2> QED BY <2>5 DEF Free, m
  <1> QED BY <1>2, <1>3

LEMMA ListContentsAre ==
  ASSUME NEW l \in Lists, NEW o \in Orders, InOrder(l, o)
  PROVE  /\ ListContents(l) \in Seq(Messages)
         /\ Len(ListContents(l)) = l.current_msg
         /\ \A i \in 1 .. l.current_msg : ListContents(l)[i] = l.msg_ptr[o[i]]
  <1>1. l.current_msg \in Nat
    BY QueueSizeAssumption DEF Lists
  <1>2. \A i \in 1 .. l.current_msg : Used(l)[i] = o[i] /\ l.msg_ptr[o[i]] \in Messages
    <2>1. Used(l) = [i \in 1 .. l.current_msg |-> o[i]]
      BY UsedAndFree
    <2> QED BY <2>1 DEF InOrder
  <1>3. ListContents(l) = [i \in 1 .. l.current_msg |-> l.msg_ptr[o[i]]]
    BY <1>2 DEF ListContents
  <1>4. [i \in 1 .. l.current_msg |-> l.msg_ptr[o[i]]] \in Seq(Messages)
    BY <1>1, <1>2, IsASeq
  <1> QED BY <1>1, <1>3, <1>4, LenProperties

(* What the operations on the lists do to the contents.  All entries are   *)
(* free after creation, in ascending order.                                *)
LEMMA EmptyListLemma ==
  ListOK(EmptyList) /\ EmptyList.current_msg = 0
  <1> DEFINE o == [i \in Entries |-> i]
  <1>1. queue_msg_size \in Nat \ {0}
    BY QueueSizeAssumption
  <1>2. /\ EmptyList.next = [e \in Entries |-> IF e = queue_msg_size THEN Null ELSE e + 1]
        /\ EmptyList.msg_ptr = [e \in Entries |-> NoMsg]
        /\ EmptyList.free_msg = 1 /\ EmptyList.write = Null /\ EmptyList.read = Null
        /\ EmptyList.current_msg = 0
    BY DEF EmptyList
  <1>3. /\ EmptyList.next \in [Entries -> Entries \cup {Null}]
        /\ EmptyList.msg_ptr \in [Entries -> Messages \cup {NoMsg}]
        /\ 1 \in Entries /\ 0 \in 0 .. queue_msg_size
    BY <1>1, <1>2 DEF Entries
  <1>4. EmptyList \in Lists
    BY <1>3 DEF EmptyList, Lists
  <1>5. InOrder(EmptyList, o)
    BY <1>1, <1>2 DEF InOrder, Entries
  <1>6. o \in Orders
    BY DEF Orders
  <1> QED BY <1>2, <1>4, <1>5, <1>6 DEF ListOK

LEMMA PostFirstLemma ==
  ASSUME NEW l, ListOK(l), l.current_msg = 0, NEW m \in Messages
  PROVE  /\ ListOK(PostFirst(l, m))
         /\ PostFirst(l, m).current_msg = 1
         /\ ListContents(PostFirst(l, m)) = Append(ListContents(l), m)
  <1> DEFINE N == queue_msg_size
             l1 == PostFirst(l, m)
  <1>1. PICK o \in Orders : l \in Lists /\ InOrder(l, o)
    BY DEF ListOK
  <1>2. /\ N \in Nat \ {0} /\ 1 \in Entries /\ N \in Entries
        /\ \A i \in Entries : o[i] \in Entries
        /\ l.free_msg = o[1] /\ l.next[o[1]] \in Entries \cup {Null}
    <2>1. N \in Nat \ {0} /\ 1 \in Entries /\ N \in Entries /\ l.current_msg < N
      BY QueueSizeAssumption DEF Entries
    <2>2. \A i \in Entries : o[i] \in Entries
      BY DEF Orders
    <2>3. l.free_msg = o[0 + 1] /\ 0 + 1 = 1
      BY <1>1, <2>1 DEF InOrder
    <2> QED BY <1>1, <2>1, <2>2, <2>3 DEF Lists
  <1>3. l1 = [l EXCEPT !.free_msg = l.next[o[1]], !.msg_ptr = [@ EXCEPT ![o[1]] = m],
                       !.current_msg = 1, !.write = o[1], !.read = o[1]]
    BY <1>1, <1>2 DEF PostFirst, Taken, Lists
  <1>4. l1 \in Lists
    <2>1. [l.msg_ptr EXCEPT ![o[1]] = m] \in [Entries -> Messages \cup {NoMsg}]
      BY <1>1 DEF Lists
    <2>2. 1 \in 0 .. N
      BY <1>2
    <2> QED BY <1>1, <1>2, <1>3, <2>1, <2>2 DEF Lists
  <1>5. /\ l1.next = l.next /\ l1.free_msg = l.next[o[1]]
        /\ l1.msg_ptr = [l.msg_ptr EXCEPT ![o[1]] = m]
        /\ l1.write = o[1] /\ l1.read = o[1] /\ l1.current_msg = 1
    BY <1>1, <1>3 DEF Lists
  <1>6. l1.msg_ptr[o[1]] = m
    BY <1>1, <1>2, <1>5 DEF Lists
  <1> HIDE DEF l1
  <1>7. InOrder(l1, o)
    <2>1. \A i \in 1 .. 1 : l1.msg_ptr[o[i]] \in Messages
      BY <1>6
    <2>2. \A i \in Entries : i # 1 /\ i # N => l1.next[o[i]] = o[i + 1]
      <3> SUFFICES ASSUME NEW i \in Entries, i # 1, i # N PROVE l.next[o[i]] = o[i + 1]
        BY <1>5
      <3>1. i # 0
        BY DEF Entries
      <3> QED BY <1>1, <3>1 DEF InOrder
    <2>3. 1 < N => l1.next[o[N]] = Null /\ l1.free_msg = o[1 + 1]
      <3>1. 1 < N => l.next[o[1]] = o[1 + 1]
        <4>1. 1 \in Entries /\ 1 # 0
          BY <1>2 DEF Entries
        <4> QED BY <1>1, <4>1 DEF InOrder
      <3> QED BY <1>1, <1>2, <1>5, <3>1 DEF InOrder
    <2>4. 1 = N => l1.free_msg = Null
      BY <1>1, <1>2, <1>5 DEF InOrder
    <2>5. /\ \A i, j \in Entries : i # j => o[i] # o[j]
          /\ \A e \in Entries : \E i \in Entries : o[i] = e
      BY <1>1 DEF InOrder
    <2> QED BY <1>5, <2>1, <2>2, <2>3, <2>4, <2>5 DEF InOrder
  <1>8. ListOK(l1)
    BY <1>4, <1>7 DEF ListOK
  <1>9. ListContents(l1) = Append(ListContents(l), m)
    <2> DEFINE s == ListContents(l)
               s1 == ListContents(l1)
    <2>1. s \in Seq(Messages) /\ Len(s) = 0
      BY <1>1, ListContentsAre
    <2>2. s1 \in Seq(Messages) /\ Len(s1) = 1 /\ s1[1] = m
      <3>1. /\ s1 \in Seq(Messages) /\ Len(s1) = l1.current_msg
            /\ \A i \in 1 .. l1.current_msg : s1[i] = l1.msg_ptr[o[i]]
        BY <1>4, <1>7, ListContentsAre
      <3> QED BY <1>5, <1>6, <3>1
    <2> HIDE DEF s, s1
    <2>3. \A i \in 1 .. Len(s) : s1[i] = s[i]
      BY <2>1
    <2>4. Len(s1) = Len(s) + 1 /\ s1[Len(s) + 1] = m
      BY <2>1, <2>2
    <2>5. s1 = Append(s, m)
      BY <2>1, <2>2, <2>3, <2>4, AppendIs
    <2> QED BY <2>5 DEF s, s1
  <1> QED BY <1>5, <1>8, <1>9 DEF l1

(* The order stays when the first free entry goes behind the last message. *)
LEMMA LinkEndLemma ==
  ASSUME NEW l, ListOK(l), l.current_msg > 0, l.current_msg < queue_msg_size,
         NEW m \in Messages
  PROVE  /\ ListOK(LinkEnd(l, m))
         /\ LinkEnd(l, m).current_msg = l.current_msg + 1
         /\ ListContents(LinkEnd(l, m)) = Append(ListContents(l), m)
  <1> DEFINE N == queue_msg_size
             n == l.current_msg
             l1 == LinkEnd(l, m)
  <1>1. PICK o \in Orders : l \in Lists /\ InOrder(l, o)
    BY DEF ListOK
  <1>2. /\ N \in Nat \ {0} /\ n \in 1 .. N - 1
        /\ n \in Entries /\ n + 1 \in Entries /\ N \in Entries
    BY <1>1, QueueSizeAssumption DEF Lists, Entries
  <1>3. /\ \A i \in Entries : o[i] \in Entries
        /\ \A i, j \in Entries : i # j => o[i] # o[j]
        /\ l.free_msg = o[n + 1] /\ l.write = o[n] /\ l.read = o[1]
        /\ l.next[o[n + 1]] \in Entries \cup {Null}
    BY <1>1, <1>2 DEF InOrder, Orders, Lists
  <1>4. l1 = [l EXCEPT !.free_msg = l.next[o[n + 1]],
                       !.msg_ptr = [@ EXCEPT ![o[n + 1]] = m],
                       !.current_msg = n + 1, !.write = o[n + 1],
                       !.next = [@ EXCEPT ![o[n]] = o[n + 1], ![o[n + 1]] = Null]]
    BY <1>1, <1>3 DEF LinkEnd, Taken, Lists
  <1>5. l1 \in Lists
    <2>1. [l.msg_ptr EXCEPT ![o[n + 1]] = m] \in [Entries -> Messages \cup {NoMsg}]
      BY <1>1 DEF Lists
    <2>2. [l.next EXCEPT ![o[n]] = o[n + 1], ![o[n + 1]] = Null] \in [Entries -> Entries \cup {Null}]
      BY <1>1, <1>2, <1>3 DEF Lists
    <2>3. n + 1 \in 0 .. N /\ o[n + 1] \in Entries
      BY <1>2, <1>3
    <2> QED BY ZenonT(30), <1>1, <1>3, <1>4, <2>1, <2>2, <2>3 DEF Lists
  <1>6. /\ l1.next = [l.next EXCEPT ![o[n]] = o[n + 1], ![o[n + 1]] = Null]
        /\ l1.free_msg = l.next[o[n + 1]]
        /\ l1.msg_ptr = [l.msg_ptr EXCEPT ![o[n + 1]] = m]
        /\ l1.write = o[n + 1] /\ l1.read = o[1] /\ l1.current_msg = n + 1
    BY <1>1, <1>3, <1>4 DEF Lists
  <1> HIDE DEF l1
  <1>7. /\ \A i \in Entries : l1.next[o[i]] = IF i = n THEN o[n + 1]
                                              ELSE IF i = n + 1 THEN Null ELSE l.next[o[i]]
        /\ \A i \in Entries : l1.msg_ptr[o[i]] = IF i = n + 1 THEN m ELSE l.msg_ptr[o[i]]
    <2>1. n # n + 1
      BY <1>2
    <2> QED BY <1>1, <1>2, <1>3, <1>6, <2>1 DEF Lists
  <1>8. \A i \in 1 .. n : i \in Entries /\ i # n + 1 /\ i \in 1 .. n + 1
    BY <1>2 DEF Entries
  <1>9. \A i \in 1 .. n + 1 : i \in 1 .. n \/ i = n + 1
    BY <1>2
  <1>10. InOrder(l1, o)
    <2>1. /\ \A i, j \in Entries : i # j => o[i] # o[j]
          /\ \A e \in Entries : \E i \in Entries : o[i] = e
      BY <1>1 DEF InOrder
    <2>2. \A i \in Entries : i # n + 1 /\ i # N => l1.next[o[i]] = o[i + 1]
      BY <1>1, <1>7 DEF InOrder
    <2>3. n + 1 < N => l1.next[o[N]] = Null /\ l1.free_msg = o[n + 1 + 1]
      BY <1>1, <1>2, <1>6, <1>7 DEF InOrder
    <2>4. n + 1 = N => l1.free_msg = Null
      BY <1>1, <1>2, <1>6 DEF InOrder
    <2>5. \A i \in 1 .. n + 1 : l1.msg_ptr[o[i]] \in Messages
      BY <1>1, <1>2, <1>7, <1>8, <1>9 DEF InOrder
    <2> QED BY <1>6, <2>1, <2>2, <2>3, <2>4, <2>5 DEF InOrder
  <1>11. ListOK(l1)
    BY <1>5, <1>10 DEF ListOK
  <1>12. ListContents(l1) = Append(ListContents(l), m)
    <2> DEFINE s == ListContents(l)
               s1 == ListContents(l1)
    <2>1. s \in Seq(Messages) /\ Len(s) = n /\ \A i \in 1 .. n : s[i] = l.msg_ptr[o[i]]
      BY <1>1, ListContentsAre
    <2>2. s1 \in Seq(Messages) /\ Len(s1) = n + 1
          /\ \A i \in 1 .. n + 1 : s1[i] = l1.msg_ptr[o[i]]
      <3>1. /\ s1 \in Seq(Messages) /\ Len(s1) = l1.current_msg
            /\ \A i \in 1 .. l1.current_msg : s1[i] = l1.msg_ptr[o[i]]
        BY <1>5, <1>10, ListContentsAre
      <3> QED BY <1>6, <3>1
    <2> HIDE DEF s, s1
    <2>3. \A i \in 1 .. n : s1[i] = s[i]
      BY <1>7, <1>8, <2>1, <2>2
    <2>4. s1[n + 1] = m
      BY <1>2, <1>7, <2>2
    <2>5. s1 = Append(s, m)
      BY <2>1, <2>2, <2>3, <2>4, AppendIs
    <2> QED BY <2>5 DEF s, s1
  <1> QED BY <1>6, <1>11, <1>12 DEF l1

(* The order once the entry at place n + 1 was moved to the front. *)
LEMMA LinkFrontLemma ==
  ASSUME NEW l, ListOK(l), l.current_msg > 0, l.current_msg < queue_msg_size,
         NEW m \in Messages
  PROVE  /\ ListOK(LinkFront(l, m))
         /\ LinkFront(l, m).current_msg = l.current_msg + 1
         /\ ListContents(LinkFront(l, m)) = <<m>> \o ListContents(l)
  <1> DEFINE N == queue_msg_size
             n == l.current_msg
             l1 == LinkFront(l, m)
  <1>1. PICK o \in Orders : l \in Lists /\ InOrder(l, o)
    BY DEF ListOK
  <1>2. /\ N \in Nat \ {0} /\ n \in 1 .. N - 1
        /\ n \in Entries /\ n + 1 \in Entries /\ N \in Entries /\ 1 \in Entries
    BY <1>1, QueueSizeAssumption DEF Lists, Entries
  <1>3. /\ \A i \in Entries : o[i] \in Entries
        /\ \A i, j \in Entries : i # j => o[i] # o[j]
        /\ l.free_msg = o[n + 1] /\ l.write = o[n] /\ l.read = o[1]
        /\ l.next[o[n + 1]] \in Entries \cup {Null}
    BY <1>1, <1>2 DEF InOrder, Orders, Lists
  <1>4. l1 = [l EXCEPT !.free_msg = l.next[o[n + 1]],
                       !.msg_ptr = [@ EXCEPT ![o[n + 1]] = m],
                       !.current_msg = n + 1,
                       !.next = [@ EXCEPT ![o[n + 1]] = o[1]], !.read = o[n + 1]]
    BY <1>1, <1>3 DEF LinkFront, Taken, Lists
  <1>5. l1 \in Lists
    <2>1. [l.msg_ptr EXCEPT ![o[n + 1]] = m] \in [Entries -> Messages \cup {NoMsg}]
      BY <1>1 DEF Lists
    <2>2. [l.next EXCEPT ![o[n + 1]] = o[1]] \in [Entries -> Entries \cup {Null}]
      BY <1>1, <1>2, <1>3 DEF Lists
    <2>3. n + 1 \in 0 .. N /\ o[n + 1] \in Entries
      BY <1>2, <1>3
    <2> QED BY ZenonT(30), <1>1, <1>3, <1>4, <2>1, <2>2, <2>3 DEF Lists
  <1>6. /\ l1.next = [l.next EXCEPT ![o[n + 1]] = o[1]]
        /\ l1.free_msg = l.next[o[n + 1]]
        /\ l1.msg_ptr = [l.msg_ptr EXCEPT ![o[n + 1]] = m]
        /\ l1.write = o[n] /\ l1.read = o[n + 1] /\ l1.current_msg = n + 1
    BY <1>1, <1>3, <1>4 DEF Lists
  <1> HIDE DEF l1
  <1>7. /\ \A i \in Entries : l1.next[o[i]] = IF i = n + 1 THEN o[1] ELSE l.next[o[i]]
        /\ \A i \in Entries : l1.msg_ptr[o[i]] = IF i = n + 1 THEN m ELSE l.msg_ptr[o[i]]
    BY <1>1, <1>2, <1>3, <1>6 DEF Lists
  (* The place of what is at place i from now on. *)
  <1> DEFINE p(i) == IF i = 1 THEN n + 1 ELSE IF i <= n + 1 THEN i - 1 ELSE i
             o1 == [i \in Entries |-> o[p(i)]]
  <1>8. /\ \A i \in Entries : p(i) \in Entries /\ o1[i] = o[p(i)]
        /\ \A i, j \in Entries : i # j => p(i) # p(j)
        /\ \A j \in Entries : \E i \in Entries : p(i) = j
    <2>1. \A i \in Entries : p(i) \in Entries
      BY <1>2 DEF Entries
    <2>2. \A i, j \in Entries : i # j => p(i) # p(j)
      BY <1>2 DEF Entries
    <2>3. ASSUME NEW j \in Entries PROVE \E i \in Entries : p(i) = j
      <3>1. CASE j = n + 1
        BY <1>2, <3>1
      <3>2. CASE j <= n
        <4>1. j + 1 \in Entries /\ p(j + 1) = j
          BY <1>2, <3>2 DEF Entries
        <4> QED BY <4>1
      <3>3. CASE j > n + 1
        <4>1. p(j) = j
          BY <1>2, <3>3 DEF Entries
        <4> QED BY <4>1
      <3> QED BY <1>2, <3>1, <3>2, <3>3 DEF Entries
    <2> QED BY <2>1, <2>2, <2>3
  <1>9. /\ p(1) = n + 1
        /\ \A i \in 1 .. n : p(i + 1) = i /\ i \in Entries /\ i # n + 1 /\ i + 1 \in Entries
        /\ \A i \in Entries : i > n + 1 => p(i) = i
    BY <1>2 DEF Entries
  <1>10. o1 \in Orders
    BY <1>3, <1>8 DEF Orders
  <1> HIDE DEF o1, p
  <1>11. /\ l1.msg_ptr[o1[1]] = m
         /\ \A i \in 1 .. n : /\ l1.msg_ptr[o1[i + 1]] = l.msg_ptr[o[i]]
                              /\ l.msg_ptr[o[i]] \in Messages
    <2>1. o1[1] = o[n + 1]
      BY <1>2, <1>8, <1>9
    <2>2. l1.msg_ptr[o1[1]] = m
      BY <1>2, <1>7, <2>1
    <2>3. \A i \in 1 .. n : o1[i + 1] = o[i]
      BY <1>8, <1>9
    <2>4. \A i \in 1 .. n : l1.msg_ptr[o[i]] = l.msg_ptr[o[i]]
      BY <1>7, <1>9
    <2> QED BY <1>1, <2>2, <2>3, <2>4 DEF InOrder
  <1>12. InOrder(l1, o1)
    <2>1. \A i, j \in Entries : i # j => o1[i] # o1[j]
      BY <1>3, <1>8
    <2>2. \A e \in Entries : \E i \in Entries : o1[i] = e
      <3> SUFFICES ASSUME NEW e \in Entries PROVE \E i \in Entries : o1[i] = e
        OBVIOUS
      <3>1. PICK j \in Entries : o[j] = e
        BY <1>1 DEF InOrder
      <3>2. PICK i \in Entries : p(i) = j
        BY <1>8
      <3>3. o1[i] = e
        BY <1>8, <3>1, <3>2
      <3> QED BY <3>3
    <2>3. ASSUME NEW i \in Entries, i # n + 1, i # N PROVE l1.next[o1[i]] = o1[i + 1]
      <3>1. CASE i = 1
        <4>1. p(1 + 1) = 1
          BY <1>2, <1>9
        <4>2. o1[1] = o[n + 1] /\ o1[1 + 1] = o[1]
          BY <1>2, <1>8, <1>9, <4>1
        <4> QED BY <1>2, <1>7, <3>1, <4>2
      <3>2. CASE i # 1 /\ i < n + 1
        <4>1. i - 1 \in 1 .. n /\ (i - 1) + 1 = i /\ i \in 1 .. n /\ i - 1 # n /\ i - 1 # N
          BY <1>2, <3>2 DEF Entries
        <4>2. p(i) = i - 1 /\ p(i + 1) = i
          BY <1>9, <4>1
        <4>3. o1[i] = o[i - 1] /\ o1[i + 1] = o[i] /\ i - 1 \in Entries /\ i - 1 # n + 1
          BY <1>8, <1>9, <4>1, <4>2
        <4>4. l.next[o[i - 1]] = o[(i - 1) + 1]
          BY <1>1, <4>1, <4>3 DEF InOrder
        <4> QED BY <1>7, <4>1, <4>3, <4>4
      <3>3. CASE i > n + 1
        <4>1. i + 1 \in Entries /\ i + 1 > n + 1 /\ i # n
          BY <1>2, <2>3, <3>3 DEF Entries
        <4>2. o1[i] = o[i] /\ o1[i + 1] = o[i + 1]
          BY <1>8, <1>9, <3>3, <4>1
        <4>3. l.next[o[i]] = o[i + 1]
          BY <1>1, <2>3, <4>1 DEF InOrder
        <4> QED BY <1>7, <2>3, <4>2, <4>3
      <3> QED BY <1>2, <2>3, <3>1, <3>2, <3>3 DEF Entries
    <2>4. n + 1 < N => l1.next[o1[N]] = Null /\ l1.free_msg = o1[n + 1 + 1]
      <3> SUFFICES ASSUME n + 1 < N PROVE l1.next[o1[N]] = Null /\ l1.free_msg = o1[n + 1 + 1]
        OBVIOUS
      <3>1. /\ N > n + 1 /\ N # n + 1 /\ n + 1 + 1 > n + 1 /\ n + 1 + 1 \in Entries
            /\ n < N /\ n + 1 # n /\ n + 1 # N
        BY <1>2 DEF Entries
      <3>2. o1[N] = o[N] /\ o1[n + 1 + 1] = o[n + 1 + 1]
        BY <1>2, <1>8, <1>9, <3>1
      <3>3. l.next[o[N]] = Null /\ l.next[o[n + 1]] = o[n + 1 + 1]
        BY <1>1, <1>2, <3>1 DEF InOrder
      <3> QED BY <1>2, <1>6, <1>7, <3>1, <3>2, <3>3
    <2>5. n + 1 = N => l1.free_msg = Null
      <3>1. n < N
        BY <1>2
      <3> QED BY <1>1, <1>2, <1>6, <3>1 DEF InOrder
    <2>6. l1.read = o1[1] /\ l1.write = o1[n + 1]
      <3>1. n \in 1 .. n
        BY <1>2
      <3>2. p(n + 1) = n
        BY <1>9, <3>1
      <3> QED BY <1>2, <1>6, <1>8, <1>9, <3>2
    <2>7. \A i \in 1 .. n + 1 : i = 1 \/ (i - 1 \in 1 .. n /\ (i - 1) + 1 = i)
      BY <1>2
    <2>8. \A i \in 1 .. n + 1 : l1.msg_ptr[o1[i]] \in Messages
      BY <1>11, <2>7
    <2> QED BY <1>6, <2>1, <2>2, <2>3, <2>4, <2>5, <2>6, <2>8 DEF InOrder
  <1>13. ListOK(l1)
    BY <1>5, <1>10, <1>12 DEF ListOK
  <1>14. ListContents(l1) = <<m>> \o ListContents(l)
    <2> DEFINE s == ListContents(l)
               s1 == ListContents(l1)
    <2>1. s \in Seq(Messages) /\ Len(s) = n /\ \A i \in 1 .. n : s[i] = l.msg_ptr[o[i]]
      BY <1>1, ListContentsAre
    <2>2. s1 \in Seq(Messages) /\ Len(s1) = n + 1
          /\ \A i \in 1 .. n + 1 : s1[i] = l1.msg_ptr[o1[i]]
      <3>1. /\ s1 \in Seq(Messages) /\ Len(s1) = l1.current_msg
            /\ \A i \in 1 .. l1.current_msg : s1[i] = l1.msg_ptr[o1[i]]
        BY <1>5, <1>10, <1>12, ListContentsAre
      <3> QED BY <1>6, <3>1
    <2> HIDE DEF s, s1
    <2>3. s1[1] = m /\ Len(s1) = Len(s) + 1
      <3>1. 1 \in 1 .. n + 1
        BY <1>2
      <3> QED BY <1>11, <2>1, <2>2, <3>1
    <2>4. \A i \in 1 .. Len(s) : s1[i + 1] = s[i]
      <3>1. \A i \in 1 .. n : i + 1 \in 1 .. n + 1
        BY <1>2
      <3> QED BY <1>11, <2>1, <2>2, <3>1
    <2>5. s1 = <<m>> \o s
      BY <2>1, <2>2, <2>3, <2>4, ConsIs
    <2> QED BY <2>5 DEF s, s1
  <1> QED BY <1>6, <1>13, <1>14 DEF l1

(* The order once the first entry was moved behind the other messages. *)
LEMMA ReceiveFirstLemma ==
  ASSUME NEW l, ListOK(l), l.current_msg > 0
  PROVE  /\ ListOK(ReceiveFirst(l))
         /\ ReceiveFirst(l).current_msg = l.current_msg - 1
         /\ ListContents(l) # <<>> /\ Head(ListContents(l)) \in Messages
         /\ ListContents(ReceiveFirst(l)) = Tail(ListContents(l))
  <1> DEFINE N == queue_msg_size
             n == l.current_msg
             l1 == ReceiveFirst(l)
  <1>1. PICK o \in Orders : l \in Lists /\ InOrder(l, o)
    BY DEF ListOK
  <1>2. /\ N \in Nat \ {0} /\ n \in 1 .. N
        /\ n \in Entries /\ N \in Entries /\ 1 \in Entries
    BY <1>1, QueueSizeAssumption DEF Lists, Entries
  <1>3. /\ \A i \in Entries : o[i] \in Entries
        /\ \A i, j \in Entries : i # j => o[i] # o[j]
        /\ l.write = o[n] /\ l.read = o[1]
        /\ l.next[o[1]] \in Entries \cup {Null} /\ l.free_msg \in Entries \cup {Null}
    BY <1>1, <1>2 DEF InOrder, Orders, Lists
  <1>4. n > 1 => l.next[o[1]] = o[2] /\ l.next[o[1]] # Null
    <2> SUFFICES ASSUME n > 1 PROVE l.next[o[1]] = o[2] /\ l.next[o[1]] # Null
      OBVIOUS
    <2>1. 1 # n /\ 1 # N /\ 1 + 1 = 2 /\ 2 \in Entries
      BY <1>2 DEF Entries
    <2>2. l.next[o[1]] = o[1 + 1]
      BY <1>1, <1>2, <2>1 DEF InOrder
    <2>3. o[2] \in Entries
      BY <1>3, <2>1
    <2>4. o[2] # Null
      BY <2>3 DEF Entries, Null
    <2> QED BY <2>1, <2>2, <2>4
  <1> DEFINE w == l1.write
  <1>5. /\ l1 = [l EXCEPT !.read = l.next[o[1]], !.next = [@ EXCEPT ![o[1]] = l.free_msg],
                          !.free_msg = o[1], !.msg_ptr = [@ EXCEPT ![o[1]] = NoMsg],
                          !.current_msg = n - 1, !.write = w]
        /\ w \in Entries \cup {Null}
        /\ n > 1 => w = o[n]
    <2> DEFINE l2 == [l EXCEPT !.read = l.next[@], !.next[l.read] = l.free_msg,
                               !.free_msg = l.read, !.msg_ptr[l.read] = NoMsg]
    <2>1. l2 = [l EXCEPT !.read = l.next[o[1]], !.next = [@ EXCEPT ![o[1]] = l.free_msg],
                         !.free_msg = o[1], !.msg_ptr = [@ EXCEPT ![o[1]] = NoMsg]]
      BY <1>1, <1>3 DEF Lists
    <2>2. /\ l2.read = l.next[o[1]] /\ l2.current_msg = n /\ l2.write = o[n]
          /\ o[n] \in Entries
      BY <1>1, <1>2, <1>3, <2>1 DEF Lists
    <2>3. l1 = IF l2.read # Null THEN [l2 EXCEPT !.current_msg = @ - 1]
               ELSE [l2 EXCEPT !.write = Null, !.current_msg = 0]
      BY DEF ReceiveFirst
    <2>4. CASE l2.read # Null
      <3>1. l1 = [l2 EXCEPT !.current_msg = n - 1]
        BY <2>2, <2>3, <2>4
      <3>2. w = o[n]
        BY <1>1, <2>1, <3>1 , <2>2 DEF Lists
      <3>3. l1 = [l EXCEPT !.read = l.next[o[1]], !.next = [@ EXCEPT ![o[1]] = l.free_msg],
                          !.free_msg = o[1], !.msg_ptr = [@ EXCEPT ![o[1]] = NoMsg],
                          !.current_msg = n - 1, !.write = o[n]]
        BY <1>1, <1>3, <2>1, <3>1 DEF Lists
      <3> QED BY <2>2, <3>2, <3>3
    <2>5. CASE l2.read = Null
      <3>1. n = 1
        BY <1>2, <1>4, <2>2, <2>5
      <3>2. l1 = [l2 EXCEPT !.write = Null, !.current_msg = n - 1]
        BY <2>3, <2>5, <3>1
      <3>3. l1 = [l EXCEPT !.read = l.next[o[1]], !.next = [@ EXCEPT ![o[1]] = l.free_msg],
                          !.free_msg = o[1], !.msg_ptr = [@ EXCEPT ![o[1]] = NoMsg],
                          !.current_msg = n - 1, !.write = Null]
        BY ZenonT(30), <1>1, <1>3, <2>1, <3>2 DEF Lists
      <3>4. w = Null
        BY <1>1, <3>3 DEF Lists
      <3> QED BY <3>1, <3>3, <3>4
    <2> QED BY <2>4, <2>5
  <1> HIDE DEF w
  <1>6. l1 \in Lists
    <2>1. [l.msg_ptr EXCEPT ![o[1]] = NoMsg] \in [Entries -> Messages \cup {NoMsg}]
      BY <1>1 DEF Lists
    <2>2. [l.next EXCEPT ![o[1]] = l.free_msg] \in [Entries -> Entries \cup {Null}]
      BY <1>1, <1>3 DEF Lists
    <2>3. n - 1 \in 0 .. N /\ o[1] \in Entries
      BY <1>2, <1>3
    <2> HIDE DEF l1
    <2> QED BY <1>1, <1>3, <1>5, <2>1, <2>2, <2>3 DEF Lists
  <1> HIDE DEF l1
  <1>7. /\ l1.next = [l.next EXCEPT ![o[1]] = l.free_msg]
        /\ l1.free_msg = o[1] /\ l1.read = l.next[o[1]]
        /\ l1.msg_ptr = [l.msg_ptr EXCEPT ![o[1]] = NoMsg]
        /\ l1.current_msg = n - 1
        /\ n > 1 => l1.write = o[n]
    BY <1>1, <1>5 DEF Lists
  <1>8. /\ \A i \in Entries : l1.next[o[i]] = IF i = 1 THEN l.free_msg ELSE l.next[o[i]]
        /\ \A i \in Entries : i # 1 => l1.msg_ptr[o[i]] = l.msg_ptr[o[i]]
    BY <1>1, <1>2, <1>3, <1>7 DEF Lists
  (* The place of what is at place i from now on. *)
  <1> DEFINE p(i) == IF i = n THEN 1 ELSE IF i < n THEN i + 1 ELSE i
             o1 == [i \in Entries |-> o[p(i)]]
  <1>9. /\ \A i \in Entries : p(i) \in Entries /\ o1[i] = o[p(i)]
        /\ \A i, j \in Entries : i # j => p(i) # p(j)
        /\ \A j \in Entries : \E i \in Entries : p(i) = j
    <2>1. \A i \in Entries : p(i) \in Entries
      BY <1>2 DEF Entries
    <2>2. \A i, j \in Entries : i # j => p(i) # p(j)
      BY <1>2 DEF Entries
    <2>3. ASSUME NEW j \in Entries PROVE \E i \in Entries : p(i) = j
      <3>1. CASE j = 1
        BY <1>2, <3>1
      <3>2. CASE j # 1 /\ j <= n
        <4>1. j - 1 \in Entries /\ p(j - 1) = j
          BY <1>2, <3>2 DEF Entries
        <4> QED BY <4>1
      <3>3. CASE j > n
        <4>1. p(j) = j
          BY <1>2, <3>3 DEF Entries
        <4> QED BY <4>1
      <3> QED BY <1>2, <3>1, <3>2, <3>3 DEF Entries
    <2> QED BY <2>1, <2>2, <2>3
  <1>10. /\ p(n) = 1
         /\ \A i \in 1 .. n - 1 : p(i) = i + 1 /\ i \in Entries /\ i + 1 \in Entries /\ i + 1 # 1
         /\ \A i \in Entries : i > n => p(i) = i /\ i # 1
    BY <1>2 DEF Entries
  <1>11. o1 \in Orders
    BY <1>3, <1>9 DEF Orders
  <1> HIDE DEF o1, p
  <1>12. \A i \in 1 .. n - 1 : /\ l1.msg_ptr[o1[i]] = l.msg_ptr[o[i + 1]]
                               /\ l.msg_ptr[o[i + 1]] \in Messages
    <2>1. \A i \in 1 .. n - 1 : i + 1 \in 1 .. n
      BY <1>2
    <2>2. \A i \in 1 .. n - 1 : o1[i] = o[i + 1]
      BY <1>9, <1>10
    <2>3. \A i \in 1 .. n - 1 : l1.msg_ptr[o[i + 1]] = l.msg_ptr[o[i + 1]]
      BY <1>8, <1>10
    <2>4. \A j \in 1 .. n : l.msg_ptr[o[j]] \in Messages
      BY <1>1 DEF InOrder
    <2> QED BY <2>1, <2>2, <2>3, <2>4
  <1>13. InOrder(l1, o1)
    <2>1. \A i, j \in Entries : i # j => o1[i] # o1[j]
      BY <1>3, <1>9
    <2>2. \A e \in Entries : \E i \in Entries : o1[i] = e
      <3> SUFFICES ASSUME NEW e \in Entries PROVE \E i \in Entries : o1[i] = e
        OBVIOUS
      <3>1. PICK j \in Entries : o[j] = e
        BY <1>1 DEF InOrder
      <3>2. PICK i \in Entries : p(i) = j
        BY <1>9
      <3>3. o1[i] = e
        BY <1>9, <3>1, <3>2
      <3> QED BY <3>3
    <2>3. o1[n] = o[1]
      BY <1>2, <1>9, <1>10
    <2>4. ASSUME NEW i \in Entries, i # n - 1, i # N PROVE l1.next[o1[i]] = o1[i + 1]
      <3>1. CASE i = n
        <4>1. n < N /\ n + 1 \in Entries /\ n + 1 > n
          BY <1>2, <2>4, <3>1 DEF Entries
        <4>2. o1[n + 1] = o[n + 1]
          BY <1>9, <1>10, <4>1
        <4>3. l.free_msg = o[n + 1]
          BY <1>1, <4>1 DEF InOrder
        <4> QED BY <1>2, <1>8, <2>3, <3>1, <4>2, <4>3
      <3>2. CASE i < n
        <4>1. i \in 1 .. n - 1 /\ i + 1 \in 1 .. n - 1 /\ i + 1 # n /\ i + 1 # N
          BY <1>2, <2>4, <3>2 DEF Entries
        <4>2. /\ o1[i] = o[i + 1] /\ o1[i + 1] = o[i + 1 + 1]
              /\ i + 1 \in Entries /\ i + 1 # 1
          BY <1>9, <1>10, <4>1
        <4>3. l.next[o[i + 1]] = o[i + 1 + 1]
          BY <1>1, <4>1, <4>2 DEF InOrder
        <4> QED BY <1>8, <4>2, <4>3
      <3>3. CASE i > n
        <4>1. i + 1 \in Entries /\ i + 1 > n /\ i # n
          BY <1>2, <2>4, <3>3 DEF Entries
        <4>2. o1[i] = o[i] /\ o1[i + 1] = o[i + 1] /\ i # 1
          BY <1>9, <1>10, <3>3, <4>1
        <4>3. l.next[o[i]] = o[i + 1]
          BY <1>1, <2>4, <4>1 DEF InOrder
        <4> QED BY <1>8, <4>2, <4>3
      <3> QED BY <1>2, <3>1, <3>2, <3>3 DEF Entries
    <2>5. l1.next[o1[N]] = Null
      <3>1. CASE n = N
        <4>1. l.free_msg = Null
          BY <1>1, <3>1 DEF InOrder
        <4> QED BY <1>2, <1>8, <2>3, <3>1, <4>1
      <3>2. CASE n < N
        <4>1. N > n
          BY <1>2, <3>2
        <4>2. o1[N] = o[N] /\ N # 1
          BY <1>2, <1>9, <1>10, <4>1
        <4>3. l.next[o[N]] = Null
          BY <1>1, <3>2 DEF InOrder
        <4> QED BY <1>2, <1>8, <4>2, <4>3
      <3> QED BY <1>2, <3>1, <3>2
    <2>6. l1.free_msg = o1[n - 1 + 1]
      <3>1. n - 1 + 1 = n
        BY <1>2
      <3> QED BY <1>7, <2>3, <3>1
    <2>7. n - 1 > 0 => l1.read = o1[1] /\ l1.write = o1[n - 1]
      <3> SUFFICES ASSUME n - 1 > 0 PROVE l1.read = o1[1] /\ l1.write = o1[n - 1]
        OBVIOUS
      <3>1. /\ n > 1 /\ 1 \in 1 .. n - 1 /\ n - 1 \in 1 .. n - 1 /\ (n - 1) + 1 = n
            /\ 1 + 1 = 2
        BY <1>2
      <3>2. o1[1] = o[1 + 1] /\ o1[n - 1] = o[(n - 1) + 1]
        BY <1>9, <1>10, <3>1
      <3> QED BY <1>4, <1>7, <3>1, <3>2
    <2>8. n - 1 # N /\ n - 1 < N
      BY <1>2
    <2>9. \A i \in 1 .. n - 1 : l1.msg_ptr[o1[i]] \in Messages
      BY <1>12
    <2> QED BY <1>7, <2>1, <2>2, <2>4, <2>5, <2>6, <2>7, <2>8, <2>9 DEF InOrder
  <1>14. ListOK(l1)
    BY <1>6, <1>11, <1>13 DEF ListOK
  <1> DEFINE s == ListContents(l)
             s1 == ListContents(l1)
  <1>15. s \in Seq(Messages) /\ Len(s) = n /\ \A i \in 1 .. n : s[i] = l.msg_ptr[o[i]]
    BY <1>1, ListContentsAre
  <1>16. s1 \in Seq(Messages) /\ Len(s1) = n - 1
         /\ \A i \in 1 .. n - 1 : s1[i] = l1.msg_ptr[o1[i]]
    <2>1. /\ s1 \in Seq(Messages) /\ Len(s1) = l1.current_msg
          /\ \A i \in 1 .. l1.current_msg : s1[i] = l1.msg_ptr[o1[i]]
      BY <1>6, <1>11, <1>13, ListContentsAre
    <2> QED BY <1>7, <2>1
  <1> HIDE DEF s, s1
  <1>17. s # <<>>
    BY <1>2, <1>15, EmptySeq
  <1>18. Len(s1) = Len(s) - 1 /\ \A i \in 1 .. Len(s) - 1 : s1[i] = s[i + 1]
    <2>1. \A i \in 1 .. n - 1 : i + 1 \in 1 .. n
      BY <1>2
    <2> QED BY <1>12, <1>15, <1>16, <2>1
  <1>19. s1 = Tail(s) /\ Head(s) \in Messages
    BY <1>15, <1>16, <1>17, <1>18, TailIs
  <1> QED BY <1>7, <1>14, <1>17, <1>19 DEF s, s1, l1

(* All messages are freed one after the other. *)
LEMMA FlushedLemma ==
  ASSUME NEW l, ListOK(l)
  PROVE  ListOK(Flushed(l)) /\ Flushed(l).current_msg = 0
  <1> DEFINE N == queue_msg_size
             n == l.current_msg
             l1 == Flushed(l)
  <1>1. PICK o \in Orders : l \in Lists /\ InOrder(l, o)
    BY DEF ListOK
  <1>2. CASE n = 0
    BY <1>2 DEF Flushed
  <1>3. CASE n # 0
    <2>1. /\ N \in Nat \ {0} /\ n \in 1 .. N /\ n \in Entries /\ N \in Entries /\ 1 \in Entries
      BY <1>1, <1>3, QueueSizeAssumption DEF Lists, Entries
    <2>2. /\ \A i \in Entries : o[i] \in Entries
          /\ \A i, j \in Entries : i # j => o[i] # o[j]
          /\ l.write = o[n] /\ l.read = o[1]
          /\ l.free_msg \in Entries \cup {Null}
      BY <1>1, <2>1 DEF InOrder, Orders, Lists
    <2>3. l1 = [l EXCEPT !.msg_ptr = [e \in Entries |-> NoMsg], !.current_msg = 0,
                         !.read = Null, !.write = Null,
                         !.next = [@ EXCEPT ![o[n]] = l.free_msg], !.free_msg = o[1]]
      BY <1>1, <1>3, <2>2 DEF Flushed, Emptied, Lists
    <2>4. l1 \in Lists
      <3>1. [e \in Entries |-> NoMsg] \in [Entries -> Messages \cup {NoMsg}]
        OBVIOUS
      <3>2. [l.next EXCEPT ![o[n]] = l.free_msg] \in [Entries -> Entries \cup {Null}]
        BY <1>1, <2>1, <2>2 DEF Lists
      <3>3. 0 \in 0 .. N /\ o[1] \in Entries
        BY <2>1, <2>2
      <3> QED BY <1>1, <2>3, <3>1, <3>2, <3>3 DEF Lists
    <2>5. /\ l1.next = [l.next EXCEPT ![o[n]] = l.free_msg]
          /\ l1.free_msg = o[1] /\ l1.current_msg = 0
      BY <1>1, <2>3 DEF Lists
    <2> HIDE DEF l1
    <2>6. \A i \in Entries : l1.next[o[i]] = IF i = n THEN l.free_msg ELSE l.next[o[i]]
      BY <1>1, <2>1, <2>2, <2>5 DEF Lists
    <2>7. InOrder(l1, o)
      <3>1. /\ \A i, j \in Entries : i # j => o[i] # o[j]
            /\ \A e \in Entries : \E i \in Entries : o[i] = e
        BY <1>1 DEF InOrder
      <3>2. ASSUME NEW i \in Entries, i # N PROVE l1.next[o[i]] = o[i + 1]
        <4>1. CASE i = n
          <5>1. n < N
            BY <2>1, <3>2, <4>1
          <5>2. l.free_msg = o[n + 1]
            BY <1>1, <5>1 DEF InOrder
          <5> QED BY <2>6, <4>1, <5>2
        <4>2. CASE i # n
          BY <1>1, <2>6, <3>2, <4>2 DEF InOrder
        <4> QED BY <4>1, <4>2
      <3>3. l1.next[o[N]] = Null
        <4>1. CASE n = N
          BY <1>1, <2>1, <2>6, <4>1 DEF InOrder
        <4>2. CASE n # N
          <5>1. n < N
            BY <2>1, <4>2
          <5> QED BY <1>1, <2>1, <2>6, <4>2, <5>1 DEF InOrder
        <4> QED BY <4>1, <4>2
      <3>4. l1.free_msg = o[0 + 1] /\ 0 # N /\ 0 < N /\ ~(0 > 0) /\ 1 .. 0 = {}
        BY <2>1, <2>5
      <3> QED BY <2>5, <3>1, <3>2, <3>3, <3>4 DEF InOrder
    <2> QED BY <2>4, <2>5, <2>7 DEF ListOK, l1
  <1> QED BY <1>2, <1>3

LEMMA ListEmpty ==
  ASSUME NEW l, ListOK(l)
  PROVE  ListContents(l) = <<>> <=> l.current_msg = 0
  BY ListContentsAre, EmptySeq DEF ListOK

(* No entry is on neither list, and the free list ends. *)
LEMMA ListWhole ==
  ASSUME NEW l, ListOK(l)
  PROVE  /\ ToSet(Used(l) \o Free(l)) = Entries
         /\ l.current_msg = queue_msg_size => l.free_msg = Null
         /\ l.current_msg < queue_msg_size => l.next[Last(Free(l))] = Null
  <1> DEFINE N == queue_msg_size
             n == l.current_msg
             u == Used(l)
             f == Free(l)
  <1>1. PICK o \in Orders : l \in Lists /\ InOrder(l, o)
    BY DEF ListOK
  <1>2. N \in Nat \ {0} /\ n \in 0 .. N /\ n \in Nat /\ N - n \in Nat
    BY <1>1, QueueSizeAssumption DEF Lists
  <1>3. u = [i \in 1 .. n |-> o[i]] /\ f = [i \in 1 .. N - n |-> o[n + i]]
    BY <1>1, UsedAndFree
  <1> HIDE DEF u, f
  <1>4. /\ \A i \in 1 .. n : i \in Entries /\ o[i] \in Entries
        /\ \A i \in 1 .. N - n : n + i \in Entries /\ o[n + i] \in Entries
    <2>1. \A i \in Entries : o[i] \in Entries
      BY <1>1 DEF Orders
    <2>2. /\ \A i \in 1 .. n : i \in Entries
          /\ \A i \in 1 .. N - n : n + i \in Entries
      BY <1>2 DEF Entries
    <2> QED BY <2>1, <2>2
  <1>5. u \in Seq(Entries) /\ f \in Seq(Entries)
    <2>1. [i \in 1 .. n |-> o[i]] \in Seq(Entries)
      BY <1>2, <1>4, IsASeq
    <2>2. [i \in 1 .. N - n |-> o[n + i]] \in Seq(Entries)
      BY <1>2, <1>4, IsASeq
    <2> QED BY <1>3, <2>1, <2>2
  <1>6. Len(u) = n /\ Len(f) = N - n
    BY <1>2, <1>3, <1>5, LenProperties
  <1>7. ToSet(u \o f) = Entries
    <2>1. /\ u \o f \in Seq(Entries) /\ Len(u \o f) = Len(u) + Len(f)
          /\ \A i \in 1 .. Len(u) + Len(f) : (u \o f)[i] = IF i <= Len(u) THEN u[i] ELSE f[i - Len(u)]
      BY <1>5, ConcatProperties
    <2>2. Len(u) + Len(f) = N
      BY <1>2, <1>6
    <2>3. \A i \in 1 .. N : (u \o f)[i] = o[i]
      <3> SUFFICES ASSUME NEW i \in 1 .. N PROVE (u \o f)[i] = o[i]
        OBVIOUS
      <3>1. CASE i <= n
        BY <1>2, <1>3, <1>6, <2>1, <2>2, <3>1
      <3>2. CASE i > n
        <4>1. i - n \in 1 .. N - n /\ n + (i - n) = i /\ ~(i <= n)
          BY <1>2, <3>2
        <4>2. f[i - n] = o[n + (i - n)]
          BY <1>3, <4>1
        <4> QED BY <1>6, <2>1, <2>2, <4>1, <4>2
      <3>3. i <= n \/ i > n
        BY <1>2
      <3> QED BY <3>1, <3>2, <3>3
    <2>4. \A e \in Entries : \E i \in Entries : o[i] = e
      BY <1>1 DEF InOrder
    <2>5. ToSet(u \o f) = {(u \o f)[i] : i \in 1 .. N}
      BY <2>1, <2>2, LenProperties DEF ToSet
    <2>6. Entries = {o[i] : i \in 1 .. N}
      BY <2>4 DEF Orders, Entries
    <2> QED BY <2>3, <2>5, <2>6
  <1>8. n < N => l.next[Last(f)] = Null
    <2> SUFFICES ASSUME n < N PROVE l.next[Last(f)] = Null
      OBVIOUS
    <2>1. N - n \in 1 .. N - n /\ n + (N - n) = N
      BY <1>2
    <2>2. Last(f) = o[N]
      BY <1>3, <1>6, <2>1 DEF Last
    <2> QED BY <1>1, <2>2 DEF InOrder
  <1>9. n = N => l.free_msg = Null
    BY <1>1 DEF InOrder
  <1> QED BY <1>7, <1>8, <1>9 DEF u, f

-----------------------------------------------------------------------------
(***************************************************************************)
(* The queues of raw_queue_size.c as mailboxes.                            *)
(***************************************************************************)

(* A queue keeps messages only while no task waits and it exists. *)
ListInv ==
  /\ list_q \in [SizeQueues -> Lists]
  /\ \A q \in SizeQueues :
       /\ ListOK(list_q[q])
       /\ Waiting(k, q) # {} \/ q \notin exists => ListContents(list_q[q]) = <<>>

(* A step of the mailbox, or of nothing; and the step as the lists show    *)
(* it.                                                                     *)
ListAbstract(q) == UNCHANGED ListBox(q)!vars \/ ListBox(q)!Next

ListMail(q) ==
  MailStep(q, [m \in Messages |-> 1], queue_msg_size,
           ListContents(list_q[q]), ListContents(list_q'[q]),
           queue_msg_size - list_q[q].current_msg, queue_msg_size - list_q'[q].current_msg)

(* Every such step is one of the mailbox. *)
LEMMA ListMailbox ==
  ASSUME NEW q \in SizeQueues, ListMail(q)
  PROVE  ListAbstract(q)
  <1> DEFINE weight == [m \in Messages |-> 1]
             b == ListContents(list_q[q])
             b1 == ListContents(list_q'[q])
             r == queue_msg_size - list_q[q].current_msg
             r1 == queue_msg_size - list_q'[q].current_msg
  <1>1. CASE Outside(q) /\ b1 = b /\ r1 = r
    <2>1. (q \in exists') = (q \in exists)
      BY <1>1 DEF Outside
    <2>2. CASE Waiting(k', q) \subseteq Waiting(k, q) /\ GotFrom(q)' = GotFrom(q)
      <3> DEFINE ts == Waiting(k, q) \ Waiting(k', q)
      <3>1. Waiting(k', q) = Waiting(k, q) \ ts /\ ts \in SUBSET Waiting(k, q)
        BY <2>2
      <3> HIDE DEF ts
      <3>2. ListBox(q)!Leave(ts)
        BY <1>1, <2>1, <2>2, <3>1 DEF ListContents, ListBox!Leave, Waiting
      <3> QED BY <3>1, <3>2 DEF ListAbstract, ListBox!Next, Waiting
    <2>3. ASSUME Waiting(k', q) = Waiting(k, q), NEW t \in Tasks,
                 GotFrom(q)' = [GotFrom(q) EXCEPT ![t] = NoMsg]
          PROVE  ListAbstract(q)
      <3>1. ListBox(q)!Return(t)
        BY <1>1, <2>1, <2>3 DEF ListContents, ListBox!Return, Waiting
      <3> QED BY <3>1 DEF ListAbstract, ListBox!Next
    <2> QED BY <1>1, <2>2, <2>3 DEF Outside
  <1>2. CASE Opened(q) /\ b1 = b /\ r1 = r
    <2>1. ListBox(q)!Create
      BY <1>2 DEF ListContents, ListBox!Create, Opened, Waiting
    <2> QED BY <2>1 DEF ListAbstract, ListBox!Next
  <1>3. ASSUME Same(q), Waiting(k, q) = {}, NEW m \in Messages, r >= weight[m],
               r1 = r - weight[m], b1 \in {Append(b, m), <<m>> \o b}
        PROVE  ListAbstract(q)
    <2>1. ListBox(q)!Keep(m)
      BY <1>3 DEF ListContents, ListBox!Keep, Same, Waiting
    <2> QED BY <2>1 DEF ListAbstract, ListBox!Next
  <1>4. CASE Same(q) /\ b # <<>> /\ b1 = Tail(b) /\ r1 = r + weight[Head(b)]
    <2>1. ListBox(q)!Take
      BY <1>4 DEF ListContents, ListBox!Take, Same, Waiting
    <2> QED BY <2>1 DEF ListAbstract, ListBox!Next
  <1>5. CASE Same(q) /\ b1 = <<>> /\ r1 = queue_msg_size
    <2>1. ListBox(q)!Flush
      BY <1>5 DEF ListContents, ListBox!Flush, Same, Waiting
    <2> QED BY <2>1 DEF ListAbstract, ListBox!Next
  <1>6. CASE Closed(q) /\ b1 = <<>> /\ r1 = queue_msg_size
    <2>1. ListBox(q)!Delete
      BY <1>6 DEF ListContents, ListBox!Delete, Closed, Waiting
    <2> QED BY <2>1 DEF ListAbstract, ListBox!Next
  <1>7. CASE Waits(q) /\ b = <<>> /\ b1 = b /\ r1 = r
    <2>1. PICK t \in Tasks : Waiting(k', q) = Waiting(k, q) \cup {t}
      BY <1>7 DEF Waits
    <2>2. ListBox(q)!Wait(t)
      BY <1>7, <2>1 DEF ListContents, ListBox!Wait, Waits, Waiting
    <2> QED BY <2>2 DEF ListAbstract, ListBox!Next
  <1>8. ASSUME NEW m \in Messages, Handed(q, m), b = <<>>, b1 = b, r1 = r
        PROVE  ListAbstract(q)
    <2>1. PICK W : /\ W # {} /\ W \subseteq Waiting(k, q)
                   /\ W = Waiting(k, q) \/ \E t \in Waiting(k, q) : W = {t}
                   /\ Waiting(k', q) = Waiting(k, q) \ W
                   /\ GotFrom(q)' = [t \in Tasks |-> IF t \in W THEN m ELSE GotFrom(q)[t]]
      BY <1>8 DEF Handed, Delivered
    <2>2. ListBox(q)!Give(m, W)
      BY <1>8, <2>1 DEF ListContents, ListBox!Give, Handed, Waiting
    <2>3. W = ToSet(k.block_list[q]) \/ \E t \in ToSet(k.block_list[q]) : W = {t}
      BY <2>1 DEF Waiting
    <2> QED BY <2>2, <2>3 DEF ListAbstract, ListBox!Next
  <1> HIDE DEF weight, b, b1, r, r1
  <1>9. MailStep(q, weight, queue_msg_size, b, b1, r, r1)
    BY DEF ListMail, weight, b, b1, r, r1
  <1> QED BY <1>1, <1>2, <1>3, <1>4, <1>5, <1>6, <1>7, <1>8, <1>9 DEF MailStep

(* The services of raw_queue_size.c. *)
LEMMA ListServices ==
  ASSUME CoreInv, MsgInv, ListInv, NEW q \in SizeQueues, q \in Objects,
         \/ raw_queue_size_create(q) \/ raw_queue_size_flush(q) \/ raw_queue_size_delete(q)
         \/ SizeReceive(q)
         \/ \E m \in Messages : SizePostKeeps(q, m) \/ SizePostDelivers(q, m)
         \/ \E t \in Tasks, timeout \in Timeouts : SizeReceiveBlocks(t, q, timeout)
  PROVE  ListMail(q) /\ \E r : ListOK(r) /\ list_q' = [list_q EXCEPT ![q] = r]
  <1> DEFINE r == list_q[q]
             weight == [m \in Messages |-> 1]
             Mail(r1) == MailStep(q, weight, queue_msg_size, ListContents(r), ListContents(r1),
                                  queue_msg_size - r.current_msg, queue_msg_size - r1.current_msg)
  <1>1. /\ queue_msg_size \in Nat \ {0} /\ r.current_msg \in 0 .. queue_msg_size /\ ListOK(r)
        /\ list_q \in [SizeQueues -> Lists]
        /\ Waiting(k, q) # {} \/ q \notin exists => ListContents(r) = <<>>
    BY QueueSizeAssumption DEF ListInv, Lists
  <1>2. k.block_list[q] = <<>> <=> Waiting(k, q) = {}
    <2>1. k.block_list[q] \in Seq(Tasks)
      BY DEF CoreInv, KInv, KStates
    <2> QED BY <2>1, EmptyLemma DEF Waiting
  <1>3. ListContents(r) = <<>> <=> r.current_msg = 0
    BY <1>1, ListEmpty
  <1>4. ASSUME NEW r1, ListOK(r1), list_q' = [list_q EXCEPT ![q] = r1], Mail(r1)
        PROVE  ListMail(q) /\ \E x : ListOK(x) /\ list_q' = [list_q EXCEPT ![q] = x]
    <2>1. list_q'[q] = r1
      BY <1>1, <1>4
    <2>2. ListMail(q)
      BY <1>4, <2>1 DEF ListMail
    <2> QED BY <1>4, <2>2
  <1>5. list_q' = list_q => list_q' = [list_q EXCEPT ![q] = r]
    BY <1>1
  <1> HIDE DEF r, weight, Mail
  <1>6. ListOK(EmptyList) /\ ListContents(EmptyList) = <<>> /\ queue_msg_size - EmptyList.current_msg = queue_msg_size
    BY <1>1, EmptyListLemma, ListEmpty
  <1>7. CASE raw_queue_size_create(q)
    <2>1. Opened(q) /\ list_q' = [list_q EXCEPT ![q] = EmptyList]
      BY <1>7, OpenedStep DEF raw_queue_size_create
    <2>2. ListContents(r) = <<>> /\ queue_msg_size - r.current_msg = queue_msg_size
      BY <1>1, <1>3, <2>1 DEF Opened
    <2>3. Mail(EmptyList)
      BY <1>6, <2>1, <2>2 DEF Mail, MailStep
    <2> QED BY <1>4, <1>6, <2>1, <2>3
  <1>8. CASE raw_queue_size_flush(q)
    <2>1. Same(q) /\ list_q' = [list_q EXCEPT ![q] = Flushed(r)]
      BY <1>8, SameStep DEF raw_queue_size_flush, r
    <2>2. ListOK(Flushed(r)) /\ Flushed(r).current_msg = 0
      BY <1>1, FlushedLemma
    <2>3. ListContents(Flushed(r)) = <<>> /\ queue_msg_size - Flushed(r).current_msg = queue_msg_size
      BY <1>1, <2>2, ListEmpty
    <2>4. Mail(Flushed(r))
      BY <2>1, <2>3 DEF Mail, MailStep
    <2> QED BY <1>4, <2>1, <2>2, <2>4
  <1>9. CASE raw_queue_size_delete(q)
    <2>1. Closed(q) /\ list_q' = [list_q EXCEPT ![q] = EmptyList]
      BY <1>9, ClosedStep DEF raw_queue_size_delete
    <2>2. Mail(EmptyList)
      BY <1>6, <2>1 DEF Mail, MailStep
    <2> QED BY <1>4, <1>6, <2>1, <2>2
  <1>10. CASE SizeReceive(q)
    <2>1. /\ Same(q) /\ r.current_msg > 0
          /\ list_q' = [list_q EXCEPT ![q] = ReceiveFirst(r)]
      BY <1>10, SameStep DEF SizeReceive, r
    <2>2. /\ ListOK(ReceiveFirst(r))
          /\ ReceiveFirst(r).current_msg = r.current_msg - 1
          /\ ListContents(r) # <<>> /\ Head(ListContents(r)) \in Messages
          /\ ListContents(ReceiveFirst(r)) = Tail(ListContents(r))
      BY <1>1, <2>1, ReceiveFirstLemma
    <2>3. weight[Head(ListContents(r))] = 1
      BY <2>2 DEF weight
    <2>4. queue_msg_size - ReceiveFirst(r).current_msg = queue_msg_size - r.current_msg + 1
      BY <1>1, <2>2
    <2>5. Mail(ReceiveFirst(r))
      BY <2>1, <2>2, <2>3, <2>4 DEF Mail, MailStep
    <2> QED BY <1>4, <2>1, <2>2, <2>5
  <1>11. ASSUME NEW m \in Messages, SizePostKeeps(q, m)
         PROVE  ListMail(q) /\ \E x : ListOK(x) /\ list_q' = [list_q EXCEPT ![q] = x]
    <2>1. /\ Same(q) /\ Waiting(k, q) = {} /\ r.current_msg < queue_msg_size
          /\ \E r1 \in IF r.current_msg = 0 THEN {PostFirst(r, m)}
                       ELSE {LinkEnd(r, m), LinkFront(r, m)} :
               list_q' = [list_q EXCEPT ![q] = r1]
      BY <1>2, <1>11, SameStep DEF SizePostKeeps, r
    <2>2. PICK r1 \in IF r.current_msg = 0 THEN {PostFirst(r, m)}
                      ELSE {LinkEnd(r, m), LinkFront(r, m)} :
            list_q' = [list_q EXCEPT ![q] = r1]
      BY <2>1
    <2>3. r.current_msg < queue_msg_size
      BY <2>1
    <2>4. /\ ListOK(r1) /\ r1.current_msg = r.current_msg + 1
          /\ ListContents(r1) \in {Append(ListContents(r), m), <<m>> \o ListContents(r)}
      <3>1. CASE r.current_msg = 0 /\ r1 = PostFirst(r, m)
        BY <1>1, <3>1, PostFirstLemma
      <3>2. CASE r.current_msg > 0 /\ r1 = LinkEnd(r, m)
        BY <1>1, <2>3, <3>2, LinkEndLemma
      <3>3. CASE r.current_msg > 0 /\ r1 = LinkFront(r, m)
        BY <1>1, <2>3, <3>3, LinkFrontLemma
      <3> QED BY <1>1, <2>2, <3>1, <3>2, <3>3
    <2>5. /\ weight[m] = 1 /\ queue_msg_size - r.current_msg >= 1
          /\ queue_msg_size - r1.current_msg = queue_msg_size - r.current_msg - 1
      BY <1>1, <2>3, <2>4 DEF weight
    <2>6. Mail(r1)
      BY <2>1, <2>4, <2>5 DEF Mail, MailStep
    <2> QED BY <1>4, <2>2, <2>4, <2>6
  <1>12. ASSUME NEW m \in Messages, SizePostDelivers(q, m)
         PROVE  ListMail(q) /\ \E x : ListOK(x) /\ list_q' = [list_q EXCEPT ![q] = x]
    <2>1. Handed(q, m) /\ list_q' = list_q
      BY <1>12, ServedStep DEF SizePostDelivers
    <2>2. ListContents(r) = <<>>
      BY <1>1, <2>1 DEF Handed, Delivered
    <2>3. Mail(r)
      BY <2>1, <2>2 DEF Mail, MailStep
    <2> QED BY <1>1, <1>4, <1>5, <2>1, <2>3
  <1>13. ASSUME NEW t \in Tasks, NEW timeout \in Timeouts, SizeReceiveBlocks(t, q, timeout)
         PROVE  ListMail(q) /\ \E x : ListOK(x) /\ list_q' = [list_q EXCEPT ![q] = x]
    <2>1. Waits(q) /\ list_q' = list_q /\ r.current_msg = 0
      BY <1>13, WaitsStep DEF SizeReceiveBlocks, r
    <2>2. Mail(r)
      BY <1>3, <2>1 DEF Mail, MailStep
    <2> QED BY <1>1, <1>4, <1>5, <2>1, <2>2
  <1> QED BY <1>7, <1>8, <1>9, <1>10, <1>11, <1>12, <1>13

(* The invariant is kept by steps like these ... *)
LEMMA ListsKept ==
  ASSUME ListInv, list_q' \in [SizeQueues -> Lists],
         \A q \in SizeQueues : ListMail(q) /\ ListOK(list_q'[q])
  PROVE  ListInv' /\ \A q \in SizeQueues : ListAbstract(q)
  <1>1. ASSUME NEW q \in SizeQueues
        PROVE  /\ ListOK(list_q'[q]) /\ ListAbstract(q)
               /\ Waiting(k', q) # {} \/ q \notin exists' => ListContents(list_q'[q]) = <<>>
    <2>1. Waiting(k, q) # {} \/ q \notin exists => ListContents(list_q[q]) = <<>>
      BY DEF ListInv
    <2>2. Waiting(k', q) # {} \/ q \notin exists' => ListContents(list_q'[q]) = <<>>
      BY <2>1, MailKept DEF ListMail
    <2> QED BY <2>2, ListMailbox
  <1> QED BY <1>1 DEF ListInv

LEMMA ListsOutside ==
  ASSUME ListInv, list_q' = list_q, \A q \in SizeQueues : Outside(q)
  PROVE  ListInv' /\ \A q \in SizeQueues : ListAbstract(q)
  <1>1. \A q \in SizeQueues : ListMail(q) /\ ListOK(list_q'[q])
    BY DEF ListInv, ListMail, MailStep
  <1> QED BY <1>1, ListsKept DEF ListInv

(* ... and the steps of the queues are. *)
LEMMA ListsServed ==
  ASSUME CoreInv, MsgInv, ListInv, QueueSizeNext
  PROVE  ListInv' /\ \A q \in SizeQueues : ListAbstract(q)
  <1>1. PICK q \in SizeQueues :
          \/ raw_queue_size_create(q) \/ raw_queue_size_flush(q) \/ raw_queue_size_delete(q)
          \/ SizeReceive(q)
          \/ \E m \in Messages : SizePostKeeps(q, m) \/ SizePostDelivers(q, m)
          \/ \E t \in Tasks, timeout \in Timeouts : SizeReceiveBlocks(t, q, timeout)
    BY DEF QueueSizeNext
  <1>2. q \in Objects
    BY QueueSizeAssumption
  <1>3. QueueKernel(q)
    BY <1>1 DEF QueueKernel, raw_queue_size_create, raw_queue_size_flush, raw_queue_size_delete,
                SizeReceive, SizePostKeeps, SizePostDelivers, SizeReceiveBlocks
  <1>4. ListMail(q) /\ \E r : ListOK(r) /\ list_q' = [list_q EXCEPT ![q] = r]
    BY <1>1, <1>2, ListServices
  <1>5. PICK r : ListOK(r) /\ list_q' = [list_q EXCEPT ![q] = r]
    BY <1>4
  <1>6. list_q' \in [SizeQueues -> Lists] /\ \A x \in SizeQueues : ListOK(list_q'[x])
    BY <1>5 DEF ListOK, ListInv
  <1>7. ASSUME NEW x \in SizeQueues \ {q} PROVE ListMail(x)
    <2>1. list_q'[x] = list_q[x]
      BY <1>5 DEF ListInv
    <2>2. x \in Objects \ {q}
      BY QueueSizeAssumption
    <2>3. Outside(x)
      BY <1>2, <1>3, <2>2, QueueOutside
    <2> QED BY <2>1, <2>3 DEF ListMail, MailStep
  <1> QED BY <1>4, <1>6, <1>7, ListsKept

LEMMA NextLists ==
  ASSUME IInv, ListInv, Next
  PROVE  ListInv' /\ \A q \in SizeQueues : ListAbstract(q)
  <1>1. CoreInv /\ MsgInv
    BY DEF IInv
  <1>2. CASE QueueSizeNext
    BY <1>1, <1>2, ListsServed
  <1>3. ASSUME list_q' = list_q, QueueNext \/ QueueBufferNext
        PROVE  \A q \in SizeQueues : Outside(q)
    <2>1. PICK o \in Queues \cup Buffers : QueueKernel(o)
      BY <1>3, QueueKernels
    <2>2. /\ \A q \in SizeQueues : q \in Objects \ {o}
          /\ o \in Objects
      BY KindsDisjoint, QueueAssumption, QueueBufferAssumption
    <2> QED BY <1>1, <2>1, <2>2, QueueOutside
  <1> QED BY <1>2, <1>3, NextQueues, ListsOutside

-----------------------------------------------------------------------------
(***************************************************************************)
(* The byte rings of raw_queue_buffer.c.  Everything in one starts at a    *)
(* multiple of HEADERSZ.                                                   *)
(***************************************************************************)

Aligned(a) == \E x \in Nat : a = x * HEADERSZ

(* Sums and differences of multiples are multiples, and different ones are *)
(* HEADERSZ apart.                                                         *)
LEMMA AlignedFacts ==
  /\ Aligned(0) /\ Aligned(HEADERSZ) /\ Aligned(bufsz)
  /\ \A a : Aligned(a) => a \in Nat
  /\ \A a, b : Aligned(a) /\ Aligned(b) => Aligned(a + b)
  /\ \A a, b : Aligned(a) /\ Aligned(b) /\ b <= a => Aligned(a - b)
  /\ \A a, b : Aligned(a) /\ Aligned(b) /\ a < b => a + HEADERSZ <= b
  <1>0. HEADERSZ \in Nat \ {0} /\ bufsz \in Nat \ {0} /\ bufsz % HEADERSZ = 0
    BY QueueBufferAssumption
  <1>1. Aligned(0)
    <2>1. 0 = 0 * HEADERSZ
      BY <1>0
    <2> QED BY <2>1 DEF Aligned
  <1>2. Aligned(HEADERSZ)
    <2>1. HEADERSZ = 1 * HEADERSZ
      BY <1>0
    <2> QED BY <2>1 DEF Aligned
  <1>3. Aligned(bufsz)
    <2>1. bufsz = (bufsz \div HEADERSZ) * HEADERSZ /\ bufsz \div HEADERSZ \in Nat
      BY <1>0
    <2> QED BY <2>1 DEF Aligned
  <1>4. \A a : Aligned(a) => a \in Nat
    BY <1>0 DEF Aligned
  <1>5. ASSUME NEW a, NEW b, Aligned(a), Aligned(b) PROVE Aligned(a + b)
    <2>1. PICK x \in Nat, y \in Nat : a = x * HEADERSZ /\ b = y * HEADERSZ
      BY <1>5 DEF Aligned
    <2>2. a + b = (x + y) * HEADERSZ /\ x + y \in Nat
      BY <1>0, <2>1
    <2> QED BY <2>2 DEF Aligned
  <1>6. ASSUME NEW a, NEW b, Aligned(a), Aligned(b), b <= a PROVE Aligned(a - b)
    <2>1. PICK x \in Nat, y \in Nat : a = x * HEADERSZ /\ b = y * HEADERSZ
      BY <1>6 DEF Aligned
    <2>2. a - b = (x - y) * HEADERSZ /\ y <= x
      BY <1>0, <1>6, <2>1
    <2>3. x - y \in Nat
      BY <2>2
    <2> QED BY <2>2, <2>3 DEF Aligned
  <1>7. ASSUME NEW a, NEW b, Aligned(a), Aligned(b), a < b PROVE a + HEADERSZ <= b
    <2>1. PICK x \in Nat, y \in Nat : a = x * HEADERSZ /\ b = y * HEADERSZ
      BY <1>7 DEF Aligned
    <2>2. x + 1 <= y
      BY <1>0, <1>7, <2>1
    <2>3. (x + 1) * HEADERSZ <= y * HEADERSZ
      BY <1>0, <2>2
    <2>4. (x + 1) * HEADERSZ = a + HEADERSZ
      BY <1>0, <2>1
    <2> QED BY <2>1, <2>3, <2>4
  <1> QED BY <1>1, <1>2, <1>3, <1>4, <1>5, <1>6, <1>7

(* The least multiple that is not below n. *)
LEMMA RoundFacts ==
  ASSUME NEW n \in Nat
  PROVE  /\ Aligned(ROUND_BUFFER_SIZE(n)) /\ ROUND_BUFFER_SIZE(n) \in Nat
         /\ n <= ROUND_BUFFER_SIZE(n)
         /\ \A a : Aligned(a) /\ n <= a => ROUND_BUFFER_SIZE(n) <= a
         /\ \A a : Aligned(a) /\ a <= n => ROUND_BUFFER_SIZE(n - a) = ROUND_BUFFER_SIZE(n) - a
  <1> DEFINE H == HEADERSZ
             R(x) == ROUND_BUFFER_SIZE(x)
  <1>0. H \in Nat \ {0}
    BY QueueBufferAssumption
  <1>1. ASSUME NEW x \in Nat
        PROVE  Aligned(R(x)) /\ R(x) \in Nat /\ x <= R(x) /\ R(x) < x + H
    <2> DEFINE c == (x + H - 1) \div H
    <2>1. c \in Nat /\ c * H <= x + H - 1 /\ x + H - 1 < c * H + H
      BY <1>0
    <2>2. R(x) = c * H
      BY DEF ROUND_BUFFER_SIZE
    <2> HIDE DEF c
    <2>3. R(x) \in Nat /\ x <= R(x) /\ R(x) < x + H
      BY <1>0, <2>1, <2>2
    <2> QED BY <2>1, <2>2, <2>3 DEF Aligned
  <1>2. ASSUME NEW x \in Nat, NEW a, Aligned(a), x <= a PROVE R(x) <= a
    <2>1. a < R(x) => a + H <= R(x)
      BY <1>1, <1>2, AlignedFacts
    <2>2. a \in Nat /\ R(x) \in Nat
      BY <1>1, <1>2, AlignedFacts
    <2> QED BY <1>0, <1>1, <1>2, <2>1, <2>2
  <1>3. ASSUME NEW a, Aligned(a), a <= n PROVE R(n - a) = R(n) - a
    <2>1. a \in Nat /\ n - a \in Nat
      BY <1>3, AlignedFacts
    <2>2. /\ Aligned(R(n)) /\ R(n) \in Nat /\ n <= R(n)
          /\ Aligned(R(n - a)) /\ R(n - a) \in Nat /\ n - a <= R(n - a)
      BY <1>1, <2>1
    <2>3. Aligned(R(n - a) + a)
      BY <1>3, <2>2, AlignedFacts
    <2>4. n <= R(n - a) + a
      BY <2>1, <2>2
    <2>5. R(n) <= R(n - a) + a
      BY <1>2, <2>3, <2>4
    <2>6. a <= R(n) /\ n - a <= R(n) - a
      BY <1>3, <2>1, <2>2
    <2>7. Aligned(R(n) - a)
      BY <1>3, <2>2, <2>6, AlignedFacts
    <2>8. R(n - a) <= R(n) - a
      BY <1>2, <2>1, <2>6, <2>7
    <2> HIDE DEF R
    <2> QED BY <2>1, <2>2, <2>5, <2>8
  <1> QED BY <1>1, <1>2, <1>3

(* The place x bytes behind place h. *)
After(h, x) == IF h + x < bufsz THEN h + x ELSE h + x - bufsz

(* Where the code puts the parts of a message of n bytes whose header is   *)
(* at p.                                                                   *)
LEMMA PlacesAre ==
  ASSUME NEW p \in Bytes, Aligned(p), NEW n \in Nat \ {0}, HEADERSZ + n <= bufsz
  PROVE  /\ HEADERSZ + ROUND_BUFFER_SIZE(n) <= bufsz
         /\ \A i \in 0 .. n - 1 :
              Place(Advance(p, HEADERSZ), n, i) = After(p, HEADERSZ + i)
         /\ Cells(Advance(p, HEADERSZ), n) = {After(p, HEADERSZ + i) : i \in 0 .. n - 1}
         /\ Behind(Advance(p, HEADERSZ), n) = After(p, HEADERSZ + ROUND_BUFFER_SIZE(n))
         /\ Aligned(After(p, HEADERSZ + ROUND_BUFFER_SIZE(n)))
         /\ After(p, HEADERSZ + ROUND_BUFFER_SIZE(n)) \in Bytes
  <1> DEFINE H == HEADERSZ
             B == bufsz
             R == ROUND_BUFFER_SIZE(n)
             s == Advance(p, H)
  <1>0. H \in Nat \ {0} /\ B \in Nat \ {0} /\ p \in 0 .. B - 1 /\ n \in Nat \ {0} /\ H + n <= B
    BY QueueBufferAssumption DEF Bytes
  <1>1. /\ Aligned(R) /\ R \in Nat /\ n <= R
        /\ \A a : Aligned(a) /\ n <= a => R <= a
        /\ \A a : Aligned(a) /\ a <= n => ROUND_BUFFER_SIZE(n - a) = R - a
    BY <1>0, RoundFacts
  <1>2. Aligned(B - H) /\ Aligned(H + R)
    <2>1. H <= B
      BY <1>0
    <2> QED BY <1>1, <2>1, AlignedFacts
  <1>3. R <= B - H /\ H + R <= B
    <2>1. n <= B - H
      BY <1>0
    <2>2. R <= B - H
      BY <1>1, <1>2, <2>1
    <2> HIDE DEF R
    <2> QED BY <1>0, <1>1, <2>2
  <1>4. p + H <= B
    <2>1. Aligned(p) /\ Aligned(B) /\ p < B
      BY <1>0, AlignedFacts
    <2> QED BY <2>1, AlignedFacts
  <1>5. s = After(p, H) /\ s \in 0 .. B - 1 /\ (s = p + H \/ (s = 0 /\ p + H = B))
    BY <1>0, <1>4 DEF Advance, After
  <1>6. Aligned(s) /\ Aligned(B - s)
    <2>1. Aligned(s)
      BY <1>5, AlignedFacts
    <2>2. s <= B
      BY <1>0, <1>5
    <2> QED BY <2>1, <2>2, AlignedFacts
  <1> HIDE DEF s, R
  <1>7. \A i \in 0 .. n - 1 : Place(s, n, i) = After(p, H + i)
    BY <1>0, <1>5 DEF Place, After
  <1>8. Cells(s, n) = {After(p, H + i) : i \in 0 .. n - 1}
    BY <1>7 DEF Cells
  <1>9. Behind(s, n) = After(p, H + R)
    <2>1. CASE B - s < n
      <3>1. ROUND_BUFFER_SIZE(n - (B - s)) = R - (B - s)
        <4>1. B - s <= n
          BY <1>0, <1>5, <2>1
        <4> QED BY <1>1, <1>6, <4>1
      <3>2. Behind(s, n) = Advance(0, R - (B - s))
        BY <2>1, <3>1 DEF Behind
      <3> QED BY <1>0, <1>1, <1>3, <1>5, <2>1, <3>2 DEF Advance, After
    <2>2. CASE ~(B - s < n)
      <3>1. R <= B - s
        <4>1. n <= B - s
          BY <1>0, <1>5, <2>2
        <4> QED BY <1>1, <1>6, <4>1
      <3>2. Behind(s, n) = Advance(s, R)
        BY <2>2 DEF Behind, R
      <3> QED BY <1>0, <1>1, <1>3, <1>5, <3>1, <3>2 DEF Advance, After
    <2> QED BY <2>1, <2>2
  <1>10. After(p, H + R) \in Bytes
    BY <1>0, <1>1, <1>3 DEF After, Bytes
  <1>11. Aligned(After(p, H + R))
    <2>1. Aligned(p + (H + R))
      BY <1>2, AlignedFacts
    <2>2. CASE p + (H + R) < B
      BY <2>1, <2>2 DEF After
    <2>3. CASE ~(p + (H + R) < B)
      <3>1. B <= p + (H + R)
        BY <1>0, <1>1, <2>3
      <3>2. Aligned(B)
        BY AlignedFacts
      <3>3. Aligned((p + (H + R)) - B)
        BY <2>1, <3>1, <3>2, AlignedFacts
      <3>4. After(p, H + R) = (p + (H + R)) - B
        BY <1>0, <1>1, <2>3 DEF After
      <3> QED BY <3>3, <3>4
    <2> QED BY <2>2, <2>3
  <1> QED BY <1>3, <1>7, <1>8, <1>9, <1>10, <1>11 DEF s, R

(* Distances add up, and no place below bufsz is reached twice. *)
LEMMA AfterFacts ==
  ASSUME NEW h \in Bytes, NEW x \in 0 .. bufsz
  PROVE  /\ After(h, x) \in Bytes /\ After(h, 0) = h
         /\ \A y \in 0 .. bufsz : x + y <= bufsz => After(After(h, x), y) = After(h, x + y)
         /\ \A y \in 0 .. bufsz : x < y /\ (x > 0 \/ y < bufsz) => After(h, x) # After(h, y)
  <1>1. bufsz \in Nat \ {0} /\ h \in 0 .. bufsz - 1 /\ x \in 0 .. bufsz
    BY QueueBufferAssumption DEF Bytes
  <1>2. After(h, x) \in Bytes /\ After(h, 0) = h
    BY <1>1 DEF After, Bytes
  <1>3. ASSUME NEW y \in 0 .. bufsz, x + y <= bufsz
        PROVE  After(After(h, x), y) = After(h, x + y)
    BY <1>1, <1>3 DEF After
  <1>4. ASSUME NEW y \in 0 .. bufsz, x < y, x > 0 \/ y < bufsz
        PROVE  After(h, x) # After(h, y)
    BY <1>1, <1>4 DEF After
  <1> QED BY <1>2, <1>3, <1>4

(* The bytes that a message takes. *)
Takes(m) == HEADERSZ + ROUND_BUFFER_SIZE(MsgSize[m])

(* A message that fits with its header fits with the bytes it is rounded   *)
(* up to, since the room is a multiple.                                    *)
LEMMA TakesFacts ==
  ASSUME NEW m \in Messages
  PROVE  /\ HEADERSZ \in Nat \ {0} /\ bufsz \in Nat \ {0} /\ MsgSize[m] \in Nat \ {0}
         /\ Takes(m) \in Nat /\ HEADERSZ + MsgSize[m] <= Takes(m) /\ Aligned(Takes(m))
         /\ \A a : Aligned(a) /\ HEADERSZ + MsgSize[m] <= a => Takes(m) <= a
  <1> DEFINE n == MsgSize[m]
             R == ROUND_BUFFER_SIZE(n)
  <1>1. HEADERSZ \in Nat \ {0} /\ bufsz \in Nat \ {0} /\ n \in Nat \ {0} /\ n \in Nat
    BY QueueBufferAssumption
  <1>2. /\ Aligned(R) /\ R \in Nat /\ n <= R
        /\ \A a : Aligned(a) /\ n <= a => R <= a
    BY <1>1, RoundFacts
  <1>3. Takes(m) = HEADERSZ + R
    BY DEF Takes
  <1> HIDE DEF n, R
  <1>4. Aligned(HEADERSZ + R)
    BY <1>2, AlignedFacts
  <1>5. ASSUME NEW a, Aligned(a), HEADERSZ + n <= a PROVE HEADERSZ + R <= a
    <2>1. a \in Nat /\ Aligned(HEADERSZ)
      BY <1>5, AlignedFacts
    <2>2. HEADERSZ <= a
      BY <1>1, <1>5, <2>1
    <2>3. Aligned(a - HEADERSZ)
      BY <1>5, <2>1, <2>2, AlignedFacts
    <2>4. n <= a - HEADERSZ
      BY <1>1, <1>5, <2>1
    <2>5. R <= a - HEADERSZ
      BY <1>2, <2>3, <2>4
    <2> QED BY <1>1, <1>2, <2>1, <2>5
  <1>6. HEADERSZ + n <= HEADERSZ + R /\ HEADERSZ + R \in Nat
    BY <1>1, <1>2
  <1> QED BY <1>1, <1>3, <1>4, <1>5, <1>6 DEF n

BufferRecs == [mem : [Bytes -> [msg : Messages \cup {NoMsg}, n : Nat]],
               head : Bytes, tail : Bytes, frbufsz : 0 .. bufsz]

(* m is stored with its header at c. *)
Stored(buf, c, m) ==
  /\ buf.mem[c] = Header(MsgSize[m])
  /\ \A j \in 0 .. MsgSize[m] - 1 : buf.mem[After(c, HEADERSZ + j)] = Byte(m, j)

(* The messages of s lie one behind the other, number i off[i] bytes       *)
(* behind the head, and there is no header besides theirs.                 *)
Laid(buf, s, off) ==
  /\ buf \in BufferRecs /\ Aligned(buf.frbufsz)
  /\ off[1] = 0 /\ off[Len(s) + 1] = bufsz - buf.frbufsz
  /\ \A i \in 1 .. Len(s) : off[i + 1] = off[i] + Takes(s[i])
  /\ \A i \in 1 .. Len(s), j \in 1 .. Len(s) + 1 : i < j => off[i] + Takes(s[i]) <= off[j]
  /\ \A i \in 1 .. Len(s) + 1 : Aligned(After(buf.head, off[i]))
  /\ buf.tail = After(buf.head, off[Len(s) + 1])
  /\ \A i \in 1 .. Len(s) : Stored(buf, After(buf.head, off[i]), s[i])
  /\ \A c \in Headers(buf) : \E i \in 1 .. Len(s) : c = After(buf.head, off[i])

Offsets(s) == [1 .. Len(s) + 1 -> 0 .. bufsz]

BufferOK(buf) == \E s \in Seq(Messages) : \E off \in Offsets(s) : Laid(buf, s, off)

(* A message that is stored is found, and so is the place behind it. *)
LEMMA StoredIs ==
  ASSUME NEW buf \in BufferRecs, NEW c \in Bytes, Aligned(c), NEW m \in Messages,
         Takes(m) <= bufsz, Stored(buf, c, m)
  PROVE  /\ c \in Headers(buf) /\ MessageAt(buf, c) = m
         /\ Behind(Advance(c, HEADERSZ), buf.mem[c].n) = After(c, Takes(m))
  <1> DEFINE n == MsgSize[m]
             H == HEADERSZ
  <1>1. /\ H \in Nat \ {0} /\ bufsz \in Nat \ {0} /\ n \in Nat \ {0}
        /\ H + n <= Takes(m) /\ Takes(m) \in Nat /\ Takes(m) = H + ROUND_BUFFER_SIZE(n)
    BY TakesFacts DEF Takes
  <1>2. H + n <= bufsz
    BY <1>1
  <1>3. buf.mem[c].n = n /\ buf.mem[c].msg = NoMsg
    BY DEF Stored, Header
  <1>4. /\ \A i \in 0 .. n - 1 : Place(Advance(c, H), n, i) = After(c, H + i)
        /\ Behind(Advance(c, H), n) = After(c, H + ROUND_BUFFER_SIZE(n))
    BY <1>1, <1>2, PlacesAre
  <1>5. \A i \in 0 .. n - 1 : buf.mem[Place(Advance(c, H), n, i)] = Byte(m, i)
    BY <1>4 DEF Stored
  <1>6. 0 \in 0 .. n - 1 /\ Byte(m, 0).msg = m
    BY <1>1 DEF Byte
  <1> HIDE DEF n, H
  <1>7. MessageAt(buf, c) = m
    BY <1>3, <1>5, <1>6 DEF MessageAt, n, H
  <1>8. c \in Headers(buf)
    BY <1>1, <1>3 DEF Headers
  <1>9. After(c, H + ROUND_BUFFER_SIZE(n)) = After(c, Takes(m))
    BY <1>1
  <1> QED BY <1>3, <1>4, <1>7, <1>8, <1>9 DEF n, H

(* What a layout says of each message. *)
LEMMA LaidFacts ==
  ASSUME NEW buf, NEW s \in Seq(Messages), NEW off \in Offsets(s), Laid(buf, s, off)
  PROVE  /\ bufsz \in Nat \ {0} /\ HEADERSZ \in Nat \ {0} /\ Len(s) \in Nat
         /\ buf \in BufferRecs /\ buf.head \in Bytes
         /\ \A i \in 1 .. Len(s) + 1 : off[i] \in 0 .. bufsz /\ After(buf.head, off[i]) \in Bytes
         /\ \A i \in 1 .. Len(s) :
              /\ s[i] \in Messages /\ Takes(s[i]) \in Nat /\ Takes(s[i]) <= bufsz
              /\ MsgSize[s[i]] \in Nat \ {0} /\ HEADERSZ + MsgSize[s[i]] <= Takes(s[i])
              /\ off[i] + Takes(s[i]) = off[i + 1] /\ off[i + 1] \in 0 .. bufsz
              /\ i \in 1 .. Len(s) + 1 /\ i + 1 \in 1 .. Len(s) + 1
              /\ off[i] \in 0 .. bufsz - 1
              /\ After(After(buf.head, off[i]), Takes(s[i])) = After(buf.head, off[i + 1])
         /\ \A i, j \in 1 .. Len(s) :
              i # j => After(buf.head, off[i]) # After(buf.head, off[j])
  <1>1. bufsz \in Nat \ {0} /\ HEADERSZ \in Nat \ {0} /\ Len(s) \in Nat
    BY QueueBufferAssumption, LenProperties
  <1>2. buf \in BufferRecs /\ buf.head \in Bytes
    BY DEF Laid, BufferRecs
  <1>3. \A i \in 1 .. Len(s) + 1 : off[i] \in 0 .. bufsz /\ After(buf.head, off[i]) \in Bytes
    <2> SUFFICES ASSUME NEW i \in 1 .. Len(s) + 1
                 PROVE  off[i] \in 0 .. bufsz /\ After(buf.head, off[i]) \in Bytes
      OBVIOUS
    <2>1. off[i] \in 0 .. bufsz
      BY DEF Offsets
    <2> QED BY <1>2, <2>1, AfterFacts
  <1>4. ASSUME NEW i \in 1 .. Len(s)
        PROVE  /\ s[i] \in Messages /\ Takes(s[i]) \in Nat /\ Takes(s[i]) <= bufsz
               /\ MsgSize[s[i]] \in Nat \ {0} /\ HEADERSZ + MsgSize[s[i]] <= Takes(s[i])
               /\ off[i] + Takes(s[i]) = off[i + 1] /\ off[i + 1] \in 0 .. bufsz
               /\ i \in 1 .. Len(s) + 1 /\ i + 1 \in 1 .. Len(s) + 1
               /\ off[i] \in 0 .. bufsz - 1
               /\ After(After(buf.head, off[i]), Takes(s[i])) = After(buf.head, off[i + 1])
    <2>1. s[i] \in Messages
      BY ElementOfSeq
    <2>2. /\ Takes(s[i]) \in Nat /\ MsgSize[s[i]] \in Nat \ {0}
          /\ HEADERSZ + MsgSize[s[i]] <= Takes(s[i])
      BY <2>1, TakesFacts
    <2>3. i \in 1 .. Len(s) + 1 /\ i + 1 \in 1 .. Len(s) + 1
      BY <1>1
    <2>4. off[i] \in 0 .. bufsz /\ off[i + 1] \in 0 .. bufsz /\ off[i] + Takes(s[i]) = off[i + 1]
      BY <1>3, <2>3 DEF Laid
    <2>5. /\ Takes(s[i]) <= bufsz /\ off[i] \in 0 .. bufsz - 1 /\ Takes(s[i]) \in 0 .. bufsz
          /\ off[i] + Takes(s[i]) <= bufsz
      BY SMTT(30), <1>1, <2>2, <2>4
    <2>6. After(After(buf.head, off[i]), Takes(s[i])) = After(buf.head, off[i] + Takes(s[i]))
      BY <1>2, <2>4, <2>5, AfterFacts
    <2> QED BY <2>1, <2>2, <2>3, <2>4, <2>5, <2>6
  <1>5. ASSUME NEW i \in 1 .. Len(s), NEW j \in 1 .. Len(s), i < j
        PROVE  After(buf.head, off[i]) # After(buf.head, off[j])
    <2>1. j \in 1 .. Len(s) + 1 /\ off[i] + Takes(s[i]) <= off[j]
      BY <1>4, <1>5 DEF Laid
    <2>2. /\ off[i] \in 0 .. bufsz - 1 /\ off[j] \in 0 .. bufsz - 1
          /\ Takes(s[i]) \in Nat /\ MsgSize[s[i]] \in Nat \ {0}
          /\ HEADERSZ + MsgSize[s[i]] <= Takes(s[i])
      BY <1>4
    <2>3. off[i] \in 0 .. bufsz /\ off[j] \in 0 .. bufsz /\ off[j] < bufsz
      BY <1>1, <2>2
    <2>4. Takes(s[i]) > 0
      BY <1>1, <2>2
    <2>5. off[i] < off[j]
      BY <2>1, <2>2, <2>4
    <2> QED BY <1>2, <2>3, <2>5, AfterFacts
  <1>6. \A i, j \in 1 .. Len(s) :
          i # j => After(buf.head, off[i]) # After(buf.head, off[j])
    <2> SUFFICES ASSUME NEW i \in 1 .. Len(s), NEW j \in 1 .. Len(s), i # j
                 PROVE  After(buf.head, off[i]) # After(buf.head, off[j])
      OBVIOUS
    <2>1. i < j \/ j < i
      BY <1>1
    <2> QED BY <1>5, <2>1
  <1> QED BY <1>1, <1>2, <1>3, <1>4, <1>6

(* The messages of a buffer are those that are laid in it. *)
LEMMA BufferContentsAre ==
  ASSUME NEW buf, NEW s \in Seq(Messages), NEW off \in Offsets(s), Laid(buf, s, off)
  PROVE  BufferContents(buf) = s
  <1> DEFINE n == Len(s)
             at == [i \in 1 .. n |-> After(buf.head, off[i])]
             F(g) == [i \in 1 .. Cardinality(Headers(buf)) |->
                        IF i = 1 THEN buf.head
                        ELSE Behind(Advance(g[i - 1], HEADERSZ), buf.mem[g[i - 1]].n)]
             start == CHOOSE g : g = F(g)
  <1>1. n \in Nat /\ buf \in BufferRecs /\ buf.head \in Bytes
    BY LaidFacts
  <1>2. ASSUME NEW i \in 1 .. n
        PROVE  /\ at[i] \in Headers(buf) /\ MessageAt(buf, at[i]) = s[i]
               /\ Behind(Advance(at[i], HEADERSZ), buf.mem[at[i]].n) = After(buf.head, off[i + 1])
    <2>1. /\ s[i] \in Messages /\ Takes(s[i]) <= bufsz /\ i \in 1 .. n + 1
          /\ After(After(buf.head, off[i]), Takes(s[i])) = After(buf.head, off[i + 1])
      BY LaidFacts
    <2>2. at[i] = After(buf.head, off[i])
      OBVIOUS
    <2>3. at[i] \in Bytes
      BY <2>1, <2>2, LaidFacts
    <2>4. Aligned(at[i]) /\ Stored(buf, at[i], s[i])
      BY <2>1, <2>2 DEF Laid
    <2> HIDE DEF at
    <2>5. /\ at[i] \in Headers(buf) /\ MessageAt(buf, at[i]) = s[i]
          /\ Behind(Advance(at[i], HEADERSZ), buf.mem[at[i]].n) = After(at[i], Takes(s[i]))
      BY <1>1, <2>1, <2>3, <2>4, StoredIs
    <2> QED BY <2>1, <2>2, <2>5
  <1>3. Cardinality(Headers(buf)) = n
    <2>1. \A i, j \in 1 .. n : at[i] = at[j] => i = j
      BY LaidFacts
    <2>2. \A c \in Headers(buf) : \E i \in 1 .. n : at[i] = c
      BY DEF Laid
    <2>3. at \in [1 .. n -> Headers(buf)]
      BY <1>2
    <2> HIDE DEF at
    <2>4. at \in Bijection(1 .. n, Headers(buf))
      BY <2>1, <2>2, <2>3 DEF Bijection, Injection, Surjection, IsInjective
    <2>5. ExistsBijection(1 .. n, Headers(buf))
      BY <2>4 DEF ExistsBijection
    <2> QED BY <1>1, <2>5, FS_CountingElements
  <1>4. n > 0 => at[1] = buf.head
    <2>1. off[1] = 0 /\ After(buf.head, 0) = buf.head
      <3>1. 0 \in 0 .. bufsz
        BY LaidFacts
      <3> QED BY <1>1, <3>1, AfterFacts DEF Laid
    <2> QED BY <1>1, <2>1
  <1>5. \A i \in 1 .. n - 1 :
          at[i + 1] = Behind(Advance(at[i], HEADERSZ), buf.mem[at[i]].n)
    <2> SUFFICES ASSUME NEW i \in 1 .. n - 1
                 PROVE  at[i + 1] = Behind(Advance(at[i], HEADERSZ), buf.mem[at[i]].n)
      OBVIOUS
    <2>1. i \in 1 .. n /\ i + 1 \in 1 .. n
      BY <1>1
    <2>2. at[i + 1] = After(buf.head, off[i + 1])
      BY <2>1
    <2> HIDE DEF at
    <2> QED BY <1>2, <2>1, <2>2
  <1>6. at = [i \in 1 .. n |-> at[i]]
    OBVIOUS
  <1> HIDE DEF at
  <1>7. \A i \in 1 .. n :
          at[i] = IF i = 1 THEN buf.head
                  ELSE Behind(Advance(at[i - 1], HEADERSZ), buf.mem[at[i - 1]].n)
    <2> SUFFICES ASSUME NEW i \in 1 .. n, i # 1
                 PROVE  at[i] = Behind(Advance(at[i - 1], HEADERSZ), buf.mem[at[i - 1]].n)
      BY <1>1, <1>4
    <2>1. i - 1 \in 1 .. n - 1 /\ (i - 1) + 1 = i
      BY <1>1
    <2>2. at[(i - 1) + 1] = Behind(Advance(at[i - 1], HEADERSZ), buf.mem[at[i - 1]].n)
      BY <1>5, <2>1
    <2> QED BY <2>1, <2>2
  <1>8. at = F(at)
    BY <1>3, <1>6, <1>7
  <1>9. start = F(start)
    <2> HIDE DEF F
    <2> QED BY <1>8
  <1> HIDE DEF start
  <1>10. \A i \in 1 .. n :
           start[i] = IF i = 1 THEN buf.head
                      ELSE Behind(Advance(start[i - 1], HEADERSZ), buf.mem[start[i - 1]].n)
    BY <1>3, <1>9
  <1> DEFINE T == {0} \cup {i \in 1 .. n : start[i] = at[i]}
  <1>11. \A i \in 0 .. n : i \in T
    <2>1. \A i \in 1 .. n : i - 1 \in T => i \in T
      <3> SUFFICES ASSUME NEW i \in 1 .. n, i - 1 \in T PROVE start[i] = at[i]
        OBVIOUS
      <3>1. CASE i = 1
        BY <1>7, <1>10, <3>1
      <3>2. CASE i # 1
        <4>1. i - 1 \in 1 .. n
          BY <1>1, <3>2
        <4>2. start[i - 1] = at[i - 1]
          BY <4>1
        <4> QED BY <1>7, <1>10, <3>2, <4>2
      <3> QED BY <3>1, <3>2
    <2>2. 0 \in T
      OBVIOUS
    <2> HIDE DEF T
    <2> QED BY <1>1, <2>1, <2>2, Rounds
  <1>12. \A i \in 1 .. n : start[i] = at[i]
    BY <1>11
  <1>13. BufferContents(buf) = [i \in 1 .. n |-> MessageAt(buf, start[i])]
    BY <1>3 DEF BufferContents, start, F
  <1>14. \A i \in 1 .. n : MessageAt(buf, start[i]) = s[i]
    BY <1>2, <1>12
  <1>15. s = [i \in 1 .. n |-> s[i]]
    BY SeqDef
  <1> QED BY <1>13, <1>14, <1>15

(* What the operations on a buffer do to its messages. *)
LEMMA EmptyBufferLemma ==
  BufferOK(EmptyBuffer) /\ BufferContents(EmptyBuffer) = <<>> /\ EmptyBuffer.frbufsz = bufsz
  <1> DEFINE off == [i \in 1 .. 1 |-> 0]
  <1>1. bufsz \in Nat \ {0} /\ 0 \in Bytes /\ Len(<<>>) = 0 /\ <<>> \in Seq(Messages)
    BY QueueBufferAssumption DEF Bytes
  <1>2. EmptyBuffer \in BufferRecs
    BY <1>1 DEF EmptyBuffer, BufferRecs, Nothing, Header
  <1>3. /\ EmptyBuffer.mem = [c \in Bytes |-> Nothing] /\ EmptyBuffer.head = 0
        /\ EmptyBuffer.tail = 0 /\ EmptyBuffer.frbufsz = bufsz
    BY DEF EmptyBuffer
  <1>4. Headers(EmptyBuffer) = {}
    BY <1>3 DEF Headers, Nothing, Header
  <1>5. After(0, 0) = 0 /\ Aligned(0) /\ Aligned(bufsz)
    BY <1>1, AlignedFacts DEF After
  <1>6. Laid(EmptyBuffer, <<>>, off)
    BY <1>1, <1>2, <1>3, <1>4, <1>5 DEF Laid
  <1>7. off \in Offsets(<<>>)
    BY <1>1 DEF Offsets
  <1> HIDE DEF off
  <1> QED BY <1>1, <1>3, <1>6, <1>7, BufferContentsAre DEF BufferOK

(* Bytes at different distances below bufsz are different. *)
LEMMA ApartLemma ==
  ASSUME NEW h \in Bytes, NEW x \in 0 .. bufsz - 1, NEW y \in 0 .. bufsz - 1, x # y
  PROVE  After(h, x) # After(h, y)
  <1>1. bufsz \in Nat \ {0}
    BY QueueBufferAssumption
  <1>2. x \in 0 .. bufsz /\ y \in 0 .. bufsz /\ x < bufsz /\ y < bufsz /\ (x < y \/ y < x)
    BY <1>1
  <1> QED BY <1>2, AfterFacts

(* Only the bytes of m at c differ. *)
Spared(a, b, c, m) ==
  \A d \in Bytes :
    d # c /\ (\A j \in 0 .. MsgSize[m] - 1 : d # After(c, HEADERSZ + j)) => b.mem[d] = a.mem[d]

(* What msg_to_end_buffer writes: a header at the tail and the bytes       *)
(* behind it.                                                              *)
LEMMA WrittenLemma ==
  ASSUME NEW buf \in BufferRecs, Aligned(buf.tail), NEW m \in Messages, Takes(m) <= bufsz
  PROVE  LET b == msg_to_end_buffer(buf, m) IN
         /\ b.mem \in [Bytes -> [msg : Messages \cup {NoMsg}, n : Nat]]
         /\ b.head = buf.head /\ b.tail = After(buf.tail, Takes(m))
         /\ b.frbufsz = buf.frbufsz - Takes(m)
         /\ Stored(b, buf.tail, m)
         /\ \A c \in Bytes :
              \/ c = buf.tail
              \/ \E j \in 0 .. MsgSize[m] - 1 : c = After(buf.tail, HEADERSZ + j) /\ b.mem[c] = Byte(m, j)
              \/ b.mem[c] = buf.mem[c]
         /\ Spared(buf, b, buf.tail, m)
  <1> DEFINE b == msg_to_end_buffer(buf, m)
             n == MsgSize[m]
             H == HEADERSZ
             p == buf.tail
             start == Advance(p, H)
             at(j) == After(p, H + j)
  <1>1. /\ H \in Nat \ {0} /\ bufsz \in Nat \ {0} /\ n \in Nat \ {0}
        /\ H + n <= Takes(m) /\ Takes(m) \in Nat /\ Takes(m) = H + ROUND_BUFFER_SIZE(n)
    BY TakesFacts DEF Takes
  <1>2. p \in Bytes /\ H + n <= bufsz
    BY <1>1 DEF BufferRecs
  <1>3. /\ \A i \in 0 .. n - 1 : Place(start, n, i) = at(i)
        /\ Cells(start, n) = {at(i) : i \in 0 .. n - 1}
        /\ Behind(start, n) = After(p, H + ROUND_BUFFER_SIZE(n))
    BY <1>1, <1>2, PlacesAre
  <1>4. ASSUME NEW j \in 0 .. n - 1
        PROVE  /\ at(j) \in Bytes /\ at(j) # p
               /\ \A i \in 0 .. n - 1 : at(i) = at(j) => i = j
    <2>1. H + j \in 1 .. bufsz - 1 /\ H + j \in 0 .. bufsz /\ 0 \in 0 .. bufsz - 1
          /\ H + j \in 0 .. bufsz - 1 /\ H + j # 0 /\ 0 \in 0 .. bufsz
      BY <1>1, <1>2
    <2>2. at(j) \in Bytes /\ After(p, 0) = p
      BY <1>2, <2>1, AfterFacts
    <2>3. at(j) # p
      BY <1>2, <2>1, <2>2, ApartLemma
    <2>4. ASSUME NEW i \in 0 .. n - 1, i # j PROVE at(i) # at(j)
      <3>1. H + i \in 0 .. bufsz - 1 /\ H + i # H + j
        BY <1>1, <1>2, <2>4
      <3> QED BY <1>2, <2>1, <3>1, ApartLemma
    <2> QED BY <2>2, <2>3, <2>4
  <1> HIDE DEF at
  <1>5. /\ b.head = buf.head /\ b.tail = Behind(start, n)
        /\ b.frbufsz = buf.frbufsz - (H + ROUND_BUFFER_SIZE(n))
        /\ b.mem = [c \in Bytes |->
                      IF c \in Cells(start, n)
                      THEN Byte(m, CHOOSE i \in 0 .. n - 1 : Place(start, n, i) = c)
                      ELSE IF c = p THEN Header(n) ELSE buf.mem[c]]
    BY DEF msg_to_end_buffer
  <1> HIDE DEF b
  <1>6. ASSUME NEW j \in 0 .. n - 1 PROVE b.mem[at(j)] = Byte(m, j)
    <2>1. at(j) \in Bytes /\ at(j) \in Cells(start, n)
      BY <1>3, <1>4
    <2>2. (CHOOSE i \in 0 .. n - 1 : Place(start, n, i) = at(j)) = j
      BY <1>3, <1>4
    <2> QED BY <1>5, <2>1, <2>2
  <1>7. b.mem[p] = Header(n)
    <2>1. p \notin Cells(start, n)
      BY <1>3, <1>4
    <2> QED BY <1>2, <1>5, <2>1
  <1>8. \A c \in Bytes : c \notin Cells(start, n) /\ c # p => b.mem[c] = buf.mem[c]
    BY <1>5
  <1>9. \A c \in Bytes : c \in Cells(start, n) => \E j \in 0 .. n - 1 : c = at(j)
    BY <1>3
  <1>10. \A c \in Bytes : \/ c = p
                          \/ \E j \in 0 .. n - 1 : c = at(j) /\ b.mem[c] = Byte(m, j)
                          \/ b.mem[c] = buf.mem[c]
    BY <1>6, <1>8, <1>9
  <1>11. Spared(buf, b, p, m)
    BY <1>8, <1>9 DEF Spared, at
  <1>12. b.mem \in [Bytes -> [msg : Messages \cup {NoMsg}, n : Nat]]
    <2>1. \A j \in 0 .. n - 1 : Byte(m, j) \in [msg : Messages \cup {NoMsg}, n : Nat]
      BY <1>1 DEF Byte
    <2>2. Header(n) \in [msg : Messages \cup {NoMsg}, n : Nat]
      BY <1>1 DEF Header
    <2>3. \A c \in Bytes : b.mem[c] \in [msg : Messages \cup {NoMsg}, n : Nat]
      BY <1>7, <1>10, <2>1, <2>2 DEF BufferRecs
    <2>4. b.mem = [c \in Bytes |-> b.mem[c]]
      BY <1>5
    <2> QED BY <2>3, <2>4
  <1>13. Stored(b, p, m)
    BY <1>6, <1>7 DEF Stored, at
  <1> HIDE DEF n, H, p
  <1>14. b.tail = After(p, Takes(m)) /\ b.frbufsz = buf.frbufsz - Takes(m)
    BY <1>1, <1>3, <1>5
  <1> QED BY <1>5, <1>10, <1>11, <1>12, <1>13, <1>14 DEF b, n, H, p, at

(* What is stored at x is not touched by what is stored behind it. *)
LEMMA StaysLemma ==
  ASSUME NEW h \in Bytes, NEW m1 \in Messages, NEW m2 \in Messages,
         NEW x \in 0 .. bufsz - 1, x + Takes(m1) <= bufsz,
         NEW y \in 0 .. bufsz - 1, y + Takes(m2) <= bufsz,
         x + Takes(m1) <= y \/ y + Takes(m2) <= x,
         NEW a, NEW b, Stored(a, After(h, x), m1),
         Spared(a, b, After(h, y), m2)
  PROVE  Stored(b, After(h, x), m1) /\ After(h, x) # After(h, y)
  <1> DEFINE H == HEADERSZ
             n1 == MsgSize[m1]
             n2 == MsgSize[m2]
  <1>1. /\ H \in Nat \ {0} /\ bufsz \in Nat \ {0} /\ n1 \in Nat \ {0} /\ n2 \in Nat \ {0}
        /\ Takes(m1) \in Nat /\ Takes(m2) \in Nat /\ H + n1 <= Takes(m1) /\ H + n2 <= Takes(m2)
    BY TakesFacts
  <1>2. \A j \in 0 .. n1 - 1 : After(After(h, x), H + j) = After(h, x + (H + j))
    <2> SUFFICES ASSUME NEW j \in 0 .. n1 - 1
                 PROVE  After(After(h, x), H + j) = After(h, x + (H + j))
      OBVIOUS
    <2>1. x \in 0 .. bufsz /\ H + j \in 0 .. bufsz /\ x + (H + j) <= bufsz
      BY <1>1
    <2> QED BY <2>1, AfterFacts
  <1>3. \A j \in 0 .. n2 - 1 : After(After(h, y), H + j) = After(h, y + (H + j))
    <2> SUFFICES ASSUME NEW j \in 0 .. n2 - 1
                 PROVE  After(After(h, y), H + j) = After(h, y + (H + j))
      OBVIOUS
    <2>1. y \in 0 .. bufsz /\ H + j \in 0 .. bufsz /\ y + (H + j) <= bufsz
      BY <1>1
    <2> QED BY <2>1, AfterFacts
  <1>4. ASSUME NEW z \in 0 .. bufsz - 1, x <= z, z < x + (H + n1)
        PROVE  b.mem[After(h, z)] = a.mem[After(h, z)] /\ After(h, z) # After(h, y)
    <2>1. z # y
      BY <1>1, <1>4
    <2>2. After(h, z) # After(h, y)
      BY <2>1, ApartLemma
    <2>3. ASSUME NEW j \in 0 .. n2 - 1 PROVE After(h, z) # After(After(h, y), H + j)
      <3>1. y + (H + j) \in 0 .. bufsz - 1 /\ z # y + (H + j)
        BY <1>1, <1>4
      <3>2. After(h, z) # After(h, y + (H + j))
        BY <3>1, ApartLemma
      <3> QED BY <1>3, <3>2
    <2>4. After(h, z) \in Bytes
      <3>1. z \in 0 .. bufsz
        BY <1>1
      <3> QED BY <3>1, AfterFacts
    <2> QED BY <2>2, <2>3, <2>4 DEF Spared
  <1>5. x <= x /\ x < x + (H + n1)
    BY <1>1
  <1>6. b.mem[After(h, x)] = a.mem[After(h, x)] /\ After(h, x) # After(h, y)
    BY <1>4, <1>5
  <1>7. ASSUME NEW j \in 0 .. n1 - 1
        PROVE  b.mem[After(After(h, x), H + j)] = a.mem[After(After(h, x), H + j)]
    <2>1. /\ x + (H + j) \in 0 .. bufsz - 1 /\ x <= x + (H + j)
          /\ x + (H + j) < x + (H + n1)
      BY <1>1
    <2>2. b.mem[After(h, x + (H + j))] = a.mem[After(h, x + (H + j))]
      BY <1>4, <2>1
    <2> QED BY <1>2, <2>2
  <1> QED BY <1>6, <1>7 DEF Stored

(* msg_to_end_buffer puts the message behind the others. *)
LEMMA PostBufferLemma ==
  ASSUME NEW buf, BufferOK(buf), NEW m \in Messages, is_queue_buffer_free(buf, MsgSize[m])
  PROVE  /\ BufferOK(msg_to_end_buffer(buf, m)) /\ Takes(m) <= buf.frbufsz
         /\ msg_to_end_buffer(buf, m).frbufsz = buf.frbufsz - Takes(m)
         /\ BufferContents(msg_to_end_buffer(buf, m)) = Append(BufferContents(buf), m)
  <1>1. PICK s \in Seq(Messages) : \E off \in Offsets(s) : Laid(buf, s, off)
    BY DEF BufferOK
  <1>2. PICK off \in Offsets(s) : Laid(buf, s, off)
    BY <1>1
  <1> DEFINE b  == msg_to_end_buffer(buf, m)
             n  == Len(s)
             h  == buf.head
             s1 == Append(s, m)
             end == off[n + 1]
             off1 == [i \in 1 .. n + 2 |-> IF i <= n + 1 THEN off[i] ELSE end + Takes(m)]
  <1>3. /\ bufsz \in Nat \ {0} /\ HEADERSZ \in Nat \ {0} /\ n \in Nat
        /\ buf \in BufferRecs /\ h \in Bytes
    BY <1>2, LaidFacts
  <1>4. /\ MsgSize[m] \in Nat \ {0} /\ Takes(m) \in Nat /\ HEADERSZ + MsgSize[m] <= Takes(m)
        /\ Aligned(Takes(m))
        /\ \A a : Aligned(a) /\ HEADERSZ + MsgSize[m] <= a => Takes(m) <= a
    BY TakesFacts
  <1>5. buf.frbufsz \in 0 .. bufsz /\ Aligned(buf.frbufsz) /\ end = bufsz - buf.frbufsz
        /\ buf.tail = After(h, end)
    BY <1>2 DEF Laid, BufferRecs
  <1>6. Takes(m) <= buf.frbufsz
    BY <1>4, <1>5 DEF is_queue_buffer_free
  <1>7. end \in 0 .. bufsz - 1 /\ end + Takes(m) \in 0 .. bufsz /\ end + Takes(m) <= bufsz
        /\ end \in 0 .. bufsz /\ Takes(m) \in 0 .. bufsz /\ Takes(m) <= bufsz
        /\ end + Takes(m) = bufsz - (buf.frbufsz - Takes(m))
        /\ buf.frbufsz - Takes(m) \in 0 .. bufsz
    <2> DEFINE t == Takes(m)
               f == buf.frbufsz
               e == end
    <2>1. t > 0 /\ t \in Nat /\ t <= f /\ f \in 0 .. bufsz /\ e = bufsz - f
      BY <1>3, <1>4, <1>5, <1>6
    <2> HIDE DEF t, f, e
    <2>2. /\ e \in 0 .. bufsz - 1 /\ e + t \in 0 .. bufsz /\ e + t <= bufsz
          /\ e \in 0 .. bufsz /\ t \in 0 .. bufsz /\ t <= bufsz
          /\ e + t = bufsz - (f - t) /\ f - t \in 0 .. bufsz
      BY <1>3, <2>1
    <2> QED BY <2>2 DEF t, f, e
  <1>8. Aligned(buf.tail) /\ buf.tail \in Bytes
    <2>1. n + 1 \in 1 .. n + 1
      BY <1>3
    <2>2. Aligned(After(h, off[n + 1]))
      BY <1>2, <2>1 DEF Laid
    <2> QED BY <1>3, <1>5, <2>2 DEF BufferRecs
  <1>9. /\ b.mem \in [Bytes -> [msg : Messages \cup {NoMsg}, n : Nat]]
        /\ b.head = h /\ b.tail = After(buf.tail, Takes(m))
        /\ b.frbufsz = buf.frbufsz - Takes(m)
        /\ Stored(b, buf.tail, m)
        /\ \A c \in Bytes :
             \/ c = buf.tail
             \/ \E j \in 0 .. MsgSize[m] - 1 : c = After(buf.tail, HEADERSZ + j) /\ b.mem[c] = Byte(m, j)
             \/ b.mem[c] = buf.mem[c]
        /\ Spared(buf, b, buf.tail, m)
    BY <1>3, <1>7, <1>8, WrittenLemma
  <1>10. After(buf.tail, Takes(m)) = After(h, end + Takes(m)) /\ After(h, end + Takes(m)) \in Bytes
    <2>1. After(After(h, end), Takes(m)) = After(h, end + Takes(m))
      BY <1>3, <1>7, AfterFacts
    <2>2. After(h, end + Takes(m)) \in Bytes
      BY <1>3, <1>7, AfterFacts
    <2> QED BY <1>5, <2>1, <2>2
  <1>11. b \in BufferRecs
    <2>1. b = [mem |-> b.mem, head |-> b.head, tail |-> b.tail, frbufsz |-> b.frbufsz]
      BY DEF msg_to_end_buffer
    <2> HIDE DEF b
    <2> QED BY <1>3, <1>7, <1>9, <1>10, <2>1 DEF BufferRecs
  <1> HIDE DEF b, end
  <1>12. /\ s1 \in Seq(Messages) /\ Len(s1) = n + 1 /\ \A i \in 1 .. n : s1[i] = s[i]
         /\ s1[n + 1] = m
    BY AppendProperties
  <1>13. /\ \A i \in 1 .. n + 1 : off1[i] = off[i] /\ off[i] \in 0 .. bufsz
         /\ off1[n + 2] = end + Takes(m) /\ off1[n + 1] = end
    <2>1. \A i \in 1 .. n + 1 : off[i] \in 0 .. bufsz
      BY <1>2, LaidFacts
    <2> QED BY <1>3, <2>1 DEF end
  <1>14. off1 \in Offsets(s1)
    <2>1. (n + 1) + 1 = n + 2
      BY <1>3
    <2>2. \A i \in 1 .. n + 1 : off[i] \in 0 .. bufsz
      BY <1>13
    <2>3. \A i \in 1 .. n + 2 : i <= n + 1 => i \in 1 .. n + 1
      BY <1>3
    <2>4. off1 \in [1 .. n + 2 -> 0 .. bufsz]
      BY <1>7, <2>2, <2>3
    <2> QED BY <1>12, <2>1, <2>4 DEF Offsets
  <1> HIDE DEF off1, s1
  <1>15. \A i \in 1 .. n + 1 : i \in 1 .. n \/ i = n + 1
    BY <1>3
  <1>16. \A i \in 1 .. n + 2 : i \in 1 .. n + 1 \/ i = n + 2
    BY <1>3
  <1>17. off1[1] = 0 /\ off1[n + 2] = bufsz - b.frbufsz
    <2>1. 1 \in 1 .. n + 1 /\ off[1] = 0
      BY <1>2, <1>3 DEF Laid
    <2> QED BY <1>7, <1>9, <1>13, <2>1
  <1>18. \A i \in 1 .. n + 1 : off1[i + 1] = off1[i] + Takes(s1[i])
    <2>1. ASSUME NEW i \in 1 .. n PROVE off1[i + 1] = off1[i] + Takes(s1[i])
      <3>1. i \in 1 .. n + 1 /\ i + 1 \in 1 .. n + 1
        BY <1>3
      <3>2. off[i + 1] = off[i] + Takes(s[i])
        BY <1>2 DEF Laid
      <3> QED BY <1>12, <1>13, <3>1, <3>2
    <2>2. off1[(n + 1) + 1] = off1[n + 1] + Takes(s1[n + 1])
      <3>1. (n + 1) + 1 = n + 2
        BY <1>3
      <3> QED BY <1>12, <1>13, <3>1
    <2> QED BY <1>15, <2>1, <2>2
  <1>19. \A i \in 1 .. n : off[i] + Takes(s[i]) <= end /\ Takes(s[i]) \in Nat
                           /\ off[i] + Takes(s[i]) <= bufsz
    <2> SUFFICES ASSUME NEW i \in 1 .. n
                 PROVE  off[i] + Takes(s[i]) <= end /\ Takes(s[i]) \in Nat
                        /\ off[i] + Takes(s[i]) <= bufsz
      OBVIOUS
    <2>1. Takes(s[i]) \in Nat /\ off[i] \in 0 .. bufsz - 1
      BY <1>2, LaidFacts
    <2>2. n + 1 \in 1 .. n + 1 /\ i < n + 1
      BY <1>3
    <2>3. off[i] + Takes(s[i]) <= off[n + 1]
      BY <1>2, <2>2 DEF Laid
    <2> QED BY <1>3, <1>7, <2>1, <2>3 DEF end
  <1>20. \A i \in 1 .. n + 1, j \in 1 .. n + 2 : i < j => off1[i] + Takes(s1[i]) <= off1[j]
    <2> SUFFICES ASSUME NEW i \in 1 .. n + 1, NEW j \in 1 .. n + 2, i < j
                 PROVE  off1[i] + Takes(s1[i]) <= off1[j]
      OBVIOUS
    <2>1. CASE i = n + 1
      <3>1. j = n + 2
        BY <1>3, <2>1
      <3> QED BY <1>4, <1>7, <1>12, <1>13, <2>1, <3>1
    <2>2. CASE i \in 1 .. n /\ j \in 1 .. n + 1
      <3>1. off[i] + Takes(s[i]) <= off[j]
        BY <1>2, <2>2 DEF Laid
      <3> QED BY <1>12, <1>13, <2>2, <3>1
    <2>3. CASE i \in 1 .. n /\ j = n + 2
      <3>1. /\ off1[i] = off[i] /\ s1[i] = s[i] /\ off1[j] = end + Takes(m)
            /\ off[i] \in 0 .. bufsz
        BY <1>12, <1>13, <2>3
      <3>2. off[i] + Takes(s[i]) <= end /\ Takes(s[i]) \in Nat
        BY <1>19, <2>3
      <3> QED BY <1>4, <1>7, <3>1, <3>2
    <2> QED BY <1>15, <1>16, <2>1, <2>2, <2>3
  <1>21. Aligned(After(h, end + Takes(m)))
    <2>1. /\ HEADERSZ + MsgSize[m] <= bufsz /\ Takes(m) = HEADERSZ + ROUND_BUFFER_SIZE(MsgSize[m])
      BY <1>3, <1>4, <1>7 DEF Takes
    <2>2. Aligned(After(buf.tail, HEADERSZ + ROUND_BUFFER_SIZE(MsgSize[m])))
      BY <1>4, <1>8, <2>1, PlacesAre
    <2> QED BY <1>10, <2>1, <2>2
  <1>22. \A i \in 1 .. n + 2 : Aligned(After(b.head, off1[i]))
    <2>1. \A i \in 1 .. n + 1 : Aligned(After(h, off[i]))
      BY <1>2 DEF Laid
    <2> QED BY <1>9, <1>13, <1>16, <1>21, <2>1
  <1>23. \A i \in 1 .. n : /\ Stored(b, After(h, off[i]), s[i])
                           /\ After(h, off[i]) # buf.tail
    <2> SUFFICES ASSUME NEW i \in 1 .. n
                 PROVE  /\ Stored(b, After(h, off[i]), s[i])
                        /\ After(h, off[i]) # buf.tail
      OBVIOUS
    <2>1. s[i] \in Messages /\ off[i] \in 0 .. bufsz - 1
      BY <1>2, LaidFacts
    <2>2. Stored(buf, After(h, off[i]), s[i])
      BY <1>2 DEF Laid
    <2>3. off[i] + Takes(s[i]) <= end /\ off[i] + Takes(s[i]) <= bufsz
      BY <1>19
    <2>4. Spared(buf, b, After(h, end), m)
      BY <1>5, <1>9
    <2>5. end \in 0 .. bufsz - 1 /\ end + Takes(m) <= bufsz
      BY <1>7
    <2>6. off[i] + Takes(s[i]) <= end \/ end + Takes(m) <= off[i]
      BY <2>3
    <2> DEFINE x == off[i]
    <2> HIDE DEF x
    <2>7. /\ Stored(b, After(h, x), s[i])
          /\ After(h, x) # After(h, end)
      <3>1. /\ x \in 0 .. bufsz - 1 /\ x + Takes(s[i]) <= bufsz
            /\ Stored(buf, After(h, x), s[i])
            /\ x + Takes(s[i]) <= end \/ end + Takes(m) <= x
        BY <2>1, <2>2, <2>3, <2>6 DEF x
      <3> QED BY <1>3, <2>1, <2>4, <2>5, <3>1, StaysLemma
    <2> QED BY <1>5, <2>7 DEF x
  <1>24. \A i \in 1 .. n + 1 : Stored(b, After(b.head, off1[i]), s1[i])
    <2>1. ASSUME NEW i \in 1 .. n PROVE Stored(b, After(b.head, off1[i]), s1[i])
      <3>1. i \in 1 .. n + 1
        BY <1>3
      <3> QED BY <1>9, <1>12, <1>13, <1>23, <3>1
    <2>2. Stored(b, After(b.head, off1[n + 1]), s1[n + 1])
      BY <1>5, <1>9, <1>12, <1>13
    <2> QED BY <1>15, <2>1, <2>2
  <1>25. \A c \in Headers(b) : \E i \in 1 .. n + 1 : c = After(b.head, off1[i])
    <2> SUFFICES ASSUME NEW c \in Headers(b)
                 PROVE  \E i \in 1 .. n + 1 : c = After(b.head, off1[i])
      OBVIOUS
    <2>1. c \in Bytes /\ b.mem[c].msg = NoMsg /\ b.mem[c].n > 0
      BY DEF Headers
    <2>2. CASE c = buf.tail
      <3>1. n + 1 \in 1 .. n + 1
        BY <1>3
      <3> QED BY <1>5, <1>9, <1>13, <2>2, <3>1
    <2>3. CASE \E j \in 0 .. MsgSize[m] - 1 : b.mem[c] = Byte(m, j)
      <3>1. b.mem[c].msg = m
        BY <2>3 DEF Byte
      <3> QED BY <2>1, <3>1, ObjectAssumption
    <2>4. CASE b.mem[c] = buf.mem[c]
      <3>1. c \in Headers(buf)
        BY <2>1, <2>4 DEF Headers
      <3>2. PICK i \in 1 .. n : c = After(h, off[i])
        BY <1>2, <3>1 DEF Laid
      <3>3. i \in 1 .. n + 1
        BY <1>3
      <3> QED BY <1>9, <1>13, <3>2, <3>3
    <2> QED BY <1>9, <2>1, <2>2, <2>3, <2>4
  <1>26. Aligned(b.frbufsz)
    BY <1>4, <1>5, <1>6, <1>9, AlignedFacts
  <1>27. Laid(b, s1, off1)
    <2>1. Len(s1) + 1 = n + 2
      BY <1>3, <1>12
    <2>2. b.tail = After(b.head, off1[n + 2])
      BY <1>9, <1>10, <1>13
    <2> QED BY <1>11, <1>12, <1>17, <1>18, <1>20, <1>22, <1>24, <1>25, <1>26, <2>1, <2>2 DEF Laid
  <1>28. BufferContents(b) = s1 /\ BufferOK(b)
    BY <1>12, <1>14, <1>27, BufferContentsAre DEF BufferOK
  <1>29. BufferContents(buf) = s
    BY <1>2, BufferContentsAre
  <1> QED BY <1>6, <1>9, <1>28, <1>29 DEF b, s1

(* buffer_to_msg takes the first one, and the others stay where they are:  *)
(* their distances from the head get shorter by what it took.              *)
LEMMA ReceiveBufferLemma ==
  ASSUME NEW buf, BufferOK(buf), ~is_buffer_empty(buf)
  PROVE  /\ BufferOK(buffer_to_msg(buf))
         /\ BufferContents(buf) # <<>> /\ Head(BufferContents(buf)) \in Messages
         /\ buffer_to_msg(buf).frbufsz = buf.frbufsz + Takes(Head(BufferContents(buf)))
         /\ BufferContents(buffer_to_msg(buf)) = Tail(BufferContents(buf))
  <1>1. PICK s \in Seq(Messages) : \E off \in Offsets(s) : Laid(buf, s, off)
    BY DEF BufferOK
  <1>2. PICK off \in Offsets(s) : Laid(buf, s, off)
    BY <1>1
  <1> DEFINE b  == buffer_to_msg(buf)
             n  == Len(s)
             h  == buf.head
             m  == s[1]
             t  == Takes(m)
             s1 == Tail(s)
             off1 == [i \in 1 .. n |-> off[i + 1] - t]
  <1>3. /\ bufsz \in Nat \ {0} /\ HEADERSZ \in Nat \ {0} /\ n \in Nat
        /\ buf \in BufferRecs /\ h \in Bytes
    BY <1>2, LaidFacts
  <1>4. off[1] = 0 /\ off[n + 1] = bufsz - buf.frbufsz /\ buf.frbufsz \in 0 .. bufsz
        /\ Aligned(buf.frbufsz) /\ buf.tail = After(h, off[n + 1])
    BY <1>2 DEF Laid, BufferRecs
  <1>5. n > 0
    <2>1. buf.frbufsz # bufsz
      BY DEF is_buffer_empty
    <2> QED BY <1>3, <1>4, <2>1
  <1>6. 1 \in 1 .. n /\ s # <<>>
    BY <1>3, <1>5, EmptySeq
  <1>7. /\ m \in Messages /\ t \in Nat /\ t <= bufsz /\ off[1 + 1] = t
        /\ MsgSize[m] \in Nat \ {0} /\ HEADERSZ + MsgSize[m] <= t
        /\ After(h, 0) = h
    <2>1. /\ m \in Messages /\ t \in Nat /\ t <= bufsz /\ off[1] + t = off[1 + 1]
          /\ MsgSize[m] \in Nat \ {0} /\ HEADERSZ + MsgSize[m] <= t
      <3>1. ASSUME NEW j \in 1 .. Len(s)
            PROVE  /\ s[j] \in Messages /\ Takes(s[j]) <= bufsz
                   /\ off[j] + Takes(s[j]) = off[j + 1]
        <4>1. s[j] \in Messages
          BY ElementOfSeq
        <4>2. Takes(s[j]) <= bufsz
          BY <1>2, LaidFacts
        <4>3. off[j] + Takes(s[j]) = off[j + 1]
          BY <1>2 DEF Laid
        <4> QED BY <4>1, <4>2, <4>3
      <3>2. m \in Messages /\ t <= bufsz /\ off[1] + t = off[1 + 1]
        <4> HIDE DEF n
        <4> QED BY <1>6, <3>1
      <3> HIDE DEF m
      <3>3. /\ MsgSize[m] \in Nat \ {0} /\ HEADERSZ + MsgSize[m] <= Takes(m)
            /\ Takes(m) \in Nat
        BY <3>2, TakesFacts
      <3> QED BY <3>2, <3>3
    <2>2. After(h, 0) = h
      <3>1. 0 \in 0 .. bufsz
        BY <1>3
      <3> QED BY <1>3, <3>1, AfterFacts
    <2> QED BY <1>4, <2>1, <2>2
  <1>8. Aligned(h) /\ Stored(buf, h, m)
    <2>1. 1 \in 1 .. n + 1
      BY <1>3
    <2>2. Aligned(After(h, off[1])) /\ Stored(buf, After(h, off[1]), m)
      BY <1>2, <1>6, <2>1 DEF Laid
    <2> QED BY <1>4, <1>7, <2>2
  <1>9. HEADERSZ + MsgSize[m] <= bufsz /\ t = HEADERSZ + ROUND_BUFFER_SIZE(MsgSize[m])
        /\ t \in 0 .. bufsz /\ 0 \in 0 .. bufsz - 1 /\ t > 0
    BY <1>3, <1>7 DEF Takes
  <1>10. LET start == Advance(h, HEADERSZ) IN
        /\ Cells(start, MsgSize[m]) = {After(h, HEADERSZ + j) : j \in 0 .. MsgSize[m] - 1}
        /\ Behind(start, MsgSize[m]) = After(h, t)
    BY <1>3, <1>7, <1>8, <1>9, PlacesAre
  <1> HIDE DEF m, t
  <1>11. /\ b.head = After(h, t) /\ b.tail = buf.tail /\ b.frbufsz = buf.frbufsz + t
         /\ b = [mem |-> b.mem, head |-> b.head, tail |-> b.tail, frbufsz |-> b.frbufsz]
         /\ b.mem = [c \in Bytes |->
                       IF c \in {h} \cup {After(h, HEADERSZ + j) : j \in 0 .. MsgSize[m] - 1}
                       THEN Nothing ELSE buf.mem[c]]
    <2>1. buf.mem[h].n = MsgSize[m]
      BY <1>8 DEF Stored, Header
    <2>2. /\ b.head = Behind(Advance(h, HEADERSZ), MsgSize[m]) /\ b.tail = buf.tail
          /\ b.frbufsz = buf.frbufsz + HEADERSZ + ROUND_BUFFER_SIZE(MsgSize[m])
          /\ b = [mem |-> b.mem, head |-> b.head, tail |-> b.tail, frbufsz |-> b.frbufsz]
          /\ b.mem = [c \in Bytes |->
                        IF c \in {h} \cup Cells(Advance(h, HEADERSZ), MsgSize[m])
                        THEN Nothing ELSE buf.mem[c]]
      BY <2>1 DEF buffer_to_msg
    <2>3. ROUND_BUFFER_SIZE(MsgSize[m]) \in Nat
      BY <1>7, RoundFacts
    <2>4. buf.frbufsz + HEADERSZ + ROUND_BUFFER_SIZE(MsgSize[m]) = buf.frbufsz + t
      BY <1>3, <1>4, <1>9, <2>3
    <2> HIDE DEF b
    <2> QED BY <1>10, <2>2, <2>4
  <1> HIDE DEF b
  <1>12. /\ s1 \in Seq(Messages) /\ Len(s1) = n - 1 /\ \A i \in 1 .. n - 1 : s1[i] = s[i + 1]
         /\ Head(s) = m
    BY <1>6, HeadTailProperties DEF m
  <1>13. \A i \in 1 .. n :
           /\ off1[i] = off[i + 1] - t /\ off[i + 1] \in 0 .. bufsz /\ off1[i] \in 0 .. bufsz
           /\ After(b.head, off1[i]) = After(h, off[i + 1])
    <2> SUFFICES ASSUME NEW i \in 1 .. n
                 PROVE  /\ off[i + 1] \in 0 .. bufsz /\ off[i + 1] - t \in 0 .. bufsz
                        /\ After(b.head, off[i + 1] - t) = After(h, off[i + 1])
      OBVIOUS
    <2>1. i + 1 \in 1 .. n + 1 /\ 1 < i + 1
      BY <1>3
    <2>2. off[i + 1] \in 0 .. bufsz /\ off[1] + t <= off[i + 1]
      <3>1. off[1] + Takes(s[1]) <= off[i + 1]
        BY <1>2, <1>6, <2>1 DEF Laid
      <3>2. off[i + 1] \in 0 .. bufsz
        BY <1>2, <2>1, LaidFacts
      <3> QED BY <3>1, <3>2 DEF t, m
    <2> DEFINE x == off[i + 1]
    <2>3. x \in 0 .. bufsz /\ t <= x
      BY <1>4, <1>7, <2>2
    <2> HIDE DEF x
    <2>4. x - t \in 0 .. bufsz /\ t + (x - t) = x /\ t + (x - t) <= bufsz
      BY <1>3, <1>7, <2>3
    <2>5. /\ off[i + 1] - t \in 0 .. bufsz /\ t + (off[i + 1] - t) = off[i + 1]
          /\ t + (off[i + 1] - t) <= bufsz
      BY <2>4 DEF x
    <2>6. After(After(h, t), off[i + 1] - t) = After(h, t + (off[i + 1] - t))
      BY <1>3, <1>9, <2>5, AfterFacts
    <2> QED BY <1>11, <2>2, <2>5, <2>6
  <1>14. off1 \in Offsets(s1)
    <2>1. (n - 1) + 1 = n
      BY <1>3
    <2>2. off1 \in [1 .. n -> 0 .. bufsz]
      BY <1>13
    <2> QED BY <1>12, <2>1, <2>2 DEF Offsets
  <1> HIDE DEF off1, s1
  <1>15. n \in 1 .. n /\ (n - 1) + 1 = n
         /\ \A i \in 1 .. n - 1 : i \in 1 .. n /\ i + 1 \in 1 .. n
    BY <1>3, <1>5
  <1>16. b.tail = After(b.head, off1[n]) /\ off1[n] = bufsz - b.frbufsz /\ b.frbufsz \in 0 .. bufsz
    <2>1. off1[n] = off[n + 1] - t /\ off1[n] \in 0 .. bufsz
          /\ After(b.head, off1[n]) = After(h, off[n + 1])
      BY <1>13, <1>15
    <2>2. off1[n] = bufsz - (buf.frbufsz + t) /\ buf.frbufsz + t \in 0 .. bufsz
      BY SMTT(30), <1>3, <1>4, <1>7, <2>1
    <2> QED BY <1>4, <1>11, <2>1, <2>2
  <1>17. b \in BufferRecs
    <2>1. Nothing \in [msg : Messages \cup {NoMsg}, n : Nat]
      BY DEF Nothing, Header
    <2>2. b.mem \in [Bytes -> [msg : Messages \cup {NoMsg}, n : Nat]]
      BY <1>3, <1>11, <2>1 DEF BufferRecs
    <2>3. b.head \in Bytes /\ b.tail \in Bytes
      <3>1. After(h, t) \in Bytes
        BY <1>3, <1>9, AfterFacts
      <3> QED BY <1>3, <1>11, <3>1 DEF BufferRecs
    <2> QED BY <1>11, <1>16, <2>2, <2>3 DEF BufferRecs
  <1>18. off1[1] = 0
    BY <1>6, <1>7, <1>13
  <1>19. \A i \in 1 .. n - 1 : off1[i + 1] = off1[i] + Takes(s1[i])
    <2> SUFFICES ASSUME NEW i \in 1 .. n - 1 PROVE off1[i + 1] = off1[i] + Takes(s1[i])
      OBVIOUS
    <2>1. off1[i] = off[i + 1] - t /\ off1[i + 1] = off[(i + 1) + 1] - t /\ off[i + 1] \in 0 .. bufsz
      BY <1>13, <1>15
    <2>2. off[(i + 1) + 1] = off[i + 1] + Takes(s[i + 1]) /\ Takes(s[i + 1]) \in Nat
      <3>1. Takes(s[i + 1]) \in Nat
        BY <1>2, <1>15, LaidFacts
      <3> QED BY <1>2, <1>15, <3>1 DEF Laid
    <2>3. s1[i] = s[i + 1]
      BY <1>12
    <2> QED BY <1>7, <2>1, <2>2, <2>3
  <1>20. \A i \in 1 .. n - 1, j \in 1 .. n : i < j => off1[i] + Takes(s1[i]) <= off1[j]
    <2> SUFFICES ASSUME NEW i \in 1 .. n - 1, NEW j \in 1 .. n, i < j
                 PROVE  off1[i] + Takes(s1[i]) <= off1[j]
      OBVIOUS
    <2>1. /\ off1[i] = off[i + 1] - t /\ off1[j] = off[j + 1] - t
          /\ off[i + 1] \in 0 .. bufsz /\ off[j + 1] \in 0 .. bufsz
      BY <1>13, <1>15
    <2>2. i + 1 \in 1 .. n /\ j + 1 \in 1 .. n + 1 /\ i + 1 < j + 1
      BY <1>3
    <2>3. off[i + 1] + Takes(s[i + 1]) <= off[j + 1] /\ Takes(s[i + 1]) \in Nat
      <3>1. Takes(s[i + 1]) \in Nat
        BY <1>2, <2>2, LaidFacts
      <3> QED BY <1>2, <2>2, <3>1 DEF Laid
    <2>4. s1[i] = s[i + 1]
      BY <1>12
    <2> QED BY <1>7, <2>1, <2>3, <2>4
  <1>21. \A i \in 1 .. n : Aligned(After(b.head, off1[i]))
    <2> SUFFICES ASSUME NEW i \in 1 .. n PROVE Aligned(After(h, off[i + 1]))
      BY <1>13
    <2>1. i + 1 \in 1 .. n + 1
      BY <1>3
    <2> QED BY <1>2, <2>1 DEF Laid
  <1>22. \A i \in 1 .. n - 1 : Stored(b, After(b.head, off1[i]), s1[i])
    <2> SUFFICES ASSUME NEW i \in 1 .. n - 1
                 PROVE  Stored(b, After(h, off[i + 1]), s[i + 1])
      BY <1>12, <1>13, <1>15
    <2>1. /\ s[i + 1] \in Messages /\ off[i + 1] \in 0 .. bufsz - 1
          /\ off[i + 1] + Takes(s[i + 1]) = off[(i + 1) + 1] /\ off[(i + 1) + 1] \in 0 .. bufsz
      <3>1. \A j \in 1 .. n :
              /\ s[j] \in Messages /\ off[j] \in 0 .. bufsz - 1
              /\ off[j] + Takes(s[j]) = off[j + 1] /\ off[j + 1] \in 0 .. bufsz
        BY <1>2, LaidFacts
      <3>2. i + 1 \in 1 .. n
        BY <1>15
      <3> HIDE DEF n
      <3> QED BY <3>1, <3>2
    <2>2. Stored(buf, After(h, off[i + 1]), s[i + 1])
      BY <1>2, <1>15 DEF Laid
    <2>3. 0 + t <= off[i + 1]
      <3>1. i + 1 \in 1 .. n + 1 /\ 1 < i + 1
        BY <1>3
      <3>2. off[1] + Takes(s[1]) <= off[i + 1]
        BY <1>2, <1>6, <3>1 DEF Laid
      <3> QED BY <1>4, <3>2 DEF t, m
    <2>4. off[i + 1] + Takes(s[i + 1]) <= bufsz /\ 0 + t <= bufsz
      BY <1>3, <1>7, <2>1
    <2>5. Spared(buf, b, After(h, 0), m)
      BY <1>7, <1>11 DEF Spared
    <2> DEFINE x == off[i + 1]
               y == 0
               m1 == s[i + 1]
    <2>6. /\ x \in 0 .. bufsz - 1 /\ x + Takes(m1) <= bufsz
          /\ y \in 0 .. bufsz - 1 /\ y + Takes(m) <= bufsz
          /\ x + Takes(m1) <= y \/ y + Takes(m) <= x
          /\ Stored(buf, After(h, x), m1) /\ Spared(buf, b, After(h, y), m)
          /\ m1 \in Messages
      BY <1>9, <2>1, <2>2, <2>3, <2>4, <2>5 DEF t
    <2> HIDE DEF x, y, m1
    <2>7. Stored(b, After(h, x), m1)
      BY <1>3, <1>7, <2>6, StaysLemma
    <2> QED BY <2>7 DEF x, m1
  <1>23. \A c \in Headers(b) : \E i \in 1 .. n - 1 : c = After(b.head, off1[i])
    <2> SUFFICES ASSUME NEW c \in Headers(b)
                 PROVE  \E i \in 1 .. n - 1 : c = After(b.head, off1[i])
      OBVIOUS
    <2>1. c \in Bytes /\ b.mem[c].msg = NoMsg /\ b.mem[c].n > 0
      BY DEF Headers
    <2>2. c # h /\ b.mem[c] = buf.mem[c]
      <3>1. b.mem[c] # Nothing
        BY <2>1 DEF Nothing, Header
      <3> QED BY <1>11, <2>1, <3>1
    <2>3. c \in Headers(buf)
      BY <2>1, <2>2 DEF Headers
    <2>4. PICK i \in 1 .. n : c = After(h, off[i])
      BY <1>2, <2>3 DEF Laid
    <2>5. i # 1
      BY <1>4, <1>7, <2>2, <2>4
    <2>6. i - 1 \in 1 .. n - 1 /\ i - 1 \in 1 .. n /\ (i - 1) + 1 = i
      BY <1>3, <2>5
    <2>7. After(b.head, off1[i - 1]) = After(h, off[(i - 1) + 1])
      BY <1>13, <2>6
    <2> QED BY <2>4, <2>6, <2>7
  <1>24. Aligned(b.frbufsz)
    <2>1. Aligned(t)
      BY <1>7, TakesFacts DEF t
    <2> QED BY SMTT(30), <1>4, <1>11, <2>1, AlignedFacts
  <1>25. Laid(b, s1, off1)
    <2>1. Len(s1) + 1 = n
      BY <1>3, <1>12
    <2> QED BY <1>12, <1>16, <1>17, <1>18, <1>19, <1>20, <1>21, <1>22, <1>23, <1>24, <2>1 DEF Laid
  <1>26. BufferContents(b) = s1 /\ BufferOK(b)
    BY <1>12, <1>14, <1>25, BufferContentsAre DEF BufferOK
  <1>27. BufferContents(buf) = s
    BY <1>2, BufferContentsAre
  <1> QED BY <1>6, <1>7, <1>11, <1>12, <1>26, <1>27 DEF b, s1, t

(* All bytes are free only if there is no message. *)
LEMMA EmptyIs ==
  ASSUME NEW buf, BufferOK(buf)
  PROVE  /\ buf \in BufferRecs /\ buf.frbufsz \in 0 .. bufsz
         /\ is_buffer_empty(buf) <=> BufferContents(buf) = <<>>
  <1>1. PICK s \in Seq(Messages) : \E off \in Offsets(s) : Laid(buf, s, off)
    BY DEF BufferOK
  <1>2. PICK off \in Offsets(s) : Laid(buf, s, off)
    BY <1>1
  <1>3. BufferContents(buf) = s /\ buf \in BufferRecs
    BY <1>2, BufferContentsAre, LaidFacts
  <1>4. /\ bufsz \in Nat \ {0} /\ Len(s) \in Nat /\ buf.frbufsz \in 0 .. bufsz
        /\ off[1] = 0 /\ off[Len(s) + 1] = bufsz - buf.frbufsz
    <2>1. bufsz \in Nat \ {0} /\ Len(s) \in Nat /\ buf \in BufferRecs
      BY <1>2, LaidFacts
    <2> QED BY <1>2, <2>1 DEF Laid, BufferRecs
  <1>5. CASE s = <<>>
    <2>1. Len(s) = 0
      BY <1>5
    <2> QED BY <1>3, <1>4, <1>5, <2>1 DEF is_buffer_empty
  <1>6. CASE s # <<>>
    <2>1. ~is_buffer_empty(buf)
      <3>1. Len(s) # 0 /\ 1 \in 1 .. Len(s) /\ Len(s) + 1 \in 1 .. Len(s) + 1 /\ 1 < Len(s) + 1
        BY <1>4, <1>6, EmptySeq
      <3>2. /\ off[1] + Takes(s[1]) <= off[Len(s) + 1]
        BY <1>2, <3>1 DEF Laid
      <3>3. /\ Takes(s[1]) \in Nat /\ MsgSize[s[1]] \in Nat \ {0} /\ HEADERSZ \in Nat \ {0}
            /\ HEADERSZ + MsgSize[s[1]] <= Takes(s[1])
        BY <1>2, <3>1, LaidFacts
      <3>4. Takes(s[1]) > 0
        BY <3>3
      <3> QED BY <1>4, <3>2, <3>3, <3>4 DEF is_buffer_empty
    <2> QED BY <1>3, <1>4, <1>6, <2>1
  <1> QED BY <1>5, <1>6

-----------------------------------------------------------------------------
(***************************************************************************)
(* The queues of raw_queue_buffer.c as mailboxes.                          *)
(***************************************************************************)

(* A queue keeps messages only while no task waits and it exists. *)
BufInv ==
  /\ buf_q \in [Buffers -> BufferRecs]
  /\ \A q \in Buffers :
       /\ BufferOK(buf_q[q])
       /\ Waiting(k, q) # {} \/ q \notin exists => BufferContents(buf_q[q]) = <<>>

(* A step of the mailbox, or of nothing; and the step as the buffer shows  *)
(* it.                                                                     *)
ByteAbstract(q) == UNCHANGED ByteBox(q)!vars \/ ByteBox(q)!Next

ByteMail(q) ==
  MailStep(q, [m \in Messages |-> HEADERSZ + ROUND_BUFFER_SIZE(MsgSize[m])], bufsz,
           BufferContents(buf_q[q]), BufferContents(buf_q'[q]),
           buf_q[q].frbufsz, buf_q'[q].frbufsz)

(* Every such step is one of the mailbox. *)
LEMMA ByteMailbox ==
  ASSUME NEW q \in Buffers, ByteMail(q)
  PROVE  ByteAbstract(q)
  <1> DEFINE weight == [m \in Messages |-> HEADERSZ + ROUND_BUFFER_SIZE(MsgSize[m])]
             b == BufferContents(buf_q[q])
             b1 == BufferContents(buf_q'[q])
             r == buf_q[q].frbufsz
             r1 == buf_q'[q].frbufsz
  <1>1. CASE Outside(q) /\ b1 = b /\ r1 = r
    <2>1. (q \in exists') = (q \in exists)
      BY <1>1 DEF Outside
    <2>2. CASE Waiting(k', q) \subseteq Waiting(k, q) /\ GotFrom(q)' = GotFrom(q)
      <3> DEFINE ts == Waiting(k, q) \ Waiting(k', q)
      <3>1. Waiting(k', q) = Waiting(k, q) \ ts /\ ts \in SUBSET Waiting(k, q)
        BY <2>2
      <3> HIDE DEF ts
      <3>2. ByteBox(q)!Leave(ts)
        BY <1>1, <2>1, <2>2, <3>1 DEF ByteBox!Leave, Waiting
      <3> QED BY <3>1, <3>2 DEF ByteAbstract, ByteBox!Next, Waiting
    <2>3. ASSUME Waiting(k', q) = Waiting(k, q), NEW t \in Tasks,
                 GotFrom(q)' = [GotFrom(q) EXCEPT ![t] = NoMsg]
          PROVE  ByteAbstract(q)
      <3>1. ByteBox(q)!Return(t)
        BY <1>1, <2>1, <2>3 DEF ByteBox!Return, Waiting
      <3> QED BY <3>1 DEF ByteAbstract, ByteBox!Next
    <2> QED BY <1>1, <2>2, <2>3 DEF Outside
  <1>2. CASE Opened(q) /\ b1 = b /\ r1 = r
    <2>1. ByteBox(q)!Create
      BY <1>2 DEF ByteBox!Create, Opened, Waiting
    <2> QED BY <2>1 DEF ByteAbstract, ByteBox!Next
  <1>3. ASSUME Same(q), Waiting(k, q) = {}, NEW m \in Messages, r >= weight[m],
               r1 = r - weight[m], b1 \in {Append(b, m), <<m>> \o b}
        PROVE  ByteAbstract(q)
    <2>1. ByteBox(q)!Keep(m)
      BY <1>3 DEF ByteBox!Keep, Same, Waiting
    <2> QED BY <2>1 DEF ByteAbstract, ByteBox!Next
  <1>4. CASE Same(q) /\ b # <<>> /\ b1 = Tail(b) /\ r1 = r + weight[Head(b)]
    <2>1. ByteBox(q)!Take
      BY <1>4 DEF ByteBox!Take, Same, Waiting
    <2> QED BY <2>1 DEF ByteAbstract, ByteBox!Next
  <1>5. CASE Same(q) /\ b1 = <<>> /\ r1 = bufsz
    <2>1. ByteBox(q)!Flush
      BY <1>5 DEF ByteBox!Flush, Same, Waiting
    <2> QED BY <2>1 DEF ByteAbstract, ByteBox!Next
  <1>6. CASE Closed(q) /\ b1 = <<>> /\ r1 = bufsz
    <2>1. ByteBox(q)!Delete
      BY <1>6 DEF ByteBox!Delete, Closed, Waiting
    <2> QED BY <2>1 DEF ByteAbstract, ByteBox!Next
  <1>7. CASE Waits(q) /\ b = <<>> /\ b1 = b /\ r1 = r
    <2>1. PICK t \in Tasks : Waiting(k', q) = Waiting(k, q) \cup {t}
      BY <1>7 DEF Waits
    <2>2. ByteBox(q)!Wait(t)
      BY <1>7, <2>1 DEF ByteBox!Wait, Waits, Waiting
    <2> QED BY <2>2 DEF ByteAbstract, ByteBox!Next
  <1>8. ASSUME NEW m \in Messages, Handed(q, m), b = <<>>, b1 = b, r1 = r
        PROVE  ByteAbstract(q)
    <2>1. PICK W : /\ W # {} /\ W \subseteq Waiting(k, q)
                   /\ W = Waiting(k, q) \/ \E t \in Waiting(k, q) : W = {t}
                   /\ Waiting(k', q) = Waiting(k, q) \ W
                   /\ GotFrom(q)' = [t \in Tasks |-> IF t \in W THEN m ELSE GotFrom(q)[t]]
      BY <1>8 DEF Handed, Delivered
    <2>2. ByteBox(q)!Give(m, W)
      BY <1>8, <2>1 DEF ByteBox!Give, Handed, Waiting
    <2>3. W = ToSet(k.block_list[q]) \/ \E t \in ToSet(k.block_list[q]) : W = {t}
      BY <2>1 DEF Waiting
    <2> QED BY <2>2, <2>3 DEF ByteAbstract, ByteBox!Next
  <1> HIDE DEF weight, b, b1, r, r1
  <1>9. MailStep(q, weight, bufsz, b, b1, r, r1)
    BY DEF ByteMail, weight, b, b1, r, r1
  <1> QED BY <1>1, <1>2, <1>3, <1>4, <1>5, <1>6, <1>7, <1>8, <1>9 DEF MailStep

(* The services of raw_queue_buffer.c. *)
LEMMA BufferServices ==
  ASSUME CoreInv, MsgInv, BufInv, NEW q \in Buffers, q \in Objects,
         \/ raw_queue_buffer_create(q) \/ raw_queue_buffer_flush(q) \/ raw_queue_buffer_delete(q)
         \/ \E m \in Messages : BufferPostKeeps(q, m) \/ BufferPostDelivers(q, m)
         \/ \E t \in Tasks : \/ BufferReceive(t, q)
                             \/ \E timeout \in Timeouts : BufferReceiveBlocks(t, q, timeout)
  PROVE  ByteMail(q) /\ \E r : BufferOK(r) /\ buf_q' = [buf_q EXCEPT ![q] = r]
  <1> DEFINE r == buf_q[q]
             weight == [m \in Messages |-> HEADERSZ + ROUND_BUFFER_SIZE(MsgSize[m])]
             Mail(r1) == MailStep(q, weight, bufsz, BufferContents(r), BufferContents(r1),
                                  r.frbufsz, r1.frbufsz)
  <1>1. /\ BufferOK(r) /\ buf_q \in [Buffers -> BufferRecs]
        /\ Waiting(k, q) # {} \/ q \notin exists => BufferContents(r) = <<>>
    BY DEF BufInv
  <1>2. k.block_list[q] = <<>> <=> Waiting(k, q) = {}
    <2>1. k.block_list[q] \in Seq(Tasks)
      BY DEF CoreInv, KInv, KStates
    <2> QED BY <2>1, EmptyLemma DEF Waiting
  <1>3. is_buffer_empty(r) <=> BufferContents(r) = <<>>
    BY <1>1, EmptyIs
  <1>4. ASSUME NEW r1, BufferOK(r1), buf_q' = [buf_q EXCEPT ![q] = r1], Mail(r1)
        PROVE  ByteMail(q) /\ \E x : BufferOK(x) /\ buf_q' = [buf_q EXCEPT ![q] = x]
    <2>1. buf_q'[q] = r1
      BY <1>1, <1>4
    <2>2. ByteMail(q)
      BY <1>4, <2>1 DEF ByteMail
    <2> QED BY <1>4, <2>2
  <1>5. buf_q' = buf_q => buf_q' = [buf_q EXCEPT ![q] = r]
    BY <1>1
  <1>6. \A m \in Messages : weight[m] = Takes(m)
    BY DEF Takes
  <1> HIDE DEF r, weight, Mail
  <1>7. CASE raw_queue_buffer_create(q)
    <2>1. Opened(q) /\ buf_q' = [buf_q EXCEPT ![q] = EmptyBuffer]
      BY <1>7, OpenedStep DEF raw_queue_buffer_create
    <2>2. BufferContents(r) = <<>> /\ r.frbufsz = bufsz
      BY <1>1, <1>3, <2>1 DEF Opened, is_buffer_empty
    <2>3. Mail(EmptyBuffer)
      BY <2>1, <2>2, EmptyBufferLemma DEF Mail, MailStep
    <2> QED BY <1>4, <2>1, <2>3, EmptyBufferLemma
  <1>8. CASE raw_queue_buffer_flush(q)
    <2>1. Same(q) /\ buf_q' = [buf_q EXCEPT ![q] = EmptyBuffer]
      BY <1>8, SameStep DEF raw_queue_buffer_flush
    <2>2. Mail(EmptyBuffer)
      BY <2>1, EmptyBufferLemma DEF Mail, MailStep
    <2> QED BY <1>4, <2>1, <2>2, EmptyBufferLemma
  <1>9. CASE raw_queue_buffer_delete(q)
    <2>1. Closed(q) /\ buf_q' = [buf_q EXCEPT ![q] = EmptyBuffer]
      BY <1>9, ClosedStep DEF raw_queue_buffer_delete
    <2>2. Mail(EmptyBuffer)
      BY <2>1, EmptyBufferLemma DEF Mail, MailStep
    <2> QED BY <1>4, <2>1, <2>2, EmptyBufferLemma
  <1>10. ASSUME NEW t \in Tasks, BufferReceive(t, q)
         PROVE  ByteMail(q) /\ \E x : BufferOK(x) /\ buf_q' = [buf_q EXCEPT ![q] = x]
    <2>1. /\ Same(q) /\ ~is_buffer_empty(r)
          /\ buf_q' = [buf_q EXCEPT ![q] = buffer_to_msg(r)]
      BY <1>10, SameStep DEF BufferReceive, r
    <2>2. /\ BufferOK(buffer_to_msg(r))
          /\ BufferContents(r) # <<>> /\ Head(BufferContents(r)) \in Messages
          /\ buffer_to_msg(r).frbufsz = r.frbufsz + Takes(Head(BufferContents(r)))
          /\ BufferContents(buffer_to_msg(r)) = Tail(BufferContents(r))
      BY <1>1, <2>1, ReceiveBufferLemma
    <2>3. buffer_to_msg(r).frbufsz = r.frbufsz + weight[Head(BufferContents(r))]
      BY <1>6, <2>2
    <2>4. Mail(buffer_to_msg(r))
      BY <2>1, <2>2, <2>3 DEF Mail, MailStep
    <2> QED BY <1>4, <2>1, <2>2, <2>4
  <1>11. ASSUME NEW m \in Messages, BufferPostKeeps(q, m)
         PROVE  ByteMail(q) /\ \E x : BufferOK(x) /\ buf_q' = [buf_q EXCEPT ![q] = x]
    <2>1. /\ Same(q) /\ Waiting(k, q) = {} /\ is_queue_buffer_free(r, MsgSize[m])
          /\ buf_q' = [buf_q EXCEPT ![q] = msg_to_end_buffer(r, m)]
      BY <1>2, <1>11, SameStep DEF BufferPostKeeps, r
    <2>2. /\ BufferOK(msg_to_end_buffer(r, m)) /\ Takes(m) <= r.frbufsz
          /\ msg_to_end_buffer(r, m).frbufsz = r.frbufsz - Takes(m)
          /\ BufferContents(msg_to_end_buffer(r, m)) = Append(BufferContents(r), m)
      BY <1>1, <2>1, PostBufferLemma
    <2>3. /\ r.frbufsz >= weight[m]
          /\ msg_to_end_buffer(r, m).frbufsz = r.frbufsz - weight[m]
      <3>1. r.frbufsz \in Nat /\ Takes(m) \in Nat
        BY <1>1, EmptyIs, TakesFacts
      <3> QED BY <1>6, <2>2, <3>1
    <2>4. Mail(msg_to_end_buffer(r, m))
      BY <2>1, <2>2, <2>3 DEF Mail, MailStep
    <2> QED BY <1>4, <2>1, <2>2, <2>4
  <1>12. ASSUME NEW m \in Messages, BufferPostDelivers(q, m)
         PROVE  ByteMail(q) /\ \E x : BufferOK(x) /\ buf_q' = [buf_q EXCEPT ![q] = x]
    <2>1. Handed(q, m) /\ buf_q' = buf_q
      BY <1>12, ServedStep DEF BufferPostDelivers
    <2>2. BufferContents(r) = <<>>
      BY <1>1, <2>1 DEF Handed, Delivered
    <2>3. Mail(r)
      BY <2>1, <2>2 DEF Mail, MailStep
    <2> QED BY <1>1, <1>4, <1>5, <2>1, <2>3
  <1>13. ASSUME NEW t \in Tasks, NEW timeout \in Timeouts, BufferReceiveBlocks(t, q, timeout)
         PROVE  ByteMail(q) /\ \E x : BufferOK(x) /\ buf_q' = [buf_q EXCEPT ![q] = x]
    <2>1. Waits(q) /\ buf_q' = buf_q /\ is_buffer_empty(r)
      BY <1>13, WaitsStep DEF BufferReceiveBlocks, r
    <2>2. Mail(r)
      BY <1>3, <2>1 DEF Mail, MailStep
    <2> QED BY <1>1, <1>4, <1>5, <2>1, <2>2
  <1> QED BY <1>7, <1>8, <1>9, <1>10, <1>11, <1>12, <1>13

(* The invariant is kept by steps like these ... *)
LEMMA BuffersKept ==
  ASSUME BufInv, buf_q' \in [Buffers -> BufferRecs],
         \A q \in Buffers : ByteMail(q) /\ BufferOK(buf_q'[q])
  PROVE  BufInv' /\ \A q \in Buffers : ByteAbstract(q)
  <1>1. ASSUME NEW q \in Buffers
        PROVE  /\ BufferOK(buf_q'[q]) /\ ByteAbstract(q)
               /\ Waiting(k', q) # {} \/ q \notin exists' => BufferContents(buf_q'[q]) = <<>>
    <2>1. Waiting(k, q) # {} \/ q \notin exists => BufferContents(buf_q[q]) = <<>>
      BY DEF BufInv
    <2>2. Waiting(k', q) # {} \/ q \notin exists' => BufferContents(buf_q'[q]) = <<>>
      BY <2>1, MailKept DEF ByteMail
    <2> QED BY <2>2, ByteMailbox
  <1> QED BY <1>1 DEF BufInv

LEMMA BuffersOutside ==
  ASSUME BufInv, buf_q' = buf_q, \A q \in Buffers : Outside(q)
  PROVE  BufInv' /\ \A q \in Buffers : ByteAbstract(q)
  <1>1. \A q \in Buffers : ByteMail(q) /\ BufferOK(buf_q'[q])
    BY DEF BufInv, ByteMail, MailStep
  <1> QED BY <1>1, BuffersKept DEF BufInv

(* ... and the steps of the queues are. *)
LEMMA BuffersServed ==
  ASSUME CoreInv, MsgInv, BufInv, QueueBufferNext
  PROVE  BufInv' /\ \A q \in Buffers : ByteAbstract(q)
  <1>1. PICK q \in Buffers :
          \/ raw_queue_buffer_create(q) \/ raw_queue_buffer_flush(q) \/ raw_queue_buffer_delete(q)
          \/ \E m \in Messages : BufferPostKeeps(q, m) \/ BufferPostDelivers(q, m)
          \/ \E t \in Tasks : \/ BufferReceive(t, q)
                              \/ \E timeout \in Timeouts : BufferReceiveBlocks(t, q, timeout)
    BY DEF QueueBufferNext
  <1>2. q \in Objects
    BY QueueBufferAssumption
  <1>3. QueueKernel(q)
    BY <1>1 DEF QueueKernel, raw_queue_buffer_create, raw_queue_buffer_flush, raw_queue_buffer_delete,
                BufferReceive, BufferPostKeeps, BufferPostDelivers, BufferReceiveBlocks
  <1>4. ByteMail(q) /\ \E r : BufferOK(r) /\ buf_q' = [buf_q EXCEPT ![q] = r]
    BY <1>1, <1>2, BufferServices
  <1>5. PICK r : BufferOK(r) /\ buf_q' = [buf_q EXCEPT ![q] = r]
    BY <1>4
  <1>6. buf_q' \in [Buffers -> BufferRecs] /\ \A x \in Buffers : BufferOK(buf_q'[x])
    BY <1>5, EmptyIs DEF BufInv
  <1>7. ASSUME NEW x \in Buffers \ {q} PROVE ByteMail(x)
    <2>1. buf_q'[x] = buf_q[x]
      BY <1>5 DEF BufInv
    <2>2. x \in Objects \ {q}
      BY QueueBufferAssumption
    <2>3. Outside(x)
      BY <1>2, <1>3, <2>2, QueueOutside
    <2> QED BY <2>1, <2>3 DEF ByteMail, MailStep
  <1> QED BY <1>4, <1>6, <1>7, BuffersKept

LEMMA NextBuffers ==
  ASSUME IInv, BufInv, Next
  PROVE  BufInv' /\ \A q \in Buffers : ByteAbstract(q)
  <1>1. CoreInv /\ MsgInv
    BY DEF IInv
  <1>2. CASE QueueBufferNext
    BY <1>1, <1>2, BuffersServed
  <1>3. ASSUME buf_q' = buf_q, QueueNext \/ QueueSizeNext
        PROVE  \A q \in Buffers : Outside(q)
    <2>1. PICK o \in Queues \cup SizeQueues : QueueKernel(o)
      BY <1>3, QueueKernels
    <2>2. /\ \A q \in Buffers : q \in Objects \ {o}
          /\ o \in Objects
      BY KindsDisjoint, QueueAssumption, QueueSizeAssumption
    <2> QED BY <1>1, <2>1, <2>2, QueueOutside
  <1> QED BY <1>2, <1>3, NextQueues, BuffersOutside

-----------------------------------------------------------------------------
(***************************************************************************)
(* All queues together.                                                    *)
(***************************************************************************)

(* The inductive invariant of the queues, on top of that of the tasks. *)
QInv == RingInv /\ ListInv /\ BufInv

LEMMA InitQueues == Init => QInv /\ RingInit /\ ListInit /\ BufferInit
  <1> SUFFICES ASSUME Init PROVE QInv /\ RingInit /\ ListInit /\ BufferInit
    OBVIOUS
  <1>1. CoreInv /\ exists = {} /\ call = [t \in Tasks |-> NoObj]
    BY InitInv DEF Init, ObjectInit, IInv
  <1>2. \A q \in Queues \cup SizeQueues \cup Buffers :
          Waiting(k, q) = {} /\ q \notin exists /\ GotFrom(q) = [t \in Tasks |-> NoMsg]
    <2> SUFFICES ASSUME NEW q \in Queues \cup SizeQueues \cup Buffers
                 PROVE  Waiting(k, q) = {} /\ q \notin exists /\ GotFrom(q) = [t \in Tasks |-> NoMsg]
      OBVIOUS
    <2>1. q \in Objects
      BY QueueAssumption, QueueSizeAssumption, QueueBufferAssumption
    <2>2. Waiting(k, q) = {}
      BY <1>1, <2>1 DEF CoreInv
    <2>3. \A t \in Tasks : ~Granted(t, q)
      BY <1>1, <2>1, TaskAssumption DEF Granted
    <2> QED BY <1>1, <2>2, <2>3 DEF GotFrom
  <1>3. RingInv /\ RingInit
    <2>1. msg_q = [q \in Queues |-> EmptyRing]
      BY DEF Init, QueueInit
    <2>2. size - EmptyRing.current_numbers = size /\ EmptyRing \in Rings
      BY EmptyRingLemma, QueueAssumption DEF RingOK
    <2>3. RingInv
      BY <2>1, <2>2, EmptyRingLemma DEF RingInv
    <2>4. RingInit
      BY <1>2, <2>1, <2>2, EmptyRingLemma DEF RingInit, RingBox!Init, Waiting
    <2> QED BY <2>3, <2>4
  <1>4. ListInv /\ ListInit
    <2>1. list_q = [q \in SizeQueues |-> EmptyList]
      BY DEF Init, QueueSizeInit
    <2>2. /\ queue_msg_size - EmptyList.current_msg = queue_msg_size /\ EmptyList \in Lists
          /\ ListContents(EmptyList) = <<>> /\ ListOK(EmptyList)
      BY EmptyListLemma, ListEmpty, QueueSizeAssumption DEF ListOK
    <2>3. ListInv
      BY <2>1, <2>2 DEF ListInv
    <2>4. ListInit
      BY <1>2, <2>1, <2>2 DEF ListInit, ListBox!Init, Waiting, ListContents
    <2> QED BY <2>3, <2>4
  <1>5. BufInv /\ BufferInit
    <2>1. buf_q = [q \in Buffers |-> EmptyBuffer]
      BY DEF Init, QueueBufferInit
    <2>2. EmptyBuffer \in BufferRecs
      BY EmptyBufferLemma, EmptyIs
    <2>3. BufInv
      BY <2>1, <2>2, EmptyBufferLemma DEF BufInv
    <2>4. BufferInit
      BY <1>2, <2>1, EmptyBufferLemma DEF BufferInit, ByteBox!Init, Waiting
    <2> QED BY <2>3, <2>4
  <1> QED BY <1>3, <1>4, <1>5 DEF QInv

LEMMA StutterQueues ==
  ASSUME QInv, UNCHANGED vars
  PROVE  QInv'
  <1>1. k' = k /\ exists' = exists /\ msg_q' = msg_q /\ list_q' = list_q /\ buf_q' = buf_q
    BY DEF vars, objvars
  <1> QED BY <1>1 DEF QInv, RingInv, ListInv, BufInv, Waiting

(* The memory of every queue holds what its variables say: the ring        *)
(* between its indices (raw_queue.c), an order of the entries that both    *)
(* lists follow (raw_queue_size.c), headers and bytes one behind the other *)
(* (raw_queue_buffer.c); and no message is kept while a task waits.        *)
THEOREM QueueInvariance == Spec => []QInv
  <1>1. Init => QInv
    BY InitQueues
  <1>2. IInv /\ QInv /\ [Next]_vars => QInv'
    BY NextRings, NextLists, NextBuffers, StutterQueues DEF QInv
  <1> QED BY <1>1, <1>2, Invariance, PTL DEF Spec

(* Every entry of a queue of raw_queue_size.c is free or holds a message,  *)
(* and the free list ends behind its last entry, however entries went back *)
(* and forth between the lists.                                            *)
THEOREM EntriesAreKept == Spec => []NoEntryLost
  <1>1. QInv => NoEntryLost
    BY ListWhole DEF QInv, ListInv, NoEntryLost
  <1> QED BY <1>1, QueueInvariance, PTL

(* The three kinds of queues implement a mailbox: messages come out in     *)
(* order, whole, once, and never wait beside a task that waits for one,    *)
(* whatever timeouts, aborts, suspensions and deletions come between       *)
(* (raw_queue.c, raw_queue_size.c, raw_queue_buffer.c).                    *)
THEOREM QueuesKeepTheirPromise == Spec => QueuesAreMailboxes
  <1>1. Init => RingInit /\ ListInit /\ BufferInit
    BY InitQueues
  <1>2. IInv /\ QInv /\ [Next]_vars => [RingStep /\ ListStep /\ BufferStep]_vars
    <2> SUFFICES ASSUME IInv, QInv, Next PROVE RingStep /\ ListStep /\ BufferStep
      OBVIOUS
    <2>1. RingStep
      BY NextRings DEF QInv, RingStep, RingAbstract
    <2>2. ListStep
      BY NextLists DEF QInv, ListStep, ListAbstract
    <2>3. BufferStep
      BY NextBuffers DEF QInv, BufferStep, ByteAbstract
    <2> QED BY <2>1, <2>2, <2>3
  <1> QED BY <1>1, <1>2, Invariance, QueueInvariance, PTL DEF Spec, QueuesAreMailboxes
=============================================================================
