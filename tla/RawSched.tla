------------------------------ MODULE RawSched ------------------------------
(***************************************************************************)
(* Preemption in RAW-OS on the Cortex-M3: raw_sched.c, the scheduler lock  *)
(* of raw_task.c, interrupt entry and exit of raw_system.c and the PendSV  *)
(* handler of port/cpu.asm.                                                *)
(*                                                                         *)
(* Every kernel service has the same outline: it disables interrupts,      *)
(* applies operations of RawRunQueue to raw_ready_queue, enables           *)
(* interrupts and then calls raw_sched.  Between the last two steps, and   *)
(* between the moment PendSV is requested and the moment it runs,          *)
(* interrupt handlers run services of their own.  This module models the   *)
(* outline step by step for the task that runs and for nested handlers;    *)
(* which operations a critical section performs, and on which tasks, is    *)
(* left open, so that it covers all services at once.                      *)
(***************************************************************************)
EXTENDS RawRunQueue

CONSTANTS Idle,              \* raw_idle_obj
          TickTask,          \* tick_task_obj: runs tick_list_update
          NoTask,            \* the null task pointer
          InitPrio,          \* the priority each task is created with
          NewPrios,          \* priorities raw_task_priority_change may ask for
          INT_NESTED_LEVEL,  \* limit of nested interrupts
          LockLimit,         \* limit of raw_sched_lock (250 in the code)
          PolicyTasks,       \* tasks raw_set_sched_way is called for
          TimeTotal          \* time_total, the ticks of a full time slice

ASSUME SchedAssumption ==
  /\ Idle \in Tasks
  /\ NoTask \notin Tasks
  /\ InitPrio \in [Tasks -> Prios]
  /\ \A t \in Tasks : InitPrio[t] = IDLE_PRIORITY <=> t = Idle
  /\ NewPrios \subseteq Prios \ {IDLE_PRIORITY}
  /\ PolicyTasks \subseteq Tasks
  /\ INT_NESTED_LEVEL \in Nat
  /\ LockLimit \in Nat
  /\ TimeTotal \in Nat \ {0}

VARIABLES
  raw_os_active,    \* has raw_os_start been called?
  rq,               \* raw_ready_queue
  priority,         \* the priority field of the tasks
  raw_task_active,  \* the task the processor executes
  high_ready_obj,   \* the task the next PendSV switches to
  raw_int_nesting,  \* nested interrupt handlers
  systick,          \* SysTick_Handler: "none", entered ("due"), ticked
                    \* ("done") in this burst of nested handlers
  raw_sched_lock,   \* nested raw_disable_sche calls
  time_slice,       \* ticks left of each task's slice
  sched_way,        \* "RR" or "FIFO"
  pendsv,           \* is a PendSV exception pending?
  crit,             \* what the open critical section did so far
  pc,               \* "run": application code; "sched": about to raw_sched()
  late              \* ghost: a service changed the run queue without a
                    \* scheduling decision after it

vars == <<raw_os_active, rq, priority, raw_task_active, high_ready_obj,
          raw_int_nesting, systick, raw_sched_lock, time_slice, sched_way,
          pendsv, crit, pc, late>>

intVars == <<raw_int_nesting, systick>>
osVars == <<raw_os_active, intVars, raw_sched_lock, pendsv>>
taskVars == <<raw_task_active, high_ready_obj, pc, late>>
sliceVars == <<time_slice, sched_way>>

Ready(t) == OnReadyList(rq, t, priority[t])

(* crit: interrupts enabled; nothing done yet; only the priority of the    *)
(* running task changed; anything.                                         *)
CritStates == {"off", "clean", "own", "dirty"}

(***************************************************************************)
(* Who executes: the running task does when no handler does and PendSV,    *)
(* which the processor takes before it returns to the task, is not         *)
(* pending.                                                                *)
(***************************************************************************)
TaskRuns == raw_os_active /\ raw_int_nesting = 0 /\ ~pendsv

HandlerRuns == raw_int_nesting > 0

TaskAt(label) == TaskRuns /\ crit = "off" /\ pc[raw_task_active] = label

InCritical == crit # "off"

-----------------------------------------------------------------------------

(* The state raw_os_init leaves: the idle task is ready, nothing runs. *)
Init ==
  /\ raw_os_active = FALSE
  /\ rq = add_ready_list_end(run_queue_init, Idle, IDLE_PRIORITY)
  /\ priority = InitPrio
  /\ raw_task_active = NoTask
  /\ high_ready_obj = NoTask
  /\ raw_int_nesting = 0
  /\ systick = "none"
  /\ raw_sched_lock = 0
  /\ time_slice = [t \in Tasks |-> TimeTotal]
  /\ sched_way = [t \in Tasks |-> "RR"]
  /\ pendsv = FALSE
  /\ crit = "off"
  /\ pc = [t \in Tasks |-> "run"]
  /\ late = FALSE

(* raw_task_create before raw_os_start: the task is ready, no switch. *)
BootCreate(t) ==
  /\ ~raw_os_active
  /\ ~Ready(t)
  /\ rq' = add_ready_list_end(rq, t, priority[t])
  /\ UNCHANGED <<osVars, taskVars, sliceVars, priority, crit>>

raw_os_start ==
  /\ ~raw_os_active
  /\ raw_os_active' = TRUE
  /\ high_ready_obj' = get_ready_task(rq)
  /\ raw_task_active' = get_ready_task(rq)
  /\ pendsv' = TRUE
  /\ UNCHANGED <<rq, priority, intVars, raw_sched_lock, sliceVars,
                 crit, pc, late>>

(***************************************************************************)
(* Critical sections of kernel services, in a task or in a handler.        *)
(***************************************************************************)
CriticalEnter ==
  /\ TaskAt("run") \/ (HandlerRuns /\ crit = "off")
  /\ crit' = "clean"
  /\ UNCHANGED <<osVars, taskVars, sliceVars, rq, priority>>

Dirty == crit' = "dirty" /\ UNCHANGED <<osVars, sliceVars>>

(* A task becomes ready: put, resume, delete of an object, wait abort, a   *)
(* timeout.                                                                *)
MakeReady(t) ==
  /\ InCritical
  /\ ~Ready(t)
  /\ rq' = add_ready_list(rq, t, priority[t], priority[raw_task_active])
  /\ Dirty
  /\ UNCHANGED <<taskVars, priority>>

(* raw_task_create at run time, for a control block that is not in use. *)
CreateTask(t) ==
  /\ InCritical /\ raw_int_nesting = 0
  /\ ~Ready(t) /\ t # raw_task_active
  /\ rq' = add_ready_list_end(rq, t, InitPrio[t])
  /\ priority' = [priority EXCEPT ![t] = InitPrio[t]]
  /\ pc' = [pc EXCEPT ![t] = "run"]
  /\ Dirty
  /\ UNCHANGED <<raw_task_active, high_ready_obj, late>>

(* Fault: SYSTEM_LOCK_PROCESS forgotten, the lock holder may block. *)
MakeUnready_unlocked(t) ==
  /\ InCritical
  /\ Ready(t) /\ t # Idle
  /\ rq' = remove_ready_list(rq, t, priority[t])
  /\ Dirty
  /\ UNCHANGED <<taskVars, priority>>

(* A task stops being ready: it pends, sleeps, is suspended or deleted.    *)
(* The idle task never does, nor the running task while it holds the lock  *)
(* (SYSTEM_LOCK_PROCESS).                                                  *)
MakeUnready(t) ==
  /\ InCritical
  /\ Ready(t) /\ t # Idle
  /\ t = raw_task_active => raw_sched_lock = 0
  /\ rq' = remove_ready_list(rq, t, priority[t])
  /\ Dirty
  /\ UNCHANGED <<taskVars, priority>>

(* raw_sleep(0), all its critical section does. *)
Yield ==
  /\ crit = "clean" /\ raw_int_nesting = 0
  /\ Ready(raw_task_active)
  /\ rq' = move_to_ready_list_end(rq, raw_task_active,
                                  priority[raw_task_active])
  /\ Dirty
  /\ UNCHANGED <<taskVars, priority>>

(* change_internal_task_priority, for raw_task_priority_change and for the *)
(* priority protocols of the mutexes.                                      *)
change_internal_task_priority(t, p) ==
  /\ InCritical
  /\ t # Idle
  /\ LET without == remove_ready_list(rq, t, priority[t])
     IN  rq' = IF ~Ready(t) THEN rq
               ELSE IF t = raw_task_active
                    THEN add_ready_list_head(without, t, p)
                    ELSE add_ready_list_end(without, t, p)
  /\ priority' = [priority EXCEPT ![t] = p]
  /\ crit' = IF t = raw_task_active /\ crit # "dirty" THEN "own" ELSE "dirty"
  /\ UNCHANGED <<osVars, taskVars, sliceVars>>

(* The service enables interrupts; in a task it calls raw_sched next. *)
CriticalExit ==
  /\ InCritical
  /\ crit' = "off"
  /\ pc' = IF HandlerRuns \/ crit = "clean"
           THEN pc ELSE [pc EXCEPT ![raw_task_active] = "sched"]
  /\ UNCHANGED <<osVars, sliceVars, rq, priority, raw_task_active,
                 high_ready_obj, late>>

(* Two services return without raw_sched although they changed the run     *)
(* queue: raw_mutex_get and raw_mutex_put, when all they did was to change *)
(* the priority of the running task, and tick_list_update.                 *)
CriticalExitNoSched ==
  /\ InCritical /\ ~HandlerRuns
  /\ \/ crit = "own"
     \/ crit = "dirty" /\ raw_task_active = TickTask
  /\ Ready(raw_task_active)
  /\ crit' = "off"
  /\ late' = TRUE
  /\ UNCHANGED <<osVars, sliceVars, rq, priority, raw_task_active,
                 high_ready_obj, pc>>

-----------------------------------------------------------------------------

(* get_ready_task, and a PendSV request unless the running task is it. *)
Decide ==
  /\ high_ready_obj' = get_ready_task(rq)
  /\ pendsv' = (pendsv \/ get_ready_task(rq) # raw_task_active)
  /\ late' = FALSE

raw_sched ==
  /\ TaskAt("sched")
  /\ pc' = [pc EXCEPT ![raw_task_active] = "run"]
  /\ IF raw_sched_lock > 0
     THEN UNCHANGED <<high_ready_obj, pendsv, late>>
     ELSE Decide
  /\ UNCHANGED <<raw_os_active, rq, priority, raw_task_active,
                 intVars, raw_sched_lock, sliceVars, crit>>

raw_disable_sche ==
  /\ TaskAt("run")
  /\ raw_sched_lock < LockLimit
  /\ raw_sched_lock' = raw_sched_lock + 1
  /\ UNCHANGED <<raw_os_active, rq, priority, intVars, pendsv,
                 taskVars, sliceVars, crit>>

(* Faults: the check that the scheduler is locked is missing; the last    *)
(* unlock does not schedule.                                               *)
raw_enable_sche_unchecked ==
  /\ TaskAt("run")
  /\ raw_sched_lock' = raw_sched_lock - 1
  /\ pc' = IF raw_sched_lock' > 0
           THEN pc ELSE [pc EXCEPT ![raw_task_active] = "sched"]
  /\ UNCHANGED <<raw_os_active, rq, priority, raw_task_active,
                 high_ready_obj, intVars, sliceVars, pendsv, crit, late>>

raw_enable_sche_silent ==
  /\ TaskAt("run")
  /\ raw_sched_lock > 0
  /\ raw_sched_lock' = raw_sched_lock - 1
  /\ UNCHANGED <<raw_os_active, rq, priority, intVars, pendsv, taskVars,
                 sliceVars, crit>>

raw_enable_sche ==
  /\ TaskAt("run")
  /\ raw_sched_lock > 0
  /\ raw_sched_lock' = raw_sched_lock - 1
  /\ pc' = IF raw_sched_lock' > 0
           THEN pc ELSE [pc EXCEPT ![raw_task_active] = "sched"]
  /\ UNCHANGED <<raw_os_active, rq, priority, raw_task_active,
                 high_ready_obj, intVars, sliceVars, pendsv, crit, late>>

raw_set_sched_way(t, policy) ==
  /\ TaskAt("run")
  /\ sched_way' = [sched_way EXCEPT ![t] = policy]
  /\ UNCHANGED <<osVars, taskVars, rq, priority, time_slice, crit>>

raw_enter_interrupt ==
  /\ raw_os_active
  /\ crit = "off"
  /\ raw_int_nesting < INT_NESTED_LEVEL
  /\ raw_int_nesting' = raw_int_nesting + 1
  /\ UNCHANGED <<raw_os_active, rq, priority, raw_sched_lock, pendsv,
                 taskVars, sliceVars, crit>>

EnterHandler == raw_enter_interrupt /\ UNCHANGED systick

(* SysTick_Handler does not preempt itself. *)
SysTick_Handler == raw_enter_interrupt /\ systick = "none" /\ systick' = "due"

FinishNesting ==
  /\ HandlerRuns
  /\ crit = "off"
  /\ raw_int_nesting' = raw_int_nesting - 1
  /\ IF raw_int_nesting' > 0
     THEN UNCHANGED systick
     ELSE systick # "due" /\ systick' = "none"
  /\ UNCHANGED <<raw_os_active, rq, priority, raw_task_active,
                 raw_sched_lock, sliceVars, crit, pc>>

(* Faults: the last handler returns without a scheduling decision; it      *)
(* ignores the scheduler lock.                                             *)
raw_finish_int_silent ==
  FinishNesting /\ UNCHANGED <<high_ready_obj, pendsv, late>>

raw_finish_int_unlocked ==
  /\ FinishNesting
  /\ IF raw_int_nesting' > 0
     THEN UNCHANGED <<high_ready_obj, pendsv, late>>
     ELSE Decide

raw_finish_int ==
  /\ FinishNesting
  /\ IF raw_int_nesting' > 0 \/ raw_sched_lock > 0
     THEN UNCHANGED <<high_ready_obj, pendsv, late>>
     ELSE Decide

(* The part of raw_time_tick that changes the run queue itself.  It looks  *)
(* at the first task of the list of the running task's priority.           *)
calculate_time_slice ==
  LET prio == priority[raw_task_active]
      list == rq.task_ready_list[prio]
      t    == list[1]
  IN  /\ HandlerRuns /\ systick = "due"
      /\ crit = "off"
      /\ systick' = "done"
      /\ IF Len(list) < 2 \/ sched_way[t] = "FIFO"
         THEN UNCHANGED <<rq, time_slice>>
         ELSE IF time_slice[t] > 1
         THEN /\ time_slice' = [time_slice EXCEPT ![t] = @ - 1]
              /\ UNCHANGED rq
         ELSE /\ time_slice' = [time_slice EXCEPT ![t] = TimeTotal]
              /\ rq' = move_to_ready_list_end(rq, t, prio)
      /\ UNCHANGED <<raw_os_active, raw_int_nesting, raw_sched_lock, pendsv,
                     taskVars, priority, sched_way, crit>>

(* PendSV has the lowest exception priority and runs when no handler does. *)
PendSV_Handler ==
  /\ pendsv
  /\ raw_int_nesting = 0
  /\ pendsv' = FALSE
  /\ raw_task_active' = high_ready_obj
  /\ UNCHANGED <<raw_os_active, rq, priority, high_ready_obj, intVars,
                 raw_sched_lock, sliceVars, crit, pc, late>>

-----------------------------------------------------------------------------

Kernel ==
  \/ CriticalExit
  \/ raw_sched
  \/ raw_finish_int
  \/ PendSV_Handler

Services ==
  \/ CriticalEnter
  \/ CriticalExitNoSched
  \/ Yield
  \/ \E t \in Tasks :
       \/ MakeReady(t) \/ MakeUnready(t) \/ CreateTask(t)
       \/ \E p \in NewPrios : change_internal_task_priority(t, p)

Application ==
  \/ raw_os_start
  \/ raw_disable_sche
  \/ raw_enable_sche
  \/ \E t \in Tasks : BootCreate(t)
  \/ \E t \in PolicyTasks, policy \in {"RR", "FIFO"} : raw_set_sched_way(t, policy)

Interrupts ==
  \/ EnterHandler
  \/ SysTick_Handler
  \/ calculate_time_slice

Next == Kernel \/ Services \/ Application \/ Interrupts

Spec == Init /\ [][Next]_vars

(***************************************************************************)
(* Fairness.  Critical sections end; SysTick keeps firing; the interrupt   *)
(* load is finite, so the handlers in progress all return again and again, *)
(* and what they preempt (raw_sched, PendSV) gets its turn.  Nothing is    *)
(* assumed of the tasks.                                                   *)
(***************************************************************************)
LastHandlerReturns == raw_int_nesting = 1 /\ raw_finish_int

Fairness ==
  /\ WF_vars(raw_os_start)
  /\ WF_vars(CriticalExit)
  /\ SF_vars(SysTick_Handler)
  /\ SF_vars(calculate_time_slice)
  /\ SF_vars(raw_finish_int)
  /\ SF_vars(LastHandlerReturns)
  /\ SF_vars(raw_sched)
  /\ SF_vars(PendSV_Handler)

LiveSpec == Spec /\ Fairness

-----------------------------------------------------------------------------
(***************************************************************************)
(* Properties                                                              *)
(***************************************************************************)

(* Every variable has its type. *)
TypeOK ==
  /\ raw_os_active \in BOOLEAN
  /\ rq \in RunQueues
  /\ priority \in [Tasks -> Prios]
  /\ raw_task_active \in Tasks \cup {NoTask}
  /\ high_ready_obj \in Tasks \cup {NoTask}
  /\ raw_int_nesting \in 0 .. INT_NESTED_LEVEL
  /\ systick \in {"none", "due", "done"}
  /\ raw_sched_lock \in 0 .. LockLimit
  /\ time_slice \in [Tasks -> 1 .. TimeTotal]
  /\ sched_way \in [Tasks -> {"RR", "FIFO"}]
  /\ pendsv \in BOOLEAN
  /\ crit \in CritStates
  /\ pc \in [Tasks -> {"run", "sched"}]
  /\ late \in BOOLEAN

(* Whatever the services and the handlers do in between, the bitmap and    *)
(* the cached highest_priority of raw_ready_queue agree with the lists,    *)
(* which hold each task once, at its current priority: remove_ready_list   *)
(* and add_ready_list_* update them incrementally.                         *)
RunQueueConsistent == RunQueueOK(rq, priority)

(* When PendSV runs it loads high_ready_obj without looking at the run     *)
(* queue: at that point high_ready_obj is the head of the highest list,    *)
(* although handlers may have changed the queue since it was computed.     *)
SwitchTarget ==
  pendsv /\ raw_int_nesting = 0 => high_ready_obj = get_ready_task(rq)

(* A task executes application code only while it is ready: a task that    *)
(* blocked, or that a handler suspended, runs no further. With the         *)
(* scheduler unlocked it is the head of the highest ready list, unless its *)
(* last service returned without a scheduling decision: no wake-up is lost *)
(* between the change of the run queue and raw_sched, raw_finish_int or    *)
(* PendSV.                                                                 *)
RunningIsHighest ==
  TaskAt("run") =>
    /\ Ready(raw_task_active)
    /\ raw_sched_lock = 0 /\ ~late => raw_task_active = get_ready_task(rq)

(* SYSTEM_LOCK_PROCESS: while the scheduler is locked the task that runs   *)
(* is ready and no switch is under way.                                    *)
LockedTaskStays ==
  raw_sched_lock > 0 => Ready(raw_task_active) /\ ~pendsv

(* raw_disable_sche disables preemption: the processor is not given to     *)
(* another task while the lock is held, whatever handlers ready.           *)
NoSwitchWhileLocked ==
  [][raw_sched_lock > 0 => raw_task_active' = raw_task_active]_vars

(* A task that stays at the head of the highest ready list with the        *)
(* scheduler unlocked gets the processor, even after a service that did    *)
(* not call raw_sched: the exit of the next tick interrupt corrects it.       *)
HighestEventuallyRuns ==
  \A t \in Tasks :
    <>[](raw_os_active /\ raw_sched_lock = 0 /\ get_ready_task(rq) = t)
      => <>[](raw_task_active = t)
=============================================================================
