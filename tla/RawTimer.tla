------------------------------ MODULE RawTimer ------------------------------
(***************************************************************************)
(* The software timers of raw_timer.c: the timer task, the tick interrupt  *)
(* that wakes it, and the services of other tasks.                         *)
(*                                                                         *)
(* A service tests the state of the timer before it takes timer_mutex and  *)
(* changes the timer once it owns it: two steps, between which any other   *)
(* task or the timer task may run.  The timer task owns timer_mutex for    *)
(* one whole pass over the list of active timers, callbacks included.      *)
(* timer_mutex is a lock here (module RawMutex models mutexes) and         *)
(* timer_sem a count.  The list is the sequence of the timers in it.       *)
(***************************************************************************)
EXTENDS RawList

CONSTANTS Timers,         \* RAW_TIMER objects
          Callers,        \* tasks that call timer services
          TimerTask,      \* the timer task
          NoTask,
          TICKS,          \* raw_timer_count is counted modulo TICKS
          RAW_TIMER_RATE, \* system ticks per timer tick
          SemLimit,       \* bound on timer_sem: passes the timer task may lag
          Inits,          \* values the application uses for initial_ticks ...
          Reschedules     \* ... and for reschedule_ticks

ASSUME TimerAssumption ==
  /\ TimerTask \notin Callers /\ NoTask \notin Callers \cup {TimerTask} \cup Timers
  /\ TICKS \in Nat \ {0, 1}
  /\ RAW_TIMER_RATE \in Nat \ {0} /\ SemLimit \in Nat \ {0}
  /\ Inits \subseteq 1 .. TICKS - 1
  /\ Reschedules \subseteq 0 .. TICKS - 1

VARIABLES
  timer,            \* the fields of each RAW_TIMER
  timer_head,       \* the list of active timers
  raw_timer_count,
  raw_timer_ctrl,   \* system ticks until the next timer tick
  timer_sem,
  timer_mutex,      \* the owner of timer_mutex
  call,             \* call[t]: the service t is in, past its tests
  pass              \* the timer task: where it is in its loop

vars == <<timer, timer_head, raw_timer_count, raw_timer_ctrl, timer_sem,
          timer_mutex, call, pass>>

NoCall == [op |-> "none"]

(* The timer task waits for timer_sem. *)
Waiting == [at |-> "semaphore"]

Init ==
  /\ timer = [x \in Timers |-> [is_timer |-> FALSE, state |-> "NONE", match |-> 0,
                                init |-> 0, resched |-> 0]]
  /\ timer_head = <<>>
  /\ raw_timer_count = 0
  /\ raw_timer_ctrl = RAW_TIMER_RATE
  /\ timer_sem = 0
  /\ timer_mutex = NoTask
  /\ call = [t \in Callers |-> NoCall]
  /\ pass = Waiting

(* The ticks from now until x expires, in unsigned arithmetic. *)
Remaining(tm, x) == (tm[x].match - raw_timer_count) % TICKS

Linked(x) == x \in ToSet(timer_head)

-----------------------------------------------------------------------------
(* Services *)

Idle(t) == call[t] = NoCall

(* No service of x is in progress. *)
Exclusive(x) == \A t \in Callers : call[t] # NoCall => call[t].x # x

(* On memory no timer lives in; auto_activate goes on as raw_timer_activate. *)
raw_timer_create(t, x, init, resched, auto_activate) ==
  /\ Idle(t) /\ Exclusive(x)
  /\ ~timer[x].is_timer
  /\ timer' = [timer EXCEPT ![x] = [is_timer |-> TRUE, state |-> "DEACTIVE",
                                    match |-> 0, init |-> init, resched |-> resched]]
  /\ call' = IF auto_activate
             THEN [call EXCEPT ![t] = [op |-> "activate", x |-> x]] ELSE call
  /\ UNCHANGED <<timer_head, raw_timer_count, raw_timer_ctrl, timer_sem,
                 timer_mutex, pass>>

(* Fault: the state of the timer is not tested. *)
Passes_untested(x, op) == timer[x].is_timer

(* What each service tests before it takes the mutex. *)
Passes(x, op) ==
  /\ timer[x].is_timer
  /\ CASE op = "activate"   -> timer[x].state \notin {"ACTIVE", "DELETED"}
       [] op = "change"     -> timer[x].state = "DEACTIVE"
       [] op = "deactivate" -> timer[x].state \notin {"DEACTIVE", "DELETED"}
       [] op = "delete"     -> timer[x].state # "DELETED"

Check(t, c) ==
  /\ Idle(t)
  /\ Passes(c.x, c.op)
  /\ call' = [call EXCEPT ![t] = c]
  /\ UNCHANGED <<timer, timer_head, raw_timer_count, raw_timer_ctrl, timer_sem,
                 timer_mutex, pass>>

(* Fault: the mutex is not waited for. *)
Lock_always(t) ==
  /\ call[t] # NoCall
  /\ timer_mutex # t
  /\ timer_mutex' = t
  /\ UNCHANGED <<timer, timer_head, raw_timer_count, raw_timer_ctrl, timer_sem,
                 call, pass>>

Lock(t) ==
  /\ call[t] # NoCall
  /\ timer_mutex = NoTask
  /\ timer_mutex' = t
  /\ UNCHANGED <<timer, timer_head, raw_timer_count, raw_timer_ctrl, timer_sem,
                 call, pass>>

(* timer_list_priority_insert *)
Insert(list, tm, x) == SortedInsert(list, x, [y \in Timers |-> Remaining(tm, y)])

Started(x, ticks) ==
  [timer EXCEPT ![x].match = (raw_timer_count + ticks) % TICKS, ![x].state = "ACTIVE"]

(* The body of the service, up to raw_mutex_put. *)
Work(t) ==
  /\ timer_mutex = t
  /\ LET c == call[t]
         x == c.x
     IN  CASE c.op = "activate" ->
                /\ timer' = Started(x, timer[x].init)
                /\ timer_head' = Insert(timer_head, timer', x)
           [] c.op = "change" ->
                /\ timer' = [timer EXCEPT ![x].init = c.init, ![x].resched = c.resched]
                /\ UNCHANGED timer_head
           [] c.op = "deactivate" ->
                /\ timer' = [timer EXCEPT ![x].state = "DEACTIVE"]
                /\ timer_head' = list_delete(timer_head, x)
           [] c.op = "delete" ->
                /\ timer' = [timer EXCEPT ![x].state = "DELETED", ![x].is_timer = FALSE]
                /\ timer_head' = list_delete(timer_head, x)
  /\ timer_mutex' = NoTask
  /\ call' = [call EXCEPT ![t] = NoCall]
  /\ UNCHANGED <<raw_timer_count, raw_timer_ctrl, timer_sem, pass>>

-----------------------------------------------------------------------------
(* The tick interrupt and the timer task *)

call_timer_task ==
  /\ IF raw_timer_ctrl = 1
     THEN /\ timer_sem < SemLimit
          /\ raw_timer_ctrl' = RAW_TIMER_RATE
          /\ timer_sem' = timer_sem + 1
     ELSE /\ raw_timer_ctrl' = raw_timer_ctrl - 1
          /\ UNCHANGED timer_sem
  /\ UNCHANGED <<timer, timer_head, raw_timer_count, timer_mutex, call, pass>>

(* Fault: the last count of the semaphore is kept. *)
TimerWakes_late ==
  /\ pass = Waiting
  /\ timer_sem > 1
  /\ timer_sem' = timer_sem - 1
  /\ pass' = [at |-> "mutex"]
  /\ UNCHANGED <<timer, timer_head, raw_timer_count, raw_timer_ctrl, timer_mutex,
                 call>>

TimerWakes ==
  /\ pass = Waiting
  /\ timer_sem > 0
  /\ timer_sem' = timer_sem - 1
  /\ pass' = [at |-> "mutex"]
  /\ UNCHANGED <<timer, timer_head, raw_timer_count, raw_timer_ctrl, timer_mutex,
                 call>>

Scan(iter) == [at |-> "scan", iter |-> iter]

(* The element of the list after position i; NoTask stands for its head.   *)
After(list, i) == IF i < Len(list) THEN list[i + 1] ELSE NoTask

TimerLock ==
  /\ pass.at = "mutex"
  /\ timer_mutex = NoTask
  /\ timer_mutex' = TimerTask
  /\ raw_timer_count' = (raw_timer_count + 1) % TICKS
  /\ pass' = Scan(After(timer_head, 0))
  /\ UNCHANGED <<timer, timer_head, raw_timer_ctrl, timer_sem, call>>

Due == pass.at = "scan" /\ pass.iter # NoTask
         /\ timer[pass.iter].match = raw_timer_count

(* Fault: the next timer is taken from the list after this one moved in it. *)
NextIter_late(x, list) == After(list, IF x \in ToSet(list)
                                      THEN SelectInSeq(list, LAMBDA y : y = x) ELSE 0)

(* iter_temp: the timer behind x, read before x leaves the list.           *)
NextIter(x, list) == After(timer_head, SelectInSeq(timer_head, LAMBDA y : y = x))

Expire ==
  /\ Due
  /\ LET x    == pass.iter
         rest == list_delete(timer_head, x)
     IN  /\ IF timer[x].resched > 0
            THEN /\ timer' = Started(x, timer[x].resched)
                 /\ timer_head' = Insert(rest, timer', x)
            ELSE /\ timer' = [timer EXCEPT ![x].state = "DEACTIVE"]
                 /\ timer_head' = rest
         /\ pass' = [at |-> "callback", x |-> x, iter |-> NextIter(x, timer_head')]
  /\ UNCHANGED <<raw_timer_count, raw_timer_ctrl, timer_sem, timer_mutex, call>>

(* The callback of the timer returns; it may ask for the timer to stop.    *)
CallbackReturns(stop) ==
  /\ pass.at = "callback"
  /\ IF stop /\ timer[pass.x].state # "DEACTIVE"
     THEN /\ timer' = [timer EXCEPT ![pass.x].state = "DEACTIVE"]
          /\ timer_head' = list_delete(timer_head, pass.x)
     ELSE UNCHANGED <<timer, timer_head>>
  /\ pass' = Scan(pass.iter)
  /\ UNCHANGED <<raw_timer_count, raw_timer_ctrl, timer_sem, timer_mutex, call>>

PassEnds ==
  /\ pass.at = "scan" /\ ~Due
  /\ timer_mutex' = NoTask
  /\ pass' = Waiting
  /\ UNCHANGED <<timer, timer_head, raw_timer_count, raw_timer_ctrl, timer_sem,
                 call>>

TimerPass ==
  \/ TimerWakes \/ TimerLock \/ Expire \/ PassEnds
  \/ \E stop \in BOOLEAN : CallbackReturns(stop)

-----------------------------------------------------------------------------

(* raw_timer_change does not turn down initial_ticks 0, as                 *)
(* raw_timer_create does; the application does not ask for it.             *)
Changes ==
  {[op |-> "change", x |-> x, init |-> i, resched |-> r] :
     x \in Timers, i \in Inits, r \in Reschedules}

Calls == {[op |-> op, x |-> x] : op \in {"activate", "deactivate", "delete"}, x \in Timers}

Steps(t) ==
  \/ Lock(t) \/ Work(t)
  \/ \E x \in Timers, i \in Inits, r \in Reschedules, auto \in BOOLEAN :
       raw_timer_create(t, x, i, r, auto)

System == call_timer_task \/ TimerPass \/ \E t \in Callers : Steps(t)

(* The application calls the services of one timer one at a time.          *)
Next ==
  \/ System
  \/ \E t \in Callers, c \in Calls \cup Changes : Exclusive(c.x) /\ Check(t, c)

(* It does not. *)
NextRacing == System \/ \E t \in Callers, c \in Calls : Check(t, c)

Spec       == Init /\ [][Next]_vars
SpecRacing == Init /\ [][NextRacing]_vars

(* The tick goes on; the timer task runs when it can; so does a task that  *)
(* is in a service.  timer_mutex is handed to a task that waits for it, so *)
(* tasks that come later do not keep it from the timer task for ever.      *)
FairSpec ==
  /\ Spec
  /\ WF_vars(call_timer_task)
  /\ WF_vars(TimerPass) /\ SF_vars(TimerLock)
  /\ \A t \in Callers : WF_vars(Work(t))

-----------------------------------------------------------------------------
(***************************************************************************)
(* Properties                                                              *)
(***************************************************************************)

(* The list holds the active timers, each once, whoever stopped, deleted,  *)
(* restarted or expired them between the tests of a service and its work.  *)
ListHoldsActive ==
  /\ IsInjective(timer_head)
  /\ \A x \in Timers : Linked(x) <=> timer[x].state = "ACTIVE"

(* "sorted by remain time": although the list is only sorted at insertion *)
(* and the count wraps, the timer that expires first is always in front.   *)
SortedByRemain ==
  \A i \in 2 .. Len(timer_head) :
    Remaining(timer, timer_head[i - 1]) <= Remaining(timer, timer_head[i])

(* No timer misses its tick: the list stays sorted, and a timer whose time *)
(* has come is still ahead of the timer task in its pass.                  *)
NoneOverdue ==
  /\ SortedByRemain
  /\ \A i \in DOMAIN timer_head : Remaining(timer, timer_head[i]) = 0 =>
       /\ pass.at \in {"scan", "callback"}
       /\ \E j \in 1 .. i : timer_head[j] = pass.iter

(* raw_timer_deactivate and raw_timer_delete return only when no callback  *)
(* of the timer runs, and no timer changes in the middle of a pass.        *)
PassUndisturbed ==
  [][\A t \in Callers : Work(t) => pass.at \notin {"scan", "callback"}]_vars

(* A timer is started only when it is a stopped timer: RAW_SUCCESS of      *)
(* raw_timer_activate never links one that is active or deleted.           *)
OnlyStoppedTimersStart ==
  [][\A t \in Callers : Work(t) /\ call[t].op = "activate" =>
       timer[call[t].x].state = "DEACTIVE"]_vars

(* An active timer expires, unless it is stopped first. *)
ActiveTimersExpire ==
  \A x \in Timers :
    Linked(x) ~> (~Linked(x) \/ (pass.at = "callback" /\ pass.x = x))
=============================================================================
