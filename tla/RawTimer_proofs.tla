--------------------------- MODULE RawTimer_proofs ---------------------------
(***************************************************************************)
(* Safety of the software timers, proved for any number of timers and of   *)
(* tasks that use them, any modulus of the count and any lag of the timer  *)
(* task, of applications that call the services of a timer one at a time.  *)
(***************************************************************************)
EXTENDS RawTimer, RawList_proofs

Times == 0 .. TICKS - 1

TimerRecords ==
  [is_timer : BOOLEAN, state : {"NONE", "DEACTIVE", "ACTIVE", "DELETED"},
   match : Times, init : Times, resched : Times]

PassStates ==
  {Waiting, [at |-> "mutex"]} \cup {Scan(i) : i \in Timers \cup {NoTask}}
    \cup {[at |-> "callback", x |-> x, iter |-> i] : x \in Timers, i \in Timers \cup {NoTask}}

TypeOK ==
  /\ timer \in [Timers -> TimerRecords]
  /\ timer_head \in Seq(Timers)
  /\ raw_timer_count \in Times
  /\ timer_mutex \in Callers \cup {TimerTask, NoTask}
  /\ call \in [Callers -> {NoCall} \cup Calls \cup Changes]
  /\ pass \in PassStates

(* A control block is a timer from its creation to its deletion. *)
StateInv ==
  \A x \in Timers : timer[x].is_timer
    <=> timer[x].state \in {"DEACTIVE", "ACTIVE"}

(* A timer that can be started has time to run. *)
InitInv == \A x \in Timers : timer[x].is_timer => timer[x].init # 0

(* A service that is past its tests is the only one of its timer, which    *)
(* exists; one that starts a timer finds it stopped.  Only a task in a     *)
(* service owns the mutex.                                                 *)
CallInv ==
  /\ timer_mutex \in Callers => call[timer_mutex] # NoCall
  /\ \A t \in Callers : call[t] # NoCall =>
       /\ timer[call[t].x].is_timer
       /\ call[t].op = "activate" => timer[call[t].x].state = "DEACTIVE"
       /\ \A u \in Callers : call[u] # NoCall /\ call[u].x = call[t].x => u = t

InPass == pass.at \in {"scan", "callback"}

(* The timer task owns the mutex in a pass; the timer it looks at next is  *)
(* in the list and is not the one whose callback runs.                     *)
PassInv ==
  /\ timer_mutex = TimerTask <=> InPass
  /\ InPass => pass.iter \in ToSet(timer_head) \cup {NoTask}
  /\ pass.at = "callback" => timer[pass.x].is_timer /\ pass.iter # pass.x

Keys(tm, now) == [x \in Timers |-> (tm[x].match - now) % TICKS]

(* The list is sorted by the time that remains, and the timers whose time  *)
(* has come are those that the pass has yet to look at.                    *)
OrderInv ==
  /\ OrderedBy(timer_head, Keys(timer, raw_timer_count))
  /\ \A x \in ToSet(timer_head) : Keys(timer, raw_timer_count)[x] = 0 =>
       InPass /\ Precedes(timer_head, pass.iter, x)

IInv ==
  /\ TypeOK
  /\ StateInv
  /\ InitInv
  /\ CallInv
  /\ PassInv
  /\ ListHoldsActive
  /\ OrderInv

-----------------------------------------------------------------------------
(***************************************************************************)
(* Remaining times and the sorted list.                                    *)
(***************************************************************************)

LEMMA TimesFacts ==
  ASSUME TimerAssumption
  PROVE  /\ TICKS \in Nat \ {0} /\ TICKS > 1 /\ 0 \in Times /\ Times \subseteq Int
         /\ Inits \subseteq Times /\ Reschedules \subseteq Times
         /\ 0 \notin Inits
  BY DEF TimerAssumption, Times

(* The key of a timer: the time up to its match, whether or not the count  *)
(* wraps before.                                                           *)
LEMMA KeyLemma ==
  ASSUME TimerAssumption, NEW tm \in [Timers -> TimerRecords], NEW now \in Times
  PROVE  /\ Keys(tm, now) \in [Timers -> Times]
         /\ Keys(tm, now) \in [Timers -> Int]
         /\ \A x \in Timers : Keys(tm, now)[x] =
              IF now <= tm[x].match THEN tm[x].match - now ELSE tm[x].match - now + TICKS
         /\ \A x \in Timers : Keys(tm, now)[x] = 0 <=> tm[x].match = now
  <1>1. \A x \in Timers : tm[x].match \in 0 .. TICKS - 1
    BY DEF TimerRecords, Times
  <1>2. TICKS \in Nat \ {0} /\ now \in 0 .. TICKS - 1
    BY TimesFacts DEF Times
  <1>3. \A x \in Timers : Keys(tm, now)[x] =
          IF now <= tm[x].match THEN tm[x].match - now ELSE tm[x].match - now + TICKS
    BY <1>1, <1>2, ModDifference DEF Keys
  <1>4. \A x \in Timers : Keys(tm, now)[x] \in Times
    BY <1>1, <1>2, <1>3 DEF Times
  <1>5. \A x \in Timers : Keys(tm, now)[x] = 0 <=> tm[x].match = now
    BY <1>1, <1>2, <1>3
  <1>6. Keys(tm, now) \in [Timers -> Times]
    BY <1>4 DEF Keys
  <1>7. Times \subseteq Int
    BY TimesFacts
  <1> QED BY <1>3, <1>5, <1>6, <1>7

(* A timer that starts gets a key that is its time, and its place in the   *)
(* list; the others stay in order.                                         *)
LEMMA StartLemma ==
  ASSUME TimerAssumption, timer \in [Timers -> TimerRecords], raw_timer_count \in Times,
         NEW x \in Timers, NEW ticks \in Times,
         NEW list \in Seq(Timers), IsInjective(list), x \notin ToSet(list),
         OrderedBy(list, Keys(timer, raw_timer_count)),
         NEW new, new = Started(x, ticks),
         NEW r, r = Insert(list, new, x)
  PROVE  /\ new \in [Timers -> TimerRecords]
         /\ new[x].state = "ACTIVE"
         /\ new[x].is_timer = timer[x].is_timer /\ new[x].init = timer[x].init
         /\ \A y \in Timers \ {x} : new[y] = timer[y]
         /\ Keys(new, raw_timer_count)[x] = ticks
         /\ \A y \in Timers \ {x} :
              Keys(new, raw_timer_count)[y] = Keys(timer, raw_timer_count)[y]
         /\ r \in Seq(Timers) /\ IsInjective(r) /\ ToSet(r) = ToSet(list) \cup {x}
         /\ \A a, b \in ToSet(list) : Precedes(r, a, b) <=> Precedes(list, a, b)
         /\ OrderedBy(r, Keys(new, raw_timer_count))
  <1> DEFINE m == (raw_timer_count + ticks) % TICKS
  <1>1. /\ m \in Times
        /\ m = IF raw_timer_count + ticks < TICKS THEN raw_timer_count + ticks
               ELSE raw_timer_count + ticks - TICKS
    <2>1. /\ TICKS \in Nat \ {0}
          /\ raw_timer_count \in 0 .. TICKS - 1 /\ ticks \in 0 .. TICKS - 1
      BY TimesFacts DEF Times
    <2>2. m = IF raw_timer_count + ticks < TICKS THEN raw_timer_count + ticks
              ELSE raw_timer_count + ticks - TICKS
      BY <2>1, ModSum
    <2> HIDE DEF m
    <2> QED BY <2>1, <2>2 DEF Times
  <1> HIDE DEF m
  <1>2. new = [timer EXCEPT ![x].match = m, ![x].state = "ACTIVE"]
    BY DEF Started, m
  <1>3. /\ new \in [Timers -> TimerRecords]
        /\ new[x].state = "ACTIVE" /\ new[x].match = m
        /\ new[x].is_timer = timer[x].is_timer /\ new[x].init = timer[x].init
        /\ \A y \in Timers \ {x} : new[y] = timer[y]
    BY <1>1, <1>2 DEF TimerRecords
  <1>4. Keys(new, raw_timer_count) \in [Timers -> Int]
    BY <1>3, KeyLemma
  <1>5. Keys(new, raw_timer_count)[x] = ticks
    <2>1. \A y \in Timers : Keys(new, raw_timer_count)[y] =
            IF raw_timer_count <= new[y].match THEN new[y].match - raw_timer_count
            ELSE new[y].match - raw_timer_count + TICKS
      <3>1. new \in [Timers -> TimerRecords]
        BY <1>3
      <3> QED BY <3>1, KeyLemma
    <2>2. Keys(new, raw_timer_count)[x] =
            IF raw_timer_count <= m THEN m - raw_timer_count
            ELSE m - raw_timer_count + TICKS
      BY <1>3, <2>1
    <2> QED BY <1>1, <2>2, TimesFacts DEF Times
  <1>6. \A y \in Timers \ {x} :
          Keys(new, raw_timer_count)[y] = Keys(timer, raw_timer_count)[y]
    BY <1>3 DEF Keys
  <1>7. ToSet(list) \subseteq Timers \ {x}
    BY EmptyLemma
  <1>8. OrderedBy(list, Keys(new, raw_timer_count))
    BY <1>6, <1>7 DEF OrderedBy
  <1>9. r = SortedInsert(list, x, Keys(new, raw_timer_count))
    BY DEF Insert, Remaining, Keys
  <1>10. /\ r \in Seq(Timers) /\ IsInjective(r) /\ ToSet(r) = ToSet(list) \cup {x}
         /\ \A a, b \in ToSet(list) : Precedes(r, a, b) <=> Precedes(list, a, b)
         /\ OrderedBy(r, Keys(new, raw_timer_count))
    BY <1>4, <1>8, <1>9, SortedInsertLemma
  <1> QED BY <1>3, <1>5, <1>6, <1>10

(* The fields of timers that are not in the list do not matter to its      *)
(* order.                                                                  *)
LEMMA OrderKept ==
  ASSUME OrderedBy(timer_head, Keys(timer, raw_timer_count)),
         ToSet(timer_head) \subseteq Timers,
         NEW tm, \A y \in ToSet(timer_head) : tm[y].match = timer[y].match
  PROVE  /\ OrderedBy(timer_head, Keys(tm, raw_timer_count))
         /\ \A y \in ToSet(timer_head) :
              Keys(tm, raw_timer_count)[y] = Keys(timer, raw_timer_count)[y]
  BY DEF OrderedBy, Keys

(* A timer that stops leaves the list; the others stay in order. *)
LEMMA StopLemma ==
  ASSUME TypeOK, ListHoldsActive, OrderedBy(timer_head, Keys(timer, raw_timer_count)),
         NEW x \in Timers,
         NEW tm, \A y \in Timers \ {x} : tm[y] = timer[y],
         NEW r, r = list_delete(timer_head, x)
  PROVE  /\ r \in Seq(Timers) /\ IsInjective(r) /\ ToSet(r) = ToSet(timer_head) \ {x}
         /\ \A a, b \in ToSet(r) : Precedes(r, a, b) <=> Precedes(timer_head, a, b)
         /\ OrderedBy(r, Keys(tm, raw_timer_count))
         /\ \A y \in ToSet(r) :
              Keys(tm, raw_timer_count)[y] = Keys(timer, raw_timer_count)[y]
  <1>1. timer_head \in Seq(Timers) /\ IsInjective(timer_head)
    BY DEF TypeOK, ListHoldsActive
  <1>2. /\ r \in Seq(Timers) /\ IsInjective(r) /\ ToSet(r) = ToSet(timer_head) \ {x}
        /\ \A a, b \in ToSet(r) : Precedes(r, a, b) <=> Precedes(timer_head, a, b)
    BY <1>1, DeleteLemma
  <1>3. ToSet(timer_head) \subseteq Timers
    BY <1>1, EmptyLemma
  <1>4. \A y \in ToSet(r) : Keys(tm, raw_timer_count)[y] = Keys(timer, raw_timer_count)[y]
    BY <1>2, <1>3 DEF Keys
  <1> QED BY <1>2, <1>4 DEF OrderedBy

(* What a service knows of its call. *)
LEMMA CallFacts ==
  ASSUME NEW c \in Calls \cup Changes
  PROVE  /\ c # NoCall /\ c.x \in Timers
         /\ c.op \in {"activate", "change", "deactivate", "delete"}
         /\ c.op = "change" => c.init \in Inits /\ c.resched \in Reschedules
  BY DEF Calls, Changes, NoCall

(* Where the timer task is. *)
LEMMA PassFacts ==
  ASSUME pass \in PassStates
  PROVE  /\ pass.at \in {"semaphore", "mutex", "scan", "callback"}
         /\ pass.at = "scan" => pass.iter \in Timers \cup {NoTask}
         /\ pass.at = "callback" => pass.iter \in Timers \cup {NoTask} /\ pass.x \in Timers
  BY DEF PassStates, Waiting, Scan

(* The members of the list are timers, each once. *)
LEMMA ListFacts ==
  ASSUME TypeOK, ListHoldsActive
  PROVE  /\ timer_head \in Seq(Timers) /\ IsInjective(timer_head)
         /\ ToSet(timer_head) \subseteq Timers
         /\ \A x \in Timers : x \in ToSet(timer_head) <=> timer[x].state = "ACTIVE"
  BY EmptyLemma DEF TypeOK, ListHoldsActive, Linked

-----------------------------------------------------------------------------
(***************************************************************************)
(* The services.                                                           *)
(***************************************************************************)

LEMMA InitStep == TimerAssumption /\ Init => IInv
  <1> SUFFICES ASSUME TimerAssumption, Init PROVE IInv
    OBVIOUS
  <1>1. TypeOK
    BY TimesFacts DEF Init, TypeOK, TimerRecords, PassStates
  <1>2. timer_head = <<>> /\ ToSet(timer_head) = {} /\ IsInjective(timer_head)
    BY DEF Init, ToSet, IsInjective
  <1>3. ~InPass
    BY DEF Init, Waiting, InPass
  <1>4. StateInv /\ InitInv /\ CallInv
    BY DEF Init, StateInv, InitInv, CallInv, TimerAssumption
  <1>5. PassInv
    BY <1>3 DEF Init, PassInv, Waiting, TimerAssumption
  <1>6. ListHoldsActive /\ OrderInv
    BY <1>2 DEF Init, ListHoldsActive, Linked, OrderInv, OrderedBy
  <1> QED BY <1>1, <1>4, <1>5, <1>6 DEF IInv

(* A step that leaves the timers, their list and the timer task alone. *)
LEMMA OthersKept ==
  ASSUME IInv, UNCHANGED <<timer, timer_head, raw_timer_count, pass>>
  PROVE  /\ StateInv' /\ InitInv' /\ ListHoldsActive' /\ OrderInv'
         /\ InPass' = InPass
  BY DEF IInv, StateInv, InitInv, ListHoldsActive, Linked, OrderInv, OrderedBy, InPass

LEMMA CreateStep ==
  ASSUME TimerAssumption, IInv, NEW t \in Callers, NEW x \in Timers, NEW i \in Inits,
         NEW r \in Reschedules, NEW auto \in BOOLEAN, raw_timer_create(t, x, i, r, auto)
  PROVE  IInv'
  <1>1. /\ timer' \in [Timers -> TimerRecords]
        /\ timer'[x].is_timer /\ timer'[x].state = "DEACTIVE" /\ timer'[x].init = i
        /\ \A y \in Timers \ {x} : timer'[y] = timer[y]
    BY TimesFacts DEF IInv, TypeOK, TimerRecords, raw_timer_create
  <1>2. timer[x].state \notin {"DEACTIVE", "ACTIVE"}
    BY DEF IInv, StateInv, raw_timer_create
  <1>3. x \notin ToSet(timer_head)
    BY <1>2, ListFacts DEF IInv
  <1>4. call' = call \/ call' = [call EXCEPT ![t] = [op |-> "activate", x |-> x]]
    BY DEF raw_timer_create
  <1>5. TypeOK'
    <2>1. [op |-> "activate", x |-> x] \in Calls
      BY DEF Calls
    <2> QED BY <1>1, <1>4, <2>1 DEF IInv, TypeOK, raw_timer_create
  <1>6. StateInv' /\ InitInv'
    BY <1>1, TimesFacts DEF IInv, StateInv, InitInv
  <1>7. CallInv'
    <2>1. [op |-> "activate", x |-> x] # NoCall
      BY DEF NoCall
    <2>2. call \in [Callers -> {NoCall} \cup Calls \cup Changes]
      BY DEF IInv, TypeOK
    <2>3. \A u \in Callers : call[u] # NoCall => call[u].x # x /\ call[u].x \in Timers
      BY <2>2, CallFacts DEF raw_timer_create, Exclusive
    <2>4. call[t] = NoCall /\ timer_mutex' = timer_mutex
      BY DEF raw_timer_create, Idle
    <2>5. CASE call' = call
      BY <1>1, <2>3, <2>4, <2>5 DEF IInv, CallInv
    <2>6. CASE call' = [call EXCEPT ![t] = [op |-> "activate", x |-> x]]
      <3>1. call'[t] = [op |-> "activate", x |-> x]
        BY <2>2, <2>6
      <3>2. \A u \in Callers \ {t} : call'[u] = call[u]
        BY <2>2, <2>6
      <3> QED BY <1>1, <2>1, <2>3, <2>4, <3>1, <3>2 DEF IInv, CallInv
    <2> QED BY <1>4, <2>5, <2>6
  <1>8. PassInv'
    BY <1>1, PassFacts DEF IInv, PassInv, InPass, TypeOK, raw_timer_create
  <1>9. ListHoldsActive'
    BY <1>1, <1>3 DEF IInv, ListHoldsActive, Linked, raw_timer_create
  <1>10. OrderInv'
    <2>1. ToSet(timer_head) \subseteq Timers
      BY ListFacts DEF IInv
    <2>2. \A y \in ToSet(timer_head) : timer'[y].match = timer[y].match
      BY <1>1, <1>3, <2>1
    <2>3. /\ OrderedBy(timer_head, Keys(timer', raw_timer_count))
          /\ \A y \in ToSet(timer_head) :
               Keys(timer', raw_timer_count)[y] = Keys(timer, raw_timer_count)[y]
      BY <2>1, <2>2, OrderKept DEF IInv, OrderInv
    <2> QED BY <2>3 DEF IInv, OrderInv, InPass, raw_timer_create
  <1> QED BY <1>5, <1>6, <1>7, <1>8, <1>9, <1>10 DEF IInv

LEMMA CheckStep ==
  ASSUME TimerAssumption, IInv, NEW t \in Callers, NEW c \in Calls \cup Changes,
         Exclusive(c.x), Check(t, c)
  PROVE  IInv'
  <1>1. call \in [Callers -> {NoCall} \cup Calls \cup Changes]
    BY DEF IInv, TypeOK
  <1>2. call'[t] = c /\ \A u \in Callers \ {t} : call'[u] = call[u]
    BY <1>1 DEF Check
  <1>3. TypeOK'
    BY <1>1 DEF IInv, TypeOK, Check
  <1>4. /\ c.x \in Timers /\ timer[c.x].is_timer
        /\ c.op = "activate" => timer[c.x].state \notin {"ACTIVE", "DELETED"}
    BY CallFacts DEF Check, Passes
  <1>5. c.op = "activate" => timer[c.x].state = "DEACTIVE"
    BY <1>4 DEF IInv, StateInv
  <1>6. CallInv'
    <2>1. \A u \in Callers : call[u] # NoCall => call[u].x # c.x
      BY DEF Exclusive
    <2>2. UNCHANGED <<timer, timer_mutex>> /\ call[t] = NoCall
      BY DEF Check, Idle
    <2>3. c # NoCall
      BY CallFacts
    <2> QED BY <1>2, <1>4, <1>5, <2>1, <2>2, <2>3 DEF IInv, CallInv
  <1>7. UNCHANGED <<timer, timer_head, raw_timer_count, pass, timer_mutex>>
    BY DEF Check
  <1>8. StateInv' /\ InitInv' /\ ListHoldsActive' /\ OrderInv' /\ InPass' = InPass
    BY <1>7, OthersKept
  <1>9. PassInv'
    BY <1>7, <1>8 DEF IInv, PassInv
  <1> QED BY <1>3, <1>6, <1>8, <1>9 DEF IInv

LEMMA LockStep ==
  ASSUME TimerAssumption, IInv, NEW t \in Callers, Lock(t)
  PROVE  IInv'
  <1>1. UNCHANGED <<timer, timer_head, raw_timer_count, pass, call>>
    BY DEF Lock
  <1>2. timer_mutex = NoTask /\ timer_mutex' = t /\ call[t] # NoCall
    BY DEF Lock
  <1>3. TypeOK'
    BY <1>1, <1>2 DEF IInv, TypeOK
  <1>4. CallInv'
    BY <1>1, <1>2 DEF IInv, CallInv
  <1>5. StateInv' /\ InitInv' /\ ListHoldsActive' /\ OrderInv' /\ InPass' = InPass
    BY <1>1, OthersKept
  <1>6. ~InPass /\ t # TimerTask
    BY <1>2 DEF IInv, PassInv, TimerAssumption
  <1>7. PassInv'
    BY <1>1, <1>2, <1>5, <1>6 DEF IInv, PassInv, InPass
  <1> QED BY <1>3, <1>4, <1>5, <1>7 DEF IInv

(* The body of a service: the timer task is not in a pass, and a timer that *)
(* the service starts was stopped.                                         *)
LEMMA WorkStep ==
  ASSUME TimerAssumption, IInv, NEW t \in Callers, Work(t)
  PROVE  IInv'
  <1> DEFINE x == call[t].x
             H  == ToSet(timer_head)
             K  == Keys(timer, raw_timer_count)
             K1 == Keys(timer', raw_timer_count)
  <1>1. /\ call[t] \in Calls \cup Changes /\ call[t] # NoCall
        /\ timer_mutex = t /\ t # TimerTask
    BY DEF IInv, TypeOK, CallInv, Work, TimerAssumption
  <1>2. /\ x \in Timers
        /\ call[t].op \in {"activate", "change", "deactivate", "delete"}
        /\ call[t].op = "change" => call[t].init \in Inits /\ call[t].resched \in Reschedules
    BY <1>1, CallFacts
  <1>3. /\ timer[x].is_timer
        /\ call[t].op = "activate" => timer[x].state = "DEACTIVE"
        /\ \A u \in Callers : call[u] # NoCall /\ u # t => call[u].x # x
    BY <1>1 DEF IInv, CallInv
  <1>4. /\ timer_mutex' = NoTask
        /\ call' = [call EXCEPT ![t] = NoCall]
        /\ UNCHANGED <<raw_timer_count, raw_timer_ctrl, timer_sem, pass>>
    BY DEF Work
  <1>5. ~InPass /\ ~InPass'
    BY <1>1, <1>4 DEF IInv, PassInv, InPass
  <1>6. /\ timer_head \in Seq(Timers) /\ IsInjective(timer_head) /\ H \subseteq Timers
        /\ \A y \in Timers : y \in H <=> timer[y].state = "ACTIVE"
    BY ListFacts DEF IInv
  <1>7. /\ timer \in [Timers -> TimerRecords] /\ raw_timer_count \in Times
        /\ OrderedBy(timer_head, K) /\ \A y \in H : K[y] # 0
    BY <1>5 DEF IInv, TypeOK, OrderInv
  <1> DEFINE Result ==
        /\ timer' \in [Timers -> TimerRecords]
        /\ \A y \in Timers \ {x} : timer'[y] = timer[y]
        /\ timer'[x].is_timer <=> timer'[x].state \in {"DEACTIVE", "ACTIVE"}
        /\ timer'[x].is_timer => timer'[x].init # 0
        /\ timer_head' \in Seq(Timers) /\ IsInjective(timer_head')
        /\ \A y \in Timers : y \in ToSet(timer_head') <=> timer'[y].state = "ACTIVE"
        /\ OrderedBy(timer_head', K1)
        /\ \A y \in ToSet(timer_head') : K1[y] # 0
  <1>8. ASSUME call[t].op = "activate" PROVE Result
    <2>1. timer' = Started(x, timer[x].init) /\ timer_head' = Insert(timer_head, timer', x)
      BY <1>8 DEF Work
    <2>2. x \notin H
      BY <1>2, <1>3, <1>6, <1>8
    <2>3. timer[x].init \in Times /\ timer[x].init # 0
      BY <1>2, <1>3, <1>7 DEF IInv, InitInv, TimerRecords
    <2> HIDE DEF x
    <2>4. /\ timer' \in [Timers -> TimerRecords]
          /\ timer'[x].state = "ACTIVE"
          /\ timer'[x].is_timer = timer[x].is_timer /\ timer'[x].init = timer[x].init
          /\ \A y \in Timers \ {x} : timer'[y] = timer[y]
          /\ K1[x] = timer[x].init
          /\ \A y \in Timers \ {x} : K1[y] = K[y]
          /\ timer_head' \in Seq(Timers) /\ IsInjective(timer_head')
          /\ ToSet(timer_head') = H \cup {x}
          /\ OrderedBy(timer_head', K1)
      BY <1>2, <1>6, <1>7, <2>1, <2>2, <2>3, StartLemma
    <2> HIDE DEF H, K, K1
    <2> QED BY <1>2, <1>3, <1>6, <1>7, <2>2, <2>3, <2>4
  <1>9. ASSUME call[t].op = "change" PROVE Result
    <2>1. /\ timer' = [timer EXCEPT ![x].init = call[t].init, ![x].resched = call[t].resched]
          /\ timer_head' = timer_head
      BY <1>9 DEF Work
    <2>2. call[t].init \in Times /\ call[t].init # 0 /\ call[t].resched \in Times
      BY <1>2, <1>9, TimesFacts
    <2>3. /\ timer' \in [Timers -> TimerRecords]
          /\ \A y \in Timers \ {x} : timer'[y] = timer[y]
          /\ timer'[x].is_timer = timer[x].is_timer /\ timer'[x].state = timer[x].state
          /\ timer'[x].match = timer[x].match /\ timer'[x].init # 0
      BY <1>2, <1>7, <2>1, <2>2, ZenonT(30) DEF TimerRecords
    <2>4. \A y \in H : timer'[y].match = timer[y].match
      BY <1>6, <2>3
    <2>5. OrderedBy(timer_head, K1) /\ \A y \in H : K1[y] = K[y]
      BY <1>6, <1>7, <2>4, OrderKept
    <2>6. timer'[x].is_timer <=> timer'[x].state \in {"DEACTIVE", "ACTIVE"}
      BY <1>2, <2>3 DEF IInv, StateInv
    <2> HIDE DEF x, H, K, K1
    <2>7. \A y \in Timers : timer'[y].state = timer[y].state
      BY <2>3
    <2> QED BY <1>6, <1>7, <2>1, <2>3, <2>5, <2>6, <2>7, ZenonT(30) DEF H
  <1>10. ASSUME call[t].op \in {"deactivate", "delete"} PROVE Result
    <2> DEFINE st == IF call[t].op = "deactivate" THEN "DEACTIVE" ELSE "DELETED"
    <2>1. /\ timer' \in [Timers -> TimerRecords]
          /\ \A y \in Timers \ {x} : timer'[y] = timer[y]
          /\ timer'[x].state = st /\ timer'[x].init = timer[x].init
          /\ timer'[x].is_timer <=> st = "DEACTIVE"
          /\ timer_head' = list_delete(timer_head, x)
      <3>1. CASE call[t].op = "deactivate"
        <4>1. /\ timer' = [timer EXCEPT ![x].state = "DEACTIVE"]
              /\ timer_head' = list_delete(timer_head, x)
          BY <3>1 DEF Work
        <4> QED BY <1>2, <1>3, <1>7, <3>1, <4>1 DEF TimerRecords
      <3>2. CASE call[t].op = "delete"
        <4>1. /\ timer' = [timer EXCEPT ![x].state = "DELETED", ![x].is_timer = FALSE]
              /\ timer_head' = list_delete(timer_head, x)
          BY <3>2 DEF Work
        <4> QED BY <1>2, <1>3, <1>7, <3>2, <4>1 DEF TimerRecords
      <3> QED BY <1>10, <3>1, <3>2
    <2>2. timer[x].init # 0
      BY <1>2, <1>3 DEF IInv, InitInv
    <2>3. /\ timer_head' \in Seq(Timers) /\ IsInjective(timer_head')
          /\ ToSet(timer_head') = H \ {x}
          /\ OrderedBy(timer_head', K1)
          /\ \A y \in ToSet(timer_head') : K1[y] = K[y]
      BY <1>2, <1>7, <2>1, StopLemma DEF IInv
    <2>4. st \in {"DEACTIVE", "DELETED"}
      OBVIOUS
    <2> HIDE DEF x, H, K, K1, st
    <2> QED BY <1>2, <1>6, <1>7, <2>1, <2>2, <2>3, <2>4
  <1>11. Result
    BY <1>2, <1>8, <1>9, <1>10
  <1> HIDE DEF Result
  <1>12. TypeOK'
    <2>1. timer' \in [Timers -> TimerRecords] /\ timer_head' \in Seq(Timers)
      BY <1>11 DEF Result
    <2> QED BY <1>4, <2>1 DEF IInv, TypeOK
  <1>13. StateInv' /\ InitInv' /\ ListHoldsActive'
    BY <1>2, <1>11 DEF Result, IInv, StateInv, InitInv, ListHoldsActive, Linked
  <1>14. CallInv'
    <2>1. call \in [Callers -> {NoCall} \cup Calls \cup Changes]
      BY DEF IInv, TypeOK
    <2>2. call'[t] = NoCall /\ \A u \in Callers \ {t} : call'[u] = call[u]
      BY <1>4, <2>1
    <2>3. \A u \in Callers \ {t} : call[u] # NoCall => call[u].x \in Timers \ {x}
      BY <1>3, <2>1, CallFacts
    <2>4. \A y \in Timers \ {x} : timer'[y] = timer[y]
      BY <1>11 DEF Result
    <2>5. timer_mutex' \notin Callers
      BY <1>4 DEF TimerAssumption
    <2> HIDE DEF x
    <2> QED BY <2>2, <2>3, <2>4, <2>5 DEF IInv, CallInv
  <1>15. PassInv'
    BY <1>4, <1>5 DEF PassInv, InPass, TimerAssumption
  <1>16. OrderInv'
    BY <1>4, <1>11 DEF Result, OrderInv
  <1> QED BY <1>12, <1>13, <1>14, <1>15, <1>16 DEF IInv

-----------------------------------------------------------------------------
(***************************************************************************)
(* The tick interrupt and the timer task.                                  *)
(***************************************************************************)

(* Steps that touch neither the timers nor the count. *)
LEMMA QuietStep ==
  ASSUME TimerAssumption, IInv,
         \/ call_timer_task \/ TimerWakes \/ PassEnds \/ UNCHANGED vars
  PROVE  IInv'
  <1>1. UNCHANGED <<timer, timer_head, raw_timer_count, call>>
    BY DEF call_timer_task, TimerWakes, PassEnds, vars
  <1>2. StateInv' /\ InitInv' /\ ListHoldsActive'
    BY <1>1 DEF IInv, StateInv, InitInv, ListHoldsActive, Linked
  <1>3. CASE UNCHANGED <<timer_mutex, pass>>
    BY <1>1, <1>2, <1>3, OthersKept DEF IInv, TypeOK, CallInv, PassInv
  <1>4. CASE TimerWakes
    <2>1. pass.at = "semaphore" /\ pass'.at = "mutex" /\ timer_mutex' = timer_mutex
          /\ pass' \in PassStates
      BY <1>4 DEF TimerWakes, Waiting, PassStates
    <2>2. ~InPass /\ ~InPass'
      BY <2>1 DEF InPass
    <2>3. TypeOK'
      BY <1>1, <2>1 DEF IInv, TypeOK
    <2>4. CallInv'
      BY <1>1, <2>1 DEF IInv, CallInv
    <2>5. PassInv'
      BY <1>1, <2>1, <2>2 DEF IInv, PassInv
    <2>6. OrderInv'
      BY <1>1, <2>2 DEF IInv, OrderInv
    <2> QED BY <1>2, <2>3, <2>4, <2>5, <2>6 DEF IInv
  <1>5. CASE PassEnds
    <2>1. /\ pass.at = "scan" /\ ~Due /\ pass' = Waiting
          /\ timer_mutex' = NoTask
      BY <1>5 DEF PassEnds
    <2>2. InPass /\ pass'.at = "semaphore" /\ ~InPass' /\ pass' \in PassStates
      BY <2>1 DEF InPass, Waiting, PassStates
    <2>3. TypeOK'
      BY <1>1, <2>1, <2>2 DEF IInv, TypeOK
    <2>4. CallInv' /\ PassInv'
      BY <1>1, <2>1, <2>2 DEF IInv, CallInv, PassInv, TimerAssumption
    <2>5. \A y \in ToSet(timer_head) : Keys(timer, raw_timer_count)[y] # 0
      <3> SUFFICES ASSUME NEW y \in ToSet(timer_head),
                          Keys(timer, raw_timer_count)[y] = 0
                   PROVE  FALSE
        OBVIOUS
      <3>1. /\ timer_head \in Seq(Timers) /\ IsInjective(timer_head)
            /\ ToSet(timer_head) \subseteq Timers
        BY ListFacts DEF IInv
      <3>2. /\ timer \in [Timers -> TimerRecords] /\ raw_timer_count \in Times
            /\ OrderedBy(timer_head, Keys(timer, raw_timer_count))
            /\ Precedes(timer_head, pass.iter, y)
        BY DEF IInv, TypeOK, OrderInv
      <3>3. pass.iter \in ToSet(timer_head)
        BY <3>1, <3>2, PrecedesOrder
      <3>4. Keys(timer, raw_timer_count)[pass.iter] <= 0
        BY <3>2, <3>3 DEF OrderedBy
      <3>5. Keys(timer, raw_timer_count)[pass.iter] \in Times
        <4>1. Keys(timer, raw_timer_count) \in [Timers -> Times]
          BY <3>2, KeyLemma
        <4> QED BY <3>1, <3>3, <4>1
      <3>6. Keys(timer, raw_timer_count)[pass.iter] = 0
        BY <3>4, <3>5, TimesFacts DEF Times
      <3>7. timer[pass.iter].match = raw_timer_count
        BY <3>1, <3>2, <3>3, <3>6, KeyLemma
      <3>8. pass.iter # NoTask
        BY <3>1, <3>3 DEF TimerAssumption
      <3> QED BY <2>1, <3>7, <3>8 DEF Due
    <2>6. OrderInv'
      BY <1>1, <2>5 DEF IInv, OrderInv
    <2> QED BY <1>2, <2>3, <2>4, <2>6 DEF IInv
  <1>6. call_timer_task \/ UNCHANGED vars => UNCHANGED <<timer_mutex, pass>>
    BY DEF call_timer_task, vars
  <1> QED BY <1>3, <1>4, <1>5, <1>6

(* The element behind x: it precedes all that x precedes. *)
LEMMA NextLemma ==
  ASSUME NEW s \in Seq(Timers), IsInjective(s), NEW x \in ToSet(s), NoTask \notin Timers,
         NEW n, n = After(s, SelectInSeq(s, LAMBDA y : y = x))
  PROVE  /\ n \in ToSet(s) \cup {NoTask} /\ n # x
         /\ \A y \in ToSet(s) \ {x} : Precedes(s, x, y) =>
              n \in ToSet(s) /\ Precedes(s, n, y)
  <1> DEFINE I == {j \in 1 .. Len(s) : s[j] = x}
             i == Min(I)
  <1>1. /\ Len(s) \in Nat /\ DOMAIN s = 1 .. Len(s)
        /\ \A j \in 1 .. Len(s) : s[j] \in Timers
    BY LenProperties, ElementOfSeq
  <1>2. \A j, k \in 1 .. Len(s) : s[j] = s[k] => j = k
    BY <1>1 DEF IsInjective
  <1>3. I # {} /\ I \subseteq Nat
    BY <1>1 DEF ToSet
  <1>4. SelectInSeq(s, LAMBDA y : y = x) = i
    BY <1>3 DEF SelectInSeq
  <1>5. i \in I
    <2> HIDE DEF I
    <2> QED BY <1>3, MinLemma
  <1>6. i \in 1 .. Len(s) /\ s[i] = x
    BY <1>5
  <1> HIDE DEF I, i
  <1>7. n = IF i < Len(s) THEN s[i + 1] ELSE NoTask
    BY <1>4 DEF After
  <1>8. i < Len(s) => i + 1 \in 1 .. Len(s) /\ n = s[i + 1]
    BY <1>1, <1>6, <1>7
  <1>9. n \in ToSet(s) \cup {NoTask}
    BY <1>1, <1>7, <1>8 DEF ToSet
  <1>10. n # x
    <2>1. CASE i < Len(s)
      BY <1>1, <1>2, <1>6, <1>8, <2>1
    <2>2. CASE ~(i < Len(s))
      BY <1>1, <1>6, <1>7, <2>2
    <2> QED BY <2>1, <2>2
  <1>11. ASSUME NEW y \in ToSet(s) \ {x}, Precedes(s, x, y)
         PROVE  n \in ToSet(s) /\ Precedes(s, n, y)
    <2>1. PICK j, k \in 1 .. Len(s) : j <= k /\ s[j] = x /\ s[k] = y
      BY <1>1, <1>11 DEF Precedes
    <2>2. j = i /\ k # i
      BY <1>2, <1>6, <2>1
    <2>3. i < Len(s) /\ i + 1 <= k
      BY <1>1, <1>6, <2>1, <2>2
    <2> QED BY <1>1, <1>8, <2>1, <2>3 DEF Precedes, ToSet
  <1> QED BY <1>9, <1>10, <1>11

(* A timer tick: no timer was overdue, so each is one tick nearer, and the *)
(* pass begins at the head of the list.                                    *)
LEMMA TimerLockStep ==
  ASSUME TimerAssumption, IInv, TimerLock
  PROVE  IInv'
  <1> DEFINE H  == ToSet(timer_head)
             K  == Keys(timer, raw_timer_count)
             K1 == Keys(timer, raw_timer_count')
  <1>1. /\ pass.at = "mutex" /\ timer_mutex = NoTask /\ timer_mutex' = TimerTask
        /\ raw_timer_count' = (raw_timer_count + 1) % TICKS
        /\ pass' = Scan(After(timer_head, 0))
        /\ UNCHANGED <<timer, timer_head, call>>
    BY DEF TimerLock
  <1>2. ~InPass
    BY <1>1 DEF InPass
  <1>3. /\ timer_head \in Seq(Timers) /\ IsInjective(timer_head) /\ H \subseteq Timers
    BY ListFacts DEF IInv
  <1>4. /\ timer \in [Timers -> TimerRecords] /\ raw_timer_count \in Times
        /\ OrderedBy(timer_head, K) /\ \A y \in H : K[y] # 0
    BY <1>2 DEF IInv, TypeOK, OrderInv
  <1>5. /\ raw_timer_count' \in Times
        /\ raw_timer_count' = IF raw_timer_count + 1 < TICKS THEN raw_timer_count + 1 ELSE 0
    <2>1. TICKS \in Nat \ {0} /\ raw_timer_count \in 0 .. TICKS - 1 /\ 1 \in 0 .. TICKS - 1
      BY <1>4, TimesFacts DEF Times
    <2>2. (raw_timer_count + 1) % TICKS =
            IF raw_timer_count + 1 < TICKS THEN raw_timer_count + 1
            ELSE raw_timer_count + 1 - TICKS
      BY <2>1, ModSum
    <2>3. raw_timer_count' = IF raw_timer_count + 1 < TICKS THEN raw_timer_count + 1
                             ELSE raw_timer_count + 1 - TICKS
      BY <1>1, <2>2
    <2> QED BY <2>1, <2>3 DEF Times
  <1>6. \A y \in H : K[y] \in Int /\ K1[y] \in Int /\ K1[y] = K[y] - 1
    <2>1. /\ K \in [Timers -> Int] /\ K1 \in [Timers -> Int]
          /\ \A y \in Timers : K[y] =
               IF raw_timer_count <= timer[y].match THEN timer[y].match - raw_timer_count
               ELSE timer[y].match - raw_timer_count + TICKS
          /\ \A y \in Timers : K1[y] =
               IF raw_timer_count' <= timer[y].match THEN timer[y].match - raw_timer_count'
               ELSE timer[y].match - raw_timer_count' + TICKS
      BY <1>4, <1>5, KeyLemma
    <2>2. \A y \in Timers : timer[y].match \in Times
      BY <1>4 DEF TimerRecords
    <2> HIDE DEF H, K, K1
    <2> SUFFICES ASSUME NEW y \in H
                 PROVE  K[y] \in Int /\ K1[y] \in Int /\ K1[y] = K[y] - 1
      OBVIOUS
    <2>3. y \in Timers /\ K[y] # 0 /\ timer[y].match \in 0 .. TICKS - 1
      BY <1>3, <1>4, <2>2 DEF Times
    <2>4. /\ K[y] = IF raw_timer_count <= timer[y].match THEN timer[y].match - raw_timer_count
                    ELSE timer[y].match - raw_timer_count + TICKS
          /\ K1[y] = IF raw_timer_count' <= timer[y].match THEN timer[y].match - raw_timer_count'
                     ELSE timer[y].match - raw_timer_count' + TICKS
      BY <2>1, <2>3
    <2>5. TICKS \in Nat /\ raw_timer_count \in 0 .. TICKS - 1
      BY <1>4, TimesFacts DEF Times
    <2>6. K1[y] = K[y] - 1
      BY <1>5, <2>3, <2>4, <2>5
    <2> QED BY <2>1, <2>3, <2>6
  <1>7. pass' \in PassStates /\ InPass' /\ pass'.at = "scan"
        /\ pass'.iter \in H \cup {NoTask}
        /\ \A y \in H : Precedes(timer_head, pass'.iter, y)
    <2>1. /\ timer_head # <<>> => After(timer_head, 0) = timer_head[1]
          /\ timer_head = <<>> => After(timer_head, 0) = NoTask
      <3>1. Len(timer_head) \in Nat /\ (Len(timer_head) = 0 <=> timer_head = <<>>)
        BY <1>3, LenProperties, EmptySeq
      <3> QED BY <3>1 DEF After
    <2>2. timer_head # <<>> => /\ timer_head[1] \in H
                               /\ \A y \in H : Precedes(timer_head, timer_head[1], y)
      BY <1>3, HeadPrecedes
    <2>3. timer_head = <<>> => H = {}
      BY <1>3, EmptyLemma
    <2>4. pass'.iter = After(timer_head, 0) /\ pass'.at = "scan"
      BY <1>1 DEF Scan
    <2>5. After(timer_head, 0) \in H \cup {NoTask}
      BY <2>1, <2>2
    <2>6. pass' \in PassStates
      BY <1>1, <1>3, <2>5 DEF PassStates
    <2> QED BY <2>1, <2>2, <2>3, <2>4, <2>5, <2>6 DEF InPass
  <1>8. TypeOK'
    BY <1>1, <1>5, <1>7 DEF IInv, TypeOK
  <1>9. StateInv' /\ InitInv' /\ ListHoldsActive'
    BY <1>1 DEF IInv, StateInv, InitInv, ListHoldsActive, Linked
  <1>10. CallInv'
    BY <1>1 DEF IInv, CallInv, TimerAssumption
  <1>11. PassInv'
    BY <1>1, <1>7 DEF PassInv
  <1>12. OrderInv'
    <2>1. OrderedBy(timer_head, K1)
      BY <1>4, <1>6 DEF OrderedBy
    <2> QED BY <1>1, <1>7, <2>1 DEF OrderInv
  <1> QED BY <1>8, <1>9, <1>10, <1>11, <1>12 DEF IInv

(* A timer expires: it leaves the list or goes to its new place in it, and *)
(* the timers that remain to be looked at are those behind it.             *)
LEMMA ExpireStep ==
  ASSUME TimerAssumption, IInv, Expire
  PROVE  IInv'
  <1> DEFINE x  == pass.iter
             H  == ToSet(timer_head)
             H1 == ToSet(timer_head')
             K  == Keys(timer, raw_timer_count)
             K1 == Keys(timer', raw_timer_count)
             n  == After(timer_head, SelectInSeq(timer_head, LAMBDA y : y = x))
             rest == list_delete(timer_head, x)
  <1>1. /\ pass.at = "scan" /\ x # NoTask /\ timer[x].match = raw_timer_count
        /\ UNCHANGED <<raw_timer_count, timer_mutex, call>>
        /\ pass' = [at |-> "callback", x |-> x, iter |-> n]
    BY DEF Expire, Due, NextIter
  <1>2. InPass /\ x \in H
    BY <1>1 DEF IInv, PassInv, InPass
  <1>3. /\ timer_head \in Seq(Timers) /\ IsInjective(timer_head) /\ H \subseteq Timers
        /\ \A y \in Timers : y \in H <=> timer[y].state = "ACTIVE"
    BY ListFacts DEF IInv
  <1>4. /\ timer \in [Timers -> TimerRecords] /\ raw_timer_count \in Times
        /\ OrderedBy(timer_head, K)
        /\ \A y \in H : K[y] = 0 => Precedes(timer_head, x, y)
    BY DEF IInv, TypeOK, OrderInv
  <1>5. x \in Timers /\ timer[x].state = "ACTIVE" /\ timer[x].is_timer /\ timer[x].init # 0
        /\ timer[x].resched \in Times
    <2>1. x \in Timers /\ timer[x].state = "ACTIVE"
      BY <1>2, <1>3
    <2>2. timer[x].is_timer
      BY <2>1 DEF IInv, StateInv
    <2> QED BY <1>4, <2>1, <2>2 DEF IInv, InitInv, TimerRecords
  <1>6. /\ n \in H \cup {NoTask} /\ n # x
        /\ \A y \in H \ {x} : Precedes(timer_head, x, y) =>
             n \in H /\ Precedes(timer_head, n, y)
    <2>1. NoTask \notin Timers
      BY DEF TimerAssumption
    <2> HIDE DEF x
    <2> QED BY <1>2, <1>3, <2>1, NextLemma
  <1>7. /\ rest \in Seq(Timers) /\ IsInjective(rest) /\ ToSet(rest) = H \ {x}
        /\ \A a, b \in H \ {x} : Precedes(rest, a, b) <=> Precedes(timer_head, a, b)
        /\ OrderedBy(rest, K)
    <2>1. OrderedBy(rest, K)
      BY <1>3, <1>4, DeleteOrdered
    <2>2. /\ rest \in Seq(Timers) /\ IsInjective(rest) /\ ToSet(rest) = H \ {x}
          /\ \A a, b \in H \ {x} : Precedes(rest, a, b) <=> Precedes(timer_head, a, b)
      BY <1>3, DeleteLemma
    <2> QED BY <2>1, <2>2
  <1> HIDE DEF x, H, H1, K, K1, n, rest
  <1> DEFINE Result ==
        /\ timer' \in [Timers -> TimerRecords]
        /\ \A y \in Timers \ {x} : timer'[y] = timer[y]
        /\ timer'[x].is_timer /\ timer'[x].state \in {"DEACTIVE", "ACTIVE"}
        /\ timer'[x].init # 0
        /\ timer_head' \in Seq(Timers) /\ IsInjective(timer_head')
        /\ H \ {x} \subseteq H1
        /\ \A y \in Timers : y \in H1 <=> timer'[y].state = "ACTIVE"
        /\ OrderedBy(timer_head', K1)
        /\ \A y \in H1 : K1[y] = 0 => y \in H \ {x} /\ K[y] = 0
        /\ \A a, b \in H \ {x} : Precedes(timer_head', a, b) <=> Precedes(timer_head, a, b)
  <1>8. ASSUME timer[x].resched > 0 PROVE Result
    <2>1. /\ timer' = Started(x, timer[x].resched)
          /\ timer_head' = Insert(rest, timer', x)
      BY <1>8 DEF Expire, x, rest
    <2>2. x \notin ToSet(rest)
      BY <1>7
    <2>3. /\ timer' \in [Timers -> TimerRecords]
          /\ timer'[x].state = "ACTIVE"
          /\ timer'[x].is_timer = timer[x].is_timer /\ timer'[x].init = timer[x].init
          /\ \A y \in Timers \ {x} : timer'[y] = timer[y]
          /\ K1[x] = timer[x].resched
          /\ \A y \in Timers \ {x} : K1[y] = K[y]
          /\ timer_head' \in Seq(Timers) /\ IsInjective(timer_head')
          /\ H1 = ToSet(rest) \cup {x}
          /\ \A a, b \in ToSet(rest) : Precedes(timer_head', a, b) <=> Precedes(rest, a, b)
          /\ OrderedBy(timer_head', K1)
      <3>1. /\ timer \in [Timers -> TimerRecords] /\ raw_timer_count \in Times
            /\ x \in Timers /\ timer[x].resched \in Times
            /\ rest \in Seq(Timers) /\ IsInjective(rest)
        BY <1>4, <1>5, <1>7
      <3>2. OrderedBy(rest, Keys(timer, raw_timer_count))
        BY <1>7 DEF K
      <3>3. /\ timer' \in [Timers -> TimerRecords]
            /\ timer'[x].state = "ACTIVE"
            /\ timer'[x].is_timer = timer[x].is_timer /\ timer'[x].init = timer[x].init
            /\ \A y \in Timers \ {x} : timer'[y] = timer[y]
            /\ Keys(timer', raw_timer_count)[x] = timer[x].resched
            /\ \A y \in Timers \ {x} :
                 Keys(timer', raw_timer_count)[y] = Keys(timer, raw_timer_count)[y]
            /\ timer_head' \in Seq(Timers) /\ IsInjective(timer_head')
            /\ ToSet(timer_head') = ToSet(rest) \cup {x}
            /\ \A a, b \in ToSet(rest) : Precedes(timer_head', a, b) <=> Precedes(rest, a, b)
            /\ OrderedBy(timer_head', Keys(timer', raw_timer_count))
        BY <2>1, <2>2, <3>1, <3>2, StartLemma
      <3> QED BY <3>3 DEF K, K1, H1
    <2>4. \A a, b \in H \ {x} : Precedes(timer_head', a, b) <=> Precedes(timer_head, a, b)
      BY <1>7, <2>3
    <2>5. H1 = H \cup {x} /\ H \subseteq Timers
      BY <1>3, <1>7, <2>3
    <2>6. \A y \in H1 : K1[y] = 0 => y \in H \ {x} /\ K[y] = 0
      BY <1>5, <1>8, <2>3, <2>5, TimesFacts DEF Times
    <2>7. \A y \in Timers : y \in H1 <=> timer'[y].state = "ACTIVE"
      BY <1>3, <2>3, <2>5
    <2> QED BY <1>5, <2>3, <2>4, <2>5, <2>6, <2>7
  <1>9. ASSUME ~(timer[x].resched > 0) PROVE Result
    <2>1. /\ timer' = [timer EXCEPT ![x].state = "DEACTIVE"]
          /\ timer_head' = rest
      BY <1>9 DEF Expire, x, rest
    <2>2. /\ timer' \in [Timers -> TimerRecords]
          /\ timer'[x].state = "DEACTIVE"
          /\ timer'[x].is_timer = timer[x].is_timer /\ timer'[x].init = timer[x].init
          /\ \A y \in Timers \ {x} : timer'[y] = timer[y]
      BY <1>4, <1>5, <2>1 DEF TimerRecords
    <2>3. /\ OrderedBy(timer_head', K1)
          /\ \A y \in H1 : K1[y] = K[y]
      <3>1. /\ TypeOK /\ ListHoldsActive /\ timer_head' = list_delete(timer_head, x)
            /\ OrderedBy(timer_head, Keys(timer, raw_timer_count))
        BY <1>4, <2>1 DEF IInv, K, rest
      <3>2. /\ OrderedBy(timer_head', Keys(timer', raw_timer_count))
            /\ \A y \in ToSet(timer_head') :
                 Keys(timer', raw_timer_count)[y] = Keys(timer, raw_timer_count)[y]
        BY <1>5, <2>2, <3>1, StopLemma
      <3> QED BY <3>2 DEF H1, K, K1
    <2>4. H1 = H \ {x}
      BY <1>7, <2>1 DEF H1
    <2>5. \A y \in Timers : y \in H1 <=> timer'[y].state = "ACTIVE"
      BY <1>3, <2>2, <2>4
    <2> QED BY <1>5, <1>7, <2>1, <2>2, <2>3, <2>4, <2>5
  <1>10. Result
    BY <1>8, <1>9
  <1> HIDE DEF Result
  <1>11. /\ pass' \in PassStates /\ InPass' /\ pass'.at = "callback"
         /\ pass'.x = x /\ pass'.iter = n
    BY <1>1, <1>3, <1>5, <1>6 DEF PassStates, InPass
  <1>12. TypeOK'
    <2>1. timer' \in [Timers -> TimerRecords] /\ timer_head' \in Seq(Timers)
      BY <1>10 DEF Result
    <2> QED BY <1>1, <1>11, <2>1 DEF IInv, TypeOK
  <1>13. StateInv' /\ InitInv' /\ ListHoldsActive'
    BY <1>5, <1>10 DEF Result, H1, IInv, StateInv, InitInv, ListHoldsActive, Linked
  <1>14. CallInv'
    <2>1. \A t \in Callers : call[t] # NoCall => call[t].x \in Timers
      BY CallFacts DEF IInv, TypeOK
    <2>2. /\ \A y \in Timers \ {x} : timer'[y] = timer[y]
          /\ timer'[x].is_timer
      BY <1>10 DEF Result
    <2> QED BY <1>1, <1>5, <2>1, <2>2 DEF IInv, CallInv
  <1>15. PassInv'
    <2>1. timer_mutex' = TimerTask
      BY <1>1, <1>2 DEF IInv, PassInv
    <2>2. n \in H1 \cup {NoTask}
      BY <1>6, <1>10 DEF Result
    <2>3. timer'[x].is_timer
      BY <1>10 DEF Result
    <2> QED BY <1>6, <1>11, <2>1, <2>2, <2>3 DEF PassInv, H1
  <1>16. OrderInv'
    <2>1. ASSUME NEW y \in H1, K1[y] = 0 PROVE Precedes(timer_head', n, y)
      <3>1. y \in H \ {x} /\ K[y] = 0
        BY <1>10, <2>1 DEF Result
      <3>2. n \in H /\ Precedes(timer_head, n, y)
        BY <1>4, <1>6, <3>1
      <3> QED BY <1>6, <1>10, <3>1, <3>2 DEF Result
    <2>2. OrderedBy(timer_head', K1)
      BY <1>10 DEF Result
    <2> QED BY <1>1, <1>11, <2>1, <2>2 DEF OrderInv, H1, K1
  <1> QED BY <1>12, <1>13, <1>14, <1>15, <1>16 DEF IInv

(* A callback returns, and may have stopped its own timer: the timer the   *)
(* pass goes on with is another one.                                       *)
LEMMA CallbackStep ==
  ASSUME TimerAssumption, IInv, NEW stop \in BOOLEAN, CallbackReturns(stop)
  PROVE  IInv'
  <1> DEFINE x  == pass.x
             H  == ToSet(timer_head)
             H1 == ToSet(timer_head')
             K  == Keys(timer, raw_timer_count)
             K1 == Keys(timer', raw_timer_count)
  <1>1. /\ pass.at = "callback" /\ pass' = Scan(pass.iter)
        /\ UNCHANGED <<raw_timer_count, timer_mutex, call>>
    BY DEF CallbackReturns
  <1>2. /\ InPass /\ timer_mutex = TimerTask
        /\ pass.iter \in H \cup {NoTask} /\ timer[x].is_timer /\ pass.iter # x
    BY <1>1 DEF IInv, PassInv, InPass
  <1>3. x \in Timers /\ pass.iter \in Timers \cup {NoTask}
    BY <1>1, PassFacts DEF IInv, TypeOK
  <1>4. /\ timer_head \in Seq(Timers) /\ IsInjective(timer_head) /\ H \subseteq Timers
        /\ \A y \in Timers : y \in H <=> timer[y].state = "ACTIVE"
    BY ListFacts DEF IInv
  <1>5. /\ timer \in [Timers -> TimerRecords] /\ raw_timer_count \in Times
        /\ OrderedBy(timer_head, K)
        /\ \A y \in H : K[y] = 0 => Precedes(timer_head, pass.iter, y)
    BY DEF IInv, TypeOK, OrderInv
  <1>6. /\ pass' \in PassStates /\ InPass' /\ pass'.at = "scan" /\ pass'.iter = pass.iter
    BY <1>1, <1>3 DEF Scan, PassStates, InPass
  <1>7. CASE UNCHANGED <<timer, timer_head>>
    <2>1. TypeOK'
      BY <1>1, <1>6, <1>7 DEF IInv, TypeOK
    <2>2. StateInv' /\ InitInv' /\ ListHoldsActive' /\ CallInv'
      BY <1>1, <1>7 DEF IInv, StateInv, InitInv, ListHoldsActive, Linked, CallInv
    <2>3. PassInv'
      BY <1>1, <1>2, <1>6, <1>7 DEF PassInv
    <2>4. OrderInv'
      BY <1>1, <1>5, <1>6, <1>7 DEF OrderInv
    <2> QED BY <2>1, <2>2, <2>3, <2>4 DEF IInv
  <1>8. CASE /\ timer' = [timer EXCEPT ![x].state = "DEACTIVE"]
             /\ timer_head' = list_delete(timer_head, x)
    <2>1. /\ timer' \in [Timers -> TimerRecords]
          /\ timer'[x].state = "DEACTIVE"
          /\ timer'[x].is_timer /\ timer'[x].init = timer[x].init
          /\ \A y \in Timers \ {x} : timer'[y] = timer[y]
      BY <1>2, <1>3, <1>5, <1>8 DEF TimerRecords
    <2>2. /\ timer_head' \in Seq(Timers) /\ IsInjective(timer_head') /\ H1 = H \ {x}
          /\ \A a, b \in H1 : Precedes(timer_head', a, b) <=> Precedes(timer_head, a, b)
          /\ OrderedBy(timer_head', K1)
          /\ \A y \in H1 : K1[y] = K[y]
      <3>1. TypeOK /\ ListHoldsActive
        BY DEF IInv
      <3>2. x \in Timers /\ OrderedBy(timer_head, K)
        BY <1>3, <1>5
      <3>3. /\ timer_head' = list_delete(timer_head, x)
            /\ \A y \in Timers \ {x} : timer'[y] = timer[y]
        BY <1>8, <2>1
      <3> HIDE DEF x
      <3> QED BY <3>1, <3>2, <3>3, StopLemma
    <2> HIDE DEF x, H, H1, K, K1
    <2>3. TypeOK'
      BY <1>1, <1>6, <2>1, <2>2 DEF IInv, TypeOK
    <2>4. \A y \in Timers : y \in H1 <=> timer'[y].state = "ACTIVE"
      BY <1>4, <2>1, <2>2
    <2>5. timer[x].init # 0
      BY <1>2, <1>3 DEF IInv, InitInv
    <2>6. StateInv' /\ InitInv' /\ ListHoldsActive'
      BY <1>3, <2>1, <2>2, <2>4, <2>5
         DEF H1, IInv, StateInv, InitInv, ListHoldsActive, Linked
    <2>7. CallInv'
      <3>1. \A t \in Callers : call[t] # NoCall => call[t].x \in Timers
        BY CallFacts DEF IInv, TypeOK
      <3> QED BY <1>1, <2>1, <3>1 DEF IInv, CallInv
    <2>8. PassInv'
      BY <1>1, <1>2, <1>6, <2>2 DEF PassInv, H1
    <2>9. OrderInv'
      <3>1. ASSUME NEW y \in H1, K1[y] = 0 PROVE Precedes(timer_head', pass.iter, y)
        <4>1. y \in H /\ Precedes(timer_head, pass.iter, y)
          BY <1>5, <2>2, <3>1
        <4>2. pass.iter \in H
          BY <1>4, <4>1, PrecedesOrder DEF H
        <4> QED BY <1>2, <2>2, <3>1, <4>1, <4>2
      <3> QED BY <1>1, <1>6, <2>2, <3>1 DEF OrderInv, H1, K1
    <2> QED BY <2>3, <2>6, <2>7, <2>8, <2>9 DEF IInv
  <1>9. \/ UNCHANGED <<timer, timer_head>>
        \/ /\ timer' = [timer EXCEPT ![x].state = "DEACTIVE"]
           /\ timer_head' = list_delete(timer_head, x)
    BY DEF CallbackReturns
  <1> QED BY <1>7, <1>8, <1>9

-----------------------------------------------------------------------------
(***************************************************************************)
(* The theorems.                                                           *)
(***************************************************************************)

LEMMA NextStep == TimerAssumption /\ IInv /\ [Next]_vars => IInv'
  <1> SUFFICES ASSUME TimerAssumption, IInv, [Next]_vars PROVE IInv'
    OBVIOUS
  <1>1. CASE \E t \in Callers : Steps(t)
    BY <1>1, LockStep, WorkStep, CreateStep DEF Steps
  <1>2. CASE TimerPass
    BY <1>2, QuietStep, TimerLockStep, ExpireStep, CallbackStep DEF TimerPass
  <1>3. CASE \E t \in Callers, c \in Calls \cup Changes : Exclusive(c.x) /\ Check(t, c)
    BY <1>3, CheckStep
  <1>4. CASE call_timer_task \/ UNCHANGED vars
    BY <1>4, QuietStep
  <1> QED BY <1>1, <1>2, <1>3, <1>4 DEF Next, System

(* Every reachable state satisfies the inductive invariant. *)
THEOREM Invariance == Spec => []IInv
  BY InitStep, NextStep, TimerAssumption, PTL DEF Spec

(* The list of timers holds the active ones, each once. *)
THEOREM ListExact == Spec => []ListHoldsActive
  <1>1. IInv => ListHoldsActive
    BY DEF IInv
  <1> QED BY <1>1, Invariance, PTL

(* The timer that expires first is in front, and none is left behind by a  *)
(* pass of the timer task.                                                 *)
THEOREM TimersOnTime == Spec => []NoneOverdue
  <1>1. ASSUME IInv PROVE NoneOverdue
    <2> DEFINE K == Keys(timer, raw_timer_count)
    <2>1. /\ timer_head \in Seq(Timers) /\ IsInjective(timer_head)
          /\ OrderedBy(timer_head, K)
          /\ \A y \in ToSet(timer_head) : K[y] = 0 =>
               InPass /\ Precedes(timer_head, pass.iter, y)
      BY <1>1, ListFacts DEF IInv, OrderInv
    <2>2. /\ Len(timer_head) \in Nat /\ DOMAIN timer_head = 1 .. Len(timer_head)
          /\ \A i \in 1 .. Len(timer_head) :
               timer_head[i] \in Timers /\ timer_head[i] \in ToSet(timer_head)
      BY <2>1, LenProperties, ElementOfSeq DEF ToSet
    <2>3. \A i \in 1 .. Len(timer_head) :
            Remaining(timer, timer_head[i]) = K[timer_head[i]]
      BY <2>2 DEF Remaining, Keys
    <2> HIDE DEF K
    <2>4. SortedByRemain
      <3> SUFFICES ASSUME NEW i \in 2 .. Len(timer_head)
                   PROVE  K[timer_head[i - 1]] <= K[timer_head[i]]
        BY <2>2, <2>3 DEF SortedByRemain
      <3>1. i \in DOMAIN timer_head /\ i - 1 \in DOMAIN timer_head /\ i - 1 <= i
        BY <2>2
      <3>2. Precedes(timer_head, timer_head[i - 1], timer_head[i])
        BY <3>1 DEF Precedes
      <3> QED BY <2>1, <2>2, <3>1, <3>2 DEF OrderedBy
    <2>5. ASSUME NEW i \in DOMAIN timer_head, Remaining(timer, timer_head[i]) = 0
          PROVE  /\ pass.at \in {"scan", "callback"}
                 /\ \E j \in 1 .. i : timer_head[j] = pass.iter
      <3>1. InPass /\ Precedes(timer_head, pass.iter, timer_head[i])
        BY <2>1, <2>2, <2>3, <2>5
      <3>2. PICK j, m \in DOMAIN timer_head :
              j <= m /\ timer_head[j] = pass.iter /\ timer_head[m] = timer_head[i]
        BY <3>1 DEF Precedes
      <3>3. m = i
        BY <2>1, <3>2 DEF IsInjective
      <3>4. j \in 1 .. i
        BY <2>2, <3>2, <3>3
      <3> QED BY <3>1, <3>2, <3>4 DEF InPass
    <2> QED BY <2>4, <2>5 DEF NoneOverdue
  <1> QED BY <1>1, Invariance, PTL

(* No service changes a timer while the timer task is in a pass, so none   *)
(* returns while a callback of its timer runs.                             *)
THEOREM PassKept == Spec => PassUndisturbed
  <1>1. IInv => \A t \in Callers : Work(t) => pass.at \notin {"scan", "callback"}
    BY TimerAssumption DEF IInv, PassInv, InPass, Work, TimerAssumption
  <1>2. IInv /\ [Next]_vars =>
          [\A t \in Callers : Work(t) => pass.at \notin {"scan", "callback"}]_vars
    BY <1>1
  <1> QED BY <1>2, Invariance, PTL DEF Spec, PassUndisturbed

(* raw_timer_activate starts a timer only if it is stopped when the list   *)
(* changes, although it tested that before it had the mutex.               *)
THEOREM StartsAreSafe == Spec => OnlyStoppedTimersStart
  <1>1. IInv => \A t \in Callers : Work(t) /\ call[t].op = "activate" =>
                  timer[call[t].x].state = "DEACTIVE"
    BY DEF IInv, CallInv, Work
  <1>2. IInv /\ [Next]_vars =>
          [\A t \in Callers : Work(t) /\ call[t].op = "activate" =>
             timer[call[t].x].state = "DEACTIVE"]_vars
    BY <1>1
  <1> QED BY <1>2, Invariance, PTL DEF Spec, OnlyStoppedTimersStart
=============================================================================
