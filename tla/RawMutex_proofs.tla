--------------------------- MODULE RawMutex_proofs ---------------------------
(***************************************************************************)
(* Proofs about mutexes, for any number of tasks and mutexes, any policies *)
(* and any services that end waits early: the lists of the kernel agree    *)
(* with each other and are sorted, every mutex has the owner the owner's   *)
(* list says, what a blocked raw_mutex_get answers is true, and every task *)
(* has exactly the priority that its base priority, the ceilings of its    *)
(* mutexes and their waiters demand, as long as the recursion that passes  *)
(* priorities on stays within its limit.                                   *)
(***************************************************************************)
EXTENDS RawMutex, RawTask_proofs, FiniteSetTheorems

SysStates ==
  [k : KStates, bpriority : [Tasks -> Int], mtxlist : [Tasks -> Seq(Mutexes)],
   mtxtsk : [Mutexes -> Tasks \cup {NoTask}], owner_nested : [Mutexes -> Int],
   exists : SUBSET Mutexes, levels : Int, system_error : BOOLEAN]

(* The lists are what the states of the tasks say and sorted, and what     *)
(* tasks wait for has an owner.                                            *)
SInv(s) ==
  /\ s \in SysStates /\ KInv(s.k) /\ WaitOrder(s.k)
  /\ s.k.priority \in [Tasks -> Prios] /\ s.bpriority \in [Tasks -> Prios]
  /\ \A m \in s.exists : Waiting(s.k, m) # {} => s.mtxtsk[m] \in Tasks

LEMMA ConstantsAre ==
  /\ NoTask \notin Tasks /\ NoObj \notin Mutexes /\ FifoObjects = {}
  /\ Prios \subseteq Nat /\ Ceiling \in [Mutexes -> Prios]
  /\ InitPrio \in [Tasks -> Prios] /\ RECURSION_LEVELS \in Nat /\ 0 \in Prios
  /\ TICKS \in Nat \ {0, 1} /\ COUNT_MOD \in Nat \ {0}
  BY TaskAssumption, MutexAssumption DEF Mutexes, Prios

LEMMA PriosAre == Prios \subseteq Int
  BY ConstantsAre

LEMMA OwnedAre ==
  ASSUME NEW s \in SysStates, NEW t \in Tasks
  PROVE  Owned(s, t) \subseteq Mutexes
  <1>1. s.mtxlist[t] \in Seq(Mutexes)
    BY DEF SysStates
  <1> QED BY <1>1, EmptyLemma DEF Owned

-----------------------------------------------------------------------------
(***************************************************************************)
(* The chains of priority changes.                                         *)
(***************************************************************************)

(* Nothing has changed but priorities, the order of the wait lists and     *)
(* what counts the recursion.                                              *)
Repriced(s, r) ==
  /\ Reordered(s.k, r.k)
  /\ r.bpriority = s.bpriority /\ r.mtxlist = s.mtxlist /\ r.mtxtsk = s.mtxtsk
  /\ r.owner_nested = s.owner_nested /\ r.exists = s.exists

LEMMA RepricedTrans ==
  ASSUME NEW s, NEW q, NEW r, Repriced(s, q), Repriced(q, r)
  PROVE  Repriced(s, r)
  BY ReorderedTrans DEF Repriced

LEMMA RepricedSame == \A s : Repriced(s, s)
  BY DEF Repriced, Reordered

LEMMA DemandLemma ==
  ASSUME NEW s, SInv(s), NEW m \in Mutexes
  PROVE  Demand(s, m) \subseteq Prios
  <1>1. s.k.block_list[m] \in Seq(Tasks) /\ s.k.priority \in [Tasks -> Prios]
    BY DEF SInv, SysStates, KStates, Mutexes
  <1>2. s.k.block_list[m] # <<>> => Head(s.k.block_list[m]) \in Tasks
    BY <1>1
  <1>3. Ceiling[m] \in Prios
    BY ConstantsAre
  <1> HIDE DEF Prios
  <1> QED BY <1>1, <1>2, <1>3 DEF Demand

LEMMA ChgPriMutexLemma ==
  ASSUME NEW s, SInv(s), NEW t \in Tasks, NEW p \in Prios
  PROVE  chg_pri_mutex(s, t, p) \in Prios
  <1> DEFINE T == {p} \cup UNION {Demand(s, m) : m \in Owned(s, t)}
  <1>1. \A m \in Owned(s, t) : Demand(s, m) \subseteq Prios
    BY OwnedAre, DemandLemma DEF SInv
  <1>2. T \subseteq Prios /\ T # {} /\ T \subseteq Nat
    BY <1>1, ConstantsAre
  <1>3. chg_pri_mutex(s, t, p) = Min(T)
    BY DEF chg_pri_mutex
  <1> HIDE DEF T, Prios
  <1> QED BY <1>2, <1>3, MinLemma

(* One task gets another priority. *)
LEMMA RepriceSys ==
  ASSUME NEW s, SInv(s), NEW t \in Tasks, NEW p \in Prios,
         NEW r, r = [s EXCEPT !.k =
           LET k1 == [s.k EXCEPT !.priority[t] = p]
           IN  IF s.k.state[t] \in PendStates THEN change_pend_list_priority(k1, t) ELSE k1]
  PROVE  /\ SInv(r) /\ Repriced(s, r) /\ r.levels = s.levels
         /\ s.k.state[t] \notin PendStates => r.k.block_list = s.k.block_list
  <1> DEFINE q == LET k1 == [s.k EXCEPT !.priority[t] = p]
                  IN  IF s.k.state[t] \in PendStates THEN change_pend_list_priority(k1, t)
                      ELSE k1
             x == s.k
  <1>1. KInv(x) /\ WaitOrder(x) /\ p \in Int
    BY ConstantsAre DEF SInv
  <1>2. q = LET k1 == [x EXCEPT !.priority[t] = p]
            IN  IF x.state[t] \in PendStates THEN change_pend_list_priority(k1, t) ELSE k1
    OBVIOUS
  <1>0. r = [s EXCEPT !.k = q]
    OBVIOUS
  <1> HIDE DEF q, x
  <1>3. /\ KInv(q) /\ WaitOrder(q) /\ Reordered(x, q)
        /\ q.priority = [x.priority EXCEPT ![t] = p]
        /\ x.state[t] \notin PendStates => q.block_list = x.block_list
    BY <1>1, <1>2, RepriceLemma
  <1>4. s \in SysStates
    BY DEF SInv
  <1>5. q \in KStates
    BY <1>3 DEF KInv
  <1>6. /\ r \in SysStates /\ r.k = q /\ r.bpriority = s.bpriority
        /\ r.mtxlist = s.mtxlist /\ r.mtxtsk = s.mtxtsk
        /\ r.owner_nested = s.owner_nested /\ r.exists = s.exists /\ r.levels = s.levels
    BY <1>0, <1>4, <1>5 DEF SysStates
  <1>7. q.priority \in [Tasks -> Prios]
    BY <1>3 DEF SInv, x
  <1>8. \A m \in r.exists : Waiting(r.k, m) = Waiting(s.k, m)
    BY <1>3, <1>4, <1>6 DEF SysStates, Reordered, Mutexes, x
  <1>9. SInv(r)
    BY <1>3, <1>6, <1>7, <1>8 DEF SInv
  <1>10. Repriced(s, r)
    BY <1>3, <1>6 DEF Repriced, x
  <1> QED BY <1>3, <1>6, <1>9, <1>10 DEF x

LoopStates ==
  [sys : SysStates, task : Tasks \cup {NoTask}, prio : Prios, calls : Int]

LoopState(a, b, c, d) == [sys |-> a, task |-> b, prio |-> c, calls |-> d]

(* What mtx_chg_pri changes in a state of the loop. *)
Failed(w) == [w EXCEPT !.sys.system_error = TRUE, !.task = NoTask]
Within(w) == [w EXCEPT !.sys.levels = @ + 1, !.calls = @ + 1, !.task = NoTask]
Onwards(w, u, p) == [w EXCEPT !.task = u, !.prio = p]

FailedSys(s) == [s EXCEPT !.system_error = TRUE]
WithinSys(s) == [s EXCEPT !.levels = @ + 1]

LEMMA LoopEdits ==
  ASSUME NEW w, NEW a, NEW b, NEW c, NEW d, w = LoopState(a, b, c, d)
  PROVE  /\ Failed(w) = LoopState(FailedSys(a), NoTask, c, d)
         /\ Within(w) = LoopState(WithinSys(a), NoTask, c, d + 1)
  <1>0. w.sys = a
    BY DEF LoopState
  <1>1. [w EXCEPT !.sys.system_error = TRUE, !.task = NoTask]
          = LoopState([a EXCEPT !.system_error = TRUE], NoTask, c, d)
    <2> DEFINE z == [a EXCEPT !.system_error = TRUE]
               e == [w EXCEPT !.sys = z]
    <2>1. [w EXCEPT !.sys.system_error = TRUE] = e
      BY <1>0
    <2> HIDE DEF z
    <2>2. e = LoopState(z, b, c, d)
      BY DEF LoopState
    <2>3. [e EXCEPT !.task = NoTask] = LoopState(z, NoTask, c, d)
      <3> HIDE DEF e
      <3> QED BY <2>2 DEF LoopState
    <2> QED BY <2>1, <2>3 DEF z
  <1>2. [w EXCEPT !.sys.levels = @ + 1, !.calls = @ + 1, !.task = NoTask]
          = LoopState([a EXCEPT !.levels = @ + 1], NoTask, c, d + 1)
    <2> DEFINE z == [a EXCEPT !.levels = @ + 1]
               e == [w EXCEPT !.sys = z]
               f == [e EXCEPT !.calls = @ + 1]
    <2>1. [w EXCEPT !.sys.levels = @ + 1] = e
      BY <1>0
    <2> HIDE DEF z
    <2>2. e = LoopState(z, b, c, d)
      BY DEF LoopState
    <2>3. f = LoopState(z, b, c, d + 1)
      <3> HIDE DEF e
      <3> QED BY <2>2 DEF LoopState
    <2>4. [f EXCEPT !.task = NoTask] = LoopState(z, NoTask, c, d + 1)
      <3> HIDE DEF f
      <3> QED BY <2>3 DEF LoopState
    <2> QED BY <2>1, <2>4 DEF z
  <1> QED BY <1>1, <1>2 DEF Failed, Within, FailedSys, WithinSys

LEMMA LoopNext ==
  ASSUME NEW w, NEW a, NEW b, NEW c, NEW d, w = LoopState(a, b, c, d), NEW x, NEW y
  PROVE  Onwards(w, x, y) = LoopState(a, x, y, d)
  <1> DEFINE f == [w EXCEPT !.task = x]
  <1>1. f = LoopState(a, x, c, d)
    BY DEF LoopState
  <1>2. [f EXCEPT !.prio = y] = LoopState(a, x, y, d)
    <2> HIDE DEF f
    <2> QED BY <1>1 DEF LoopState
  <1> QED BY <1>2 DEF Onwards

(* A state of the loop that started in s with t. *)
LoopInv(s, t, w) ==
  /\ w \in LoopStates /\ SInv(w.sys) /\ Repriced(s, w.sys)
  /\ w.sys.levels = s.levels + w.calls
  /\ s.k.state[t] \notin PendStates =>
       w.sys.k.block_list = s.k.block_list /\ w.task \in {t, NoTask}

(* mtx_chg_pri, of a task that waits. *)
LEMMA MtxChgPriLemma ==
  ASSUME NEW s, NEW t, NEW w, LoopInv(s, t, w), s.levels \in Int,
         s.k.state[t] \in PendStates, NEW u \in Tasks, w.sys.k.state[u] \in PendStates,
         NEW old, NEW r, r = mtx_chg_pri(w, u, old)
  PROVE  LoopInv(s, t, r)
  <1> DEFINE x == w.sys
             m == x.k.block_obj[u]
             owner == x.mtxtsk[m]
             up == WithinSys(x)
             bad == FailedSys(x)
  <1>1. w \in LoopStates /\ SInv(x) /\ x \in SysStates /\ w.calls \in Int
    BY DEF LoopInv, SInv, LoopStates
  <1>2. m \in Mutexes /\ u \in Waiting(x.k, m)
    BY <1>1, WaitingIs DEF LoopInv, SInv, KInv, Mutexes
  <1>3. m \in x.exists => owner \in Tasks
    BY <1>1, <1>2 DEF SInv
  <1>4. x.k.priority[u] \in Prios /\ x.k.priority \in [Tasks -> Prios]
    BY <1>1 DEF SInv
  <1>5. m \in x.exists => demanded(x, owner) \in Prios
    <2>1. m \in x.exists => x.bpriority[owner] \in Prios
      BY <1>1, <1>3 DEF SInv
    <2> HIDE DEF m, owner, x, Prios
    <2> QED BY <1>1, <1>3, <2>1, ChgPriMutexLemma DEF demanded
  <1>6. /\ up \in SysStates /\ up.k = x.k /\ up.bpriority = x.bpriority
        /\ up.mtxlist = x.mtxlist /\ up.mtxtsk = x.mtxtsk /\ up.levels = x.levels + 1
        /\ up.owner_nested = x.owner_nested /\ up.exists = x.exists
    <2> HIDE DEF x
    <2> DEFINE n == x.levels + 1
    <2>1. n \in Int
      BY <1>1 DEF SysStates
    <2>2. up = [x EXCEPT !.levels = n]
      BY DEF WithinSys
    <2> HIDE DEF n, up
    <2>3. /\ up.k = x.k /\ up.bpriority = x.bpriority /\ up.levels = n
          /\ up.mtxlist = x.mtxlist /\ up.mtxtsk = x.mtxtsk
          /\ up.owner_nested = x.owner_nested /\ up.exists = x.exists
      BY <1>1, <2>2 DEF SysStates
    <2>4. up \in SysStates
      BY <1>1, <2>1, <2>2 DEF SysStates
    <2> QED BY <2>3, <2>4 DEF n
  <1>7. /\ bad \in SysStates /\ bad.k = x.k /\ bad.bpriority = x.bpriority
        /\ bad.mtxlist = x.mtxlist /\ bad.mtxtsk = x.mtxtsk /\ bad.levels = x.levels
        /\ bad.owner_nested = x.owner_nested /\ bad.exists = x.exists
    BY <1>1 DEF SysStates, FailedSys
  <1>8. /\ SInv(up) /\ Repriced(s, up) /\ SInv(bad) /\ Repriced(s, bad)
    BY <1>6, <1>7 DEF SInv, Repriced, LoopInv
  <1>9. x.levels = s.levels + w.calls
    BY DEF LoopInv
  <1>10. \/ r = LoopState(bad, NoTask, w.prio, w.calls)
         \/ \E b \in Tasks \cup {NoTask}, c \in Prios :
              r = LoopState(up, b, c, w.calls + 1)
    <2>1. w = LoopState(x, w.task, w.prio, w.calls) /\ w.prio \in Prios
      BY <1>1 DEF LoopStates, LoopState
    <2> DEFINE within == Within(w)
               failed == Failed(w)
    <2>2. /\ within = LoopState(up, NoTask, w.prio, w.calls + 1)
          /\ failed = LoopState(bad, NoTask, w.prio, w.calls)
      BY <2>1, LoopEdits
    <2>3. r = IF x.levels > RECURSION_LEVELS THEN failed
              ELSE IF m \notin x.exists \/ Policy[m] # "INHERIT" THEN within
              ELSE IF x.k.priority[owner] > x.k.priority[u]
              THEN Onwards(within, owner, x.k.priority[u])
              ELSE IF x.k.priority[owner] = old /\ demanded(x, owner) # old
              THEN Onwards(within, owner, demanded(x, owner))
              ELSE within
      BY DEF mtx_chg_pri, Within, Failed, Onwards
    <2> HIDE DEF within, failed, m, owner, up, bad, x, Prios
    <2>4. \A b, c : Onwards(within, b, c) = LoopState(up, b, c, w.calls + 1)
      BY <2>2, LoopNext
    <2>6. \/ r = LoopState(bad, NoTask, w.prio, w.calls)
          \/ r = LoopState(up, NoTask, w.prio, w.calls + 1)
          \/ m \in x.exists /\ r = LoopState(up, owner, x.k.priority[u], w.calls + 1)
          \/ m \in x.exists /\ r = LoopState(up, owner, demanded(x, owner), w.calls + 1)
      BY <2>2, <2>3, <2>4
    <2> QED BY <1>3, <1>4, <1>5, <2>1, <2>6
  <1> HIDE DEF up, bad, m, owner, x
  <1>11. ASSUME r = LoopState(bad, NoTask, w.prio, w.calls) PROVE LoopInv(s, t, r)
    <2>1. r \in LoopStates /\ r.sys = bad /\ r.calls = w.calls
      BY <1>1, <1>7, <1>11 DEF LoopStates, LoopState
    <2> QED BY <1>7, <1>8, <1>9, <2>1 DEF LoopInv
  <1>12. ASSUME NEW b \in Tasks \cup {NoTask}, NEW c \in Prios,
                r = LoopState(up, b, c, w.calls + 1)
         PROVE  LoopInv(s, t, r)
    <2>1. r \in LoopStates /\ r.sys = up /\ r.calls = w.calls + 1
      BY <1>1, <1>6, <1>12 DEF LoopStates, LoopState
    <2>2. up.levels = s.levels + (w.calls + 1)
      BY <1>1, <1>6, <1>9
    <2> QED BY <1>8, <2>1, <2>2 DEF LoopInv
  <1> QED BY <1>10, <1>11, <1>12

LEMMA ChangeOneLemma ==
  ASSUME NEW s, NEW t, NEW w, LoopInv(s, t, w), s.levels \in Int, NEW r, r = change_one(w)
  PROVE  LoopInv(s, t, r)
  <1> DEFINE u == w.task
             x == w.sys
             p == w.prio
  <1>1. /\ w \in LoopStates /\ SInv(x) /\ x \in SysStates /\ w.calls \in Int /\ p \in Prios
        /\ u \in Tasks \cup {NoTask} /\ Repriced(s, x) /\ x.levels = s.levels + w.calls
    BY DEF LoopInv, SInv, LoopStates
  <1>2. CASE u = NoTask
    BY <1>2 DEF change_one
  <1>3. CASE u # NoTask
    <2> DEFINE q == LET k1 == [x.k EXCEPT !.priority[u] = p]
                    IN  IF x.k.state[u] \in PendStates
                        THEN change_pend_list_priority(k1, u) ELSE k1
               y == [x EXCEPT !.k = q]
    <2>0. u \in Tasks
      BY <1>1, <1>3
    <2>1. /\ SInv(y) /\ Repriced(x, y) /\ y.levels = x.levels
          /\ x.k.state[u] \notin PendStates => y.k.block_list = x.k.block_list
      <3>1. y = [x EXCEPT !.k = LET k1 == [x.k EXCEPT !.priority[u] = p]
                    IN  IF x.k.state[u] \in PendStates
                        THEN change_pend_list_priority(k1, u) ELSE k1]
        OBVIOUS
      <3> HIDE DEF y, x, u, p
      <3> QED BY <1>1, <2>0, <3>1, RepriceSys
    <2>2. Repriced(s, y)
      BY <1>1, <2>1, RepricedTrans
    <2>3. x.k.state = s.k.state
      BY <1>1 DEF Repriced, Reordered
    <2>4. /\ [x EXCEPT !.k.priority[u] = p] = [x EXCEPT !.k = [x.k EXCEPT !.priority[u] = p]]
      BY <1>1 DEF SysStates, KStates
    <2>5. CASE x.k.state[u] \in PendStates
      <3> DEFINE v == [w EXCEPT !.sys = y]
      <3>1. r = mtx_chg_pri(v, u, x.k.priority[u])
        <4>1. [[x EXCEPT !.k.priority[u] = p] EXCEPT !.k = change_pend_list_priority(@, u)] = y
          BY <1>1, <2>4, <2>5 DEF SysStates
        <4> QED BY <1>3, <2>5, <4>1 DEF change_one
      <3>2. s.k.state[t] \in PendStates
        BY <2>3, <2>5, <1>3 DEF LoopInv
      <3>3. v.sys = y /\ v \in LoopStates /\ v.calls = w.calls
        BY <1>1, <2>1 DEF LoopStates, SInv
      <3> HIDE DEF v, y
      <3>4. LoopInv(s, t, v)
        BY <1>1, <2>1, <2>2, <3>2, <3>3 DEF LoopInv
      <3>5. v.sys.k.state[u] \in PendStates
        BY <2>1, <2>5, <3>3 DEF Repriced, Reordered
      <3> DEFINE old == x.k.priority[u]
      <3>6. r = mtx_chg_pri(v, u, old)
        BY <3>1
      <3> HIDE DEF old, u
      <3> QED BY <2>0, <3>2, <3>4, <3>5, <3>6, MtxChgPriLemma
    <2>6. CASE x.k.state[u] \notin PendStates
      <3>1. y = [x EXCEPT !.k = [x.k EXCEPT !.priority[u] = p]]
        BY <2>6
      <3>2. \/ r = [w EXCEPT !.task = NoTask]
            \/ r = [w EXCEPT !.sys = y, !.task = NoTask]
        BY <1>3, <2>4, <2>6, <3>1 DEF change_one
      <3> HIDE DEF y
      <3>3. r \in LoopStates /\ r.sys \in {x, y} /\ r.task = NoTask /\ r.calls = w.calls
        BY <1>1, <2>1, <3>2 DEF LoopStates, SInv
      <3> QED BY <1>1, <2>1, <2>2, <2>6, <3>3 DEF LoopInv
    <2> QED BY <2>5, <2>6
  <1> QED BY <1>2, <1>3

(* The rounds of the loop. *)
LEMMA ChainRounds ==
  ASSUME NEW s, SInv(s), NEW t \in Tasks, NEW p \in Prios
  PROVE  LET last == RECURSION_LEVELS + 2
         IN  \E h : /\ h[0] = LoopState(s, t, p, 0)
                    /\ \A i \in 1 .. last : h[i] = change_one(h[i - 1])
                    /\ change_internal_task_priority(s, t, p)
                         = [h[last].sys EXCEPT !.levels = @ - h[last].calls]
  <1> DEFINE last == RECURSION_LEVELS + 2
             b == [sys |-> s, task |-> t, prio |-> p, calls |-> 0]
             E(g) == [i \in 0 .. last |-> IF i = 0 THEN b ELSE change_one(g[i - 1])]
             h == CHOOSE g : g = E(g)
             S == {w \in LoopStates : LoopInv(s, t, w)}
             F == [i \in 1 .. last |-> [w \in S |-> change_one(w)]]
  <1>1. last \in Nat /\ s \in SysStates /\ s.levels \in Int
    BY ConstantsAre DEF SInv, SysStates
  <1>2. b = LoopState(s, t, p, 0)
    BY DEF LoopState
  <1>3. b \in S
    <2>1. b \in LoopStates /\ b.sys = s /\ b.calls = 0 /\ b.task = t
      BY <1>1 DEF LoopStates
    <2> HIDE DEF b
    <2>2. s.levels = s.levels + 0
      BY <1>1
    <2> QED BY <2>1, <2>2, RepricedSame DEF LoopInv
  <1>4. F \in [1 .. last -> [S -> S]]
    <2>1. \A w \in S : change_one(w) \in S
      BY <1>1, ChangeOneLemma DEF LoopInv
    <2> HIDE DEF S
    <2> QED BY <2>1
  <1>5. change_internal_task_priority(s, t, p)
          = [h[last].sys EXCEPT !.levels = @ - h[last].calls]
    BY DEF change_internal_task_priority
  <1> HIDE DEF b
  <1>6. PICK g \in [0 .. last -> S] :
          g[0] = b /\ \A i \in 1 .. last : g[i] = F[i][g[i - 1]]
    <2> HIDE DEF S, F, h, last, E
    <2> QED BY <1>1, <1>3, <1>4, Iteration, SMTT(60)
  <1>7. \A i \in 1 .. last : g[i] = change_one(g[i - 1])
    <2>1. \A i \in 1 .. last : i - 1 \in 0 .. last
      BY <1>1
    <2> HIDE DEF S, last
    <2>2. \A i \in 1 .. last : g[i - 1] \in S
      BY <1>6, <2>1
    <2> QED BY <1>6, <2>2
  <1> HIDE DEF F, S, last
  <1>8. g = E(g)
    <2>1. \A i \in 0 .. last : g[i] = E(g)[i]
      BY <1>1, <1>6, <1>7
    <2> QED BY <1>6, <2>1
  <1>9. h = E(h)
    <2> HIDE DEF E
    <2> QED BY <1>8
  <1> HIDE DEF h
  <1>10. h[0] = b /\ \A i \in 1 .. last : h[i] = change_one(h[i - 1])
    <2>1. 0 \in 0 .. last /\ \A i \in 1 .. last : i \in 0 .. last /\ i # 0
      BY <1>1
    <2>2. E(h)[0] = b /\ \A i \in 1 .. last : E(h)[i] = change_one(h[i - 1])
      BY <2>1
    <2> HIDE DEF E
    <2> QED BY <1>9, <2>2
  <1> QED BY <1>2, <1>5, <1>10 DEF last

(* change_internal_task_priority changes priorities and the places of      *)
(* tasks that wait, and nothing else.                                      *)
LEMMA ChainLemma ==
  ASSUME NEW s, SInv(s), NEW t \in Tasks, NEW p \in Prios,
         NEW r, r = change_internal_task_priority(s, t, p)
  PROVE  /\ SInv(r) /\ Repriced(s, r) /\ r.levels = s.levels
         /\ s.k.state[t] \notin PendStates => r.k.block_list = s.k.block_list
  <1> DEFINE last == RECURSION_LEVELS + 2
  <1>1. last \in Nat /\ s \in SysStates /\ s.levels \in Int
    BY ConstantsAre DEF SInv, SysStates
  <1>2. PICK h : /\ h[0] = LoopState(s, t, p, 0)
                 /\ \A i \in 1 .. last : h[i] = change_one(h[i - 1])
                 /\ r = [h[last].sys EXCEPT !.levels = @ - h[last].calls]
    BY ChainRounds
  <1> HIDE DEF last
  <1> DEFINE T == {i \in 0 .. last : LoopInv(s, t, h[i])}
             b == LoopState(s, t, p, 0)
  <1>3. 0 \in T
    <2>1. b \in LoopStates /\ b.sys = s /\ b.calls = 0 /\ b.task = t
      BY <1>1 DEF LoopStates, LoopState, SInv
    <2>2. s.levels = s.levels + 0
      BY <1>1
    <2>3. LoopInv(s, t, b)
      <3> HIDE DEF b
      <3> QED BY <2>1, <2>2, RepricedSame DEF LoopInv
    <2> QED BY <1>1, <1>2, <2>3
  <1>4. \A i \in 1 .. last : i - 1 \in T => i \in T
    BY <1>1, <1>2, ChangeOneLemma
  <1>5. LoopInv(s, t, h[last])
    <2>1. \A i \in 0 .. last : i \in T
      <3> HIDE DEF T
      <3> QED BY <1>1, <1>3, <1>4, Rounds
    <2> QED BY <1>1, <2>1
  <1> DEFINE x == h[last].sys
             n == h[last].calls
             m == x.levels - n
  <1>6. /\ SInv(x) /\ Repriced(s, x) /\ x \in SysStates /\ n \in Int /\ x.levels \in Int
        /\ x.levels = s.levels + n
        /\ s.k.state[t] \notin PendStates => x.k.block_list = s.k.block_list
    BY <1>5 DEF LoopInv, SInv, LoopStates, SysStates
  <1>7. r = [x EXCEPT !.levels = m]
    BY <1>2
  <1>8. m = s.levels /\ m \in Int
    BY <1>1, <1>6
  <1> HIDE DEF x, n, m
  <1>9. /\ r.k = x.k /\ r.bpriority = x.bpriority /\ r.mtxlist = x.mtxlist
        /\ r.mtxtsk = x.mtxtsk /\ r.owner_nested = x.owner_nested /\ r.exists = x.exists
        /\ r.levels = m
    BY <1>6, <1>7 DEF SysStates
  <1>10. r \in SysStates
    BY <1>6, <1>7, <1>8 DEF SysStates
  <1>11. SInv(r) /\ Repriced(s, r)
    BY <1>6, <1>9, <1>10 DEF SInv, Repriced
  <1> QED BY <1>6, <1>8, <1>9, <1>11

LEMMA AdjustLemma ==
  ASSUME NEW s, SInv(s), NEW t \in Tasks, NEW r, r = adjust(s, t)
  PROVE  /\ SInv(r) /\ Repriced(s, r) /\ r.levels = s.levels
         /\ s.k.state[t] \notin PendStates => r.k.block_list = s.k.block_list
  <1> DEFINE p == demanded(s, t)
  <1>1. p \in Prios
    <2>1. s.bpriority[t] \in Prios
      BY DEF SInv
    <2> HIDE DEF Prios
    <2> QED BY <2>1, ChgPriMutexLemma DEF demanded
  <1>2. r = IF p = s.k.priority[t] THEN s ELSE change_internal_task_priority(s, t, p)
    BY DEF adjust
  <1> HIDE DEF p
  <1>3. CASE p = s.k.priority[t]
    BY <1>2, <1>3, RepricedSame
  <1>4. CASE p # s.k.priority[t]
    <2>1. r = change_internal_task_priority(s, t, p)
      BY <1>2, <1>4
    <2> QED BY <1>1, <2>1, ChainLemma
  <1> QED BY <1>3, <1>4

(* A task that waits or has just stopped waiting for o. *)
LEMMA StateChangeLemma ==
  ASSUME NEW s, SInv(s), NEW t \in Tasks, NEW o \in Mutexes, s.mtxtsk[o] \in Tasks,
         NEW r, r = mutex_state_change(s, t, o)
  PROVE  /\ SInv(r) /\ Repriced(s, r) /\ r.levels = s.levels
  <1> DEFINE u == s.mtxtsk[o]
  <1>1. r = adjust(s, u) \/ r = s
    BY DEF mutex_state_change
  <1>2. ASSUME r = adjust(s, u) PROVE SInv(r) /\ Repriced(s, r) /\ r.levels = s.levels
    <2>1. u \in Tasks
      OBVIOUS
    <2> HIDE DEF u
    <2> QED BY <1>2, <2>1, AdjustLemma
  <1> QED BY <1>1, <1>2, RepricedSame

LEMMA CeilingLemma ==
  ASSUME NEW s, SInv(s), NEW t \in Tasks, NEW m \in Mutexes,
         NEW r, r = raise_to_ceiling(s, m, t)
  PROVE  /\ SInv(r) /\ Repriced(s, r) /\ r.levels = s.levels
         /\ s.k.state[t] \notin PendStates => r.k.block_list = s.k.block_list
  <1> DEFINE p == Ceiling[m]
  <1>1. p \in Prios
    BY ConstantsAre
  <1>2. r = change_internal_task_priority(s, t, p) \/ r = s
    BY DEF raise_to_ceiling
  <1> HIDE DEF p
  <1>3. ASSUME r = change_internal_task_priority(s, t, p)
        PROVE  /\ SInv(r) /\ Repriced(s, r) /\ r.levels = s.levels
               /\ s.k.state[t] \notin PendStates => r.k.block_list = s.k.block_list
    BY <1>1, <1>3, ChainLemma
  <1> QED BY <1>2, <1>3, RepricedSame

-----------------------------------------------------------------------------
(***************************************************************************)
(* Owners and answers.  L are the tasks whose mtxlists count: those that   *)
(* exist, but not the one that is about to be deleted.  The mutexes of M   *)
(* are in transit: they have left the list of their owner and not come to  *)
(* another.                                                                *)
(***************************************************************************)

(* mtxtsk and the mtxlists agree. *)
Ownership(s, L, M) ==
  /\ \A t \in Tasks : IsInjective(s.mtxlist[t])
  /\ \A t \in L, m \in Mutexes :
       m \in Owned(s, t) <=> m \in s.exists \ M /\ s.mtxtsk[m] = t
  /\ \A m \in s.exists \ M : s.mtxtsk[m] \in L \cup {NoTask}
  /\ \A m \in s.exists : Waiting(s.k, m) # {} => s.mtxtsk[m] \notin {NoTask} \cup Waiting(s.k, m)

(* Nobody waits for a mutex that was deleted. *)
NoneAstray(s) == \A m \in Mutexes \ s.exists : Waiting(s.k, m) = {}

(* A task that waits does so in a raw_mutex_get; there it does not sleep.  *)
CallsMatch(s, c) ==
  /\ c \in [Tasks -> Mutexes \cup {NoObj}]
  /\ \A t \in Tasks : s.k.state[t] \in PendStates => c[t] = s.k.block_obj[t]
  /\ \A t \in Tasks : s.k.state[t] \in IdleStates => c[t] = NoObj

(* The status of a wait says whether the task got the mutex. *)
AnswersRight(s, c, L) ==
  \A t \in L : c[t] \in s.exists => (Done(s.k, t) <=> s.mtxtsk[c[t]] = t)

CeilingsKept(s, L) ==
  \A t \in L : \A m \in s.exists :
    Policy[m] = "CEILING" /\ (m \in Owned(s, t) \/ s.k.block_obj[t] = m)
      => s.bpriority[t] >= Ceiling[m]

Owners(s, c, L, M) ==
  /\ Ownership(s, L, M) /\ CallsMatch(s, c) /\ AnswersRight(s, c, L)
  /\ CeilingsKept(s, L) /\ ObjectsMatch(s.k)

MInv(s, c, L, M) ==
  /\ Ownership(s, L, M) /\ NoneAstray(s) /\ CallsMatch(s, c)
  /\ AnswersRight(s, c, L) /\ CeilingsKept(s, L) /\ ObjectsMatch(s.k)

(* A change of priorities disturbs none of this. *)
LEMMA RepricedOwners ==
  ASSUME NEW s, SInv(s), NEW r, Repriced(s, r), NEW c, NEW L, NEW M, Owners(s, c, L, M)
  PROVE  /\ Owners(r, c, L, M) /\ (NoneAstray(s) => NoneAstray(r))
         /\ Alive(r.k) = Alive(s.k) /\ (TickOrder(s.k) => TickOrder(r.k))
  <1>1. /\ r.k.state = s.k.state /\ r.k.block_status = s.k.block_status
        /\ r.k.block_obj = s.k.block_obj /\ r.k.tick_match = s.k.tick_match
        /\ r.k.raw_tick_count = s.k.raw_tick_count /\ r.k.tick_head = s.k.tick_head
        /\ \A m \in Mutexes : Waiting(r.k, m) = Waiting(s.k, m)
        /\ r.bpriority = s.bpriority /\ r.mtxlist = s.mtxlist /\ r.mtxtsk = s.mtxtsk
        /\ r.exists = s.exists
    BY DEF Repriced, Reordered, Mutexes
  <1>2. s.exists \subseteq Mutexes
    BY DEF SInv, SysStates
  <1>3. Ownership(r, L, M)
    BY <1>1, <1>2 DEF Owners, Ownership, Owned
  <1>4. CallsMatch(r, c) /\ AnswersRight(r, c, L) /\ CeilingsKept(r, L)
    BY <1>1 DEF Owners, CallsMatch, AnswersRight, CeilingsKept, Done, Owned
  <1>5. Alive(r.k) = Alive(s.k) /\ ObjectsMatch(r.k)
    BY <1>1 DEF Owners, Alive, ObjectsMatch
  <1>6. TickOrder(s.k) => TickOrder(r.k)
    BY <1>1 DEF TickOrder, TimeLeft, Remaining
  <1>7. NoneAstray(s) => NoneAstray(r)
    BY <1>1 DEF NoneAstray
  <1> QED BY <1>3, <1>4, <1>5, <1>6, <1>7 DEF Owners

LEMMA RepricedKeeps ==
  ASSUME NEW s, SInv(s), NEW r, Repriced(s, r), NEW c, NEW L, NEW M, MInv(s, c, L, M)
  PROVE  /\ MInv(r, c, L, M) /\ Alive(r.k) = Alive(s.k)
         /\ TickOrder(s.k) => TickOrder(r.k)
  <1>1. Owners(s, c, L, M) /\ NoneAstray(s)
    BY DEF MInv, Owners
  <1>2. /\ Owners(r, c, L, M) /\ (NoneAstray(s) => NoneAstray(r))
        /\ Alive(r.k) = Alive(s.k) /\ (TickOrder(s.k) => TickOrder(r.k))
    BY <1>1, RepricedOwners
  <1> QED BY <1>1, <1>2 DEF MInv, Owners

(* The kernel's part of the state changes. *)
LEMMA KernelFields ==
  ASSUME NEW s \in SysStates, NEW q \in KStates, NEW r, r = [s EXCEPT !.k = q]
  PROVE  /\ r \in SysStates /\ r.k = q /\ r.bpriority = s.bpriority
         /\ r.mtxlist = s.mtxlist /\ r.mtxtsk = s.mtxtsk
         /\ r.owner_nested = s.owner_nested /\ r.exists = s.exists /\ r.levels = s.levels
  BY DEF SysStates

(* Waits end and none begins. *)
LEMMA LessWaiting ==
  ASSUME NEW s, SInv(s), NEW q, KInv(q), WaitOrder(q), q.priority = s.k.priority,
         \A m \in Mutexes : Waiting(q, m) \subseteq Waiting(s.k, m),
         NEW L, \A t \in L : q.block_obj[t] \in {s.k.block_obj[t], NoObj},
         NEW r, r = [s EXCEPT !.k = q],
         NEW M, Ownership(s, L, M), CeilingsKept(s, L)
  PROVE  /\ SInv(r) /\ Ownership(r, L, M) /\ (NoneAstray(s) => NoneAstray(r))
         /\ CeilingsKept(r, L)
  <1>1. s \in SysStates /\ q \in KStates
    BY DEF SInv, KInv
  <1>2. /\ r \in SysStates /\ r.k = q /\ r.bpriority = s.bpriority
        /\ r.mtxlist = s.mtxlist /\ r.mtxtsk = s.mtxtsk
        /\ r.owner_nested = s.owner_nested /\ r.exists = s.exists /\ r.levels = s.levels
    BY <1>1, KernelFields
  <1>3. s.exists \subseteq Mutexes
    BY <1>1 DEF SysStates
  <1>4. SInv(r)
    BY <1>2, <1>3 DEF SInv
  <1>5. Ownership(r, L, M)
    <2>1. \A m \in r.exists : Waiting(r.k, m) # {} =>
            r.mtxtsk[m] \notin {NoTask} \cup Waiting(r.k, m)
      BY <1>2, <1>3 DEF Ownership
    <2> QED BY <1>2, <2>1 DEF Ownership, Owned
  <1>6. NoneAstray(s) => NoneAstray(r)
    BY <1>2 DEF NoneAstray
  <1>7. CeilingsKept(r, L)
    <2>1. \A t \in L : r.k.block_obj[t] \in {s.k.block_obj[t], NoObj}
      BY <1>2
    <2>2. NoObj \notin r.exists
      BY <1>2, <1>3, ConstantsAre
    <2> QED BY <1>2, <2>1, <2>2 DEF CeilingsKept, Owned
  <1> QED BY <1>4, <1>5, <1>6, <1>7

(* Lists lose members. *)
LEMMA GentleKeeps ==
  ASSUME NEW s, SInv(s), NEW q, KInv(q), Gentle(s.k, q), NEW r, r = [s EXCEPT !.k = q],
         NEW L, NEW M, Ownership(s, L, M), CeilingsKept(s, L),
         L \subseteq Tasks, ObjectsMatch(s.k)
  PROVE  /\ SInv(r) /\ Ownership(r, L, M) /\ (NoneAstray(s) => NoneAstray(r))
         /\ CeilingsKept(r, L)
         /\ ObjectsMatch(r.k) /\ Alive(r.k) = Alive(s.k)
         /\ TickOrder(s.k) => TickOrder(r.k)
  <1>1. s \in SysStates /\ q \in KStates
    BY DEF SInv, KInv
  <1>2. r.k = q
    BY <1>1, KernelFields
  <1>3. \A m \in Mutexes : Waiting(q, m) \subseteq Waiting(s.k, m)
    BY DEF Gentle, Fewer, Sublist, Waiting, Mutexes
  <1>4. /\ WaitOrder(q) /\ (TickOrder(s.k) => TickOrder(q)) /\ q.priority = s.k.priority
    BY FewerOrder DEF Gentle, SInv, Fewer
  <1>5. \A t \in L : q.block_obj[t] \in {s.k.block_obj[t], NoObj}
    BY DEF Gentle
  <1>6. /\ SInv(r) /\ Ownership(r, L, M) /\ (NoneAstray(s) => NoneAstray(r))
        /\ CeilingsKept(r, L)
    BY <1>3, <1>4, <1>5, LessWaiting
  <1> QED BY <1>2, <1>4, <1>6 DEF Gentle

(* The waits that end here end without the mutex. *)
LEMMA CalmKeeps ==
  ASSUME NEW s, NEW r, NEW c, Calm(s.k, r.k, {t \in Tasks : c[t] = NoObj}),
         CallsMatch(s, c), r.mtxtsk = s.mtxtsk, r.exists \in SUBSET s.exists,
         s.exists \subseteq Mutexes, NEW L \in SUBSET Tasks, AnswersRight(s, c, L)
  PROVE  CallsMatch(r, c) /\ AnswersRight(r, c, L)
  <1>1. CallsMatch(r, c)
    BY DEF CallsMatch, Calm
  <1>2. AnswersRight(r, c, L)
    <2> SUFFICES ASSUME NEW t \in L, c[t] \in r.exists
                 PROVE  Done(r.k, t) <=> r.mtxtsk[c[t]] = t
      BY DEF AnswersRight
    <2>1. c[t] # NoObj /\ t \in Tasks
      BY ConstantsAre
    <2>2. Done(r.k, t) <=> Done(s.k, t)
      BY <2>1 DEF Calm
    <2> QED BY <2>2 DEF AnswersRight
  <1> QED BY <1>1, <1>2

LEMMA NotIdle ==
  ASSUME NEW s, NEW c, CallsMatch(s, c)
  PROVE  \A t \in Tasks \ {u \in Tasks : c[u] = NoObj} : s.k.state[t] \notin IdleStates
  BY DEF CallsMatch

(* owner_nested changes. *)
LEMMA NestedKeeps ==
  ASSUME NEW s, SInv(s), NEW m \in Mutexes, NEW n \in Int,
         NEW r, r = [s EXCEPT !.owner_nested[m] = n]
  PROVE  /\ SInv(r) /\ r.k = s.k /\ r.bpriority = s.bpriority
         /\ r.mtxlist = s.mtxlist /\ r.mtxtsk = s.mtxtsk
         /\ r.exists = s.exists /\ r.levels = s.levels
         /\ \A c, L, M : MInv(s, c, L, M) => MInv(r, c, L, M)
  <1> DEFINE nested == [s.owner_nested EXCEPT ![m] = n]
  <1>1. s \in SysStates
    BY DEF SInv
  <1>2. nested \in [Mutexes -> Int] /\ r = [s EXCEPT !.owner_nested = nested]
    BY <1>1 DEF SysStates
  <1> HIDE DEF nested
  <1>3. /\ r.k = s.k /\ r.bpriority = s.bpriority
        /\ r.mtxlist = s.mtxlist /\ r.mtxtsk = s.mtxtsk
        /\ r.exists = s.exists /\ r.levels = s.levels /\ r.owner_nested = nested
    BY <1>1, <1>2 DEF SysStates
  <1>4. r \in SysStates
    BY <1>1, <1>2 DEF SysStates
  <1>5. SInv(r)
    BY <1>3, <1>4 DEF SInv
  <1>6. \A c, L, M : MInv(s, c, L, M) => MInv(r, c, L, M)
    BY <1>3 DEF MInv, Ownership, NoneAstray, CallsMatch, AnswersRight, CeilingsKept, Owned
  <1> QED BY <1>3, <1>5, <1>6

-----------------------------------------------------------------------------
(***************************************************************************)
(* A mutex gets another owner.                                             *)
(***************************************************************************)

(* m gets the owner t and nothing else changes. *)
Given(s, r, m, t) ==
  /\ r.k = s.k /\ r.bpriority = s.bpriority /\ r.exists = s.exists /\ r.levels = s.levels
  /\ r.mtxtsk[m] = t /\ \A x \in Mutexes \ {m} : r.mtxtsk[x] = s.mtxtsk[x]
  /\ Owned(r, t) = Owned(s, t) \cup {m}
  /\ \A u \in Tasks \ {t} : Owned(r, u) = Owned(s, u)

(* own, of a mutex that is in no list. *)
LEMMA OwnLemma ==
  ASSUME NEW s, SInv(s), NEW L \in SUBSET Tasks, NEW M, Ownership(s, L, M),
         NEW m \in s.exists, m \in M \/ s.mtxtsk[m] = NoTask,
         NEW t \in L, t \notin Waiting(s.k, m), NEW r, r = own(s, m, t)
  PROVE  SInv(r) /\ Ownership(r, L, M \ {m}) /\ Given(s, r, m, t)
  <1> DEFINE l == <<m>> \o s.mtxlist[t]
             ml == [s.mtxlist EXCEPT ![t] = l]
             mt == [s.mtxtsk EXCEPT ![m] = t]
  <1>1. s \in SysStates /\ m \in Mutexes /\ t \in Tasks /\ s.exists \subseteq Mutexes
    BY DEF SInv, SysStates
  <1>2. m \notin Owned(s, t) /\ \A u \in L : m \notin Owned(s, u)
    BY <1>1, ConstantsAre DEF Ownership
  <1>3. s.mtxlist[t] \in Seq(Mutexes) /\ IsInjective(s.mtxlist[t])
    BY <1>1 DEF SysStates, Ownership
  <1>4. l \in Seq(Mutexes) /\ IsInjective(l) /\ ToSet(l) = Owned(s, t) \cup {m}
    BY <1>1, <1>2, <1>3, ConsLemma DEF Owned
  <1>5. r = [s EXCEPT !.mtxtsk = mt, !.mtxlist = ml]
    BY <1>1 DEF own, SysStates
  <1> HIDE DEF l
  <1>6. ml \in [Tasks -> Seq(Mutexes)] /\ mt \in [Mutexes -> Tasks \cup {NoTask}]
    BY <1>1, <1>4 DEF SysStates
  <1>7. /\ ml[t] = l /\ \A u \in Tasks \ {t} : ml[u] = s.mtxlist[u]
        /\ mt[m] = t /\ \A x \in Mutexes \ {m} : mt[x] = s.mtxtsk[x]
    BY <1>1 DEF SysStates
  <1> HIDE DEF ml, mt
  <1>8. /\ r.k = s.k /\ r.bpriority = s.bpriority /\ r.exists = s.exists
        /\ r.levels = s.levels /\ r.mtxtsk = mt /\ r.mtxlist = ml
    BY <1>1, <1>5 DEF SysStates
  <1>9. r \in SysStates
    BY <1>1, <1>5, <1>6 DEF SysStates
  <1>10. SInv(r)
    <2>1. \A x \in r.exists : Waiting(r.k, x) # {} => r.mtxtsk[x] \in Tasks
      BY <1>1, <1>7, <1>8 DEF SInv
    <2> QED BY <1>8, <1>9, <2>1 DEF SInv
  <1>11. /\ Owned(r, t) = Owned(s, t) \cup {m}
         /\ \A u \in Tasks \ {t} : Owned(r, u) = Owned(s, u)
    BY <1>4, <1>7, <1>8 DEF Owned
  <1>12. Ownership(r, L, M \ {m})
    <2>1. \A u \in Tasks : IsInjective(r.mtxlist[u])
      BY <1>4, <1>7, <1>8 DEF Ownership
    <2>2. ASSUME NEW u \in L, NEW x \in Mutexes
          PROVE  x \in Owned(r, u) <=> x \in r.exists \ (M \ {m}) /\ r.mtxtsk[x] = u
      <3>1. CASE x = m
        BY <1>1, <1>2, <1>7, <1>8, <1>11, <3>1
      <3>2. CASE x # m
        <4>1. r.mtxtsk[x] = s.mtxtsk[x] /\ (x \in Owned(r, u) <=> x \in Owned(s, u))
          BY <1>7, <1>8, <1>11, <3>2
        <4> QED BY <1>8, <3>2, <4>1 DEF Ownership
      <3> QED BY <3>1, <3>2
    <2>3. \A x \in r.exists \ (M \ {m}) : r.mtxtsk[x] \in L \cup {NoTask}
      BY <1>1, <1>7, <1>8 DEF Ownership
    <2>4. \A x \in r.exists : Waiting(r.k, x) # {} =>
            r.mtxtsk[x] \notin {NoTask} \cup Waiting(r.k, x)
      BY <1>1, <1>7, <1>8, ConstantsAre DEF Ownership
    <2> QED BY <2>1, <2>2, <2>3, <2>4 DEF Ownership
  <1> QED BY <1>7, <1>8, <1>10, <1>11, <1>12 DEF Given

(* m has passed to h, whose wait is over. *)
HandedTo(s, r, m, h) ==
  /\ r.exists = s.exists /\ r.levels = s.levels
  /\ r.mtxtsk[m] = h
  /\ \A x \in Mutexes \ {m} : /\ r.mtxtsk[x] = s.mtxtsk[x]
                              /\ r.k.block_list[x] = s.k.block_list[x]
  /\ \A u \in Tasks \ {h} : /\ r.k.state[u] = s.k.state[u]
                            /\ r.k.block_obj[u] = s.k.block_obj[u]
  /\ Alive(r.k) = Alive(s.k) /\ (TickOrder(s.k) => TickOrder(r.k))

(* wake_owner: the first task that waits for m, which is in transit, gets  *)
(* it, and knows.                                                          *)
LEMMA WakeOwnerLemma ==
  ASSUME NEW s, SInv(s), NEW c, NEW L \in SUBSET Tasks, NEW M, MInv(s, c, L, M),
         NEW m \in s.exists, m \in M,
         \A t \in L : c[t] = m => s.mtxtsk[m] # t,
         NEW h \in L, h \in Waiting(s.k, m),
         NEW r, r = wake_owner(s, m, h)
  PROVE  SInv(r) /\ MInv(r, c, L, M \ {m}) /\ HandedTo(s, r, m, h)
  <1> DEFINE x == s.k
             q == pend_task_wake_up(x, h)
             s1 == [s EXCEPT !.k = q]
             s2 == own(s1, m, h)
             st == "OK"
  <1>1. r = raise_to_ceiling(s2, m, h)
    BY DEF wake_owner
  <1>2. /\ m \in Mutexes /\ s \in SysStates /\ h \in Tasks /\ KInv(x) /\ x \in KStates
        /\ s.exists \subseteq Mutexes
    BY DEF SInv, SysStates, KInv
  <1>3. /\ x.state[h] \in PendStates /\ x.block_obj[h] = m /\ x.state[h] # "DELETED"
        /\ \A y \in Mutexes \ {m} : h \notin Waiting(x, y)
    BY <1>2, WaitingIs DEF PendStates, Mutexes
  <1>4. q = end_wait(x, h, st) /\ st \in Statuses
    BY DEF pend_task_wake_up, Statuses
  <1> HIDE DEF x, q, st
  <1>5. KInv(q) /\ Ended(x, q, {h}) /\ q.block_status[h] = st
    BY <1>2, <1>3, <1>4, EndWaitLemma
  <1>6. Gentle(x, q) /\ q.tick_head = list_delete(x.tick_head, h)
    BY <1>2, <1>3, <1>4, EndWaitGentle
  <1>7. q.block_list = [x.block_list EXCEPT ![x.block_obj[h]] = list_delete(@, h)]
    <2>1. /\ q \in KStates
          /\ q.state = [x.state EXCEPT ![h] =
               IF x.state[h] \in {"PEND", "PEND_TIMEOUT"} THEN "RDY" ELSE "SUSPENDED"]
          /\ q.ready = IF x.state[h] \in {"PEND", "PEND_TIMEOUT"} THEN x.ready \cup {h}
                       ELSE x.ready
          /\ q.block_status = [x.block_status EXCEPT ![h] = st]
          /\ q.block_obj = [x.block_obj EXCEPT ![h] = NoObj]
          /\ q.tick_head = list_delete(x.tick_head, h)
          /\ q.block_list =
               [x.block_list EXCEPT ![x.block_obj[h]] = list_delete(@, h)]
          /\ q.priority = x.priority
          /\ q.tick_match = x.tick_match /\ q.raw_tick_count = x.raw_tick_count
      BY <1>2, <1>4, EndWaitFields
    <2> QED BY <2>1
  <1>8. \A y \in Mutexes \ {m} : q.block_list[y] = x.block_list[y]
    BY <1>2, <1>3, <1>7 DEF KStates, Mutexes
  <1>9. /\ s1 \in SysStates /\ s1.k = q /\ s1.bpriority = s.bpriority
        /\ s1.mtxlist = s.mtxlist /\ s1.mtxtsk = s.mtxtsk
        /\ s1.owner_nested = s.owner_nested /\ s1.exists = s.exists /\ s1.levels = s.levels
    <2>1. q \in KStates
      BY <1>5 DEF KInv
    <2> HIDE DEF s1
    <2> QED BY <1>2, <2>1, KernelFields DEF s1
  <1>10. /\ SInv(s1) /\ Ownership(s1, L, M) /\ (NoneAstray(s) => NoneAstray(s1))
         /\ CeilingsKept(s1, L)
         /\ ObjectsMatch(s1.k) /\ Alive(s1.k) = Alive(s.k)
         /\ TickOrder(s.k) => TickOrder(s1.k)
    <2>1. /\ Ownership(s, L, M) /\ CeilingsKept(s, L) /\ ObjectsMatch(s.k)
          /\ L \subseteq Tasks /\ Gentle(s.k, q) /\ s1 = [s EXCEPT !.k = q]
      BY <1>6 DEF MInv, x
    <2> HIDE DEF s1
    <2> QED BY <1>5, <2>1, GentleKeeps
  <1> HIDE DEF s1
  <1>11. h \notin Waiting(s1.k, m)
    BY <1>2, <1>5, <1>9 DEF Ended, Mutexes
  <1>22. SInv(s2) /\ Ownership(s2, L, M \ {m}) /\ Given(s1, s2, m, h)
    <2>2. m \in M \/ s1.mtxtsk[m] = NoTask
      OBVIOUS
    <2>3. SInv(s1)
      BY <1>10
    <2>4. Ownership(s1, L, M)
      BY <1>10
    <2>5. s2 = own(s1, m, h)
      OBVIOUS
    <2>6. m \in s1.exists
      BY <1>9
    <2> HIDE DEF s2
    <2> QED BY <1>11, <2>2, <2>3, <2>4, <2>5, <2>6, OwnLemma
  <1> HIDE DEF s2
  <1>12. /\ SInv(s2) /\ Ownership(s2, L, M \ {m}) /\ s2.k = s1.k
         /\ s2.bpriority = s1.bpriority
         /\ s2.exists = s1.exists /\ s2.levels = s1.levels
         /\ s2.mtxtsk[m] = h /\ \A y \in Mutexes \ {m} : s2.mtxtsk[y] = s1.mtxtsk[y]
         /\ Owned(s2, h) = Owned(s1, h) \cup {m}
         /\ \A u \in Tasks \ {h} : Owned(s2, u) = Owned(s1, u)
    BY <1>22 DEF Given
  <1>13. /\ q.state[h] \in {"RDY", "SUSPENDED"} /\ q.block_status[h] = "OK"
         /\ \A u \in Tasks \ {h} : /\ q.state[u] = x.state[u] /\ q.block_obj[u] = x.block_obj[u]
                                   /\ (Done(q, u) <=> Done(x, u))
    BY <1>5 DEF Ended, Done, st
  <1>14. /\ s2.mtxtsk[m] = h /\ \A y \in Mutexes \ {m} : s2.mtxtsk[y] = s.mtxtsk[y]
    BY <1>9, <1>12
  <1>15. c[h] = m
    BY <1>2, <1>3 DEF MInv, CallsMatch, x
  <1>16. CallsMatch(s2, c)
    <2>1. q.state[h] \notin PendStates /\ q.state[h] \notin IdleStates
      BY <1>13 DEF PendStates, IdleStates
    <2>2. /\ c \in [Tasks -> Mutexes \cup {NoObj}]
          /\ \A u \in Tasks : x.state[u] \in PendStates => c[u] = x.block_obj[u]
          /\ \A u \in Tasks : x.state[u] \in IdleStates => c[u] = NoObj
      BY DEF MInv, CallsMatch, x
    <2> QED BY <1>9, <1>12, <1>13, <2>1, <2>2 DEF CallsMatch
  <1>17. AnswersRight(s2, c, L)
    <2> SUFFICES ASSUME NEW u \in L, c[u] \in s2.exists
                 PROVE  Done(s2.k, u) <=> s2.mtxtsk[c[u]] = u
      BY DEF AnswersRight
    <2>1. CASE u = h
      BY <1>9, <1>12, <1>13, <1>14, <1>15, <2>1 DEF Done
    <2>2. CASE u # h
      <3>1. c[u] \in s.exists /\ (Done(s2.k, u) <=> Done(x, u))
        BY <1>9, <1>12, <1>13, <2>2
      <3>2. Done(x, u) <=> s.mtxtsk[c[u]] = u
        BY <3>1 DEF MInv, AnswersRight, x
      <3>3. CASE c[u] = m
        BY <1>14, <2>2, <3>1, <3>2, <3>3
      <3>4. CASE c[u] # m
        BY <1>2, <1>14, <3>1, <3>2, <3>4
      <3> QED BY <3>3, <3>4
    <2> QED BY <2>1, <2>2
  <1>18. CeilingsKept(s2, L)
    <2> SUFFICES ASSUME NEW u \in L, NEW y \in s2.exists, Policy[y] = "CEILING",
                        y \in Owned(s2, u) \/ s2.k.block_obj[u] = y
                 PROVE  s2.bpriority[u] >= Ceiling[y]
      BY DEF CeilingsKept
    <2>1. CASE u = h /\ y = m
      BY <1>3, <1>9, <1>12, <2>1 DEF MInv, CeilingsKept, x
    <2>2. CASE ~(u = h /\ y = m)
      <3>1. y \in Owned(s1, u) \/ s1.k.block_obj[u] = y
        BY <1>12, <2>2
      <3> QED BY <1>10, <1>12, <3>1 DEF CeilingsKept
    <2> QED BY <2>1, <2>2
  <1>19. MInv(s2, c, L, M \ {m})
    BY <1>10, <1>12, <1>16, <1>17, <1>18 DEF MInv, NoneAstray
  <1>20. /\ SInv(r) /\ Repriced(s2, r) /\ r.levels = s2.levels
         /\ s2.k.state[h] \notin PendStates => r.k.block_list = s2.k.block_list
    BY <1>1, <1>2, <1>12, CeilingLemma
  <1>21. s2.k.state[h] \notin PendStates
    BY <1>9, <1>12, <1>13 DEF PendStates
  <1> DEFINE M1 == M \ {m}
  <1>23. /\ MInv(r, c, L, M1) /\ Alive(r.k) = Alive(s2.k)
         /\ TickOrder(s2.k) => TickOrder(r.k)
    <2>1. MInv(s2, c, L, M1)
      BY <1>19
    <2> HIDE DEF M1
    <2> QED BY <1>12, <1>20, <2>1, RepricedKeeps
  <1>24. /\ r.mtxtsk = s2.mtxtsk /\ r.exists = s2.exists /\ r.k.state = s2.k.state
         /\ r.k.block_obj = s2.k.block_obj
    BY <1>20 DEF Repriced, Reordered
  <1>25. /\ \A y \in Mutexes \ {m} : r.k.block_list[y] = s.k.block_list[y]
         /\ \A u \in Tasks \ {h} : /\ r.k.state[u] = s.k.state[u]
                                   /\ r.k.block_obj[u] = s.k.block_obj[u]
    BY <1>8, <1>9, <1>12, <1>13, <1>20, <1>21, <1>24 DEF x
  <1> QED BY <1>9, <1>10, <1>12, <1>14, <1>20, <1>23, <1>24, <1>25 DEF HandedTo

(* m has passed to the first task that waited for it, or to nobody. *)
Passed(s, r, m) ==
  /\ r.exists = s.exists /\ r.levels = s.levels
  /\ r.mtxtsk[m] = IF s.k.block_list[m] = <<>> THEN NoTask ELSE Head(s.k.block_list[m])
  /\ \A x \in Mutexes \ {m} : /\ r.mtxtsk[x] = s.mtxtsk[x]
                              /\ r.k.block_list[x] = s.k.block_list[x]
  /\ \A u \in Tasks \ Waiting(s.k, m) : /\ r.k.state[u] = s.k.state[u]
                                        /\ r.k.block_obj[u] = s.k.block_obj[u]
  /\ Alive(r.k) = Alive(s.k) /\ (TickOrder(s.k) => TickOrder(r.k))

(* A mutex in transit that nobody waits for becomes free. *)
LEMMA NoOwnerLemma ==
  ASSUME NEW s, SInv(s), NEW c, NEW L \in SUBSET Tasks, NEW M, MInv(s, c, L, M),
         NEW m \in s.exists, m \in M, s.k.block_list[m] = <<>>,
         \A t \in L : c[t] = m => s.mtxtsk[m] # t,
         NEW r, r = [s EXCEPT !.mtxtsk[m] = NoTask]
  PROVE  SInv(r) /\ MInv(r, c, L, M \ {m}) /\ Passed(s, r, m)
  <1> DEFINE mt == [s.mtxtsk EXCEPT ![m] = NoTask]
  <1>1. s \in SysStates /\ m \in Mutexes /\ s.exists \subseteq Mutexes /\ NoTask \notin Tasks
    BY ConstantsAre DEF SInv, SysStates
  <1>2. /\ mt \in [Mutexes -> Tasks \cup {NoTask}] /\ r = [s EXCEPT !.mtxtsk = mt]
        /\ mt[m] = NoTask /\ \A x \in Mutexes \ {m} : mt[x] = s.mtxtsk[x]
    BY <1>1 DEF SysStates
  <1> HIDE DEF mt
  <1>3. /\ r.k = s.k /\ r.bpriority = s.bpriority /\ r.exists = s.exists
        /\ r.levels = s.levels /\ r.mtxtsk = mt /\ r.mtxlist = s.mtxlist
    BY <1>1, <1>2 DEF SysStates
  <1>4. r \in SysStates
    BY <1>1, <1>2 DEF SysStates
  <1>5. Waiting(s.k, m) = {}
    BY EmptyLemma DEF Waiting, ToSet
  <1>6. SInv(r)
    <2>1. \A x \in r.exists : Waiting(r.k, x) # {} => r.mtxtsk[x] \in Tasks
      BY <1>1, <1>2, <1>3, <1>5 DEF SInv
    <2> QED BY <1>3, <1>4, <2>1 DEF SInv
  <1>7. Ownership(r, L, M \ {m})
    <2>1. \A u \in Tasks : IsInjective(r.mtxlist[u])
      BY <1>3 DEF MInv, Ownership
    <2>2. ASSUME NEW u \in L, NEW x \in Mutexes
          PROVE  x \in Owned(r, u) <=> x \in r.exists \ (M \ {m}) /\ r.mtxtsk[x] = u
      <3>1. Owned(r, u) = Owned(s, u)
        BY <1>3 DEF Owned
      <3>2. x \in Owned(s, u) <=> x \in s.exists \ M /\ s.mtxtsk[x] = u
        BY DEF MInv, Ownership
      <3>3. CASE x = m
        BY <1>1, <1>2, <1>3, <3>1, <3>2, <3>3
      <3>4. CASE x # m
        BY <1>2, <1>3, <3>1, <3>2, <3>4
      <3> QED BY <3>3, <3>4
    <2>3. \A x \in r.exists \ (M \ {m}) : r.mtxtsk[x] \in L \cup {NoTask}
      BY <1>1, <1>2, <1>3 DEF MInv, Ownership
    <2>4. \A x \in r.exists : Waiting(r.k, x) # {} =>
            r.mtxtsk[x] \notin {NoTask} \cup Waiting(r.k, x)
      BY <1>1, <1>2, <1>3, <1>5 DEF MInv, Ownership
    <2> QED BY <2>1, <2>2, <2>3, <2>4 DEF Ownership
  <1>8. AnswersRight(r, c, L)
    <2> SUFFICES ASSUME NEW u \in L, c[u] \in r.exists
                 PROVE  Done(r.k, u) <=> r.mtxtsk[c[u]] = u
      BY DEF AnswersRight
    <2>1. Done(s.k, u) <=> s.mtxtsk[c[u]] = u
      BY <1>3 DEF MInv, AnswersRight
    <2>2. CASE c[u] = m
      BY <1>1, <1>2, <1>3, <2>1, <2>2
    <2>3. CASE c[u] # m
      BY <1>1, <1>2, <1>3, <2>1, <2>3
    <2> QED BY <2>2, <2>3
  <1>9. MInv(r, c, L, M \ {m})
    BY <1>3, <1>7, <1>8 DEF MInv, NoneAstray, CallsMatch, CeilingsKept, Owned
  <1> QED BY <1>2, <1>3, <1>6, <1>9 DEF Passed

LEMMA FreeOneLemma ==
  ASSUME NEW s, SInv(s), NEW c, NEW L \in SUBSET Tasks, NEW M, MInv(s, c, L, M),
         NEW m \in s.exists, m \in M, Alive(s.k) \subseteq L \cup {s.mtxtsk[m]},
         \A t \in L : c[t] = m => s.mtxtsk[m] # t, NEW r, r = free_one(s, m)
  PROVE  SInv(r) /\ MInv(r, c, L, M \ {m}) /\ Passed(s, r, m)
  <1>1. CASE s.k.block_list[m] = <<>>
    <2>1. r = [s EXCEPT !.mtxtsk[m] = NoTask]
      BY <1>1 DEF free_one
    <2> QED BY <1>1, <2>1, NoOwnerLemma
  <1>2. CASE s.k.block_list[m] # <<>>
    <2> DEFINE h == Head(s.k.block_list[m])
    <2>1. m \in Mutexes /\ s.k.block_list[m] \in Seq(Tasks) /\ KInv(s.k)
      BY DEF SInv, SysStates, KInv, KStates, Mutexes
    <2>2. h = s.k.block_list[m][1] /\ h \in Waiting(s.k, m)
      BY <1>2, <2>1, EmptyLemma DEF Waiting
    <2>3. r = wake_owner(s, m, h)
      BY <1>2 DEF free_one, hand_over
    <2> HIDE DEF h
    <2>4. h \in Alive(s.k)
      BY <2>1, <2>2, WaitingIs DEF Alive, PendStates, Mutexes
    <2>5. s.mtxtsk[m] \notin Waiting(s.k, m)
      BY <2>2 DEF MInv, Ownership
    <2>6. h \in L
      BY <2>2, <2>4, <2>5
    <2>7. SInv(r) /\ MInv(r, c, L, M \ {m}) /\ HandedTo(s, r, m, h)
      BY <2>2, <2>3, <2>6, WakeOwnerLemma
    <2> QED BY <1>2, <2>2, <2>7 DEF Passed, HandedTo, h
  <1> QED BY <1>1, <1>2

LEMMA FreeRounds ==
  ASSUME NEW s, NEW t, NEW list, list = s.mtxlist[t], Len(list) \in Nat,
         NEW S, NEW G \in [0 .. Len(list) -> SUBSET S], s \in G[0],
         \A i \in 1 .. Len(list) : \A x \in G[i - 1] : free_one(x, list[i]) \in G[i]
  PROVE  raw_task_free_mutex(s, t) \in G[Len(list)]
  <1> DEFINE N == Len(list)
             E(g) == [i \in 0 .. N |-> IF i = 0 THEN s ELSE free_one(g[i - 1], list[i])]
             F == [i \in 1 .. N |-> [x \in S |-> free_one(x, list[i])]]
             h == CHOOSE g : g = E(g)
  <1>1. raw_task_free_mutex(s, t) = h[N]
    BY DEF raw_task_free_mutex
  <1>2. \A i \in 1 .. N : i - 1 \in 0 .. N /\ i \in 0 .. N /\ i # 0
    OBVIOUS
  <1>3. \A i \in 1 .. N : \A x \in G[i - 1] : F[i][x] = free_one(x, list[i])
    BY <1>2
  <1>4. PICK g : Iterates(g, S, N, F, s) /\ \A i \in 0 .. N : g[i] \in G[i]
    <2>1. \A i \in 1 .. N : \A x \in G[i - 1] : F[i][x] \in G[i]
      BY <1>3
    <2>2. Staged(S, N, G, F)
      BY <2>1 DEF Staged
    <2>3. N \in Nat /\ s \in G[0]
      OBVIOUS
    <2> HIDE DEF F, E, h, N
    <2> QED BY <2>2, <2>3, Stages
  <1>5. /\ g \in [0 .. N -> S] /\ g[0] = s
        /\ \A i \in 1 .. N : g[i] = free_one(g[i - 1], list[i])
    BY <1>2, <1>3, <1>4 DEF Iterates
  <1> HIDE DEF F
  <1>6. g = E(g)
    BY <1>2, <1>5
  <1>7. h = E(h)
    <2> HIDE DEF E
    <2> QED BY <1>6
  <1> HIDE DEF h
  <1>8. h[0] = s /\ \A i \in 1 .. N : h[i] = free_one(h[i - 1], list[i])
    <2>1. E(h)[0] = s /\ \A i \in 1 .. N : E(h)[i] = free_one(h[i - 1], list[i])
      BY <1>2
    <2> HIDE DEF E
    <2> QED BY <1>7, <2>1
  <1> HIDE DEF E
  <1> DEFINE T == {i \in 0 .. N : h[i] = g[i]}
  <1>9. 0 \in T
    BY <1>5, <1>8
  <1>10. \A i \in 1 .. N : i - 1 \in T => i \in T
    BY <1>2, <1>5, <1>8
  <1>11. \A i \in 0 .. N : i \in T
    <2> HIDE DEF T
    <2> QED BY <1>9, <1>10, Rounds
  <1> QED BY <1>1, <1>4, <1>11

(* raw_task_free_mutex has freed these of the mutexes t owned in s.        *)
FreedSome(s, c, t, gone, w) ==
  /\ SInv(w) /\ MInv(w, c, Alive(s.k) \ {t}, Owned(s, t) \ gone)
  /\ w.exists = s.exists /\ w.levels = s.levels
  /\ \A x \in gone : w.mtxtsk[x] =
       IF s.k.block_list[x] = <<>> THEN NoTask ELSE Head(s.k.block_list[x])
  /\ \A x \in Mutexes \ gone : /\ w.mtxtsk[x] = s.mtxtsk[x]
                               /\ w.k.block_list[x] = s.k.block_list[x]
  /\ w.k.state[t] = s.k.state[t] /\ w.k.block_obj[t] = s.k.block_obj[t]
  /\ Alive(w.k) = Alive(s.k) /\ (TickOrder(s.k) => TickOrder(w.k))

LEMMA FreeStart ==
  ASSUME NEW s, SInv(s), NEW c, MInv(s, c, Alive(s.k), {}), NEW t \in Alive(s.k)
  PROVE  FreedSome(s, c, t, {}, s)
  <1> DEFINE L == Alive(s.k) \ {t}
             M == Owned(s, t)
  <1>2. \A x \in Mutexes : x \in Owned(s, t) <=> x \in s.exists /\ s.mtxtsk[x] = t
    BY DEF MInv, Ownership
  <1>3. s.exists \subseteq Mutexes
    BY DEF SInv, SysStates
  <1>4. Ownership(s, L, M)
    <2>1. \A u \in L, x \in Mutexes : x \in Owned(s, u) <=> x \in s.exists \ M /\ s.mtxtsk[x] = u
      BY <1>2 DEF MInv, Ownership
    <2>2. \A x \in s.exists \ M : s.mtxtsk[x] \in L \cup {NoTask}
      BY <1>2, <1>3 DEF MInv, Ownership
    <2> HIDE DEF L, M
    <2> QED BY <2>1, <2>2 DEF MInv, Ownership
  <1>5. AnswersRight(s, c, L) /\ CeilingsKept(s, L)
    BY DEF MInv, AnswersRight, CeilingsKept
  <1>6. MInv(s, c, L, M)
    <2> HIDE DEF L, M
    <2> QED BY <1>4, <1>5 DEF MInv
  <1>7. M \ {} = M
    OBVIOUS
  <1> QED BY <1>6, <1>7 DEF FreedSome

LEMMA FreeNext ==
  ASSUME NEW s, SInv(s), NEW c, MInv(s, c, Alive(s.k), {}), NEW t \in Alive(s.k),
         NEW i \in 1 .. Len(s.mtxlist[t]), NEW w,
         FreedSome(s, c, t, First(s.mtxlist[t], i - 1), w),
         NEW r, r = free_one(w, s.mtxlist[t][i])
  PROVE  FreedSome(s, c, t, First(s.mtxlist[t], i), r)
  <1> DEFINE list == s.mtxlist[t]
             m == list[i]
             L == Alive(s.k) \ {t}
             gone == First(list, i - 1)
             M == Owned(s, t) \ gone
  <1>1. /\ list \in Seq(Mutexes) /\ IsInjective(list) /\ t \in Tasks
        /\ L \in SUBSET Tasks /\ s.exists \subseteq Mutexes
    BY DEF SInv, SysStates, MInv, Ownership, Alive
  <1>2. Len(list) \in Nat /\ DOMAIN list = 1 .. Len(list)
    BY <1>1, LenProperties
  <1>3. m \in Owned(s, t) /\ m \notin gone
    BY <1>1, <1>2 DEF IsInjective, First, Owned, ToSet
  <1>4. First(list, i) = gone \cup {m}
    <2>1. \A j : j \in 1 .. i <=> j \in 1 .. i - 1 \/ j = i
      BY <1>2
    <2> QED BY <2>1 DEF First
  <1>5. /\ SInv(w) /\ MInv(w, c, L, M) /\ w.exists = s.exists /\ w.levels = s.levels
        /\ \A x \in gone : w.mtxtsk[x] =
             IF s.k.block_list[x] = <<>> THEN NoTask ELSE Head(s.k.block_list[x])
        /\ \A x \in Mutexes \ gone : /\ w.mtxtsk[x] = s.mtxtsk[x]
                                     /\ w.k.block_list[x] = s.k.block_list[x]
        /\ w.k.state[t] = s.k.state[t] /\ w.k.block_obj[t] = s.k.block_obj[t]
        /\ Alive(w.k) = Alive(s.k) /\ (TickOrder(s.k) => TickOrder(w.k))
    BY DEF FreedSome
  <1>6. m \in Mutexes /\ m \in s.exists /\ s.mtxtsk[m] = t
    <2>1. m \in Mutexes
      BY <1>1, <1>2, ElementOfSeq
    <2>2. m \in s.exists /\ s.mtxtsk[m] = t
      BY <1>3, <2>1 DEF MInv, Ownership
    <2> QED BY <2>1, <2>2
  <1> HIDE DEF gone, list
  <1>7. m \in w.exists /\ m \in M /\ w.mtxtsk[m] = t
    BY <1>3, <1>5, <1>6
  <1>8. Alive(w.k) \subseteq L \cup {w.mtxtsk[m]} /\ \A u \in L : c[u] = m => w.mtxtsk[m] # u
    BY <1>5, <1>7
  <1>9. t \notin Waiting(w.k, m)
    BY <1>5, <1>7 DEF MInv, Ownership
  <1>10. r = free_one(w, m)
    BY DEF list
  <1> HIDE DEF m, L, M
  <1>11. SInv(r) /\ MInv(r, c, L, M \ {m}) /\ Passed(w, r, m)
    BY <1>1, <1>5, <1>7, <1>8, <1>10, FreeOneLemma
  <1>12. M \ {m} = Owned(s, t) \ First(list, i)
    BY <1>4 DEF M
  <1>13. r.exists = s.exists /\ r.levels = s.levels
    BY <1>5, <1>11 DEF Passed
  <1>14. \A x \in First(list, i) : r.mtxtsk[x] =
           IF s.k.block_list[x] = <<>> THEN NoTask ELSE Head(s.k.block_list[x])
    <2>1. gone \subseteq Mutexes
      BY <1>1, <1>2, ElementOfSeq DEF gone, First, list
    <2>2. ASSUME NEW x \in gone
          PROVE  r.mtxtsk[x] =
                   IF s.k.block_list[x] = <<>> THEN NoTask ELSE Head(s.k.block_list[x])
      BY <1>3, <1>5, <1>11, <2>1 DEF Passed
    <2>3. r.mtxtsk[m] = IF s.k.block_list[m] = <<>> THEN NoTask ELSE Head(s.k.block_list[m])
      BY <1>3, <1>5, <1>6, <1>11 DEF Passed
    <2> QED BY <1>4, <2>2, <2>3
  <1>15. \A x \in Mutexes \ First(list, i) : /\ r.mtxtsk[x] = s.mtxtsk[x]
                                             /\ r.k.block_list[x] = s.k.block_list[x]
    BY <1>4, <1>5, <1>11 DEF Passed
  <1>16. /\ r.k.state[t] = s.k.state[t] /\ r.k.block_obj[t] = s.k.block_obj[t]
         /\ Alive(r.k) = Alive(s.k) /\ (TickOrder(s.k) => TickOrder(r.k))
    BY <1>1, <1>5, <1>9, <1>11 DEF Passed
  <1>17. MInv(r, c, Alive(s.k) \ {t}, Owned(s, t) \ First(list, i))
    <2>1. MInv(r, c, L, Owned(s, t) \ First(list, i))
      BY <1>11, <1>12
    <2> QED BY <2>1 DEF L
  <1> DEFINE now == First(list, i)
  <1>18. FreedSome(s, c, t, now, r)
    <2>1. SInv(r) /\ MInv(r, c, Alive(s.k) \ {t}, Owned(s, t) \ now)
      BY <1>11, <1>17
    <2>2. \A x \in now : r.mtxtsk[x] =
            IF s.k.block_list[x] = <<>> THEN NoTask ELSE Head(s.k.block_list[x])
      BY <1>14
    <2>3. \A x \in Mutexes \ now : /\ r.mtxtsk[x] = s.mtxtsk[x]
                                  /\ r.k.block_list[x] = s.k.block_list[x]
      BY <1>15
    <2> HIDE DEF now
    <2> QED BY <1>13, <1>16, <2>1, <2>2, <2>3, ZenonT(60) DEF FreedSome
  <1> QED BY <1>18 DEF list

(* raw_task_free_mutex: each mutex of t passes to its first waiter.        *)
LEMMA FreeMutexLemma ==
  ASSUME NEW s, SInv(s), NEW c, MInv(s, c, Alive(s.k), {}), NEW t \in Alive(s.k),
         NEW r, r = raw_task_free_mutex(s, t)
  PROVE  FreedSome(s, c, t, Owned(s, t), r)
  <1> DEFINE list == s.mtxlist[t]
             N == Len(list)
             G == [i \in 0 .. N |-> {w \in SysStates : FreedSome(s, c, t, First(list, i), w)}]
  <1>1. list \in Seq(Mutexes) /\ s \in SysStates
    BY DEF SInv, SysStates, Alive
  <1>2. N \in Nat /\ DOMAIN list = 1 .. N
    BY <1>1, LenProperties
  <1>3. \A i \in 1 .. N : i \in 0 .. N /\ i - 1 \in 0 .. N
    BY <1>2
  <1>4. G \in [0 .. N -> SUBSET SysStates]
    OBVIOUS
  <1>5. s \in G[0]
    <2>1. First(list, 0) = {}
      BY DEF First
    <2>2. FreedSome(s, c, t, First(list, 0), s)
      BY <2>1, FreeStart
    <2> QED BY <1>1, <1>2, <2>2
  <1>6. ASSUME NEW i \in 1 .. N, NEW x \in G[i - 1] PROVE free_one(x, list[i]) \in G[i]
    <2>1. FreedSome(s, c, t, First(list, i - 1), x)
      BY <1>3
    <2> DEFINE y == free_one(x, list[i])
    <2>2. FreedSome(s, c, t, First(list, i), y)
      BY <2>1, FreeNext
    <2> HIDE DEF y
    <2>3. y \in SysStates
      BY <2>2 DEF FreedSome, SInv
    <2>4. y \in G[i]
      BY <1>3, <2>2, <2>3
    <2> QED BY <2>4 DEF y
  <1>7. r \in G[N]
    <2> HIDE DEF G
    <2>1. N \in Nat
      BY <1>2
    <2> QED BY <1>4, <1>5, <1>6, <2>1, FreeRounds
  <1>8. First(list, N) = ToSet(list)
    BY <1>2 DEF First, ToSet
  <1>9. FreedSome(s, c, t, First(list, N), r)
    BY <1>2, <1>7
  <1> QED BY <1>8, <1>9 DEF Owned

-----------------------------------------------------------------------------
(***************************************************************************)
(* Waits that end without the mutex.                                       *)
(***************************************************************************)

(* No mutex changes its owner; the tick list is kept in order.             *)
SameOwners(s, r) ==
  /\ r.mtxtsk = s.mtxtsk /\ r.exists = s.exists /\ r.levels = s.levels
  /\ Alive(r.k) = Alive(s.k) /\ (TickOrder(s.k) => TickOrder(r.k))

Getting(c) == {t \in Tasks : c[t] = NoObj}

(* Lists lose members and no wait ends with the mutex. *)
LEMMA GentleStep ==
  ASSUME NEW s, SInv(s), NEW c, MInv(s, c, Alive(s.k), {}),
         NEW q, KInv(q), Gentle(s.k, q), Calm(s.k, q, Getting(c)),
         NEW r, r = [s EXCEPT !.k = q]
  PROVE  /\ SInv(r) /\ MInv(r, c, Alive(s.k), {}) /\ SameOwners(s, r)
         /\ r.k = q
  <1> DEFINE L == Alive(s.k)
  <1>1. s \in SysStates /\ q \in KStates /\ s.exists \subseteq Mutexes
    BY DEF SInv, KInv, SysStates
  <1>2. /\ r \in SysStates /\ r.k = q /\ r.bpriority = s.bpriority
        /\ r.mtxlist = s.mtxlist /\ r.mtxtsk = s.mtxtsk
        /\ r.owner_nested = s.owner_nested /\ r.exists = s.exists /\ r.levels = s.levels
    BY <1>1, KernelFields
  <1>3. /\ Ownership(s, L, {}) /\ NoneAstray(s) /\ CeilingsKept(s, L) /\ ObjectsMatch(s.k)
        /\ CallsMatch(s, c) /\ AnswersRight(s, c, L)
    BY DEF MInv
  <1>4. L \subseteq Tasks
    BY DEF Alive
  <1> HIDE DEF L
  <1>5. /\ SInv(r) /\ Ownership(r, L, {}) /\ (NoneAstray(s) => NoneAstray(r))
        /\ CeilingsKept(r, L)
        /\ ObjectsMatch(r.k) /\ Alive(r.k) = Alive(s.k)
        /\ TickOrder(s.k) => TickOrder(r.k)
    BY <1>3, <1>4, GentleKeeps
  <1>6. CallsMatch(r, c) /\ AnswersRight(r, c, L)
    <2>1. Calm(s.k, r.k, {t \in Tasks : c[t] = NoObj})
      BY <1>2 DEF Getting
    <2>2. r.exists \in SUBSET s.exists
      BY <1>2
    <2> QED BY <1>1, <1>2, <1>3, <1>4, <2>1, <2>2, CalmKeeps
  <1>7. MInv(r, c, L, {})
    BY <1>3, <1>5, <1>6 DEF MInv
  <1> QED BY <1>2, <1>5, <1>7 DEF L, SameOwners

LEMMA SameOwnersTrans ==
  ASSUME NEW s, NEW q, NEW r, SameOwners(s, q), SameOwners(q, r)
  PROVE  SameOwners(s, r)
  BY DEF SameOwners

(* A change of priorities is such a step. *)
LEMMA RepricedStep ==
  ASSUME NEW s, SInv(s), NEW r, Repriced(s, r), r.levels = s.levels,
         NEW c, NEW L, NEW M, MInv(s, c, L, M)
  PROVE  MInv(r, c, L, M) /\ SameOwners(s, r)
  <1>1. /\ MInv(r, c, L, M) /\ Alive(r.k) = Alive(s.k)
        /\ TickOrder(s.k) => TickOrder(r.k)
    BY RepricedKeeps
  <1> QED BY <1>1 DEF SameOwners, Repriced

(* What t waits for has an owner. *)
LEMMA OwnerExists ==
  ASSUME NEW s, SInv(s), NEW c, NEW L, NEW M, MInv(s, c, L, M), NEW t \in Alive(s.k),
         s.k.block_obj[t] # NoObj
  PROVE  /\ s.k.state[t] \in PendStates /\ s.k.block_obj[t] \in s.exists
         /\ s.mtxtsk[s.k.block_obj[t]] \in Tasks \ {t}
  <1> DEFINE m == s.k.block_obj[t]
  <1>1. t \in Tasks /\ KInv(s.k) /\ s.exists \subseteq Mutexes
    BY DEF SInv, SysStates, Alive
  <1>2. s.k.state[t] \in PendStates
    BY DEF MInv, ObjectsMatch
  <1>3. m \in Mutexes
    BY <1>1, <1>2 DEF KInv, Mutexes
  <1>4. t \in Waiting(s.k, m)
    BY <1>1, <1>2, <1>3, WaitingIs DEF Mutexes
  <1> HIDE DEF m
  <1>5. m \in s.exists
    BY <1>3, <1>4 DEF MInv, NoneAstray
  <1>6. s.mtxtsk[m] \in Tasks /\ s.mtxtsk[m] # t
    BY <1>4, <1>5 DEF SInv, MInv, Ownership
  <1> QED BY <1>2, <1>5, <1>6 DEF m

(* mutex_state_change *)
LEMMA TellOwner ==
  ASSUME NEW s, SInv(s), NEW c, NEW L, NEW M, MInv(s, c, L, M), NEW t \in Tasks,
         NEW o \in Mutexes, s.mtxtsk[o] \in Tasks, NEW r, r = mutex_state_change(s, t, o)
  PROVE  SInv(r) /\ MInv(r, c, L, M) /\ SameOwners(s, r) /\ Reordered(s.k, r.k)
  <1>1. /\ SInv(r) /\ Repriced(s, r) /\ r.levels = s.levels
    BY StateChangeLemma
  <1>2. MInv(r, c, L, M) /\ SameOwners(s, r)
    BY <1>1, RepricedStep
  <1> QED BY <1>1, <1>2 DEF Repriced

(* t waits no longer, and the owner of what it waited for is told. *)
LEMMA GiveUpLemma ==
  ASSUME NEW s, SInv(s), NEW c, MInv(s, c, Alive(s.k), {}), NEW t \in Alive(s.k),
         NEW q, KInv(q), Gentle(s.k, q), Calm(s.k, q, Getting(c)),
         NEW r, r = LET s1 == [s EXCEPT !.k = q]
                        o  == s.k.block_obj[t]
                    IN  IF o = NoObj THEN s1 ELSE mutex_state_change(s1, t, o)
  PROVE  /\ SInv(r) /\ MInv(r, c, Alive(s.k), {}) /\ SameOwners(s, r)
         /\ Reordered(q, r.k)
  <1> DEFINE s1 == [s EXCEPT !.k = q]
             o == s.k.block_obj[t]
             L == Alive(s.k)
  <1>1. /\ SInv(s1) /\ MInv(s1, c, L, {}) /\ SameOwners(s, s1) /\ s1.k = q
    <2> HIDE DEF s1
    <2>1. s1 = [s EXCEPT !.k = q]
      BY DEF s1
    <2>2. /\ SInv(s1) /\ MInv(s1, c, Alive(s.k), {}) /\ SameOwners(s, s1)
          /\ s1.k = q
      BY <2>1, GentleStep
    <2> QED BY <2>2
  <1>2. r = IF o = NoObj THEN s1 ELSE mutex_state_change(s1, t, o)
    OBVIOUS
  <1>3. o # NoObj => o \in s.exists /\ s.mtxtsk[o] \in Tasks
    BY OwnerExists
  <1>4. s.exists \subseteq Mutexes /\ t \in Tasks
    BY DEF SInv, SysStates, Alive
  <1> HIDE DEF s1, o, L
  <1>5. CASE o = NoObj
    BY <1>1, <1>2, <1>5 DEF L, Reordered
  <1>6. CASE o # NoObj
    <2>1. o \in Mutexes /\ s1.mtxtsk[o] \in Tasks /\ r = mutex_state_change(s1, t, o)
      BY <1>1, <1>2, <1>3, <1>4, <1>6 DEF SameOwners
    <2>2. SInv(s1) /\ MInv(s1, c, L, {}) /\ t \in Tasks
      BY <1>1, <1>4
    <2>3. SInv(r) /\ MInv(r, c, L, {}) /\ SameOwners(s1, r) /\ Reordered(s1.k, r.k)
      BY <2>1, <2>2, TellOwner
    <2> QED BY <1>1, <2>3, SameOwnersTrans DEF L
  <1> QED BY <1>5, <1>6

-----------------------------------------------------------------------------
(***************************************************************************)
(* tick_list_update.                                                       *)
(***************************************************************************)

LEMMA TickRounds ==
  ASSUME NEW s, NEW list, Len(list) \in Nat,
         NEW S, NEW G \in [0 .. Len(list) -> SUBSET S], s \in G[0],
         \A i \in 1 .. Len(list) : \A x \in G[i - 1] : Expire(x, list[i]) \in G[i]
  PROVE  LET after[i \in 0 .. Len(list)] ==
               IF i = 0 THEN s ELSE Expire(after[i - 1], list[i])
         IN  after[Len(list)] \in G[Len(list)]
  <1> DEFINE N == Len(list)
             E(g) == [i \in 0 .. N |-> IF i = 0 THEN s ELSE Expire(g[i - 1], list[i])]
             F == [i \in 1 .. N |-> [x \in S |-> Expire(x, list[i])]]
             h == CHOOSE g : g = E(g)
  <1>2. \A i \in 1 .. N : i - 1 \in 0 .. N /\ i \in 0 .. N /\ i # 0
    OBVIOUS
  <1>3. \A i \in 1 .. N : \A x \in G[i - 1] : F[i][x] = Expire(x, list[i])
    BY <1>2
  <1>4. PICK g : Iterates(g, S, N, F, s) /\ \A i \in 0 .. N : g[i] \in G[i]
    <2>1. \A i \in 1 .. N : \A x \in G[i - 1] : F[i][x] \in G[i]
      BY <1>3
    <2>2. Staged(S, N, G, F)
      BY <2>1 DEF Staged
    <2>3. N \in Nat /\ s \in G[0]
      OBVIOUS
    <2> HIDE DEF F, E, h, N
    <2> QED BY <2>2, <2>3, Stages
  <1>5. /\ g \in [0 .. N -> S] /\ g[0] = s
        /\ \A i \in 1 .. N : g[i] = Expire(g[i - 1], list[i])
    BY <1>2, <1>3, <1>4 DEF Iterates
  <1> HIDE DEF F
  <1>6. g = E(g)
    BY <1>2, <1>5
  <1>7. h = E(h)
    <2> HIDE DEF E
    <2> QED BY <1>6
  <1> HIDE DEF h
  <1>8. h[0] = s /\ \A i \in 1 .. N : h[i] = Expire(h[i - 1], list[i])
    <2>1. E(h)[0] = s /\ \A i \in 1 .. N : E(h)[i] = Expire(h[i - 1], list[i])
      BY <1>2
    <2> HIDE DEF E
    <2> QED BY <1>7, <2>1
  <1> HIDE DEF E
  <1> DEFINE T == {i \in 0 .. N : h[i] = g[i]}
  <1>9. 0 \in T
    BY <1>5, <1>8
  <1>10. \A i \in 1 .. N : i - 1 \in T => i \in T
    BY <1>2, <1>5, <1>8
  <1>11. \A i \in 0 .. N : i \in T
    <2> HIDE DEF T
    <2> QED BY <1>9, <1>10, Rounds
  <1>12. h[N] \in G[N]
    BY <1>4, <1>11
  <1> QED BY <1>12 DEF E, N, h

(* The tick's work on these tasks, due in s, is done. *)
TickedSome(s, c, gone, w) ==
  /\ SInv(w) /\ MInv(w, c, Alive(s.k), {})
  /\ w.mtxtsk = s.mtxtsk /\ w.exists = s.exists /\ w.levels = s.levels
  /\ Alive(w.k) = Alive(s.k)
  /\ w.k.tick_match = s.k.tick_match /\ w.k.raw_tick_count = s.k.raw_tick_count
  /\ Sublist(w.k.tick_head, s.k.tick_head)
  /\ ToSet(w.k.tick_head) = ToSet(s.k.tick_head) \ gone

(* A wait that times out ends without the mutex. *)
LEMMA ExpireIsCalm ==
  ASSUME NEW s, NEW c, KInv(s), NEW t \in Tasks, s.state[t] \in TickStates,
         c \in [Tasks -> Mutexes \cup {NoObj}],
         \A u \in Tasks : s.state[u] \in IdleStates => c[u] = NoObj,
         NEW r, r = expire(s, t)
  PROVE  Calm(s, r, Getting(c))
  <1>1. Ended(s, r, {t}) /\ (s.state[t] \in PendStates => r.block_status[t] = "TIMEOUT")
    <2>1. /\ KInv(r)
          /\ Ended(s, r, {t})
          /\ s.state[t] \in PendStates => r.block_status[t] = "TIMEOUT"
          /\ Gentle(s, r) /\ r.tick_head = list_delete(s.tick_head, t)
      BY ExpireLemma
    <2> QED BY <2>1
  <1>2. OthersKept(s, r, t)
    BY <1>1 DEF Ended, OthersKept
  <1>3. \A u \in Tasks \ Getting(c) : s.state[u] \notin IdleStates
    BY DEF Getting
  <1>4. r.state[t] \in {"RDY", "SUSPENDED"}
    BY <1>1 DEF Ended
  <1>5. ASSUME t \notin Getting(c)
        PROVE  r.state[t] \notin IdleStates /\ (Done(r, t) <=> Done(s, t))
    <2>1. s.state[t] \notin IdleStates
      BY <1>3, <1>5
    <2>2. s.state[t] \in PendStates
      BY <2>1 DEF TickStates, PendStates, IdleStates
    <2> QED BY <1>1, <1>4, <2>2 DEF Done, PendStates, IdleStates
  <1> QED BY <1>2, <1>3, <1>4, <1>5, CalmOne DEF PendStates

LEMMA TickNext ==
  ASSUME NEW s, NEW c, NEW gone, NEW w, TickedSome(s, c, gone, w),
         NEW t \in ToSet(s.k.tick_head) \ gone, NEW r, r = Expire(w, t)
  PROVE  TickedSome(s, c, gone \cup {t}, r)
  <1> DEFINE x == w.k
             q == expire(x, t)
  <1>1. /\ SInv(w) /\ MInv(w, c, Alive(s.k), {}) /\ KInv(x)
        /\ w.mtxtsk = s.mtxtsk /\ w.exists = s.exists /\ w.levels = s.levels
        /\ Alive(x) = Alive(s.k)
        /\ x.tick_match = s.k.tick_match /\ x.raw_tick_count = s.k.raw_tick_count
        /\ Sublist(x.tick_head, s.k.tick_head)
        /\ ToSet(x.tick_head) = ToSet(s.k.tick_head) \ gone
    BY DEF TickedSome, SInv
  <1>2. MInv(w, c, Alive(w.k), {})
    BY <1>1
  <1>3. t \in ToSet(x.tick_head) /\ x.tick_head \in Seq(Tasks)
    BY <1>1 DEF KInv, KStates
  <1>4. t \in Tasks /\ x.state[t] \in TickStates /\ t \in Alive(x)
    <2>1. t \in Tasks
      BY <1>3, EmptyLemma
    <2> QED BY <1>1, <1>3, <2>1 DEF KInv, StateMatchesListsIn, TickStates, Alive
  <1> HIDE DEF x
  <1>5. /\ KInv(q)
        /\ Ended(x, q, {t})
        /\ x.state[t] \in PendStates => q.block_status[t] = "TIMEOUT"
        /\ Gentle(x, q) /\ q.tick_head = list_delete(x.tick_head, t)
    BY <1>1, <1>4, ExpireLemma
  <1>6. Calm(x, q, Getting(c))
    <2>1. /\ c \in [Tasks -> Mutexes \cup {NoObj}]
          /\ \A u \in Tasks : x.state[u] \in IdleStates => c[u] = NoObj
      BY <1>2 DEF MInv, CallsMatch, x
    <2> HIDE DEF q
    <2>2. q = expire(x, t)
      BY DEF q
    <2> QED BY <1>1, <1>4, <2>1, <2>2, ExpireIsCalm
  <1>7. r = LET s1 == [w EXCEPT !.k = q]
                o  == w.k.block_obj[t]
            IN  IF o = NoObj THEN s1 ELSE mutex_state_change(s1, t, o)
    BY DEF Expire, x
  <1> HIDE DEF q
  <1>8. /\ SInv(r) /\ MInv(r, c, Alive(w.k), {}) /\ SameOwners(w, r)
        /\ Reordered(q, r.k)
    <2>1. Gentle(w.k, q) /\ Calm(w.k, q, Getting(c)) /\ t \in Alive(w.k)
      BY <1>4, <1>5, <1>6 DEF x
    <2> QED BY <1>1, <1>2, <1>5, <1>7, <2>1, GiveUpLemma
  <1>9. /\ Alive(w.k) = Alive(s.k) /\ r.mtxtsk = s.mtxtsk /\ r.exists = s.exists
        /\ r.levels = s.levels /\ Alive(r.k) = Alive(s.k)
    BY <1>1, <1>8 DEF SameOwners, x
  <1>10. /\ r.k.tick_match = s.k.tick_match /\ r.k.raw_tick_count = s.k.raw_tick_count
         /\ r.k.tick_head = list_delete(x.tick_head, t)
    BY <1>1, <1>5, <1>8 DEF Reordered, Gentle, Fewer
  <1>11. Sublist(r.k.tick_head, s.k.tick_head)
    <2>1. Sublist(r.k.tick_head, x.tick_head)
      BY <1>5, <1>10 DEF Gentle, Fewer
    <2> QED BY <1>1, <2>1, SublistTrans
  <1>12. ToSet(r.k.tick_head) = ToSet(s.k.tick_head) \ (gone \cup {t})
    <2>1. IsInjective(x.tick_head)
      BY <1>1 DEF KInv, ListsDistinctIn
    <2>2. ToSet(list_delete(x.tick_head, t)) = ToSet(x.tick_head) \ {t}
      BY <1>3, <2>1, DeleteLemma
    <2>3. ToSet(r.k.tick_head) = ToSet(x.tick_head) \ {t}
      BY <1>10, <2>2
    <2> QED BY <1>1, <2>3
  <1>13. MInv(r, c, Alive(s.k), {})
    BY <1>8, <1>9
  <1> QED BY <1>8, <1>9, <1>10, <1>11, <1>12, <1>13 DEF TickedSome

(* The inductive invariant, of a state s of the system and what the tasks  *)
(* call.                                                                   *)
SysInv(s, c) == SInv(s) /\ MInv(s, c, Alive(s.k), {}) /\ TickOrder(s.k)

(* tick_list_update advances the tick and then handles the tasks in list.  *)
LEMMA TickAll ==
  ASSUME NEW s, NEW c, SInv(s), MInv(s, c, Alive(s.k), {}),
         NEW list \in Seq(Tasks), IsInjective(list), ToSet(list) \subseteq ToSet(s.k.tick_head),
         NEW r, r = LET after[i \in 0 .. Len(list)] ==
                          IF i = 0 THEN s ELSE Expire(after[i - 1], list[i])
                    IN  after[Len(list)]
  PROVE  TickedSome(s, c, ToSet(list), r)
  <1> DEFINE N == Len(list)
             G == [i \in 0 .. N |-> {w \in SysStates : TickedSome(s, c, First(list, i), w)}]
  <1>1. s \in SysStates
    BY DEF SInv
  <1>2. N \in Nat /\ DOMAIN list = 1 .. N
    BY LenProperties
  <1>3. \A i \in 1 .. N : i \in 0 .. N /\ i - 1 \in 0 .. N
    BY <1>2
  <1>4. G \in [0 .. N -> SUBSET SysStates]
    OBVIOUS
  <1>5. s \in G[0]
    <2>1. First(list, 0) = {}
      BY DEF First
    <2>2. TickedSome(s, c, {}, s)
      BY SublistSame DEF TickedSome
    <2>3. TickedSome(s, c, First(list, 0), s)
      BY <2>1, <2>2
    <2> QED BY <1>1, <1>2, <2>3
  <1>6. ASSUME NEW i \in 1 .. N, NEW x \in G[i - 1] PROVE Expire(x, list[i]) \in G[i]
    <2> DEFINE y == Expire(x, list[i])
               t == list[i]
               gone == First(list, i - 1)
    <2>1. TickedSome(s, c, gone, x)
      BY <1>3
    <2>2. First(list, i) = gone \cup {t}
      <3>1. \A j : j \in 1 .. i <=> j \in 1 .. i - 1 \/ j = i
        BY <1>2
      <3> QED BY <3>1 DEF First
    <2>3. t \in ToSet(s.k.tick_head) \ gone
      <3>1. t \in ToSet(list)
        BY <1>2 DEF ToSet
      <3>2. t \notin gone
        BY <1>2 DEF IsInjective, First
      <3> QED BY <3>1, <3>2
    <2> HIDE DEF gone, t
    <2>4. y = Expire(x, t)
      BY DEF t
    <2> HIDE DEF y
    <2>5. TickedSome(s, c, gone \cup {t}, y)
      BY <2>1, <2>3, <2>4, TickNext
    <2>6. TickedSome(s, c, First(list, i), y) /\ y \in SysStates
      BY <2>2, <2>5 DEF TickedSome, SInv
    <2>7. y \in G[i]
      BY <1>3, <2>6
    <2> QED BY <2>7 DEF y
  <1>7. r \in G[N]
    <2> HIDE DEF G
    <2>1. N \in Nat
      BY <1>2
    <2> QED BY <1>4, <1>5, <1>6, <2>1, TickRounds
  <1>8. First(list, N) = ToSet(list)
    BY <1>2 DEF First, ToSet
  <1>9. TickedSome(s, c, First(list, N), r)
    BY <1>2, <1>7
  <1> QED BY <1>8, <1>9

LEMMA TickStarts ==
  ASSUME NEW s, NEW c, SysInv(s, c), NEW s1, s1 = [s EXCEPT !.k = advance_tick(@)]
  PROVE  LET list == due(s1.k)
         IN  /\ SInv(s1) /\ MInv(s1, c, Alive(s1.k), {})
             /\ list \in Seq(Tasks) /\ IsInjective(list)
             /\ ToSet(list) \subseteq ToSet(s1.k.tick_head)
             /\ \A r : TickedSome(s1, c, ToSet(list), r) => SysInv(r, c) /\ SameOwners(s, r)
  <1> DEFINE x == s.k
             q == advance_tick(x)
             list == due(q)
  <1>0. s1 = [s EXCEPT !.k = q]
    OBVIOUS
  <1>1. /\ KInv(x) /\ TickOrder(x) /\ s \in SysStates /\ SInv(s) /\ MInv(s, c, Alive(s.k), {})
        /\ TICKS \in Nat \ {0, 1} /\ s.exists \subseteq Mutexes
    BY ConstantsAre DEF SysInv, SInv, SysStates
  <1> HIDE DEF x, q
  <1>2. /\ KInv(q) /\ TickSorted(q) /\ q.tick_head = x.tick_head
        /\ q.state = x.state /\ q.block_status = x.block_status
        /\ q.block_obj = x.block_obj /\ q.ready = x.ready
        /\ q.block_list = x.block_list /\ q.priority = x.priority
        /\ list \in Seq(Tasks) /\ IsInjective(list)
        /\ ToSet(list) = {t \in ToSet(q.tick_head) : Remaining(q, t) = 0}
    <2>1. q = advance_tick(x)
      BY DEF q
    <2> QED BY <1>1, <2>1, AdvanceLemma
  <1>3. /\ s1 \in SysStates /\ s1.k = q /\ s1.bpriority = s.bpriority
        /\ s1.mtxlist = s.mtxlist /\ s1.mtxtsk = s.mtxtsk
        /\ s1.owner_nested = s.owner_nested /\ s1.exists = s.exists /\ s1.levels = s.levels
    <2>1. q \in KStates
      BY <1>2 DEF KInv
    <2>2. s \in SysStates
      BY <1>1
    <2>3. \A y \in KStates : \A z : z = [s EXCEPT !.k = y] =>
            /\ z \in SysStates /\ z.k = y /\ z.bpriority = s.bpriority
            /\ z.mtxlist = s.mtxlist /\ z.mtxtsk = s.mtxtsk
            /\ z.owner_nested = s.owner_nested /\ z.exists = s.exists /\ z.levels = s.levels
      BY <2>2, KernelFields
    <2> QED BY <1>0, <2>1, <2>3
  <1> HIDE DEF list
  <1>5. Alive(q) = Alive(x) /\ \A m \in Mutexes : Waiting(q, m) = Waiting(x, m)
    BY <1>2 DEF Alive, Waiting
  <1>6. SInv(s1)
    <2>1. WaitOrder(q)
      BY <1>1, <1>2 DEF SInv, WaitOrder, x
    <2> QED BY <1>1, <1>2, <1>3, <1>5, <2>1 DEF SInv, x
  <1>7. MInv(s1, c, Alive(s1.k), {})
    <2>1. Ownership(s1, Alive(x), {})
      BY <1>1, <1>3, <1>5 DEF MInv, Ownership, Owned, x
    <2>2. /\ NoneAstray(s1) /\ CallsMatch(s1, c) /\ AnswersRight(s1, c, Alive(x))
          /\ CeilingsKept(s1, Alive(x)) /\ ObjectsMatch(s1.k)
      BY <1>1, <1>2, <1>3, <1>5
        DEF MInv, NoneAstray, CallsMatch, AnswersRight, CeilingsKept, ObjectsMatch, Done,
            Owned, x
    <2>3. Alive(s1.k) = Alive(x)
      BY <1>3, <1>5
    <2> QED BY <2>1, <2>2, <2>3 DEF MInv
  <1>8. ToSet(list) \subseteq ToSet(s1.k.tick_head)
    BY <1>2, <1>3
  <1>9. ASSUME NEW r, TickedSome(s1, c, ToSet(list), r)
        PROVE  SysInv(r, c) /\ SameOwners(s, r)
    <2>1. /\ SInv(r) /\ MInv(r, c, Alive(s1.k), {})
          /\ r.mtxtsk = s1.mtxtsk /\ r.exists = s1.exists /\ r.levels = s1.levels
          /\ Alive(r.k) = Alive(s1.k)
          /\ r.k.tick_match = q.tick_match /\ r.k.raw_tick_count = q.raw_tick_count
          /\ Sublist(r.k.tick_head, q.tick_head)
          /\ ToSet(r.k.tick_head) = ToSet(q.tick_head) \ ToSet(list)
      BY <1>3, <1>9 DEF TickedSome
    <2> DEFINE y == r.k
    <2>2. \A t \in ToSet(y.tick_head) : Remaining(q, t) # 0
      BY <1>2, <2>1
    <2>3. /\ y.tick_match = q.tick_match /\ y.raw_tick_count = q.raw_tick_count
          /\ Sublist(y.tick_head, q.tick_head)
      BY <2>1
    <2> HIDE DEF y
    <2>4. TickOrder(y)
      BY <1>1, <1>2, <2>2, <2>3, TickDone
    <2>5. /\ r.mtxtsk = s.mtxtsk /\ r.exists = s.exists /\ r.levels = s.levels
          /\ Alive(r.k) = Alive(s.k) /\ MInv(r, c, Alive(r.k), {})
      BY <1>3, <1>5, <2>1 DEF x
    <2> QED BY <2>1, <2>4, <2>5 DEF SysInv, SameOwners, y
  <1> QED BY <1>2, <1>3, <1>6, <1>7, <1>8, <1>9 DEF list

LEMMA TickStep ==
  ASSUME NEW s, NEW c, SysInv(s, c),
         NEW r, r = LET s1   == [s EXCEPT !.k = advance_tick(@)]
                        list == due(s1.k)
                        after[i \in 0 .. Len(list)] ==
                          IF i = 0 THEN s1 ELSE Expire(after[i - 1], list[i])
                    IN  after[Len(list)]
  PROVE  SysInv(r, c) /\ SameOwners(s, r)
  <1> DEFINE s1 == [s EXCEPT !.k = advance_tick(@)]
             list == due(s1.k)
  <1>1. /\ SInv(s1) /\ MInv(s1, c, Alive(s1.k), {})
        /\ list \in Seq(Tasks) /\ IsInjective(list)
        /\ ToSet(list) \subseteq ToSet(s1.k.tick_head)
        /\ \A z : TickedSome(s1, c, ToSet(list), z) => SysInv(z, c) /\ SameOwners(s, z)
    <2> HIDE DEF s1
    <2>1. s1 = [s EXCEPT !.k = advance_tick(@)]
      BY DEF s1
    <2> QED BY <2>1, TickStarts
  <1>2. r = LET after[i \in 0 .. Len(list)] ==
                  IF i = 0 THEN s1 ELSE Expire(after[i - 1], list[i])
            IN  after[Len(list)]
    OBVIOUS
  <1> HIDE DEF s1, list
  <1>3. TickedSome(s1, c, ToSet(list), r)
    BY <1>1, <1>2, TickAll
  <1> QED BY <1>1, <1>3

-----------------------------------------------------------------------------
(***************************************************************************)
(* The services of raw_mutex.c.                                            *)
(***************************************************************************)

(* How mutexes may pass from owner to owner: only those of a task that is  *)
(* deleted, and to their first waiters.                                    *)
OwnersPass(s, r) ==
  \A m \in s.exists :
    r.mtxtsk[m] # s.mtxtsk[m] /\ s.mtxtsk[m] # NoTask =>
      /\ r.k.state[s.mtxtsk[m]] = "DELETED"
      /\ r.mtxtsk[m] = IF s.k.block_list[m] = <<>> THEN NoTask ELSE Head(s.k.block_list[m])

LEMMA SamePass ==
  ASSUME NEW s, NEW r, SameOwners(s, r)
  PROVE  OwnersPass(s, r)
  BY DEF SameOwners, OwnersPass

LEMMA SysIs ==
  ASSUME NEW s, NEW c, SysInv(s, c)
  PROVE  /\ SInv(s) /\ MInv(s, c, Alive(s.k), {}) /\ TickOrder(s.k)
         /\ s \in SysStates /\ KInv(s.k) /\ s.k \in KStates /\ s.exists \subseteq Mutexes
         /\ c \in [Tasks -> Mutexes \cup {NoObj}] /\ Alive(s.k) \in SUBSET Tasks
         /\ \A t \in Tasks : t \in s.k.ready => s.k.state[t] = "RDY" /\ t \in Alive(s.k)
  BY DEF SysInv, SInv, SysStates, MInv, CallsMatch, KInv, StateMatchesListsIn, Alive

LEMMA NestedStep ==
  ASSUME NEW s, NEW c, SysInv(s, c), NEW m \in Mutexes, NEW n \in Int,
         NEW r, r = [s EXCEPT !.owner_nested[m] = n]
  PROVE  SysInv(r, c) /\ SameOwners(s, r)
  <1>1. SInv(s) /\ MInv(s, c, Alive(s.k), {}) /\ TickOrder(s.k)
    BY DEF SysInv
  <1>2. /\ SInv(r) /\ r.k = s.k /\ r.bpriority = s.bpriority
        /\ r.mtxlist = s.mtxlist /\ r.mtxtsk = s.mtxtsk
        /\ r.exists = s.exists /\ r.levels = s.levels
        /\ \A x, L, M : MInv(s, x, L, M) => MInv(r, x, L, M)
    BY <1>1, NestedKeeps
  <1>3. MInv(r, c, Alive(r.k), {})
    BY <1>1, <1>2
  <1> QED BY <1>1, <1>2, <1>3 DEF SysInv, SameOwners

LEMMA GetNestedStep ==
  ASSUME SysInv(sys, call), NEW t \in Tasks, NEW m \in Mutexes,
         GetNested(t, m) \/ PutNested(t, m)
  PROVE  SysInv(sys', call') /\ SameOwners(sys, sys')
  <1> DEFINE d == sys.owner_nested[m]
  <1>1. d \in Int
    BY DEF SysInv, SInv, SysStates
  <1>2. \E n \in Int : sys' = [sys EXCEPT !.owner_nested[m] = n] /\ call' = call
    <2>1. CASE GetNested(t, m)
      <3>1. d + 1 \in Int /\ sys' = [sys EXCEPT !.owner_nested[m] = d + 1] /\ call' = call
        BY <1>1, <2>1 DEF GetNested
      <3> QED BY <3>1
    <2>2. CASE PutNested(t, m)
      <3>1. d - 1 \in Int /\ sys' = [sys EXCEPT !.owner_nested[m] = d - 1] /\ call' = call
        BY <1>1, <2>2 DEF PutNested
      <3> QED BY <3>1
    <2> QED BY <2>1, <2>2
  <1> DEFINE r == sys'
  <1>3. SysInv(r, call) /\ SameOwners(sys, r)
    <2>1. PICK n \in Int : r = [sys EXCEPT !.owner_nested[m] = n]
      BY <1>2
    <2> HIDE DEF r
    <2> QED BY <2>1, NestedStep
  <1> QED BY <1>2, <1>3

(* t gets a free mutex. *)
LEMMA OwnStep ==
  ASSUME NEW s, NEW c, SysInv(s, c), NEW m \in s.exists, s.mtxtsk[m] = NoTask,
         NEW t \in Alive(s.k), s.k.state[t] = "RDY", c[t] = NoObj,
         Policy[m] = "CEILING" => s.bpriority[t] >= Ceiling[m],
         NEW r, r = own(s, m, t)
  PROVE  SysInv(r, c) /\ Given(s, r, m, t)
  <1> DEFINE L == Alive(s.k)
  <1>1. /\ SInv(s) /\ MInv(s, c, L, {}) /\ TickOrder(s.k) /\ KInv(s.k)
        /\ s.exists \subseteq Mutexes /\ L \in SUBSET Tasks /\ m \in Mutexes
    BY SysIs
  <1>2. t \notin Waiting(s.k, m)
    BY <1>1, WaitingIs DEF PendStates, Mutexes
  <1>3. SInv(r) /\ Ownership(r, L, {} \ {m}) /\ Given(s, r, m, t)
    <2>1. Ownership(s, L, {})
      BY <1>1 DEF MInv
    <2>2. t \in L
      OBVIOUS
    <2> HIDE DEF L
    <2> QED BY <1>1, <1>2, <2>1, <2>2, OwnLemma
  <1> HIDE DEF L
  <1>4. Ownership(r, L, {})
    <2>1. {} \ {m} = {}
      OBVIOUS
    <2> QED BY <1>3, <2>1
  <1>5. /\ r.k = s.k /\ r.bpriority = s.bpriority /\ r.exists = s.exists
        /\ r.mtxtsk[m] = t /\ \A x \in Mutexes \ {m} : r.mtxtsk[x] = s.mtxtsk[x]
        /\ Owned(r, t) = Owned(s, t) \cup {m}
        /\ \A u \in Tasks \ {t} : Owned(r, u) = Owned(s, u)
    BY <1>3 DEF Given
  <1>6. AnswersRight(r, c, L)
    <2> SUFFICES ASSUME NEW u \in L, c[u] \in r.exists
                 PROVE  Done(r.k, u) <=> r.mtxtsk[c[u]] = u
      BY DEF AnswersRight
    <2>1. Done(s.k, u) <=> s.mtxtsk[c[u]] = u
      BY <1>1, <1>5 DEF MInv, AnswersRight
    <2>2. CASE c[u] = m
      <3>1. u # t /\ u \in Tasks
        BY <1>1, <2>2, ConstantsAre
      <3> QED BY <1>1, <1>5, <2>1, <2>2, <3>1, ConstantsAre
    <2>3. CASE c[u] # m
      BY <1>1, <1>5, <2>1, <2>3
    <2> QED BY <2>2, <2>3
  <1>7. CeilingsKept(r, L)
    <2> SUFFICES ASSUME NEW u \in L, NEW x \in r.exists, Policy[x] = "CEILING",
                        x \in Owned(r, u) \/ r.k.block_obj[u] = x
                 PROVE  r.bpriority[u] >= Ceiling[x]
      BY DEF CeilingsKept
    <2>1. CASE u = t /\ x = m
      BY <1>5, <2>1
    <2>2. CASE ~(u = t /\ x = m)
      <3>1. x \in Owned(s, u) \/ s.k.block_obj[u] = x
        BY <1>1, <1>5, <2>2
      <3> QED BY <1>1, <1>5, <3>1 DEF MInv, CeilingsKept
    <2> QED BY <2>1, <2>2
  <1>8. MInv(r, c, L, {})
    BY <1>1, <1>4, <1>5, <1>6, <1>7 DEF MInv, NoneAstray, CallsMatch
  <1> QED BY <1>1, <1>3, <1>5, <1>8 DEF SysInv, L

LEMMA GetFreeStep ==
  ASSUME SysInv(sys, call), NEW t \in Tasks, NEW m \in Mutexes, GetFree(t, m)
  PROVE  SysInv(sys', call') /\ OwnersPass(sys, sys')
  <1> DEFINE s1 == own(sys, m, t)
             s2 == [s1 EXCEPT !.owner_nested[m] = 1]
             r  == sys'
  <1>1. /\ t \in sys.k.ready /\ call[t] = NoObj /\ m \in sys.exists
        /\ Policy[m] = "CEILING" => sys.bpriority[t] >= Ceiling[m]
        /\ sys.mtxtsk[m] = NoTask /\ call' = call
    BY DEF GetFree, MayGet, Runs, k
  <1>2. sys.k.state[t] = "RDY" /\ t \in Alive(sys.k)
    BY <1>1, SysIs
  <1>3. r = raise_to_ceiling(s2, m, t)
    BY DEF GetFree
  <1> HIDE DEF s1, r
  <1>4. SysInv(s1, call) /\ Given(sys, s1, m, t)
    BY <1>1, <1>2, OwnStep DEF s1
  <1>5. SysInv(s2, call) /\ SameOwners(s1, s2)
    <2>1. s2 = [s1 EXCEPT !.owner_nested[m] = 1]
      OBVIOUS
    <2>2. 1 \in Int
      OBVIOUS
    <2> HIDE DEF s2
    <2> QED BY <1>4, <2>1, <2>2, NestedStep
  <1> HIDE DEF s2
  <1>6. SInv(s2) /\ MInv(s2, call, Alive(s2.k), {}) /\ TickOrder(s2.k)
    BY <1>5 DEF SysInv
  <1>7. /\ SInv(r) /\ Repriced(s2, r) /\ r.levels = s2.levels
        /\ s2.k.state[t] \notin PendStates => r.k.block_list = s2.k.block_list
    BY <1>3, <1>6, CeilingLemma
  <1>8. MInv(r, call, Alive(s2.k), {}) /\ SameOwners(s2, r)
    BY <1>6, <1>7, RepricedStep
  <1>9. SysInv(r, call)
    BY <1>6, <1>7, <1>8 DEF SysInv, SameOwners
  <1>10. \A x \in Mutexes \ {m} : r.mtxtsk[x] = sys.mtxtsk[x]
    BY <1>4, <1>5, <1>8 DEF SameOwners, Given
  <1>11. OwnersPass(sys, r)
    <2>1. sys.exists \subseteq Mutexes
      BY SysIs
    <2> QED BY <1>1, <1>10, <2>1 DEF OwnersPass
  <1> QED BY <1>1, <1>9, <1>11 DEF r

LEMMA GetReturnsStep ==
  ASSUME SysInv(sys, call), NEW t \in Tasks, GetReturns(t)
  PROVE  SysInv(sys', call') /\ SameOwners(sys, sys')
  <1>1. /\ MInv(sys, call, Alive(sys.k), {}) /\ call \in [Tasks -> Mutexes \cup {NoObj}]
        /\ sys.exists \subseteq Mutexes /\ Alive(sys.k) \in SUBSET Tasks
    BY SysIs
  <1>2. /\ t \in sys.k.ready /\ call' = [call EXCEPT ![t] = NoObj] /\ sys' = sys
    BY DEF GetReturns, k
  <1>3. sys.k.state[t] = "RDY"
    BY <1>2, SysIs
  <1>4. call'[t] = NoObj /\ \A u \in Tasks \ {t} : call'[u] = call[u]
    BY <1>1, <1>2
  <1>5. CallsMatch(sys, call')
    <2>1. call' \in [Tasks -> Mutexes \cup {NoObj}]
      BY <1>1, <1>2
    <2> QED BY <1>1, <1>3, <1>4, <2>1 DEF MInv, CallsMatch, PendStates
  <1>6. AnswersRight(sys, call', Alive(sys.k))
    BY <1>1, <1>4, ConstantsAre DEF MInv, AnswersRight
  <1>7. MInv(sys, call', Alive(sys.k), {})
    BY <1>1, <1>5, <1>6 DEF MInv
  <1> QED BY <1>2, <1>7 DEF SysInv, SameOwners

(* t runs and may wait for m, which another task owns. *)
MayWait(s, m, t) ==
  /\ m \in s.exists /\ t \in Alive(s.k) /\ s.k.state[t] = "RDY"
  /\ s.mtxtsk[m] \notin {NoTask, t}
  /\ Policy[m] = "CEILING" => s.bpriority[t] >= Ceiling[m]

Waits(s, c, m, t, timeout, r, d) ==
  /\ timeout \in 1 .. TICKS - 1 \cup {FOREVER}
  /\ r = [s EXCEPT !.k = raw_pend_object(@, m, t, timeout)]
  /\ d = [c EXCEPT ![t] = m]

LEMMA BlockStep ==
  ASSUME NEW s, NEW c, SysInv(s, c), NEW m, NEW t, MayWait(s, m, t),
         NEW timeout, NEW r, NEW d, Waits(s, c, m, t, timeout, r, d)
  PROVE  SysInv(r, d) /\ SameOwners(s, r)
  <1> DEFINE x == s.k
             L == Alive(x)
             q == raw_pend_object(x, m, t, timeout)
  <1>0. /\ timeout \in 1 .. TICKS - 1 \cup {FOREVER}
        /\ r = [s EXCEPT !.k = q] /\ d = [c EXCEPT ![t] = m]
    BY DEF Waits
  <1>1. /\ SInv(s) /\ MInv(s, c, L, {}) /\ TickOrder(x) /\ KInv(x) /\ s \in SysStates
        /\ s.exists \subseteq Mutexes /\ L \subseteq Tasks /\ m \in Mutexes /\ t \in Tasks
        /\ c \in [Tasks -> Mutexes \cup {NoObj}] /\ m \in s.exists /\ x.state[t] = "RDY"
        /\ s.mtxtsk[m] \notin {NoTask, t}
        /\ Policy[m] = "CEILING" => s.bpriority[t] >= Ceiling[m]
    BY SysIs DEF MayWait
  <1>2. /\ WaitOrder(x) /\ timeout \in Int /\ timeout # 0 /\ TICKS \in Nat \ {0, 1}
        /\ NoObj \notin Mutexes /\ NoTask \notin Tasks
    BY <1>0, <1>1, ConstantsAre DEF SInv, FOREVER
  <1> HIDE DEF x, q
  <1>3. KInv(q) /\ OthersKept(x, q, t) /\ q.state[t] \in PendStates /\ q.block_obj[t] = m
    <2>1. m \in Objects /\ x.state[t] = "RDY" /\ TICKS \in Nat \ {0}
      BY <1>1, <1>2 DEF Mutexes, x
    <2>2. q = raw_pend_object(x, m, t, timeout)
      BY DEF q
    <2> QED BY <1>1, <1>2, <2>1, <2>2, PendLemma
  <1>4. WaitOrder(q) /\ TickOrder(q) /\ q.priority = x.priority
    <2>1. m \in Objects /\ x.state[t] = "RDY"
      BY <1>1 DEF Mutexes, x
    <2>2. q = raw_pend_object(x, m, t, timeout)
      BY DEF q
    <2> QED BY <1>0, <1>1, <1>2, <2>1, <2>2, PendOrder
  <1>5. /\ r \in SysStates /\ r.k = q /\ r.bpriority = s.bpriority
        /\ r.mtxlist = s.mtxlist /\ r.mtxtsk = s.mtxtsk
        /\ r.owner_nested = s.owner_nested /\ r.exists = s.exists /\ r.levels = s.levels
    <2>1. q \in KStates
      BY <1>3 DEF KInv
    <2> QED BY <1>0, <1>1, <2>1, KernelFields
  <1>6. \A u \in Tasks \ {t} : /\ q.state[u] = x.state[u] /\ q.block_obj[u] = x.block_obj[u]
                               /\ (Done(q, u) <=> Done(x, u))
    BY <1>3 DEF OthersKept, Done
  <1>7. /\ Waiting(q, m) = Waiting(x, m) \cup {t}
        /\ \A y \in Mutexes \ {m} : Waiting(q, y) = Waiting(x, y)
    <2>1. x.state[t] \notin PendStates
      BY <1>1 DEF PendStates
    <2>2. \A y \in Mutexes, u \in Tasks :
            /\ u \in Waiting(q, y) <=> q.state[u] \in PendStates /\ q.block_obj[u] = y
            /\ u \in Waiting(x, y) <=> x.state[u] \in PendStates /\ x.block_obj[u] = y
      BY <1>1, <1>3, WaitingIs DEF Mutexes
    <2>3. \A y \in Mutexes : Waiting(q, y) \subseteq Tasks /\ Waiting(x, y) \subseteq Tasks
      BY <1>1, <1>3, WaitingIs DEF Mutexes
    <2>4. \A u \in Tasks : u \in Waiting(q, m) <=> u \in Waiting(x, m) \/ u = t
      BY <1>1, <1>3, <1>6, <2>1, <2>2
    <2>5. \A y \in Mutexes \ {m} : \A u \in Tasks :
            u \in Waiting(q, y) <=> u \in Waiting(x, y)
      BY <1>1, <1>3, <1>6, <2>1, <2>2
    <2>6. Waiting(q, m) = Waiting(x, m) \cup {t}
      BY <1>1, <2>3, <2>4
    <2> QED BY <2>3, <2>5, <2>6
  <1>8. SInv(r)
    <2>1. s.mtxtsk[m] \in Tasks
      BY <1>1 DEF SysStates
    <2>2. \A y \in r.exists : Waiting(r.k, y) # {} => r.mtxtsk[y] \in Tasks
      BY <1>1, <1>5, <1>7, <2>1 DEF SInv, x
    <2> QED BY <1>1, <1>3, <1>4, <1>5, <2>2 DEF SInv, x
  <1>9. Ownership(r, L, {}) /\ NoneAstray(r)
    <2>1. Ownership(s, L, {}) /\ NoneAstray(s)
      BY <1>1 DEF MInv
    <2>2. \A y \in s.exists : Waiting(q, y) # {} =>
            s.mtxtsk[y] \notin {NoTask} \cup Waiting(q, y)
      BY <1>1, <1>7, <2>1 DEF Ownership, x
    <2>3. NoneAstray(r)
      BY <1>1, <1>5, <1>7, <2>1 DEF NoneAstray, x
    <2> HIDE DEF L
    <2> QED BY <1>5, <2>1, <2>2, <2>3 DEF Ownership, Owned
  <1>10. d[t] = m /\ \A u \in Tasks \ {t} : d[u] = c[u]
    BY <1>0, <1>1
  <1>11. q.state[t] \notin IdleStates /\ ~Done(q, t)
    BY <1>3 DEF PendStates, IdleStates, Done
  <1>12. CallsMatch(r, d)
    <2>1. d \in [Tasks -> Mutexes \cup {NoObj}]
      BY <1>0, <1>1
    <2>2. /\ \A u \in Tasks : x.state[u] \in PendStates => c[u] = x.block_obj[u]
          /\ \A u \in Tasks : x.state[u] \in IdleStates => c[u] = NoObj
      BY <1>1 DEF MInv, CallsMatch, x
    <2> QED BY <1>3, <1>5, <1>6, <1>10, <1>11, <2>1, <2>2 DEF CallsMatch
  <1>13. AnswersRight(r, d, L)
    <2> SUFFICES ASSUME NEW u \in L, d[u] \in r.exists
                 PROVE  Done(r.k, u) <=> r.mtxtsk[d[u]] = u
      BY DEF AnswersRight
    <2>1. CASE u = t
      BY <1>1, <1>5, <1>10, <1>11, <2>1
    <2>2. CASE u # t
      <3>1. u \in L /\ c[u] \in s.exists /\ (Done(q, u) <=> Done(x, u))
        BY <1>1, <1>5, <1>6, <1>10, <2>2
      <3>2. Done(x, u) <=> s.mtxtsk[c[u]] = u
        BY <1>1, <3>1 DEF MInv, AnswersRight, x
      <3> QED BY <1>1, <1>5, <1>10, <2>2, <3>1, <3>2
    <2> QED BY <2>1, <2>2
  <1>14. CeilingsKept(r, L)
    <2> SUFFICES ASSUME NEW u \in L, NEW y \in r.exists, Policy[y] = "CEILING",
                        y \in Owned(r, u) \/ r.k.block_obj[u] = y
                 PROVE  r.bpriority[u] >= Ceiling[y]
      BY DEF CeilingsKept
    <2>1. CASE u = t /\ y = m
      BY <1>1, <1>5, <2>1
    <2>2. CASE ~(u = t /\ y = m)
      <3>1. y \in Owned(s, u) \/ x.block_obj[u] = y
        BY <1>1, <1>3, <1>5, <1>6, <2>2 DEF Owned
      <3> QED BY <1>1, <1>5, <3>1 DEF MInv, CeilingsKept, x
    <2> QED BY <2>1, <2>2
  <1>15. Alive(q) = L /\ ObjectsMatch(q)
    <2>1. x.state[t] # "DELETED" /\ q.state[t] # "DELETED"
      BY <1>1, <1>3 DEF PendStates
    <2>2. Alive(q) = L
      BY <1>6, <2>1 DEF Alive
    <2>3. ObjectsMatch(x)
      BY <1>1 DEF MInv, x
    <2>4. ObjectsMatch(q)
      BY <1>3, <1>6, <2>2, <2>3 DEF ObjectsMatch, Alive
    <2> QED BY <2>2, <2>4
  <1>16. MInv(r, d, Alive(r.k), {})
    <2>1. Alive(r.k) = L
      BY <1>5, <1>15
    <2> HIDE DEF L
    <2> QED BY <1>5, <1>9, <1>12, <1>13, <1>14, <1>15, <2>1 DEF MInv
  <1> QED BY <1>4, <1>5, <1>8, <1>15, <1>16 DEF SysInv, SameOwners, x

LEMMA GetBlocksStep ==
  ASSUME SysInv(sys, call), NEW t \in Tasks, NEW m \in Mutexes, NEW timeout \in Timeouts,
         GetBlocks(t, m, timeout)
  PROVE  SysInv(sys', call') /\ SameOwners(sys, sys')
  <1> DEFINE owner == sys.mtxtsk[m]
             p  == sys.k.priority[t]
             s1 == IF Policy[m] = "INHERIT" /\ p < sys.k.priority[owner]
                   THEN change_internal_task_priority(sys, owner, p) ELSE sys
             q  == raw_pend_object(s1.k, m, t, timeout)
             r  == sys'
             d  == call'
  <1>1. /\ t \in sys.k.ready /\ call[t] = NoObj /\ m \in sys.exists
        /\ Policy[m] = "CEILING" => sys.bpriority[t] >= Ceiling[m]
        /\ owner \notin {NoTask, t} /\ r = [s1 EXCEPT !.k = q] /\ d = [call EXCEPT ![t] = m]
    BY DEF GetBlocks, MayGet, Runs, k
  <1>2. /\ sys.k.state[t] = "RDY" /\ t \in Alive(sys.k) /\ SInv(sys) /\ TickOrder(sys.k)
        /\ MInv(sys, call, Alive(sys.k), {})
    BY <1>1, SysIs
  <1>3. owner \in Tasks /\ p \in Prios
    BY <1>1, <1>2 DEF SInv, SysStates
  <1> HIDE DEF owner, p, q, r, d
  <1>4. /\ SInv(s1) /\ Repriced(sys, s1) /\ s1.levels = sys.levels
    <2>1. s1 = change_internal_task_priority(sys, owner, p) \/ s1 = sys
      OBVIOUS
    <2> HIDE DEF s1
    <2>2. ASSUME s1 = change_internal_task_priority(sys, owner, p)
          PROVE  SInv(s1) /\ Repriced(sys, s1) /\ s1.levels = sys.levels
      BY <1>2, <1>3, <2>2, ChainLemma
    <2> QED BY <1>2, <2>1, <2>2, RepricedSame
  <1> HIDE DEF s1
  <1>5. MInv(s1, call, Alive(sys.k), {}) /\ SameOwners(sys, s1)
    BY <1>2, <1>4, RepricedStep
  <1>6. SysInv(s1, call)
    BY <1>2, <1>4, <1>5 DEF SysInv, SameOwners
  <1>7. MayWait(s1, m, t)
    BY <1>1, <1>2, <1>4, <1>5 DEF Repriced, Reordered, SameOwners, owner, MayWait
  <1>8. Waits(s1, call, m, t, timeout, r, d)
    BY <1>1, MutexAssumption DEF q, Waits
  <1>9. SysInv(r, d) /\ SameOwners(s1, r)
    BY <1>6, <1>7, <1>8, BlockStep
  <1> QED BY <1>5, <1>9, SameOwnersTrans DEF r, d

-----------------------------------------------------------------------------
(***************************************************************************)
(* The services of raw_task.c and raw_tick.c.                              *)
(***************************************************************************)

LEMMA TickListStep ==
  ASSUME SysInv(sys, call), tick_list_update
  PROVE  SysInv(sys', call') /\ SameOwners(sys, sys')
  <1> DEFINE r == sys'
  <1>1. /\ call' = call
        /\ r = LET s1   == [sys EXCEPT !.k = advance_tick(@)]
                   list == due(s1.k)
                   after[i \in 0 .. Len(list)] ==
                     IF i = 0 THEN s1 ELSE Expire(after[i - 1], list[i])
               IN  after[Len(list)]
    BY DEF tick_list_update
  <1> HIDE DEF r
  <1>2. SysInv(r, call) /\ SameOwners(sys, r)
    BY <1>1, TickStep
  <1> QED BY <1>1, <1>2 DEF r

(* Lists lose members and nobody gets a mutex. *)
LEMMA QuietStep ==
  ASSUME NEW s, NEW c, SysInv(s, c),
         NEW q, KInv(q), Gentle(s.k, q), Calm(s.k, q, Getting(c)),
         NEW r, r = [s EXCEPT !.k = q]
  PROVE  SysInv(r, c) /\ SameOwners(s, r)
  <1>1. SInv(s) /\ MInv(s, c, Alive(s.k), {}) /\ TickOrder(s.k)
    BY DEF SysInv
  <1>2. /\ SInv(r) /\ MInv(r, c, Alive(s.k), {}) /\ SameOwners(s, r)
        /\ r.k = q
    BY <1>1, GentleStep
  <1> QED BY <1>1, <1>2 DEF SysInv, SameOwners

LEMMA SomeIdle ==
  ASSUME NEW s, NEW c, SysInv(s, c)
  PROVE  \A t \in Tasks \ Getting(c) : s.k.state[t] \notin IdleStates
  BY NotIdle DEF SysInv, MInv, Getting

LEMMA SuspendStep ==
  ASSUME SysInv(sys, call), NEW t \in Tasks, Suspend(t) \/ Resume(t)
  PROVE  SysInv(sys', call') /\ SameOwners(sys, sys')
  <1> DEFINE x == sys.k
             I == Getting(call)
             r == sys'
  <1>1. /\ KInv(x) /\ COUNT_MOD \in Nat \ {0}
        /\ \A u \in Tasks \ I : x.state[u] \notin IdleStates
    BY SysIs, SomeIdle, ConstantsAre
  <1> HIDE DEF x, I, r
  <1>2. CASE Suspend(t)
    <2> DEFINE q == task_suspend(x, t)
    <2>1. r = [sys EXCEPT !.k = q] /\ call' = call /\ x.state[t] # "DELETED"
      BY <1>2 DEF Suspend, k, r, x
    <2> HIDE DEF q
    <2>2. KInv(q) /\ Calm(x, q, I) /\ (x.state[t] # "DELETED" => Gentle(x, q))
      BY <1>1, SuspendCalm DEF q
    <2>3. SysInv(r, call) /\ SameOwners(sys, r)
      BY <2>1, <2>2, QuietStep DEF x, I
    <2> QED BY <2>1, <2>3 DEF r
  <1>3. CASE Resume(t)
    <2> DEFINE q == task_resume(x, t)
    <2>1. /\ r = [sys EXCEPT !.k = q] /\ call' = call
          /\ x.state[t] \notin DOMAIN Suspended \cup {"DELETED"}
      BY <1>3 DEF Resume, k, r, x
    <2> HIDE DEF q
    <2>2. KInv(q) /\ Calm(x, q, I) /\ Gentle(x, q)
      BY <1>1, <2>1, ResumeCalm DEF q
    <2>3. SysInv(r, call) /\ SameOwners(sys, r)
      BY <2>1, <2>2, QuietStep DEF x, I
    <2> QED BY <2>1, <2>3 DEF r
  <1> QED BY <1>2, <1>3

LEMMA AbortStep ==
  ASSUME SysInv(sys, call), NEW t \in Tasks, raw_task_wait_abort(t)
  PROVE  SysInv(sys', call') /\ SameOwners(sys, sys')
  <1> DEFINE x == sys.k
             I == Getting(call)
             q == wait_abort(x, t)
             r == sys'
  <1>1. /\ KInv(x) /\ \A u \in Tasks \ I : x.state[u] \notin IdleStates
        /\ SInv(sys) /\ MInv(sys, call, Alive(x), {}) /\ TickOrder(x)
    BY SysIs, SomeIdle
  <1>2. /\ x.state[t] \notin {"RDY", "DELETED"} /\ call' = call
        /\ r = LET s1 == [sys EXCEPT !.k = q]
                   o  == x.block_obj[t]
               IN  IF o = NoObj THEN s1 ELSE mutex_state_change(s1, t, o)
    BY DEF raw_task_wait_abort, k
  <1>3. t \in Alive(x)
    BY <1>2 DEF Alive
  <1> HIDE DEF x, I, q, r
  <1>4. KInv(q) /\ Calm(x, q, I) /\ Gentle(x, q)
    BY <1>1, <1>2, AbortCalm DEF q
  <1>5. /\ SInv(r) /\ MInv(r, call, Alive(x), {}) /\ SameOwners(sys, r)
        /\ Reordered(q, r.k)
    BY <1>1, <1>2, <1>3, <1>4, GiveUpLemma DEF x, I
  <1> QED BY <1>1, <1>2, <1>5 DEF SysInv, SameOwners, r, x

LEMMA SleepStep ==
  ASSUME SysInv(sys, call), NEW t \in Tasks, NEW dly \in Delays, Sleep(t, dly)
  PROVE  SysInv(sys', call') /\ SameOwners(sys, sys')
  <1> DEFINE x == sys.k
             I == Getting(call)
             L == Alive(x)
             q == raw_sleep(x, t, dly)
             r == sys'
  <1>1. /\ KInv(x) /\ \A u \in Tasks \ I : x.state[u] \notin IdleStates
        /\ SInv(sys) /\ MInv(sys, call, L, {}) /\ TickOrder(x) /\ WaitOrder(x)
        /\ ObjectsMatch(x) /\ TICKS \in Nat \ {0, 1} /\ sys.exists \subseteq Mutexes
        /\ L \in SUBSET Tasks
    <2>1. SInv(sys) /\ MInv(sys, call, L, {}) /\ TickOrder(x)
      BY DEF SysInv
    <2> QED BY <2>1, SysIs, SomeIdle, ConstantsAre DEF SInv, MInv
  <1>2. /\ t \in x.ready /\ t \in I /\ x.state[t] = "RDY" /\ call' = call
        /\ r = [sys EXCEPT !.k = q]
    BY SysIs DEF Sleep, Runs, k, Getting
  <1>3. dly \in 1 .. TICKS - 1 /\ dly \in Int /\ dly # 0 /\ TICKS \in Nat \ {0}
    BY <1>1, MutexAssumption
  <1> HIDE DEF x, I, L, q, r
  <1>4. KInv(q) /\ Calm(x, q, I)
    BY <1>1, <1>2, <1>3, SleepCalm DEF q
  <1>5. /\ WaitOrder(q) /\ TickOrder(q) /\ ObjectsMatch(q) /\ Alive(q) = Alive(x)
        /\ q.priority = x.priority /\ q.block_obj = x.block_obj
    BY <1>1, <1>2, <1>3, SleepOrder DEF q
  <1>6. \A m \in Mutexes : Waiting(q, m) \subseteq Waiting(x, m)
    BY <1>1, <1>4, WaitingIs DEF Calm, Mutexes
  <1>7. /\ SInv(r) /\ Ownership(r, L, {}) /\ (NoneAstray(sys) => NoneAstray(r))
        /\ CeilingsKept(r, L)
    <2>1. Ownership(sys, L, {}) /\ CeilingsKept(sys, L)
      BY <1>1 DEF MInv
    <2>2. \A u \in L : q.block_obj[u] \in {x.block_obj[u], NoObj}
      BY <1>5
    <2> QED BY <1>1, <1>2, <1>4, <1>5, <1>6, <2>1, <2>2, LessWaiting DEF x
  <1>8. /\ r \in SysStates /\ r.k = q /\ r.bpriority = sys.bpriority
        /\ r.mtxlist = sys.mtxlist /\ r.mtxtsk = sys.mtxtsk
        /\ r.owner_nested = sys.owner_nested /\ r.exists = sys.exists
        /\ r.levels = sys.levels
    <2>1. sys \in SysStates /\ q \in KStates
      BY <1>1, <1>4 DEF SInv, KInv
    <2> QED BY <1>2, <2>1, KernelFields
  <1>9. CallsMatch(r, call) /\ AnswersRight(r, call, L)
    <2>1. Calm(sys.k, r.k, {u \in Tasks : call[u] = NoObj})
      BY <1>4, <1>8 DEF Getting, I, x
    <2>2. CallsMatch(sys, call) /\ AnswersRight(sys, call, L) /\ r.exists \in SUBSET sys.exists
      BY <1>1, <1>8 DEF MInv
    <2> QED BY <1>1, <1>8, <2>1, <2>2, CalmKeeps
  <1>10. MInv(r, call, L, {})
    BY <1>1, <1>5, <1>7, <1>8, <1>9 DEF MInv
  <1> QED BY <1>2, <1>5, <1>7, <1>8, <1>10 DEF SysInv, SameOwners, r, x, L

-----------------------------------------------------------------------------
(***************************************************************************)
(* An owner gives a mutex back; a mutex is deleted and created again.      *)
(***************************************************************************)

(* m has left the list of t. *)
Released(s, r, m, t) ==
  /\ r.k = s.k /\ r.bpriority = s.bpriority /\ r.exists = s.exists
  /\ r.mtxtsk = s.mtxtsk /\ r.levels = s.levels
  /\ \A u \in Tasks : IsInjective(r.mtxlist[u])
  /\ Owned(r, t) = Owned(s, t) \ {m}
  /\ \A u \in Tasks \ {t} : Owned(r, u) = Owned(s, u)

LEMMA ReleaseFields ==
  ASSUME NEW s, SInv(s), \A u \in Tasks : IsInjective(s.mtxlist[u]), NEW t \in Tasks, NEW m,
         NEW r, r = [s EXCEPT !.mtxlist[t] = list_delete(@, m)]
  PROVE  SInv(r) /\ Released(s, r, m, t)
  <1> DEFINE l == list_delete(s.mtxlist[t], m)
             ml == [s.mtxlist EXCEPT ![t] = l]
  <1>1. s \in SysStates /\ s.mtxlist[t] \in Seq(Mutexes) /\ IsInjective(s.mtxlist[t])
    BY DEF SInv, SysStates
  <1>2. l \in Seq(Mutexes) /\ IsInjective(l) /\ ToSet(l) = Owned(s, t) \ {m}
    BY <1>1, DeleteLemma DEF Owned
  <1>3. r = [s EXCEPT !.mtxlist = ml]
    BY <1>1 DEF SysStates
  <1> HIDE DEF l
  <1>4. /\ ml \in [Tasks -> Seq(Mutexes)]
        /\ ml[t] = l /\ \A u \in Tasks \ {t} : ml[u] = s.mtxlist[u]
    BY <1>1, <1>2 DEF SysStates
  <1> HIDE DEF ml
  <1>5. /\ r.k = s.k /\ r.bpriority = s.bpriority /\ r.exists = s.exists
        /\ r.mtxtsk = s.mtxtsk /\ r.levels = s.levels /\ r.mtxlist = ml
    BY <1>1, <1>3 DEF SysStates
  <1>6. r \in SysStates
    BY <1>1, <1>3, <1>4 DEF SysStates
  <1>7. SInv(r)
    BY <1>5, <1>6 DEF SInv
  <1>8. /\ Owned(r, t) = Owned(s, t) \ {m}
        /\ \A u \in Tasks \ {t} : Owned(r, u) = Owned(s, u)
        /\ \A u \in Tasks : IsInjective(r.mtxlist[u])
    BY <1>2, <1>4, <1>5 DEF Owned
  <1> QED BY <1>5, <1>7, <1>8 DEF Released

LEMMA ReleasedKeeps ==
  ASSUME NEW s, SInv(s), NEW c, NEW L \in SUBSET Tasks, MInv(s, c, L, {}),
         NEW m \in s.exists, NEW t \in L, s.mtxtsk[m] = t, NEW r, Released(s, r, m, t)
  PROVE  MInv(r, c, L, {m})
  <1>1. m \in Mutexes /\ s.exists \subseteq Mutexes
    BY DEF SInv, SysStates
  <1>2. Ownership(r, L, {m})
    <2>1. ASSUME NEW u \in L, NEW x \in Mutexes
          PROVE  x \in Owned(r, u) <=> x \in r.exists \ {m} /\ r.mtxtsk[x] = u
      <3>1. x \in Owned(s, u) <=> x \in s.exists /\ s.mtxtsk[x] = u
        BY DEF MInv, Ownership
      <3>2. CASE u = t
        BY <3>1, <3>2 DEF Released
      <3>3. CASE u # t
        <4>1. Owned(r, u) = Owned(s, u)
          BY <3>3 DEF Released
        <4>2. x = m => s.mtxtsk[x] # u
          BY <3>3
        <4> QED BY <3>1, <4>1, <4>2 DEF Released
      <3> QED BY <3>2, <3>3
    <2>2. \A x \in r.exists \ {m} : r.mtxtsk[x] \in L \cup {NoTask}
      BY DEF Released, MInv, Ownership
    <2>3. \A x \in r.exists : Waiting(r.k, x) # {} =>
            r.mtxtsk[x] \notin {NoTask} \cup Waiting(r.k, x)
      BY DEF Released, MInv, Ownership
    <2>4. \A u \in Tasks : IsInjective(r.mtxlist[u])
      BY DEF Released
    <2> QED BY <2>1, <2>2, <2>3, <2>4 DEF Ownership
  <1>3. CeilingsKept(r, L)
    <2>1. \A u \in L : Owned(r, u) \subseteq Owned(s, u)
      BY DEF Released
    <2> QED BY <2>1 DEF Released, MInv, CeilingsKept
  <1>4. /\ NoneAstray(r) /\ CallsMatch(r, c) /\ AnswersRight(r, c, L) /\ ObjectsMatch(r.k)
    BY DEF Released, MInv, NoneAstray, CallsMatch, AnswersRight
  <1> QED BY <1>2, <1>3, <1>4 DEF MInv

(* m has left its owner and passed on. *)
PutPasses(s, r, m) ==
  /\ r.mtxtsk[m] = IF s.k.block_list[m] = <<>> THEN NoTask ELSE Head(s.k.block_list[m])
  /\ \A x \in Mutexes \ {m} : r.mtxtsk[x] = s.mtxtsk[x]

(* t gives m back: what release_mutex and hand_over do. *)
LEMMA GiveBack ==
  ASSUME NEW s, NEW c, SysInv(s, c), NEW m \in s.exists, NEW t \in Alive(s.k),
         s.k.state[t] = "RDY", s.mtxtsk[m] = t, c[t] = NoObj,
         NEW s1, s1 = release_mutex(s, t, m), NEW r, r = free_one(s1, m)
  PROVE  SysInv(r, c) /\ PutPasses(s, r, m) /\ s1.k.block_list = s.k.block_list
  <1> DEFINE L == Alive(s.k)
             s0 == [s EXCEPT !.mtxlist[t] = list_delete(@, m)]
  <1>1. /\ SInv(s) /\ MInv(s, c, L, {}) /\ TickOrder(s.k) /\ L \in SUBSET Tasks
        /\ t \in Tasks /\ m \in Mutexes /\ t \in L
    BY SysIs
  <1>2. s1 = adjust(s0, t)
    BY DEF release_mutex
  <1>3. SInv(s0) /\ Released(s, s0, m, t)
    <2>1. \A u \in Tasks : IsInjective(s.mtxlist[u])
      BY <1>1 DEF MInv, Ownership
    <2>2. s0 = [s EXCEPT !.mtxlist[t] = list_delete(@, m)]
      OBVIOUS
    <2> HIDE DEF s0
    <2> QED BY <1>1, <2>1, <2>2, ReleaseFields
  <1> HIDE DEF s0, L
  <1>4. MInv(s0, c, L, {m})
    BY <1>1, <1>3, ReleasedKeeps
  <1>5. /\ SInv(s1) /\ Repriced(s0, s1) /\ s1.levels = s0.levels
        /\ s0.k.state[t] \notin PendStates => s1.k.block_list = s0.k.block_list
    BY <1>1, <1>2, <1>3, AdjustLemma
  <1>6. MInv(s1, c, L, {m}) /\ SameOwners(s0, s1)
    BY <1>3, <1>4, <1>5, RepricedStep
  <1>7. /\ s1.k.block_list = s.k.block_list /\ s1.mtxtsk = s.mtxtsk /\ s1.exists = s.exists
        /\ Alive(s1.k) = L /\ TickOrder(s1.k)
    <2>1. s0.k.state[t] \notin PendStates
      BY <1>3 DEF Released, PendStates
    <2> QED BY <1>1, <1>3, <1>5, <1>6, <2>1 DEF Released, SameOwners, L
  <1>8. SInv(r) /\ MInv(r, c, L, {m} \ {m}) /\ Passed(s1, r, m)
    <2>1. m \in s1.exists /\ m \in {m} /\ Alive(s1.k) \subseteq L \cup {s1.mtxtsk[m]}
      BY <1>7
    <2>2. \A u \in L : c[u] = m => s1.mtxtsk[m] # u
      BY <1>1, <1>7, ConstantsAre
    <2> QED BY <1>1, <1>5, <1>6, <2>1, <2>2, FreeOneLemma
  <1>9. {m} \ {m} = {}
    OBVIOUS
  <1>10. MInv(r, c, L, {})
    BY <1>8, <1>9
  <1>11. Alive(r.k) = L /\ TickOrder(r.k)
    BY <1>7, <1>8 DEF Passed
  <1>12. PutPasses(s, r, m)
    BY <1>7, <1>8 DEF Passed, PutPasses
  <1> QED BY <1>7, <1>8, <1>10, <1>11, <1>12 DEF SysInv

LEMMA PutStep ==
  ASSUME SysInv(sys, call), NEW t \in Tasks, NEW m \in Mutexes, raw_mutex_put(t, m)
  PROVE  SysInv(sys', call') /\ PutPasses(sys, sys', m)
  <1> DEFINE s0 == [sys EXCEPT !.owner_nested[m] = 0]
             s1 == release_mutex(s0, t, m)
             s2 == free_one(s1, m)
             r  == sys'
  <1>1. /\ t \in sys.k.ready /\ call[t] = NoObj /\ m \in sys.exists
        /\ sys.mtxtsk[m] = t /\ call' = call
        /\ r = IF s1.k.block_list[m] = <<>> THEN [s1 EXCEPT !.mtxtsk[m] = NoTask]
               ELSE [hand_over(s1, m) EXCEPT !.owner_nested[m] = 1]
    BY DEF raw_mutex_put, Runs, k
  <1>2. sys.k.state[t] = "RDY" /\ t \in Alive(sys.k)
    BY <1>1, SysIs
  <1>3. r = IF s1.k.block_list[m] = <<>> THEN s2 ELSE [s2 EXCEPT !.owner_nested[m] = 1]
    BY <1>1 DEF free_one
  <1> HIDE DEF s1, s2, r
  <1>4. /\ SInv(s0) /\ s0.k = sys.k /\ s0.bpriority = sys.bpriority
        /\ s0.mtxlist = sys.mtxlist /\ s0.mtxtsk = sys.mtxtsk
        /\ s0.exists = sys.exists /\ s0.levels = sys.levels
        /\ \A c, L, M : MInv(sys, c, L, M) => MInv(s0, c, L, M)
    <2>1. s0 = [sys EXCEPT !.owner_nested[m] = 0] /\ 0 \in Int /\ SInv(sys)
      BY DEF SysInv
    <2> HIDE DEF s0
    <2> QED BY <2>1, NestedKeeps
  <1> HIDE DEF s0
  <1>5. SysInv(s0, call)
    BY <1>4 DEF SysInv
  <1>6. SysInv(s2, call) /\ PutPasses(s0, s2, m) /\ s1.k.block_list = s0.k.block_list
    <2>1. m \in s0.exists /\ t \in Alive(s0.k) /\ s0.k.state[t] = "RDY" /\ s0.mtxtsk[m] = t
      BY <1>1, <1>2, <1>4
    <2>2. s1 = release_mutex(s0, t, m) /\ s2 = free_one(s1, m)
      BY DEF s1, s2
    <2> QED BY <1>1, <1>5, <2>1, <2>2, GiveBack
  <1>7. SysInv(r, call) /\ r.mtxtsk = s2.mtxtsk
    <2>1. CASE r = s2
      BY <1>6, <2>1
    <2>2. CASE r = [s2 EXCEPT !.owner_nested[m] = 1]
      <3>1. SysInv(r, call) /\ SameOwners(s2, r)
        BY <1>6, <2>2, NestedStep
      <3> QED BY <3>1 DEF SameOwners
    <2> QED BY <1>3, <2>1, <2>2
  <1> QED BY <1>1, <1>4, <1>6, <1>7 DEF PutPasses, r

(* m exists no longer and is in no list. *)
Dropped(s, r, m) ==
  /\ r.k = s.k /\ r.bpriority = s.bpriority /\ r.exists = s.exists \ {m}
  /\ r.mtxtsk = s.mtxtsk /\ r.levels = s.levels
  /\ \A u \in Tasks : IsInjective(r.mtxlist[u])
  /\ \A u \in Alive(s.k) : Owned(r, u) = Owned(s, u) \ {m}

LEMMA ExistsFields ==
  ASSUME NEW s, SInv(s), NEW m, NEW r, r = [s EXCEPT !.exists = @ \ {m}]
  PROVE  /\ SInv(r) /\ r.k = s.k /\ r.bpriority = s.bpriority /\ r.exists = s.exists \ {m}
         /\ r.mtxtsk = s.mtxtsk /\ r.levels = s.levels /\ r.mtxlist = s.mtxlist
  <1> DEFINE E == s.exists \ {m}
  <1>1. s \in SysStates /\ E \subseteq s.exists /\ r = [s EXCEPT !.exists = E]
    BY DEF SInv, SysStates
  <1>2. E \in SUBSET Mutexes
    BY <1>1 DEF SysStates
  <1>3. \A x \in E : Waiting(s.k, x) # {} => s.mtxtsk[x] \in Tasks
    BY DEF SInv
  <1> HIDE DEF E
  <1>4. /\ r.k = s.k /\ r.bpriority = s.bpriority /\ r.exists = E
        /\ r.mtxtsk = s.mtxtsk /\ r.levels = s.levels /\ r.mtxlist = s.mtxlist
    BY <1>1 DEF SysStates
  <1>5. r \in SysStates
    BY <1>1, <1>2 DEF SysStates
  <1>6. SInv(r)
    BY <1>3, <1>4, <1>5 DEF SInv
  <1> QED BY <1>4, <1>6 DEF E

LEMMA DroppedOwners ==
  ASSUME NEW s, SInv(s), NEW c, MInv(s, c, Alive(s.k), {}), NEW m, NEW r, Dropped(s, r, m)
  PROVE  Owners(r, c, Alive(s.k), {})
  <1> DEFINE L == Alive(s.k)
  <1>1. /\ Ownership(s, L, {}) /\ CallsMatch(s, c) /\ AnswersRight(s, c, L)
        /\ CeilingsKept(s, L) /\ ObjectsMatch(s.k) /\ s.exists \subseteq Mutexes
    BY DEF MInv, SInv, SysStates
  <1>2. /\ r.k = s.k /\ r.bpriority = s.bpriority /\ r.exists = s.exists \ {m}
        /\ r.mtxtsk = s.mtxtsk /\ \A u \in Tasks : IsInjective(r.mtxlist[u])
        /\ \A u \in L : Owned(r, u) = Owned(s, u) \ {m}
    BY DEF Dropped
  <1> HIDE DEF L
  <1>3. Ownership(r, L, {})
    <2>1. ASSUME NEW u \in L, NEW x \in Mutexes
          PROVE  x \in Owned(r, u) <=> x \in r.exists \ {} /\ r.mtxtsk[x] = u
      BY <1>1, <1>2 DEF Ownership
    <2> QED BY <1>1, <1>2, <2>1 DEF Ownership
  <1>4. CallsMatch(r, c) /\ AnswersRight(r, c, L) /\ CeilingsKept(r, L) /\ ObjectsMatch(r.k)
    BY <1>1, <1>2 DEF CallsMatch, AnswersRight, CeilingsKept
  <1> QED BY <1>3, <1>4 DEF Owners, L

(* The waits of all tasks that wait for o end with "DEL". *)
LEMMA DelIsCalm ==
  ASSUME NEW s, NEW c, CallsMatch(s, c), KInv(s.k), NEW m \in Mutexes,
         NEW q, KInv(q), Ended(s.k, q, Waiting(s.k, m)),
         \A t \in Waiting(s.k, m) : q.block_status[t] = "DEL"
  PROVE  Calm(s.k, q, Getting(c))
  <1> DEFINE W == Waiting(s.k, m)
             x == s.k
  <1>1. /\ \A t \in W : q.state[t] \in {"RDY", "SUSPENDED"} /\ ~Done(q, t)
        /\ \A t \in Tasks \ W : /\ q.state[t] = x.state[t]
                                /\ q.block_obj[t] = x.block_obj[t]
                                /\ (Done(q, t) <=> Done(x, t))
    BY DEF Ended, Done
  <1>2. \A t \in W : x.state[t] \in PendStates
    BY WaitingIs DEF Mutexes
  <1>3. \A t \in Tasks \ Getting(c) : x.state[t] \notin IdleStates
    BY NotIdle DEF Getting
  <1> HIDE DEF W, x
  <1>4. \A t \in W : /\ q.state[t] \notin PendStates /\ q.state[t] \notin IdleStates
                     /\ ~Done(x, t)
    BY <1>1, <1>2 DEF PendStates, IdleStates, Done
  <1>5. \A t \in Tasks : q.state[t] \in PendStates
          => x.state[t] \in PendStates /\ q.block_obj[t] = x.block_obj[t]
    BY <1>1, <1>4
  <1>6. \A t \in Tasks \ Getting(c) : q.state[t] \notin IdleStates /\ (Done(q, t) <=> Done(x, t))
    BY <1>1, <1>3, <1>4
  <1> QED BY <1>5, <1>6 DEF Calm, x

(* Nobody waits for a deleted mutex any longer. *)
LEMMA DeletedLemma ==
  ASSUME NEW s, SInv(s), NEW c, NEW L, L = Alive(s.k), Owners(s, c, L, {}),
         TickOrder(s.k), NEW m \in Mutexes,
         \A y \in Mutexes \ s.exists : y # m => Waiting(s.k, y) = {},
         NEW q, KInv(q), Ended(s.k, q, Waiting(s.k, m)), Gentle(s.k, q),
         \A t \in Waiting(s.k, m) : q.block_status[t] = "DEL", NEW r, r = [s EXCEPT !.k = q]
  PROVE  SysInv(r, c) /\ r.mtxtsk = s.mtxtsk /\ r.exists = s.exists
  <1>1. /\ KInv(s.k) /\ L \in SUBSET Tasks /\ s \in SysStates /\ s.exists \subseteq Mutexes
        /\ Ownership(s, L, {}) /\ CallsMatch(s, c) /\ AnswersRight(s, c, L)
        /\ CeilingsKept(s, L) /\ ObjectsMatch(s.k)
    BY DEF SInv, SysStates, Owners, Alive
  <1>3. Calm(s.k, q, Getting(c))
    BY <1>1, DelIsCalm
  <1>4. /\ r \in SysStates /\ r.k = q /\ r.bpriority = s.bpriority
        /\ r.mtxlist = s.mtxlist /\ r.mtxtsk = s.mtxtsk
        /\ r.owner_nested = s.owner_nested /\ r.exists = s.exists /\ r.levels = s.levels
    <2>1. q \in KStates
      BY DEF KInv
    <2> QED BY <1>1, <2>1, KernelFields
  <1>5. /\ SInv(r) /\ Ownership(r, L, {}) /\ (NoneAstray(s) => NoneAstray(r))
        /\ CeilingsKept(r, L)
        /\ ObjectsMatch(r.k) /\ Alive(r.k) = Alive(s.k)
        /\ TickOrder(s.k) => TickOrder(r.k)
    <2>1. L \subseteq Tasks
      BY <1>1
    <2>2. Ownership(s, L, {}) /\ CeilingsKept(s, L) /\ ObjectsMatch(s.k) /\ SInv(s)
      BY <1>1
    <2> QED BY <2>1, <2>2, GentleKeeps
  <1>6. NoneAstray(r)
    <2>1. \A y \in Mutexes : Waiting(q, y) = Waiting(s.k, y) \ Waiting(s.k, m)
      BY DEF Ended, Mutexes
    <2> QED BY <1>4, <2>1 DEF NoneAstray
  <1>7. CallsMatch(r, c) /\ AnswersRight(r, c, L)
    <2>1. Calm(s.k, r.k, {t \in Tasks : c[t] = NoObj})
      BY <1>3, <1>4 DEF Getting
    <2>2. r.exists \in SUBSET s.exists
      BY <1>4
    <2> QED BY <1>1, <1>4, <2>1, <2>2, CalmKeeps
  <1>8. MInv(r, c, L, {})
    BY <1>5, <1>6, <1>7 DEF MInv
  <1> QED BY <1>4, <1>5, <1>8 DEF SysInv

LEMMA DropLemma ==
  ASSUME NEW s, NEW c, SysInv(s, c), NEW m \in s.exists, NEW t, t = s.mtxtsk[m],
         NEW r, r = LET s1 == [s EXCEPT !.exists = @ \ {m}]
                    IN  IF t = NoTask THEN s1 ELSE release_mutex(s1, t, m)
  PROVE  \E x : SInv(x) /\ Dropped(s, x, m) /\ SInv(r) /\ Repriced(x, r) /\ r.levels = s.levels
  <1> DEFINE s1 == [s EXCEPT !.exists = @ \ {m}]
             L == Alive(s.k)
             x == IF t = NoTask THEN s1 ELSE [s1 EXCEPT !.mtxlist[t] = list_delete(@, m)]
  <1>1. /\ SInv(s) /\ MInv(s, c, L, {}) /\ m \in Mutexes /\ s.exists \subseteq Mutexes
        /\ L \in SUBSET Tasks /\ NoTask \notin Tasks
    BY SysIs, ConstantsAre
  <1>2. /\ \A u \in L : m \in Owned(s, u) <=> t = u
        /\ t \in L \cup {NoTask} /\ \A u \in Tasks : IsInjective(s.mtxlist[u])
    BY <1>1 DEF MInv, Ownership
  <1>3. r = IF t = NoTask THEN x ELSE adjust(x, t)
    BY DEF release_mutex
  <1>4. /\ SInv(s1) /\ s1.k = s.k /\ s1.bpriority = s.bpriority /\ s1.exists = s.exists \ {m}
        /\ s1.mtxtsk = s.mtxtsk /\ s1.levels = s.levels /\ s1.mtxlist = s.mtxlist
    <2>1. s1 = [s EXCEPT !.exists = @ \ {m}]
      OBVIOUS
    <2> HIDE DEF s1
    <2> QED BY <1>1, <2>1, ExistsFields
  <1> HIDE DEF s1, L
  <1>5. SInv(x) /\ Dropped(s, x, m)
    <2>1. CASE t = NoTask
      <3>1. x = s1
        BY <2>1
      <3>2. \A u \in L : Owned(s1, u) = Owned(s, u) \ {m}
        BY <1>1, <1>2, <1>4, <2>1 DEF Owned
      <3> HIDE DEF x
      <3> QED BY <1>2, <1>4, <3>1, <3>2 DEF Dropped, L
    <2>2. CASE t # NoTask
      <3>1. x = [s1 EXCEPT !.mtxlist[t] = list_delete(@, m)] /\ t \in Tasks
        BY <1>1, <1>2, <2>2
      <3> HIDE DEF x
      <3>2. \A u \in Tasks : IsInjective(s1.mtxlist[u])
        BY <1>2, <1>4
      <3>3. SInv(x) /\ Released(s1, x, m, t)
        BY <1>4, <3>1, <3>2, ReleaseFields
      <3>4. \A u \in Tasks : Owned(s1, u) = Owned(s, u)
        BY <1>4 DEF Owned
      <3>5. \A u \in L : Owned(x, u) = Owned(s, u) \ {m}
        BY <1>1, <1>2, <3>3, <3>4 DEF Released
      <3> QED BY <1>4, <3>3, <3>5 DEF Released, Dropped, L
    <2> QED BY <2>1, <2>2
  <1> HIDE DEF x
  <1>6. SInv(r) /\ Repriced(x, r) /\ r.levels = x.levels
    <2>1. CASE t = NoTask
      BY <1>3, <1>5, <2>1, RepricedSame
    <2>2. CASE t # NoTask
      <3>1. t \in Tasks /\ r = adjust(x, t)
        BY <1>1, <1>2, <1>3, <2>2
      <3> QED BY <1>5, <3>1, AdjustLemma
    <2> QED BY <2>1, <2>2
  <1> QED BY <1>5, <1>6 DEF Dropped

LEMMA DeleteStep ==
  ASSUME SysInv(sys, call), NEW m \in Mutexes, raw_mutex_delete(m)
  PROVE  SysInv(sys', call') /\ sys'.mtxtsk = sys.mtxtsk /\ sys'.exists = sys.exists \ {m}
  <1> DEFINE t  == sys.mtxtsk[m]
             L  == Alive(sys.k)
             s2 == LET s1 == [sys EXCEPT !.exists = @ \ {m}]
                   IN  IF t = NoTask THEN s1 ELSE release_mutex(s1, t, m)
             q  == delete_pend_objs(s2.k, m)
             r  == sys'
  <1>1. m \in sys.exists /\ call' = call /\ r = [s2 EXCEPT !.k = q]
    BY DEF raw_mutex_delete
  <1>2. SInv(sys) /\ MInv(sys, call, L, {}) /\ TickOrder(sys.k)
    BY DEF SysInv
  <1>3. \E x : SInv(x) /\ Dropped(sys, x, m) /\ SInv(s2) /\ Repriced(x, s2)
               /\ s2.levels = sys.levels
    <2> HIDE DEF t, s2
    <2>1. /\ t = sys.mtxtsk[m]
          /\ s2 = LET s1 == [sys EXCEPT !.exists = @ \ {m}]
                  IN  IF t = NoTask THEN s1 ELSE release_mutex(s1, t, m)
      BY DEF t, s2
    <2> QED BY <1>1, <2>1, DropLemma
  <1>4. PICK x : SInv(x) /\ Dropped(sys, x, m) /\ SInv(s2) /\ Repriced(x, s2)
    BY <1>3
  <1> HIDE DEF t, s2, q, r
  <1>5. Owners(x, call, L, {})
    BY <1>2, <1>4, DroppedOwners DEF L
  <1> HIDE DEF L
  <1>6. /\ Owners(s2, call, L, {}) /\ (NoneAstray(x) => NoneAstray(s2))
        /\ Alive(s2.k) = Alive(x.k) /\ (TickOrder(x.k) => TickOrder(s2.k))
    BY <1>4, <1>5, RepricedOwners
  <1>7. /\ x.k = sys.k /\ s2.mtxtsk = sys.mtxtsk /\ s2.exists = sys.exists \ {m}
        /\ \A y \in Mutexes : Waiting(s2.k, y) = Waiting(sys.k, y)
    BY <1>4 DEF Dropped, Repriced, Reordered, Mutexes
  <1>8. L = Alive(s2.k) /\ TickOrder(s2.k)
    BY <1>2, <1>6, <1>7 DEF L
  <1>9. \A y \in Mutexes \ s2.exists : y # m => Waiting(s2.k, y) = {}
    BY <1>2, <1>7 DEF MInv, NoneAstray
  <1>10. SysInv(r, call) /\ r.mtxtsk = s2.mtxtsk /\ r.exists = s2.exists
    <2>1. q = delete_pend_objs(s2.k, m) /\ KInv(s2.k)
      BY <1>4 DEF q, SInv
    <2>2. /\ KInv(q) /\ Ended(s2.k, q, Waiting(s2.k, m))
          /\ \A u \in Waiting(s2.k, m) : q.block_status[u] = "DEL"
          /\ Gentle(s2.k, q)
      BY <2>1, DeleteObjsLemma DEF Mutexes
    <2>3. r = [s2 EXCEPT !.k = q]
      BY <1>1
    <2> QED BY <1>4, <1>6, <1>8, <1>9, <2>2, <2>3, DeletedLemma
  <1> QED BY <1>1, <1>7, <1>10 DEF r

(* m exists again, free. *)
LEMMA CreateMutexStep ==
  ASSUME SysInv(sys, call), NEW m \in Mutexes, raw_mutex_create(m)
  PROVE  SysInv(sys', call') /\ OwnersPass(sys, sys')
  <1> DEFINE s == sys
             L == Alive(s.k)
             bl == [s.k.block_list EXCEPT ![m] = <<>>]
             mt == [s.mtxtsk EXCEPT ![m] = NoTask]
             E == s.exists \cup {m}
             r == sys'
  <1>1. /\ SInv(s) /\ MInv(s, call, L, {}) /\ TickOrder(s.k) /\ s \in SysStates
        /\ s.k \in KStates /\ s.exists \subseteq Mutexes /\ L \in SUBSET Tasks
        /\ KInv(s.k) /\ NoTask \notin Tasks
    BY SysIs, ConstantsAre
  <1>2. /\ m \notin s.exists /\ \A t \in Tasks : call[t] # m
        /\ call' = call
    BY DEF raw_mutex_create
  <1>3. Waiting(s.k, m) = {} /\ s.k.block_list[m] = <<>>
    <2>1. Waiting(s.k, m) = {}
      BY <1>1, <1>2 DEF MInv, NoneAstray
    <2>2. s.k.block_list[m] \in Seq(Tasks)
      BY <1>1 DEF KStates, Mutexes
    <2> QED BY <2>1, <2>2, EmptyLemma DEF Waiting
  <1>4. r = [s EXCEPT !.exists = E, !.mtxtsk = mt]
    <2>1. r = [s EXCEPT !.exists = E, !.mtxtsk = mt, !.k = [s.k EXCEPT !.block_list = bl]]
      BY <1>1 DEF raw_mutex_create, SysStates, KStates
    <2>2. bl = s.k.block_list
      BY <1>1, <1>3 DEF KStates, Mutexes
    <2>3. [s.k EXCEPT !.block_list = bl] = s.k
      <3> HIDE DEF bl
      <3> QED BY <1>1, <2>2 DEF KStates
    <2> HIDE DEF bl
    <2> QED BY <1>1, <2>1, <2>3 DEF SysStates
  <1>5. /\ E \in SUBSET Mutexes /\ mt \in [Mutexes -> Tasks \cup {NoTask}]
        /\ mt[m] = NoTask /\ \A x \in Mutexes \ {m} : mt[x] = s.mtxtsk[x]
    BY <1>1 DEF SysStates
  <1> HIDE DEF s, L, mt, r
  <1>6. /\ r.k = s.k /\ r.bpriority = s.bpriority /\ r.exists = E
        /\ r.mtxtsk = mt /\ r.levels = s.levels /\ r.mtxlist = s.mtxlist
    BY <1>1, <1>4 DEF SysStates
  <1>7. r \in SysStates
    <2> HIDE DEF E
    <2> QED BY <1>1, <1>4, <1>5 DEF SysStates
  <1>8. \A x \in s.exists : x # m /\ x \in Mutexes
    BY <1>1, <1>2
  <1>9. SInv(r)
    <2>1. \A x \in r.exists : Waiting(r.k, x) # {} => r.mtxtsk[x] \in Tasks
      BY <1>1, <1>3, <1>5, <1>6, <1>8 DEF SInv
    <2> QED BY <1>1, <1>6, <1>7, <2>1 DEF SInv
  <1>10. \A u \in L : m \notin Owned(s, u) /\ s.k.block_obj[u] # m
    <2>1. \A u \in L : m \notin Owned(s, u)
      BY <1>1, <1>2 DEF MInv, Ownership
    <2>2. \A u \in L : s.k.block_obj[u] = m => s.k.state[u] \in PendStates
      BY <1>1, ConstantsAre DEF MInv, ObjectsMatch, L
    <2>3. \A u \in Tasks : s.k.block_obj[u] = m => s.k.state[u] \notin PendStates
      BY <1>1, <1>3, WaitingIs DEF Mutexes
    <2> QED BY <1>1, <2>1, <2>2, <2>3
  <1>11. Ownership(r, L, {})
    <2>1. ASSUME NEW u \in L, NEW x \in Mutexes
          PROVE  x \in Owned(r, u) <=> x \in r.exists \ {} /\ r.mtxtsk[x] = u
      <3>1. Owned(r, u) = Owned(s, u) /\ u \in Tasks
        BY <1>1, <1>6 DEF Owned
      <3>2. x \in Owned(s, u) <=> x \in s.exists \ {} /\ s.mtxtsk[x] = u
        BY <1>1 DEF MInv, Ownership
      <3>3. CASE x = m
        BY <1>1, <1>5, <1>6, <1>10, <3>1, <3>3
      <3>4. CASE x # m
        BY <1>5, <1>6, <3>1, <3>2, <3>4
      <3> QED BY <3>3, <3>4
    <2>2. \A x \in r.exists \ {} : r.mtxtsk[x] \in L \cup {NoTask}
      BY <1>1, <1>5, <1>6, <1>8 DEF MInv, Ownership
    <2>3. \A x \in r.exists : Waiting(r.k, x) # {} =>
            r.mtxtsk[x] \notin {NoTask} \cup Waiting(r.k, x)
      BY <1>1, <1>3, <1>5, <1>6, <1>8 DEF MInv, Ownership
    <2>4. \A u \in Tasks : IsInjective(r.mtxlist[u])
      BY <1>1, <1>6 DEF MInv, Ownership
    <2> QED BY <2>1, <2>2, <2>3, <2>4 DEF Ownership
  <1>12. AnswersRight(r, call, L)
    <2> SUFFICES ASSUME NEW u \in L, call[u] \in r.exists
                 PROVE  Done(r.k, u) <=> r.mtxtsk[call[u]] = u
      BY DEF AnswersRight
    <2>1. call[u] \in s.exists
      BY <1>1, <1>2, <1>6
    <2> QED BY <1>1, <1>5, <1>6, <1>8, <2>1 DEF MInv, AnswersRight
  <1>13. CeilingsKept(r, L)
    <2> SUFFICES ASSUME NEW u \in L, NEW y \in r.exists, Policy[y] = "CEILING",
                        y \in Owned(r, u) \/ r.k.block_obj[u] = y
                 PROVE  r.bpriority[u] >= Ceiling[y]
      BY DEF CeilingsKept
    <2>1. (y \in Owned(s, u) \/ s.k.block_obj[u] = y) /\ y \in s.exists
      BY <1>6, <1>10 DEF Owned
    <2> QED BY <1>1, <1>6, <2>1 DEF MInv, CeilingsKept
  <1>14. NoneAstray(r) /\ CallsMatch(r, call) /\ ObjectsMatch(r.k)
    BY <1>1, <1>6 DEF MInv, NoneAstray, CallsMatch
  <1>15. MInv(r, call, L, {})
    BY <1>11, <1>12, <1>13, <1>14 DEF MInv
  <1>16. SysInv(r, call)
    BY <1>1, <1>6, <1>9, <1>15 DEF SysInv, L
  <1>17. OwnersPass(s, r)
    BY <1>2, <1>5, <1>6, <1>8 DEF OwnersPass
  <1> QED BY <1>2, <1>16, <1>17 DEF r, s

-----------------------------------------------------------------------------
(***************************************************************************)
(* Priorities change, tasks are deleted and created.                       *)
(***************************************************************************)

LEMMA MaxLemma ==
  ASSUME NEW N \in Nat, NEW T, T \subseteq 0 .. N, T # {}
  PROVE  Max(T) \in T /\ \A q \in T : Max(T) >= q
  <1> DEFINE D == {N - x : x \in T}
  <1>1. D \subseteq Nat /\ D # {}
    OBVIOUS
  <1>2. PICK d \in D : \A e \in D : d <= e
    BY <1>1, LeastElement
  <1>3. PICK h \in T : d = N - h
    BY <1>2
  <1>4. \A q \in T : h >= q
    <2> TAKE q \in T
    <2>1. N - q \in D
      OBVIOUS
    <2>2. N - h <= N - q
      BY <1>2, <1>3, <2>1
    <2> QED BY <2>2
  <1>5. \E x \in T : \A y \in T : x >= y
    BY <1>4
  <1> QED BY <1>5 DEF Max

LEMMA LimitLemma ==
  ASSUME NEW s, NEW t \in Tasks, s.exists \subseteq Mutexes, NEW m \in s.exists,
         Policy[m] = "CEILING", m \in Owned(s, t) \/ s.k.block_obj[t] = m
  PROVE  CeilingLimit(s, t) \in Nat /\ CeilingLimit(s, t) >= Ceiling[m]
  <1> DEFINE A == {n \in Owned(s, t) \cup ({s.k.block_obj[t]} \ {NoObj}) :
                     n \in s.exists /\ Policy[n] = "CEILING"}
             T == {0} \cup {Ceiling[n] : n \in A}
  <1>1. PRIO_MAX - 1 \in Nat /\ Prios = 0 .. PRIO_MAX - 1 /\ 0 \in Prios
    BY MutexAssumption DEF Prios
  <1>2. m \in A
    BY ConstantsAre
  <1>3. A \subseteq Mutexes
    OBVIOUS
  <1> HIDE DEF A
  <1>4. \A n \in A : Ceiling[n] \in Prios
    BY <1>3, ConstantsAre
  <1>5. T \subseteq 0 .. PRIO_MAX - 1 /\ T # {} /\ Ceiling[m] \in T
    BY <1>1, <1>2, <1>4
  <1>6. CeilingLimit(s, t) = Max(T)
    BY DEF CeilingLimit, A
  <1> HIDE DEF T
  <1>7. Max(T) \in T /\ \A q \in T : Max(T) >= q
    BY <1>1, <1>5, MaxLemma
  <1>8. Max(T) \in Nat
    <2>1. Max(T) \in 0 .. PRIO_MAX - 1
      BY <1>5, <1>7
    <2> QED BY <1>1, <2>1
  <1>9. Max(T) >= Ceiling[m]
    BY <1>5, <1>7
  <1> QED BY <1>6, <1>8, <1>9

(* The base priority of t changes, within the ceilings. *)
LEMMA BasePriority ==
  ASSUME NEW s, NEW c, SysInv(s, c), NEW t \in Alive(s.k), NEW p \in Prios,
         p >= CeilingLimit(s, t), NEW r, r = [s EXCEPT !.bpriority[t] = p]
  PROVE  SysInv(r, c) /\ r.k = s.k /\ r.mtxtsk = s.mtxtsk /\ r.exists = s.exists
         /\ r.levels = s.levels
  <1> DEFINE L == Alive(s.k)
             bp == [s.bpriority EXCEPT ![t] = p]
  <1>1. /\ SInv(s) /\ MInv(s, c, L, {}) /\ TickOrder(s.k) /\ s \in SysStates
        /\ s.exists \subseteq Mutexes /\ L \in SUBSET Tasks /\ t \in Tasks /\ Prios \subseteq Nat
    BY SysIs, ConstantsAre
  <1>2. s.bpriority \in [Tasks -> Prios]
    BY <1>1 DEF SInv
  <1> HIDE DEF L
  <1>3. /\ bp \in [Tasks -> Prios] /\ bp \in [Tasks -> Int]
        /\ bp[t] = p /\ \A u \in Tasks \ {t} : bp[u] = s.bpriority[u]
    BY <1>1, <1>2
  <1>4. r = [s EXCEPT !.bpriority = bp]
    BY <1>1 DEF SysStates
  <1> HIDE DEF bp
  <1>5. /\ r.k = s.k /\ r.bpriority = bp /\ r.exists = s.exists
        /\ r.mtxtsk = s.mtxtsk /\ r.levels = s.levels /\ r.mtxlist = s.mtxlist
    BY <1>1, <1>4 DEF SysStates
  <1>6. r \in SysStates
    BY <1>1, <1>3, <1>4 DEF SysStates
  <1>7. SInv(r)
    BY <1>1, <1>3, <1>5, <1>6 DEF SInv
  <1>8. CeilingsKept(r, L)
    <2> SUFFICES ASSUME NEW u \in L, NEW y \in r.exists, Policy[y] = "CEILING",
                        y \in Owned(r, u) \/ r.k.block_obj[u] = y
                 PROVE  r.bpriority[u] >= Ceiling[y]
      BY DEF CeilingsKept
    <2>1. (y \in Owned(s, u) \/ s.k.block_obj[u] = y) /\ y \in s.exists
      BY <1>5 DEF Owned
    <2>2. CASE u = t
      <3>1. CeilingLimit(s, t) \in Nat /\ CeilingLimit(s, t) >= Ceiling[y]
        BY <1>1, <2>1, <2>2, LimitLemma
      <3>2. Ceiling[y] \in Nat /\ p \in Nat
        BY <1>1, <2>1, ConstantsAre
      <3>3. p >= Ceiling[y]
        BY <3>1, <3>2
      <3> QED BY <1>3, <1>5, <2>2, <3>3
    <2>3. CASE u # t
      <3>1. s.bpriority[u] >= Ceiling[y]
        BY <1>1, <2>1 DEF MInv, CeilingsKept
      <3> QED BY <1>1, <1>3, <1>5, <2>3, <3>1
    <2> QED BY <2>2, <2>3
  <1>9. Ownership(r, L, {}) /\ NoneAstray(r) /\ CallsMatch(r, c) /\ AnswersRight(r, c, L)
    BY <1>1, <1>5 DEF MInv, Ownership, NoneAstray, CallsMatch, AnswersRight, Owned
  <1>10. MInv(r, c, L, {})
    BY <1>1, <1>5, <1>8, <1>9 DEF MInv
  <1> QED BY <1>1, <1>5, <1>7, <1>10 DEF SysInv, L

LEMMA PriorityStep ==
  ASSUME SysInv(sys, call), NEW t \in Tasks, NEW p \in NewPrios, raw_task_priority_change(t, p)
  PROVE  SysInv(sys', call') /\ SameOwners(sys, sys')
  <1> DEFINE s1 == [sys EXCEPT !.bpriority[t] = p]
             n  == chg_pri_mutex(sys, t, p)
             r  == sys'
  <1>1. /\ sys.k.state[t] # "DELETED" /\ p >= CeilingLimit(sys, t) /\ call' = call
        /\ r = change_internal_task_priority(s1, t, n)
    BY DEF raw_task_priority_change, k
  <1>2. /\ SInv(sys) /\ TickOrder(sys.k) /\ p \in Prios /\ t \in Alive(sys.k)
    BY <1>1, MutexAssumption DEF SysInv, Alive
  <1>3. n \in Prios
    BY <1>2, ChgPriMutexLemma
  <1> HIDE DEF n, r
  <1>4. /\ SysInv(s1, call) /\ s1.k = sys.k /\ s1.mtxtsk = sys.mtxtsk /\ s1.exists = sys.exists
        /\ s1.levels = sys.levels
    <2>1. s1 = [sys EXCEPT !.bpriority[t] = p]
      OBVIOUS
    <2> HIDE DEF s1
    <2> QED BY <1>1, <1>2, <2>1, BasePriority
  <1> HIDE DEF s1
  <1>5. SInv(s1) /\ MInv(s1, call, Alive(s1.k), {}) /\ TickOrder(s1.k)
    BY <1>4 DEF SysInv
  <1>6. /\ SInv(r) /\ Repriced(s1, r) /\ r.levels = s1.levels
        /\ s1.k.state[t] \notin PendStates => r.k.block_list = s1.k.block_list
    BY <1>1, <1>3, <1>5, ChainLemma
  <1>7. MInv(r, call, Alive(s1.k), {}) /\ SameOwners(s1, r)
    BY <1>5, <1>6, RepricedStep
  <1>8. SysInv(r, call)
    BY <1>5, <1>6, <1>7 DEF SysInv, SameOwners
  <1>9. SameOwners(sys, r)
    BY <1>2, <1>4, <1>7 DEF SameOwners
  <1> QED BY <1>1, <1>8, <1>9 DEF r

(* t leaves the lists of the kernel, and the service it has called. *)
Leaves(s, c, t, r, d) ==
  r = [s EXCEPT !.k = leave_lists(@, t)] /\ d = [c EXCEPT ![t] = NoObj]

HasLeft(s, r, t) ==
  /\ Alive(r.k) = Alive(s.k) \ {t} /\ r.mtxtsk = s.mtxtsk
  /\ r.exists = s.exists /\ r.k.state[t] = "DELETED"

(* A task that owns nothing any longer leaves. *)
LEMMA LeaveLemma ==
  ASSUME NEW s, SInv(s), TickOrder(s.k), NEW c, NEW t \in Alive(s.k),
         MInv(s, c, Alive(s.k) \ {t}, {}), NEW r, NEW d, Leaves(s, c, t, r, d)
  PROVE  SysInv(r, d) /\ HasLeft(s, r, t)
  <1> DEFINE x == s.k
             L == Alive(x) \ {t}
             q == leave_lists(x, t)
  <1>0. /\ r = [s EXCEPT !.k = q] /\ d = [c EXCEPT ![t] = NoObj]
        /\ KInv(q) /\ OthersKept(x, q, t) /\ q.state[t] = "DELETED" /\ Fewer(x, q)
    <2>1. r = [s EXCEPT !.k = q] /\ d = [c EXCEPT ![t] = NoObj]
      BY DEF Leaves
    <2>2. KInv(x) /\ t \in Tasks
      BY DEF SInv, Alive
    <2> HIDE DEF x, q
    <2>3. q = leave_lists(x, t)
      BY DEF q
    <2>4. KInv(q) /\ OthersKept(x, q, t) /\ q.state[t] = "DELETED" /\ Fewer(x, q)
      BY <2>2, <2>3, DeleteTaskLemma
    <2> QED BY <2>1, <2>4
  <1>1. /\ Ownership(s, L, {}) /\ NoneAstray(s) /\ CallsMatch(s, c) /\ AnswersRight(s, c, L)
        /\ CeilingsKept(s, L) /\ ObjectsMatch(x) /\ t \in Tasks /\ L \subseteq Tasks
        /\ s \in SysStates /\ q \in KStates /\ s.exists \subseteq Mutexes
    BY <1>0 DEF MInv, SInv, SysStates, KInv, Alive
  <1> HIDE DEF q
  <1>2. \A u \in Tasks \ {t} : /\ q.state[u] = x.state[u] /\ q.block_obj[u] = x.block_obj[u]
                               /\ (Done(q, u) <=> Done(x, u))
    BY <1>0 DEF OthersKept, Done
  <1>3. /\ r \in SysStates /\ r.k = q /\ r.bpriority = s.bpriority
        /\ r.mtxlist = s.mtxlist /\ r.mtxtsk = s.mtxtsk
        /\ r.owner_nested = s.owner_nested /\ r.exists = s.exists /\ r.levels = s.levels
    BY <1>0, <1>1, KernelFields
  <1>4. WaitOrder(q) /\ TickOrder(q) /\ q.priority = x.priority
    BY <1>0, FewerOrder DEF SInv, Fewer
  <1>5. \A m \in Mutexes : Waiting(q, m) \subseteq Waiting(x, m)
    BY <1>0 DEF Fewer, Sublist, Waiting, Mutexes
  <1>6. \A u \in L : q.block_obj[u] \in {x.block_obj[u], NoObj}
    BY <1>1, <1>2 DEF L
  <1>7. Alive(q) = L
    BY <1>0, <1>2 DEF Alive
  <1> HIDE DEF x, L
  <1>8. /\ SInv(r) /\ Ownership(r, L, {}) /\ (NoneAstray(s) => NoneAstray(r))
        /\ CeilingsKept(r, L)
    BY <1>0, <1>1, <1>4, <1>5, <1>6, LessWaiting DEF x
  <1>9. ObjectsMatch(q)
    BY <1>0, <1>1, <1>2, <1>7 DEF ObjectsMatch, Alive
  <1>10. d[t] = NoObj /\ \A u \in Tasks \ {t} : d[u] = c[u]
    BY <1>0, <1>1 DEF CallsMatch
  <1>11. CallsMatch(r, d)
    <2>1. d \in [Tasks -> Mutexes \cup {NoObj}]
      BY <1>0, <1>1 DEF CallsMatch
    <2>2. q.state[t] \notin PendStates
      BY <1>0 DEF PendStates
    <2> QED BY <1>1, <1>2, <1>3, <1>10, <2>1, <2>2 DEF CallsMatch, x
  <1>12. AnswersRight(r, d, L)
    <2>1. \A u \in L : u \in Tasks \ {t}
      BY <1>1 DEF L
    <2> QED BY <1>1, <1>2, <1>3, <1>10, <2>1 DEF AnswersRight, x
  <1>13. MInv(r, d, L, {})
    BY <1>1, <1>3, <1>8, <1>9, <1>11, <1>12 DEF MInv
  <1> QED BY <1>0, <1>3, <1>4, <1>7, <1>8, <1>13 DEF SysInv, HasLeft, L, x

LEMMA TaskDeleteStep ==
  ASSUME SysInv(sys, call), NEW t \in Tasks, raw_task_delete(t)
  PROVE  SysInv(sys', call') /\ OwnersPass(sys, sys')
  <1> DEFINE s  == sys
             L  == Alive(s.k) \ {t}
             s0 == raw_task_free_mutex(s, t)
             s1 == [s0 EXCEPT !.k = leave_lists(@, t)]
             o  == s.k.block_obj[t]
             r  == sys'
             d  == call'
  <1>1. /\ s.k.state[t] # "DELETED" /\ d = [call EXCEPT ![t] = NoObj]
        /\ r = IF s.k.state[t] \in PendStates THEN mutex_state_change(s1, t, o) ELSE s1
    BY DEF raw_task_delete, k
  <1>2. /\ SInv(s) /\ MInv(s, call, Alive(s.k), {}) /\ TickOrder(s.k) /\ t \in Alive(s.k)
        /\ s.exists \subseteq Mutexes /\ NoObj \notin Mutexes
    BY <1>1, SysIs, ConstantsAre DEF Alive
  <1>3. \A m \in Mutexes : m \in Owned(s, t) <=> m \in s.exists /\ s.mtxtsk[m] = t
    BY <1>2 DEF MInv, Ownership
  <1> HIDE DEF s, s0, r, d
  <1>4. FreedSome(s, call, t, Owned(s, t), s0)
    BY <1>2, FreeMutexLemma DEF s0
  <1>5. /\ SInv(s0) /\ TickOrder(s0.k) /\ Alive(s0.k) = Alive(s.k)
        /\ s0.exists = s.exists
        /\ \A x \in Owned(s, t) : s0.mtxtsk[x] =
             IF s.k.block_list[x] = <<>> THEN NoTask ELSE Head(s.k.block_list[x])
        /\ \A x \in Mutexes \ Owned(s, t) : s0.mtxtsk[x] = s.mtxtsk[x]
    BY <1>2, <1>4 DEF FreedSome
  <1>6. MInv(s0, call, L, {})
    <2>1. MInv(s0, call, L, Owned(s, t) \ Owned(s, t))
      BY <1>4 DEF FreedSome
    <2>2. Owned(s, t) \ Owned(s, t) = {}
      OBVIOUS
    <2> HIDE DEF L
    <2> QED BY <2>1, <2>2
  <1>8. /\ SysInv(s1, d) /\ Alive(s1.k) = L /\ s1.mtxtsk = s0.mtxtsk
        /\ s1.exists = s0.exists /\ s1.k.state[t] = "DELETED"
    <2>1. L = Alive(s0.k) \ {t} /\ t \in Alive(s0.k)
      BY <1>2, <1>5
    <2>2. Leaves(s0, call, t, s1, d)
      BY <1>1 DEF Leaves
    <2> HIDE DEF L, s1
    <2>3. MInv(s0, call, Alive(s0.k) \ {t}, {})
      BY <1>6, <2>1
    <2>4. SysInv(s1, d) /\ HasLeft(s0, s1, t)
      <3>1. SInv(s0) /\ TickOrder(s0.k) /\ t \in Alive(s0.k)
        BY <1>5, <2>1
      <3> QED BY <2>2, <2>3, <3>1, LeaveLemma
    <2> QED BY <2>1, <2>4 DEF HasLeft
  <1> HIDE DEF s1
  <1>9. SysInv(r, d) /\ SameOwners(s1, r) /\ r.k.state[t] = "DELETED"
    <2>1. CASE s.k.state[t] \notin PendStates
      <3>1. r = s1
        BY <1>1, <2>1
      <3> QED BY <1>8, <3>1 DEF SameOwners
    <2>2. CASE s.k.state[t] \in PendStates
      <3>1. r = mutex_state_change(s1, t, o)
        BY <1>1, <2>2
      <3>2. o \in Mutexes
        BY <1>2, <2>2 DEF SInv, KInv, Mutexes
      <3>3. o \in s.exists /\ s.mtxtsk[o] \in Tasks \ {t}
        <4>1. o # NoObj
          BY <1>2, <3>2
        <4> QED BY <1>2, <4>1, OwnerExists
      <3> HIDE DEF o
      <3>4. s1.mtxtsk[o] \in Tasks
        <4>1. o \notin Owned(s, t)
          BY <1>3, <3>2, <3>3
        <4> QED BY <1>5, <1>8, <3>2, <3>3, <4>1
      <3>5. SInv(s1) /\ MInv(s1, d, Alive(s1.k), {}) /\ TickOrder(s1.k)
        BY <1>8 DEF SysInv
      <3>6. /\ SInv(r) /\ MInv(r, d, Alive(s1.k), {}) /\ SameOwners(s1, r)
            /\ Reordered(s1.k, r.k)
        BY <3>1, <3>2, <3>4, <3>5, TellOwner
      <3> QED BY <1>8, <3>5, <3>6 DEF SysInv, SameOwners, Reordered
    <2> QED BY <2>1, <2>2
  <1>10. OwnersPass(s, r)
    <2> SUFFICES ASSUME NEW m \in s.exists,
                        r.mtxtsk[m] # s.mtxtsk[m], s.mtxtsk[m] # NoTask
                 PROVE  /\ r.k.state[s.mtxtsk[m]] = "DELETED"
                        /\ r.mtxtsk[m] = IF s.k.block_list[m] = <<>> THEN NoTask
                                         ELSE Head(s.k.block_list[m])
      BY DEF OwnersPass
    <2>1. r.mtxtsk[m] = s0.mtxtsk[m] /\ m \in Mutexes
      BY <1>2, <1>8, <1>9 DEF SameOwners
    <2>2. m \in Owned(s, t)
      BY <1>5, <2>1
    <2>3. s.mtxtsk[m] = t
      BY <1>3, <2>1, <2>2
    <2> QED BY <1>5, <1>9, <2>1, <2>2, <2>3
  <1> QED BY <1>9, <1>10 DEF r, s, d

(* t starts again with nothing. *)
Starts(s, t, q, p, r) ==
  r = [s EXCEPT !.k = q, !.bpriority[t] = p, !.mtxlist[t] = <<>>]

LEMMA StartFields ==
  ASSUME NEW s, SInv(s), NEW t \in Tasks, NEW q \in KStates, NEW p \in Int,
         NEW r, Starts(s, t, q, p, r)
  PROVE  /\ r \in SysStates /\ r.k = q /\ r.exists = s.exists
         /\ r.mtxtsk = s.mtxtsk /\ r.levels = s.levels
         /\ r.bpriority = [s.bpriority EXCEPT ![t] = p]
         /\ r.mtxlist[t] = <<>> /\ \A u \in Tasks \ {t} : r.mtxlist[u] = s.mtxlist[u]
  <1> DEFINE bp == [s.bpriority EXCEPT ![t] = p]
             ml == [s.mtxlist EXCEPT ![t] = <<>>]
  <1>1. s \in SysStates
    BY DEF SInv
  <1>2. r = [s EXCEPT !.k = q, !.bpriority = bp, !.mtxlist = ml]
    BY <1>1 DEF SysStates, Starts
  <1>3. bp \in [Tasks -> Int]
    BY <1>1 DEF SysStates
  <1>4. ml \in [Tasks -> Seq(Mutexes)]
    BY <1>1 DEF SysStates
  <1>5. ml[t] = <<>> /\ \A u \in Tasks \ {t} : ml[u] = s.mtxlist[u]
    BY <1>1 DEF SysStates
  <1> HIDE DEF bp, ml
  <1>6. /\ r.k = q /\ r.exists = s.exists /\ r.mtxtsk = s.mtxtsk /\ r.levels = s.levels
        /\ r.bpriority = bp /\ r.mtxlist = ml
    BY <1>1, <1>2 DEF SysStates
  <1>7. r \in SysStates
    BY <1>1, <1>2, <1>3, <1>4 DEF SysStates
  <1> QED BY <1>5, <1>6, <1>7 DEF bp

LEMMA CreateStep ==
  ASSUME SysInv(sys, call), NEW t \in Tasks, NEW auto_start \in BOOLEAN, Create(t, auto_start)
  PROVE  SysInv(sys', call') /\ OwnersPass(sys, sys')
  <1> DEFINE s == sys
             x == s.k
             c == call
             p == InitPrio[t]
             L == Alive(x)
             I == Getting(c)
             q == raw_task_create(x, t, p, auto_start)
             r == sys'
  <1>1. /\ SInv(s) /\ MInv(s, c, L, {}) /\ TickOrder(x) /\ s \in SysStates /\ KInv(x)
        /\ s.exists \subseteq Mutexes /\ L \in SUBSET Tasks /\ x \in KStates
        /\ c \in [Tasks -> Mutexes \cup {NoObj}]
    BY SysIs
  <1>2. /\ x.state[t] = "DELETED" /\ call' = c
        /\ r = [s EXCEPT !.k = q, !.bpriority[t] = p, !.mtxlist[t] = <<>>]
    BY DEF Create, k
  <1>3. /\ p \in Prios /\ p \in Int /\ Prios \subseteq Int
        /\ NoTask \notin Tasks /\ NoObj \notin Mutexes
    <2>1. p \in Prios /\ Prios \subseteq Nat
      BY ConstantsAre
    <2>2. p \in Int /\ Prios \subseteq Int
      BY <2>1, PriosAre
    <2>3. NoTask \notin Tasks /\ NoObj \notin Mutexes
      BY ConstantsAre
    <2> QED BY <2>1, <2>2, <2>3
  <1>4. \A u \in Tasks \ I : x.state[u] \notin IdleStates
    BY SomeIdle
  <1> HIDE DEF s, x, c, p, L, I, q, r
  <1>5. /\ KInv(q) /\ Calm(x, q, I)
        /\ q.priority = [x.priority EXCEPT ![t] = p]
        /\ q.tick_match = [x.tick_match EXCEPT ![t] = 0]
        /\ q.raw_tick_count = x.raw_tick_count
        /\ q.tick_head = x.tick_head /\ q.block_list = x.block_list
        /\ OthersKept(x, q, t) /\ q.block_obj[t] = NoObj
        /\ q.state[t] \in {"RDY", "SUSPENDED"}
    <2>1. KInv(x) /\ x.state[t] = "DELETED" /\ p \in Int
      BY <1>1, <1>2, <1>3
    <2>2. q = raw_task_create(x, t, p, auto_start)
      BY DEF q
    <2> QED BY <1>4, <2>1, <2>2, CreateCalm
  <1>6. /\ r \in SysStates /\ r.k = q /\ r.exists = s.exists
        /\ r.mtxtsk = s.mtxtsk /\ r.levels = s.levels
        /\ r.bpriority = [s.bpriority EXCEPT ![t] = p]
        /\ r.mtxlist[t] = <<>> /\ \A u \in Tasks \ {t} : r.mtxlist[u] = s.mtxlist[u]
    <2>1. q \in KStates
      BY <1>5 DEF KInv
    <2>2. SInv(s) /\ p \in Int /\ Starts(s, t, q, p, r)
      BY <1>1, <1>2, <1>3 DEF Starts
    <2> QED BY <2>1, <2>2, StartFields, SMTT(60)
  <1>7. \A m \in Mutexes : Waiting(q, m) = Waiting(x, m) /\ t \notin Waiting(x, m)
    <2>1. x.state[t] \notin PendStates
      BY <1>2 DEF PendStates
    <2> QED BY <1>1, <1>5, <2>1, WaitingIs DEF Waiting, Mutexes
  <1>8. WaitOrder(q)
    <2> SUFFICES ASSUME NEW m \in Objects \ FifoObjects,
                        NEW a \in ToSet(q.block_list[m]), NEW b \in ToSet(q.block_list[m]),
                        Precedes(q.block_list[m], a, b)
                 PROVE  q.priority[a] <= q.priority[b]
      BY DEF WaitOrder, OrderedBy
    <2>1. q.block_list[m] = x.block_list[m] /\ a # t /\ b # t
      BY <1>5, <1>7 DEF Waiting, Mutexes
    <2>2. x.priority[a] <= x.priority[b]
      BY <1>1, <2>1 DEF SInv, WaitOrder, OrderedBy, x
    <2>3. q.priority[a] = x.priority[a] /\ q.priority[b] = x.priority[b]
      <3>1. a \in Tasks /\ b \in Tasks
        BY <1>1, <2>1, EmptyLemma DEF KStates
      <3> QED BY <1>1, <1>5, <2>1, <3>1 DEF KStates
    <2> QED BY <2>2, <2>3
  <1>9. TickOrder(q)
    <2>1. t \notin ToSet(x.tick_head)
      BY <1>1, <1>2 DEF KInv, StateMatchesListsIn, TickStates
    <2>2. \A u \in ToSet(x.tick_head) : /\ u \in Tasks /\ q.tick_match[u] = x.tick_match[u]
                                        /\ Remaining(q, u) = Remaining(x, u)
      <3>1. \A u \in ToSet(x.tick_head) : u \in Tasks
        BY <1>1, EmptyLemma DEF KStates
      <3> QED BY <1>1, <1>5, <2>1, <3>1 DEF KStates, Remaining
    <2>3. OrderedBy(q.tick_head, TimeLeft(q))
      BY <1>1, <1>5, <2>2 DEF TickOrder, OrderedBy, TimeLeft
    <2> QED BY <1>1, <1>5, <2>2, <2>3 DEF TickOrder
  <1>10. SInv(r)
    <2>1. q.priority \in [Tasks -> Prios] /\ r.bpriority \in [Tasks -> Prios]
      BY <1>1, <1>3, <1>5, <1>6 DEF SInv, x
    <2>2. \A m \in r.exists : Waiting(r.k, m) # {} => r.mtxtsk[m] \in Tasks
      BY <1>1, <1>6, <1>7 DEF SInv, x
    <2> QED BY <1>5, <1>6, <1>8, <2>1, <2>2 DEF SInv
  <1> DEFINE K == L \cup {t}
  <1>11. /\ Alive(q) = K /\ t \notin L
         /\ \A u \in L : u \in Tasks \ {t}
    BY <1>1, <1>2, <1>5 DEF Alive, OthersKept, L
  <1>12. /\ Owned(r, t) = {} /\ \A u \in L : Owned(r, u) = Owned(s, u)
    <2>1. <<>> \in Seq(Mutexes)
      OBVIOUS
    <2>2. ToSet(<<>>) = {}
      BY <2>1, EmptyLemma
    <2> QED BY <1>6, <1>11, <2>2 DEF Owned
  <1>13. Ownership(r, K, {})
    <2>1. \A u \in Tasks : IsInjective(r.mtxlist[u])
      BY <1>1, <1>6 DEF MInv, Ownership, IsInjective
    <2>2. \A m \in s.exists : s.mtxtsk[m] \in L \cup {NoTask}
      BY <1>1 DEF MInv, Ownership
    <2>3. ASSUME NEW u \in K, NEW m \in Mutexes
          PROVE  m \in Owned(r, u) <=> m \in r.exists \ {} /\ r.mtxtsk[m] = u
      <3>1. CASE u = t
        BY <1>3, <1>6, <1>11, <1>12, <2>2, <3>1
      <3>2. CASE u # t
        BY <1>1, <1>6, <1>12, <3>2 DEF MInv, Ownership
      <3> QED BY <3>1, <3>2
    <2>4. \A m \in r.exists : Waiting(r.k, m) # {} =>
            r.mtxtsk[m] \notin {NoTask} \cup Waiting(r.k, m)
      BY <1>1, <1>6, <1>7 DEF MInv, Ownership, x
    <2> QED BY <1>6, <2>1, <2>2, <2>3, <2>4 DEF Ownership
  <1>14. c[t] = NoObj
    BY <1>1, <1>2 DEF MInv, CallsMatch, IdleStates, x
  <1>15. CallsMatch(r, c) /\ AnswersRight(r, c, L)
    <2>1. Calm(s.k, r.k, {u \in Tasks : c[u] = NoObj})
      BY <1>5, <1>6 DEF Getting, I, x
    <2>2. CallsMatch(s, c) /\ AnswersRight(s, c, L) /\ r.exists \in SUBSET s.exists
      BY <1>1, <1>6 DEF MInv
    <2> QED BY <1>1, <1>6, <2>1, <2>2, CalmKeeps
  <1>16. AnswersRight(r, c, K)
    BY <1>1, <1>3, <1>6, <1>14, <1>15 DEF AnswersRight
  <1>17. CeilingsKept(r, K)
    <2> SUFFICES ASSUME NEW u \in K, NEW y \in r.exists, Policy[y] = "CEILING",
                        y \in Owned(r, u) \/ r.k.block_obj[u] = y
                 PROVE  r.bpriority[u] >= Ceiling[y]
      BY DEF CeilingsKept
    <2>1. u # t
      BY <1>1, <1>3, <1>5, <1>6, <1>12
    <2>2. /\ u \in L /\ y \in s.exists /\ r.bpriority[u] = s.bpriority[u]
          /\ y \in Owned(s, u) \/ x.block_obj[u] = y
      <3>1. u \in L /\ u \in Tasks \ {t} /\ s.bpriority \in [Tasks -> Prios]
        BY <1>1, <1>11, <2>1 DEF SInv
      <3>2. r.bpriority[u] = s.bpriority[u]
        BY <1>6, <3>1
      <3>3. r.k.block_obj[u] = x.block_obj[u]
        BY <1>5, <1>6, <3>1 DEF OthersKept
      <3> QED BY <1>6, <1>12, <3>1, <3>2, <3>3
    <2> QED BY <1>1, <2>2 DEF MInv, CeilingsKept, x
  <1>18. NoneAstray(r) /\ ObjectsMatch(r.k)
    <2>1. NoneAstray(r)
      BY <1>1, <1>6, <1>7 DEF MInv, NoneAstray, x
    <2>2. ObjectsMatch(q)
      <3>1. \A u \in L : /\ u \in Alive(x) /\ q.state[u] = x.state[u]
                         /\ q.block_obj[u] = x.block_obj[u]
        BY <1>5, <1>11 DEF OthersKept, L
      <3>2. ObjectsMatch(x)
        BY <1>1 DEF MInv, x
      <3> QED BY <1>5, <1>11, <3>1, <3>2 DEF ObjectsMatch
    <2> QED BY <1>6, <2>1, <2>2
  <1>19. SysInv(r, c)
    <2>1. Alive(r.k) = K /\ TickOrder(r.k)
      BY <1>6, <1>9, <1>11
    <2> HIDE DEF K
    <2>2. MInv(r, c, K, {})
      BY <1>13, <1>15, <1>16, <1>17, <1>18 DEF MInv
    <2> QED BY <1>10, <2>1, <2>2 DEF SysInv
  <1>20. OwnersPass(s, r)
    BY <1>6 DEF OwnersPass
  <1> QED BY <1>2, <1>19, <1>20 DEF r, s, c

-----------------------------------------------------------------------------
(***************************************************************************)
(* The invariant, and what follows from it.                                *)
(***************************************************************************)

LEMMA InitLemma ==
  ASSUME Init
  PROVE  SysInv(sys, call)
  <1> DEFINE x == TaskInit(InitPrio)
  <1>1. /\ InitPrio \in [Tasks -> Prios] /\ TICKS \in Nat \ {0, 1} /\ NoTask \notin Tasks
        /\ Prios \subseteq Int /\ NoObj \notin Mutexes
    BY ConstantsAre, PriosAre
  <1>2. InitPrio \in [Tasks -> Int]
    BY <1>1
  <1>3. KInv(x) /\ \A t \in Tasks : x.state[t] = "RDY"
    BY <1>2, TaskInitLemma
  <1>4. /\ WaitOrder(x) /\ TickOrder(x) /\ ObjectsMatch(x) /\ x.priority = InitPrio
        /\ \A m \in Mutexes : Waiting(x, m) = {}
    BY <1>1, <1>2, TaskInitOrder DEF Mutexes
  <1>5. /\ sys.k = x /\ sys.bpriority = InitPrio
        /\ sys.mtxlist = [t \in Tasks |-> <<>>] /\ sys.mtxtsk = [m \in Mutexes |-> NoTask]
        /\ sys.exists = Mutexes
        /\ call = [t \in Tasks |-> NoObj]
    <2> HIDE DEF x
    <2> QED BY DEF Init, x
  <1> DEFINE s == sys
             L == Alive(x)
  <1>6. s \in SysStates
    <2>1. x \in KStates
      BY <1>3 DEF KInv
    <2> HIDE DEF x
    <2>2. s = [k            |-> x,
               bpriority    |-> InitPrio,
               mtxlist      |-> [t \in Tasks |-> <<>>],
               mtxtsk       |-> [m \in Mutexes |-> NoTask],
               owner_nested |-> [m \in Mutexes |-> 0],
               exists       |-> Mutexes,
               levels       |-> 0,
               system_error |-> FALSE]
      BY DEF Init, x
    <2>3. /\ [t \in Tasks |-> <<>>] \in [Tasks -> Seq(Mutexes)]
          /\ [m \in Mutexes |-> NoTask] \in [Mutexes -> Tasks \cup {NoTask}]
          /\ [m \in Mutexes |-> 0] \in [Mutexes -> Int]
      OBVIOUS
    <2> QED BY <1>2, <2>1, <2>2, <2>3 DEF SysStates
  <1> HIDE DEF x, s
  <1>7. SInv(s)
    BY <1>1, <1>3, <1>4, <1>5, <1>6 DEF SInv, s
  <1>8. \A t \in Tasks : s.mtxlist[t] = <<>> /\ Owned(s, t) = {}
    <2>1. <<>> \in Seq(Mutexes)
      OBVIOUS
    <2>2. ToSet(<<>>) = {}
      BY <2>1, EmptyLemma
    <2> QED BY <1>5, <2>2 DEF Owned, s
  <1>9. Ownership(s, L, {})
    <2>1. \A t \in Tasks : IsInjective(s.mtxlist[t])
      BY <1>8 DEF IsInjective
    <2>2. L \subseteq Tasks
      BY DEF Alive
    <2> HIDE DEF L
    <2> QED BY <1>1, <1>4, <1>5, <1>8, <2>1, <2>2 DEF Ownership, s
  <1>10. L = Tasks
    BY <1>3 DEF Alive
  <1> HIDE DEF L
  <1>11. CallsMatch(s, call)
    BY <1>3, <1>5 DEF CallsMatch, PendStates, IdleStates, s
  <1>12. AnswersRight(s, call, L)
    BY <1>1, <1>5, <1>10 DEF AnswersRight, s
  <1>13. CeilingsKept(s, L)
    <2>1. \A t \in Tasks : x.block_obj[t] = NoObj
      BY <1>3, <1>4 DEF ObjectsMatch, Alive, PendStates
    <2> QED BY <1>1, <1>5, <1>8, <1>10, <2>1 DEF CeilingsKept, s
  <1>14. MInv(s, call, L, {})
    BY <1>4, <1>5, <1>9, <1>11, <1>12, <1>13 DEF MInv, NoneAstray, s
  <1> QED BY <1>4, <1>5, <1>7, <1>14 DEF SysInv, s, L

(* How mutexes may pass in a step. *)
StepPasses ==
  \/ OwnersPass(sys, sys')
  \/ \E t \in Tasks, m \in Mutexes :
       sys.mtxtsk[m] = t /\ raw_mutex_put(t, m) /\ PutPasses(sys, sys', m)

LEMMA NextLemma ==
  ASSUME SysInv(sys, call), [Next]_vars
  PROVE  SysInv(sys', call') /\ StepPasses
  <1>1. ASSUME MutexServices PROVE SysInv(sys', call') /\ StepPasses
    <2>1. PICK t \in Tasks :
            \/ GetReturns(t)
            \/ \E m \in Mutexes :
                 \/ GetNested(t, m) \/ GetFree(t, m)
                 \/ PutNested(t, m) \/ raw_mutex_put(t, m)
                 \/ \E timeout \in Timeouts : GetBlocks(t, m, timeout)
      BY <1>1 DEF MutexServices
    <2>2. CASE GetReturns(t)
      BY <2>2, GetReturnsStep, SamePass DEF StepPasses
    <2>3. ASSUME NEW m \in Mutexes, GetNested(t, m) \/ PutNested(t, m)
          PROVE  SysInv(sys', call') /\ StepPasses
      BY <2>3, GetNestedStep, SamePass DEF StepPasses
    <2>4. ASSUME NEW m \in Mutexes, GetFree(t, m) PROVE SysInv(sys', call') /\ StepPasses
      BY <2>4, GetFreeStep DEF StepPasses
    <2>5. ASSUME NEW m \in Mutexes, raw_mutex_put(t, m) PROVE SysInv(sys', call') /\ StepPasses
      <3>1. SysInv(sys', call') /\ PutPasses(sys, sys', m)
        BY <2>5, PutStep
      <3>2. sys.mtxtsk[m] = t
        BY <2>5 DEF raw_mutex_put
      <3> QED BY <2>5, <3>1, <3>2 DEF StepPasses
    <2>6. ASSUME NEW m \in Mutexes, NEW timeout \in Timeouts, GetBlocks(t, m, timeout)
          PROVE  SysInv(sys', call') /\ StepPasses
      BY <2>6, GetBlocksStep, SamePass DEF StepPasses
    <2> QED BY <2>1, <2>2, <2>3, <2>4, <2>5, <2>6
  <1>2. ASSUME TaskServices PROVE SysInv(sys', call') /\ StepPasses
    <2>1. MutexAssumption
      BY MutexAssumption
    <2>2. /\ SuspendTasks \subseteq Tasks /\ AbortTasks \subseteq Tasks
          /\ ChangeTasks \subseteq Tasks /\ DeleteTasks \subseteq Tasks
      BY MutexAssumption
    <2>3. CASE tick_list_update
      BY <2>3, TickListStep, SamePass DEF StepPasses
    <2>4. ASSUME NEW t \in Tasks, NEW dly \in Delays, Sleep(t, dly)
          PROVE  SysInv(sys', call') /\ StepPasses
      BY <2>4, SleepStep, SamePass DEF StepPasses
    <2>5. ASSUME NEW t \in SuspendTasks, Suspend(t) \/ Resume(t)
          PROVE  SysInv(sys', call') /\ StepPasses
      BY <2>2, <2>5, SuspendStep, SamePass DEF StepPasses
    <2>6. ASSUME NEW t \in AbortTasks, raw_task_wait_abort(t)
          PROVE  SysInv(sys', call') /\ StepPasses
      BY <2>2, <2>6, AbortStep, SamePass DEF StepPasses
    <2>7. ASSUME NEW t \in ChangeTasks, NEW p \in NewPrios, raw_task_priority_change(t, p)
          PROVE  SysInv(sys', call') /\ StepPasses
      BY <2>2, <2>7, PriorityStep, SamePass DEF StepPasses
    <2>8. ASSUME NEW t \in DeleteTasks, raw_task_delete(t)
          PROVE  SysInv(sys', call') /\ StepPasses
      BY <2>2, <2>8, TaskDeleteStep DEF StepPasses
    <2>9. ASSUME NEW t \in DeleteTasks, NEW auto_start \in BOOLEAN, Create(t, auto_start)
          PROVE  SysInv(sys', call') /\ StepPasses
      BY <2>2, <2>9, CreateStep DEF StepPasses
    <2> QED BY <1>2, <2>3, <2>4, <2>5, <2>6, <2>7, <2>8, <2>9 DEF TaskServices
  <1>3. ASSUME Lifecycle PROVE SysInv(sys', call') /\ StepPasses
    <2>1. DeleteMutexes \subseteq Mutexes
      BY MutexAssumption
    <2>2. ASSUME NEW m \in DeleteMutexes, raw_mutex_delete(m)
          PROVE  SysInv(sys', call') /\ StepPasses
      <3>1. SysInv(sys', call') /\ sys'.mtxtsk = sys.mtxtsk
        BY <2>1, <2>2, DeleteStep
      <3> QED BY <3>1 DEF StepPasses, OwnersPass
    <2>3. ASSUME NEW m \in DeleteMutexes, raw_mutex_create(m)
          PROVE  SysInv(sys', call') /\ StepPasses
      BY <2>1, <2>3, CreateMutexStep DEF StepPasses
    <2> QED BY <1>3, <2>2, <2>3 DEF Lifecycle
  <1>4. ASSUME UNCHANGED vars PROVE SysInv(sys', call') /\ StepPasses
    <2>1. sys' = sys /\ call' = call
      BY <1>4 DEF vars
    <2> QED BY <2>1 DEF StepPasses, OwnersPass
  <1> QED BY <1>1, <1>2, <1>3, <1>4 DEF Next

IInv == SysInv(sys, call)

THEOREM MutexInvariant == Spec => []IInv
  <1>1. Init => IInv
    BY InitLemma DEF IInv
  <1>2. IInv /\ [Next]_vars => IInv'
    BY NextLemma DEF IInv
  <1> QED BY <1>1, <1>2, PTL DEF Spec

(* Whatever mixture of services, timeouts and deletions: a task is in      *)
(* exactly the lists its state names, once in each (raw_task.c, raw_pend.c, *)
(* raw_mutex.c).                                                           *)
THEOREM ListsMatchStates == Spec => []StateMatchesLists
  <1>1. IInv => StateMatchesLists
    BY DEF IInv, SysInv, SInv, KInv, StateMatchesLists, k
  <1> QED BY <1>1, MutexInvariant, PTL

(* The wait lists stay sorted by the priorities the protocols change, so a *)
(* mutex goes to its most urgent waiter.                                   *)
THEOREM WaitersStaySorted == Spec => []WaitListSorted
  <1>1. IInv => WaitListSorted
    BY SortedLists DEF IInv, SysInv, SInv, WaitListSorted, k
  <1> QED BY <1>1, MutexInvariant, PTL

(* tick_list_update, which looks at the head of the tick list only, leaves *)
(* no task behind whose time has come.                                     *)
THEOREM TicksStaySorted == Spec => []TickListSorted
  <1>1. IInv => TickListSorted
    BY SortedLists DEF IInv, SysInv, SInv, TickListSorted, k
  <1> QED BY <1>1, MutexInvariant, PTL

(* mtxtsk and the lists of owned mutexes agree, and who waits does so for  *)
(* a mutex that exists and that another live task owns.                    *)
THEOREM OwnersAgree == Spec => []OwnersConsistent
  <1>1. ASSUME IInv PROVE OwnersConsistent
    <2>1. /\ Ownership(sys, Alive(sys.k), {}) /\ NoneAstray(sys) /\ sys.exists \subseteq Mutexes
          /\ sys.k \in KStates
      BY <1>1, SysIs DEF IInv, MInv
    <2>2. \A t \in Tasks : Live(t) <=> t \in Alive(sys.k)
      BY DEF Live, Alive, k
    <2>3. \A m \in Mutexes, t \in Tasks :
            Live(t) => (m \in Owned(sys, t) <=> m \in sys.exists /\ sys.mtxtsk[m] = t)
      BY <2>1, <2>2 DEF Ownership
    <2>4. \A m \in sys.exists : sys.mtxtsk[m] # NoTask => Live(sys.mtxtsk[m])
      BY <2>1, <2>2 DEF Ownership, Alive
    <2>5. ASSUME NEW m \in Mutexes, k.block_list[m] # <<>>
          PROVE  /\ m \in sys.exists
                 /\ sys.mtxtsk[m] \notin {NoTask} \cup ToSet(k.block_list[m])
      <3>1. k = sys.k /\ sys.k.block_list[m] \in Seq(Tasks)
        BY <2>1 DEF k, KStates, Mutexes
      <3>2. Waiting(sys.k, m) # {} /\ ToSet(k.block_list[m]) = Waiting(sys.k, m)
        BY <2>5, <3>1, EmptyLemma DEF Waiting
      <3> QED BY <2>1, <3>2 DEF NoneAstray, Ownership
    <2>6. \A t \in Tasks : IsInjective(sys.mtxlist[t])
      BY <2>1 DEF Ownership
    <2> QED BY <2>3, <2>4, <2>5, <2>6 DEF OwnersConsistent
  <1> QED BY <1>1, MutexInvariant, PTL

(* What raw_mutex_get answers after it has blocked is still true when its  *)
(* caller runs again, whatever happened to the mutex meanwhile.            *)
THEOREM AnswersAreTrue == Spec => []AnswerMatchesOwner
  <1>1. ASSUME IInv PROVE AnswerMatchesOwner
    <2>1. AnswersRight(sys, call, Alive(sys.k))
      BY <1>1 DEF IInv, SysInv, MInv
    <2> SUFFICES ASSUME NEW t \in Tasks, t \in k.ready, call[t] # NoObj
                 PROVE  LET owns == sys.mtxtsk[call[t]] = t /\ call[t] \in sys.exists
                        IN  IF k.block_status[t] = "OK" THEN owns \/ call[t] \notin sys.exists
                            ELSE ~owns
      BY DEF AnswerMatchesOwner
    <2>2. sys.k.state[t] = "RDY" /\ t \in Alive(sys.k)
      BY <1>1, SysIs DEF IInv, k
    <2>3. Done(sys.k, t) <=> k.block_status[t] = "OK"
      BY <2>2 DEF Done, k
    <2>4. call[t] \in sys.exists => (Done(sys.k, t) <=> sys.mtxtsk[call[t]] = t)
      BY <2>1, <2>2 DEF AnswersRight
    <2> QED BY <2>3, <2>4
  <1> QED BY <1>1, MutexInvariant, PTL

(* Nobody whose base priority is above the ceiling owns a ceiling mutex or *)
(* waits for it (raw_mutex_get, raw_task_priority_change).                 *)
THEOREM CeilingsAreKept == Spec => []CeilingRespected
  <1>1. IInv => CeilingRespected
    BY DEF IInv, SysInv, MInv, CeilingsKept, CeilingRespected, Live, Alive, k
  <1> QED BY <1>1, MutexInvariant, PTL

(* An owner loses a mutex only by giving it back or by being deleted, and  *)
(* the next owner is the first task that waited.                           *)
THEOREM MutexesPass == Spec => OwnershipPasses
  <1> DEFINE A(m) == LET old == sys.mtxtsk[m]
                         new == sys'.mtxtsk[m]
                     IN  new # old /\ old # NoTask =>
                           /\ \/ m \notin sys'.exists
                              \/ k'.state[old] = "DELETED"
                              \/ raw_mutex_put(old, m)
                           /\ new # NoTask => /\ k.block_list[m] # <<>>
                                              /\ new = Head(k.block_list[m])
  <1>1. ASSUME IInv, [Next]_vars PROVE \A m \in sys.exists : A(m)
    <2>1. StepPasses /\ sys.exists \subseteq Mutexes
      BY <1>1, NextLemma, SysIs DEF IInv
    <2> SUFFICES ASSUME NEW m \in sys.exists PROVE A(m)
      OBVIOUS
    <2>2. CASE OwnersPass(sys, sys')
      BY <2>2 DEF OwnersPass, k
    <2>3. ASSUME NEW t \in Tasks, NEW x \in Mutexes, sys.mtxtsk[x] = t, raw_mutex_put(t, x),
                 PutPasses(sys, sys', x)
          PROVE  A(m)
      <3>1. CASE m = x
        BY <2>3, <3>1 DEF PutPasses, k
      <3>2. CASE m # x
        BY <2>1, <2>3, <3>2 DEF PutPasses
      <3> QED BY <3>1, <3>2
    <2> QED BY <2>1, <2>2, <2>3 DEF StepPasses
  <1>2. IInv /\ [Next]_vars =>
          [\A m \in sys.exists :
             LET old == sys.mtxtsk[m]
                 new == sys'.mtxtsk[m]
             IN  new # old /\ old # NoTask =>
                   /\ \/ m \notin sys'.exists
                      \/ k'.state[old] = "DELETED"
                      \/ raw_mutex_put(old, m)
                   /\ new # NoTask => k.block_list[m] # <<>> /\ new = Head(k.block_list[m])]_vars
    BY <1>1
  <1> QED BY <1>2, MutexInvariant, PTL DEF Spec, OwnershipPasses

-----------------------------------------------------------------------------
(***************************************************************************)
(* Priorities.  The priority of a task is the least of its base priority   *)
(* and of what the mutexes it owns plead for.                              *)
(***************************************************************************)

Least(a, T) == a \in T /\ \A q \in T : a <= q

(* The tasks whose priority u inherits. *)
Pleaders(s, u) ==
  UNION {Waiting(s.k, m) : m \in {n \in Owned(s, u) : Policy[n] = "INHERIT"}}

Ceilings(s, u) == {Ceiling[m] : m \in {n \in Owned(s, u) : Policy[n] = "CEILING"}}

Of(f, P) == {f[t] : t \in P}

(* What u must not run below if its base priority were b. *)
PleasAt(s, u, b) == ({b} \cup Ceilings(s, u)) \cup Of(s.k.priority, Pleaders(s, u))

Pleas(s, u) == PleasAt(s, u, s.bpriority[u])

LEMMA LeastUnique ==
  ASSUME NEW T, T \subseteq Int, NEW a, NEW b, Least(a, T), Least(b, T)
  PROVE  a = b
  <1>1. a \in Int /\ b \in Int /\ a <= b /\ b <= a
    BY DEF Least
  <1> QED BY <1>1

(* The priority of u, one of the tasks in P, becomes p. *)
Moved(f, g, P, u, p) ==
  /\ f \in [Tasks -> Int] /\ g \in [Tasks -> Int] /\ p \in Int
  /\ g[u] = p /\ \A t \in P \ {u} : g[t] = f[t]

(* What that does to the least element a. *)
LeastMoved(F, P, f, g, u, p, a) ==
  /\ p <= a => Least(p, F \cup Of(g, P))
  /\ a <= p /\ a # f[u] => Least(a, F \cup Of(g, P))
  /\ \A d : a <= p /\ Least(d, F \cup Of(g, P)) => a <= d

LEMMA LeastMoves ==
  ASSUME NEW F, F \subseteq Int, NEW P, P \subseteq Tasks, NEW u, u \in P,
         NEW f, NEW g, NEW p, Moved(f, g, P, u, p),
         NEW a, Least(a, F \cup Of(f, P))
  PROVE  LeastMoved(F, P, f, g, u, p, a)
  <1>1. /\ g[u] = p /\ \A t \in P \ {u} : g[t] = f[t]
        /\ p \in Int /\ \A t \in P : f[t] \in Int /\ g[t] \in Int
    BY DEF Moved
  <1>2. a \in Int /\ (\A q \in F : a <= q) /\ \A t \in P : a <= f[t]
    BY <1>1 DEF Least, Of
  <1>3. a \in F \/ \E t \in P : a = f[t]
    BY DEF Least, Of
  <1>4. ASSUME p <= a PROVE Least(p, F \cup Of(g, P))
    <2>1. p \in Of(g, P)
      BY <1>1 DEF Of
    <2>2. \A q \in F : p <= q
      BY <1>1, <1>2, <1>4
    <2>3. \A t \in P : p <= g[t]
      BY <1>1, <1>2, <1>4
    <2>4. \A q \in Of(g, P) : p <= q
      BY <2>3 DEF Of
    <2> QED BY <2>1, <2>2, <2>4 DEF Least
  <1>5. ASSUME a <= p PROVE \A q \in F \cup Of(g, P) : a <= q
    <2>1. \A t \in P : a <= g[t]
      BY <1>1, <1>2, <1>5
    <2> QED BY <1>2, <2>1 DEF Of
  <1>6. ASSUME a <= p, a # f[u] PROVE Least(a, F \cup Of(g, P))
    <2>1. a \in F \cup Of(g, P)
      BY <1>1, <1>3, <1>6 DEF Of
    <2> QED BY <1>5, <1>6, <2>1 DEF Least
  <1>7. \A d : a <= p /\ Least(d, F \cup Of(g, P)) => a <= d
    BY <1>5 DEF Least
  <1> QED BY <1>4, <1>6, <1>7 DEF LeastMoved

(* What a mutex demands of its owner is its most urgent plea. *)
LEMMA DemandIs ==
  ASSUME NEW s, SInv(s), NEW m \in Mutexes
  PROVE  /\ Policy[m] = "CEILING" => Demand(s, m) = {Ceiling[m]}
         /\ Policy[m] = "INHERIT" /\ Waiting(s.k, m) # {} =>
              \E h \in Waiting(s.k, m) :
                /\ Demand(s, m) = {s.k.priority[h]}
                /\ \A t \in Waiting(s.k, m) : s.k.priority[h] <= s.k.priority[t]
         /\ Policy[m] = "INHERIT" /\ Waiting(s.k, m) = {} => Demand(s, m) = {}
         /\ Policy[m] \notin {"CEILING", "INHERIT"} => Demand(s, m) = {}
  <1> DEFINE list == s.k.block_list[m]
  <1>1. list \in Seq(Tasks) /\ Waiting(s.k, m) = ToSet(list)
    BY DEF SInv, SysStates, KStates, Mutexes, Waiting
  <1>2. OrderedBy(list, s.k.priority)
    BY ConstantsAre DEF SInv, WaitOrder, Mutexes
  <1>3. list = <<>> <=> ToSet(list) = {}
    BY <1>1, EmptyLemma
  <1>4. list # <<>> => list[1] \in ToSet(list) /\ \A a \in ToSet(list) : Precedes(list, list[1], a)
    BY <1>1, HeadPrecedes
  <1>5. list # <<>> => Head(list) = list[1]
    BY <1>1
  <1>6. list # <<>> => \A a \in ToSet(list) : s.k.priority[list[1]] <= s.k.priority[a]
    BY <1>2, <1>4 DEF OrderedBy
  <1> QED BY <1>1, <1>3, <1>4, <1>5, <1>6 DEF Demand

(* chg_pri_mutex finds the least plea. *)
LEMMA DemandedLemma ==
  ASSUME NEW s, SInv(s), NEW u \in Tasks, NEW b \in Prios
  PROVE  /\ PleasAt(s, u, b) \subseteq Prios
         /\ Least(chg_pri_mutex(s, u, b), PleasAt(s, u, b))
         /\ Pleaders(s, u) \subseteq Tasks
  <1> DEFINE O == Owned(s, u)
             D == UNION {Demand(s, m) : m \in O}
             A == PleasAt(s, u, b)
             c == chg_pri_mutex(s, u, b)
  <1>1. O \subseteq Mutexes /\ Prios \subseteq Nat
    BY OwnedAre, ConstantsAre DEF SInv
  <1>2. \A m \in O : Waiting(s.k, m) \subseteq Tasks
    BY <1>1, WaitingIs DEF SInv, Mutexes
  <1>3. Pleaders(s, u) \subseteq Tasks
    BY <1>2 DEF Pleaders
  <1>4. A \subseteq Prios
    <2>1. \A m \in O : Ceiling[m] \in Prios
      BY <1>1, ConstantsAre
    <2>2. Ceilings(s, u) \subseteq Prios
      BY <2>1 DEF Ceilings
    <2>3. \A t \in Tasks : s.k.priority[t] \in Prios
      BY DEF SInv
    <2>4. Of(s.k.priority, Pleaders(s, u)) \subseteq Prios
      BY <1>3, <2>3 DEF Of
    <2> HIDE DEF Prios
    <2> QED BY <2>2, <2>4 DEF PleasAt
  <1>5. D \subseteq A
    <2> SUFFICES ASSUME NEW m \in O, NEW q \in Demand(s, m) PROVE q \in A
      OBVIOUS
    <2>1. m \in Mutexes
      BY <1>1
    <2>2. CASE Policy[m] = "CEILING"
      BY <2>1, <2>2, DemandIs DEF PleasAt, Ceilings
    <2>3. CASE Policy[m] = "INHERIT"
      <3>1. PICK h \in Waiting(s.k, m) : q = s.k.priority[h]
        BY <2>1, <2>3, DemandIs
      <3>2. h \in Pleaders(s, u)
        BY <2>3, <3>1 DEF Pleaders
      <3> QED BY <3>1, <3>2 DEF PleasAt, Of
    <2> QED BY <2>1, <2>2, <2>3, DemandIs
  <1>6. \A q \in A : \E d \in {b} \cup D : d <= q
    <2> SUFFICES ASSUME NEW q \in A PROVE \E d \in {b} \cup D : d <= q
      OBVIOUS
    <2>1. q \in Int
      <3>1. q \in Prios
        BY <1>4
      <3> QED BY <1>1, <3>1
    <2>2. CASE q = b
      BY <2>1, <2>2
    <2>3. CASE q \in Ceilings(s, u)
      <3>1. PICK m \in O : Policy[m] = "CEILING" /\ q = Ceiling[m]
        BY <2>3 DEF Ceilings
      <3>2. q \in D
        BY <1>1, <3>1, DemandIs
      <3> QED BY <2>1, <3>2
    <2>4. CASE q \in Of(s.k.priority, Pleaders(s, u))
      <3>1. PICK t \in Pleaders(s, u) : q = s.k.priority[t]
        BY <2>4 DEF Of
      <3>2. PICK m \in O : Policy[m] = "INHERIT" /\ t \in Waiting(s.k, m)
        BY <3>1 DEF Pleaders
      <3>3. PICK h \in Waiting(s.k, m) :
              Demand(s, m) = {s.k.priority[h]} /\ s.k.priority[h] <= s.k.priority[t]
        BY <1>1, <3>2, DemandIs
      <3> QED BY <3>1, <3>2, <3>3
    <2> QED BY <2>2, <2>3, <2>4 DEF PleasAt
  <1>7. c = Min({b} \cup D)
    BY DEF chg_pri_mutex
  <1>8. b \in A
    BY DEF PleasAt
  <1> HIDE DEF D, A, c, Prios
  <1>9. c \in {b} \cup D /\ \A q \in {b} \cup D : c <= q
    BY <1>1, <1>4, <1>5, <1>7, <1>8, MinLemma
  <1>10. Least(c, A)
    <2>1. c \in A /\ A \subseteq Int
      BY <1>1, <1>4, <1>5, <1>8, <1>9
    <2>2. \A q \in A : c <= q
      <3> TAKE q \in A
      <3>1. PICK d \in {b} \cup D : d <= q
        BY <1>6
      <3>2. d \in Int /\ q \in Int /\ c \in Int /\ c <= d
        BY <1>5, <1>8, <1>9, <2>1, <3>1
      <3> QED BY <3>1, <3>2
    <2> QED BY <2>1, <2>2 DEF Least
  <1> QED BY <1>3, <1>4, <1>10 DEF A, c

-----------------------------------------------------------------------------
(***************************************************************************)
(* A chain of priority changes leaves every priority exact.                *)
(***************************************************************************)

(* The same demands and priorities. *)
Alike(s, r) ==
  /\ r.k = s.k /\ r.bpriority = s.bpriority /\ r.mtxlist = s.mtxlist
  /\ r.mtxtsk = s.mtxtsk /\ r.exists = s.exists

LEMMA AlikeDemands ==
  ASSUME NEW s, NEW r, Alike(s, r), NEW t
  PROVE  demanded(r, t) = demanded(s, t)
  BY DEF Alike, demanded, chg_pri_mutex, Demand, Owned

(* How a round goes on from x, where m and its owner are what the task     *)
(* waits for whose priority was old: with r.                               *)
GoesOn(x, m, owner, old, p, r) ==
  LET s == r.sys
      free == m \in x.exists /\ Policy[m] = "INHERIT"
  IN  \/ /\ r.task = NoTask
         /\ free => /\ ~(s.k.priority[owner] > p)
                    /\ ~(s.k.priority[owner] = old /\ demanded(s, owner) # old)
      \/ /\ free /\ s.k.priority[owner] > p
         /\ r.task = owner /\ r.prio = p
      \/ /\ free /\ ~(s.k.priority[owner] > p)
         /\ s.k.priority[owner] = old /\ demanded(s, owner) # old
         /\ r.task = owner /\ r.prio = demanded(s, owner)

(* One round, of a task that waits. *)
LEMMA PendingRound ==
  ASSUME NEW w \in LoopStates, SInv(w.sys), NEW u \in Tasks, w.task = u,
         w.sys.k.state[u] \in PendStates, NEW r, r = change_one(w)
  PROVE  LET x == w.sys
             m == x.k.block_obj[u]
         IN  /\ r.sys.k.priority = [x.k.priority EXCEPT ![u] = w.prio]
             /\ \/ x.levels > RECURSION_LEVELS /\ r.task = NoTask /\ r.sys.system_error
                \/ /\ x.levels <= RECURSION_LEVELS
                   /\ r.calls = w.calls + 1 /\ r.sys.system_error = x.system_error
                   /\ GoesOn(x, m, x.mtxtsk[m], x.k.priority[u], w.prio, r)
  <1> DEFINE x == w.sys
             p == w.prio
             n == w.calls
             old == x.k.priority[u]
             q == change_pend_list_priority([x.k EXCEPT !.priority[u] = p], u)
             y == [x EXCEPT !.k = q]
             v == [w EXCEPT !.sys = y]
  <1>1. /\ SInv(x) /\ x \in SysStates /\ x.k \in KStates /\ p \in Prios /\ n \in Int
        /\ x.levels \in Int /\ RECURSION_LEVELS \in Int /\ u # NoTask /\ p \in Int
        /\ x.k.priority \in [Tasks -> Prios]
    <2>1. x \in SysStates /\ p \in Prios /\ n \in Int /\ x.k.priority \in [Tasks -> Prios]
      BY DEF SInv, LoopStates
    <2>2. x.k \in KStates /\ x.levels \in Int
      BY <2>1 DEF SysStates
    <2>3. RECURSION_LEVELS \in Int /\ u # NoTask
      BY ConstantsAre
    <2>4. p \in Int
      BY <2>1, PriosAre
    <2> QED BY <2>1, <2>2, <2>3, <2>4
  <1>2. r = mtx_chg_pri(v, u, old)
    <2>1. [x EXCEPT !.k.priority[u] = p] = [x EXCEPT !.k = [x.k EXCEPT !.priority[u] = p]]
      BY <1>1 DEF SysStates, KStates
    <2>2. [[x EXCEPT !.k.priority[u] = p] EXCEPT !.k = change_pend_list_priority(@, u)] = y
      BY <1>1, <2>1 DEF SysStates
    <2> QED BY <1>1, <2>2 DEF change_one
  <1>3. /\ q.priority = [x.k.priority EXCEPT ![u] = p] /\ q \in KStates
        /\ q.block_obj = x.k.block_obj
    <2> DEFINE z == x.k
    <2>1. KInv(z) /\ WaitOrder(z) /\ z.state[u] \in PendStates
      BY <1>1 DEF SInv
    <2>2. q = LET k1 == [z EXCEPT !.priority[u] = p]
              IN  IF z.state[u] \in PendStates THEN change_pend_list_priority(k1, u) ELSE k1
      BY <2>1
    <2> HIDE DEF q, z, p
    <2>3. KInv(q) /\ Reordered(z, q) /\ q.priority = [z.priority EXCEPT ![u] = p]
      BY <1>1, <2>1, <2>2, RepriceLemma
    <2> QED BY <2>3 DEF KInv, Reordered, z, p
  <1> HIDE DEF q
  <1>4. /\ y \in SysStates /\ y.k = q /\ y.bpriority = x.bpriority
        /\ y.mtxlist = x.mtxlist /\ y.mtxtsk = x.mtxtsk
        /\ y.exists = x.exists /\ y.levels = x.levels /\ y.system_error = x.system_error
    BY <1>1, <1>3 DEF SysStates
  <1> HIDE DEF y
  <1>5. v = LoopState(y, u, p, n) /\ v.sys = y
    BY DEF LoopStates, LoopState
  <1> HIDE DEF v
  <1> DEFINE m == y.k.block_obj[u]
             owner == y.mtxtsk[m]
             within == Within(v)
             failed == Failed(v)
             up == WithinSys(y)
             bad == FailedSys(y)
  <1>6. /\ within = LoopState(up, NoTask, p, n + 1)
        /\ failed = LoopState(bad, NoTask, p, n)
    BY <1>5, LoopEdits
  <1>7. r = IF y.levels > RECURSION_LEVELS THEN failed
            ELSE IF m \notin y.exists \/ Policy[m] # "INHERIT" THEN within
            ELSE IF y.k.priority[owner] > y.k.priority[u]
            THEN Onwards(within, owner, y.k.priority[u])
            ELSE IF y.k.priority[owner] = old /\ demanded(y, owner) # old
            THEN Onwards(within, owner, demanded(y, owner))
            ELSE within
    <2> HIDE DEF old
    <2> QED BY <1>2, <1>5 DEF mtx_chg_pri, Within, Failed, Onwards
  <1>8. Alike(y, up) /\ up.system_error = y.system_error
    BY <1>4 DEF SysStates, WithinSys, Alike
  <1>9. bad.k = y.k /\ bad.system_error = TRUE
    BY <1>4 DEF SysStates, FailedSys
  <1>10. demanded(up, owner) = demanded(y, owner)
    <2> HIDE DEF up
    <2> QED BY <1>8, AlikeDemands
  <1>11. up.k = y.k /\ y.k.priority[u] = p /\ y.k.block_obj = x.k.block_obj
    BY <1>1, <1>3, <1>4, <1>8 DEF Alike
  <1>12. m = x.k.block_obj[u] /\ owner = x.mtxtsk[x.k.block_obj[u]]
    BY <1>4, <1>11
  <1>13. y.k.priority = [x.k.priority EXCEPT ![u] = p]
    BY <1>3, <1>4
  <1> HIDE DEF within, failed, up, bad, m, owner
  <1>14. \A b, c : Onwards(within, b, c) = LoopState(up, b, c, n + 1)
    BY <1>6, LoopNext
  <1>15. \A a, b, c, d : /\ LoopState(a, b, c, d).sys = a /\ LoopState(a, b, c, d).task = b
                         /\ LoopState(a, b, c, d).prio = c /\ LoopState(a, b, c, d).calls = d
    BY DEF LoopState
  <1>16. CASE x.levels > RECURSION_LEVELS
    <2>1. r = LoopState(bad, NoTask, p, n)
      BY <1>4, <1>6, <1>7, <1>16
    <2> QED BY <1>9, <1>13, <1>15, <1>16, <2>1
  <1>17. CASE x.levels <= RECURSION_LEVELS
    <2> DEFINE free == m \in x.exists /\ Policy[m] = "INHERIT"
               above == y.k.priority[owner] > p
               lower == y.k.priority[owner] = old /\ demanded(y, owner) # old
               G == GoesOn(x, m, owner, old, p, r)
    <2>1. ~(y.levels > RECURSION_LEVELS)
      BY <1>1, <1>4, <1>17
    <2>2. r = IF ~free THEN within
              ELSE IF above THEN Onwards(within, owner, p)
              ELSE IF lower THEN Onwards(within, owner, demanded(y, owner))
              ELSE within
      BY <1>4, <1>7, <1>11, <2>1
    <2>3. r.sys = up /\ r.calls = n + 1
      BY <1>6, <1>14, <1>15, <2>2
    <2>4. r.sys.k = y.k /\ demanded(r.sys, owner) = demanded(y, owner)
      BY <1>10, <1>11, <2>3
    <2>5. \/ r.task = NoTask /\ (free => ~above /\ ~lower)
          \/ free /\ above /\ r.task = owner /\ r.prio = p
          \/ free /\ ~above /\ lower /\ r.task = owner /\ r.prio = demanded(y, owner)
      <3> HIDE DEF free, above, lower
      <3> QED BY <1>6, <1>14, <1>15, <2>2
    <2>6. G
      BY <2>4, <2>5 DEF GoesOn
    <2> HIDE DEF G
    <2>7. r.sys.k.priority = [x.k.priority EXCEPT ![u] = p] /\ r.sys.system_error = x.system_error
      BY <1>4, <1>8, <1>13, <2>3, <2>4
    <2> QED BY <1>12, <1>17, <2>3, <2>6, <2>7 DEF G
  <1> QED BY <1>1, <1>16, <1>17

(* What u must not run below, apart from its pleaders; E[u] is what it     *)
(* must not run below besides.                                             *)
Floor(s, E, u) == ({s.bpriority[u]} \cup Ceilings(s, u)) \cup E[u]

Wants(s, E, u) == Floor(s, E, u) \cup Of(s.k.priority, Pleaders(s, u))

Meets(s, E, u) == Least(s.k.priority[u], Wants(s, E, u))

Extras == [Tasks -> SUBSET Int]
NoExtra == [t \in Tasks |-> {}]

LEMMA WantsAre ==
  ASSUME NEW s, SInv(s), NEW E \in Extras, NEW u \in Tasks
  PROVE  /\ Pleaders(s, u) \subseteq Tasks /\ Floor(s, E, u) \subseteq Int
         /\ Wants(s, E, u) \subseteq Int /\ s.k.priority \in [Tasks -> Int]
         /\ E = NoExtra => Wants(s, E, u) = Pleas(s, u)
         /\ demanded(s, u) \in Prios /\ Least(demanded(s, u), Pleas(s, u))
  <1> DEFINE b == s.bpriority[u]
  <1>1. b \in Prios /\ s.k.priority \in [Tasks -> Prios]
    BY DEF SInv
  <1>2. demanded(s, u) = chg_pri_mutex(s, u, b) /\ Pleas(s, u) = PleasAt(s, u, b)
    BY DEF demanded, Pleas
  <1>3. E[u] \subseteq Int /\ (E = NoExtra => E[u] = {})
    BY DEF Extras, NoExtra
  <1> HIDE DEF b, Prios
  <1>4. /\ PleasAt(s, u, b) \subseteq Prios
        /\ Least(chg_pri_mutex(s, u, b), PleasAt(s, u, b))
        /\ Pleaders(s, u) \subseteq Tasks
    BY <1>1, DemandedLemma
  <1>5. Wants(s, E, u) = PleasAt(s, u, b) \cup E[u]
    BY DEF Wants, Floor, PleasAt, b
  <1>6. s.k.priority \in [Tasks -> Int]
    BY <1>1, PriosAre
  <1>7. Floor(s, E, u) \subseteq Wants(s, E, u)
    BY DEF Wants
  <1>8. demanded(s, u) \in Prios
    BY <1>2, <1>4 DEF Least
  <1> QED BY <1>2, <1>3, <1>4, <1>5, <1>6, <1>7, <1>8, PriosAre

(* The task that pleads is the one that waits, and it pleads with the      *)
(* owner.                                                                  *)
LEMMA WhoPleads ==
  ASSUME NEW s, SInv(s), NEW L, L = Alive(s.k), Ownership(s, L, {}), NEW u \in Tasks
  PROVE  /\ s.k.state[u] \notin PendStates => \A v \in Tasks : u \notin Pleaders(s, v)
         /\ s.k.state[u] \in PendStates =>
              LET m == s.k.block_obj[u]
              IN  /\ m \in Mutexes
                  /\ m \in s.exists => s.mtxtsk[m] \in L \ {u}
                  /\ \A v \in L : u \in Pleaders(s, v) <=>
                       m \in s.exists /\ Policy[m] = "INHERIT" /\ v = s.mtxtsk[m]
  <1>1. \A v \in Tasks : Owned(s, v) \subseteq Mutexes
    BY OwnedAre DEF SInv
  <1>2. \A m \in Mutexes : u \in Waiting(s.k, m) <=>
          s.k.state[u] \in PendStates /\ s.k.block_obj[u] = m
    BY WaitingIs DEF SInv, Mutexes
  <1>3. CASE s.k.state[u] \notin PendStates
    BY <1>1, <1>2, <1>3 DEF Pleaders
  <1>4. CASE s.k.state[u] \in PendStates
    <2> DEFINE m == s.k.block_obj[u]
    <2>1. m \in Mutexes /\ u \in Waiting(s.k, m)
      BY <1>2, <1>4 DEF SInv, KInv, Mutexes
    <2>2. m \in s.exists => s.mtxtsk[m] \in L \ {u}
      <3>1. NoTask \notin L
        BY ConstantsAre DEF Alive
      <3> QED BY <2>1, <3>1 DEF Ownership, SInv
    <2>3. L \subseteq Tasks
      BY DEF Alive
    <2>4. ASSUME NEW v \in L
          PROVE  u \in Pleaders(s, v) <=>
                   m \in s.exists /\ Policy[m] = "INHERIT" /\ v = s.mtxtsk[m]
      <3>1. m \in Owned(s, v) <=> m \in s.exists /\ s.mtxtsk[m] = v
        BY <2>1 DEF Ownership
      <3>2. u \in Pleaders(s, v) <=> m \in Owned(s, v) /\ Policy[m] = "INHERIT"
        BY <1>1, <1>2, <2>1, <2>3 DEF Pleaders
      <3> QED BY <3>1, <3>2
    <2> QED BY <1>4, <2>1, <2>2, <2>4
  <1> QED BY <1>3, <1>4

LEMMA RepricedPleads ==
  ASSUME NEW s, SInv(s), NEW r, Repriced(s, r), NEW E, NEW u \in Tasks
  PROVE  Pleaders(r, u) = Pleaders(s, u) /\ Floor(r, E, u) = Floor(s, E, u)
  <1>1. Owned(s, u) \subseteq Mutexes /\ Owned(r, u) = Owned(s, u)
    BY OwnedAre DEF SInv, Repriced, Owned
  <1>2. \A m \in Mutexes : Waiting(r.k, m) = Waiting(s.k, m)
    BY DEF Repriced, Reordered, Mutexes
  <1>3. r.bpriority = s.bpriority
    BY DEF Repriced
  <1> QED BY <1>1, <1>2, <1>3 DEF Pleaders, Floor, Ceilings

(* u gets the priority it wants; what that is to the others. *)
LEMMA RoundExact ==
  ASSUME NEW s, SInv(s), NEW E \in Extras, NEW u \in Tasks, NEW p,
         Least(p, Wants(s, E, u)), u \notin Pleaders(s, u),
         NEW r, Repriced(s, r), r.k.priority = [s.k.priority EXCEPT ![u] = p]
  PROVE  /\ Meets(r, E, u)
         /\ \A v \in Tasks \ {u} : r.k.priority[v] = s.k.priority[v]
         /\ \A v \in Tasks \ {u} : u \notin Pleaders(s, v) /\ Meets(s, E, v) => Meets(r, E, v)
         /\ \A v \in Tasks \ {u} : u \in Pleaders(s, v) /\ Meets(s, E, v) =>
              LET a == s.k.priority[v]
              IN  /\ p <= a => Least(p, Wants(r, E, v))
                  /\ a <= p /\ a # s.k.priority[u] => Meets(r, E, v)
                  /\ \A d : a <= p /\ Least(d, Wants(r, E, v)) => a <= d
  <1> DEFINE f == s.k.priority
             g == r.k.priority
  <1>1. f \in [Tasks -> Int] /\ \A v \in Tasks : Pleaders(s, v) \subseteq Tasks
    BY WantsAre
  <1>2. p \in Int
    BY WantsAre DEF Least
  <1>3. g[u] = p /\ \A v \in Tasks \ {u} : g[v] = f[v]
    BY <1>1
  <1>4. \A v \in Tasks : Wants(r, E, v) = Floor(s, E, v) \cup Of(g, Pleaders(s, v))
    BY RepricedPleads DEF Wants
  <1>5. \A v \in Tasks : u \notin Pleaders(s, v) => Of(g, Pleaders(s, v)) = Of(f, Pleaders(s, v))
    <2> SUFFICES ASSUME NEW v \in Tasks, u \notin Pleaders(s, v)
                 PROVE  Of(g, Pleaders(s, v)) = Of(f, Pleaders(s, v))
      OBVIOUS
    <2>1. \A x \in Pleaders(s, v) : g[x] = f[x]
      BY <1>1, <1>3
    <2> QED BY <2>1 DEF Of
  <1>6. \A v \in Tasks : u \notin Pleaders(s, v) => Wants(r, E, v) = Wants(s, E, v)
    BY <1>4, <1>5 DEF Wants
  <1>7. ASSUME NEW v \in Tasks \ {u}, u \in Pleaders(s, v), Meets(s, E, v)
        PROVE  LET a == s.k.priority[v]
               IN  /\ p <= a => Least(p, Wants(r, E, v))
                   /\ a <= p /\ a # s.k.priority[u] => Meets(r, E, v)
                   /\ \A d : a <= p /\ Least(d, Wants(r, E, v)) => a <= d
    <2> DEFINE F == Floor(s, E, v)
               P == Pleaders(s, v)
               a == f[v]
    <2>1. F \subseteq Int /\ P \in SUBSET Tasks /\ u \in P
      BY <1>1, <1>7, WantsAre
    <2>2. Least(a, F \cup Of(f, P))
      BY <1>7 DEF Meets, Wants
    <2>3. Wants(r, E, v) = F \cup Of(g, P) /\ g[v] = a
      BY <1>3, <1>4
    <2>4. Moved(f, g, P, u, p)
      BY <1>1, <1>2, <1>3, <2>1 DEF Moved
    <2> HIDE DEF F, P, a, f, g
    <2>5. LeastMoved(F, P, f, g, u, p, a)
      BY <2>1, <2>2, <2>4, LeastMoves
    <2> QED BY <2>3, <2>5 DEF LeastMoved, Meets, a, f, g
  <1>8. Meets(r, E, u)
    BY <1>3, <1>6 DEF Meets
  <1>9. \A v \in Tasks \ {u} : u \notin Pleaders(s, v) /\ Meets(s, E, v) => Meets(r, E, v)
    BY <1>3, <1>6 DEF Meets
  <1> QED BY <1>3, <1>7, <1>8, <1>9

(* No more mutexes than the recursion may pass. *)
Few == IsFiniteSet(Mutexes) /\ Cardinality(Mutexes) <= RECURSION_LEVELS

(* The chain raises tasks to b, or lowers tasks that run at b. *)
Aim(w, up, b) ==
  LET a == w.sys.k.priority[w.task]
  IN  IF up THEN w.prio = b /\ a > b ELSE a = b /\ w.prio >= b

(* The chain does not go on with v. *)
Settled(s, v, up, b) == IF up THEN s.k.priority[v] <= b ELSE s.k.priority[v] > b

(* The mutexes the chain has passed. *)
PassedBy(w, V, up, b) ==
  /\ V \subseteq Mutexes /\ Cardinality(V) = w.calls
  /\ \A m \in V : LET v == w.sys.mtxtsk[m]
                  IN  v \in Tasks /\ (v = w.task \/ Settled(w.sys, v, up, b))

(* The tasks but t meet what they must, and t will. *)
AllMeet(s, L, E, t, p) ==
  /\ \A u \in L \ {t} : Meets(s, E, u)
  /\ t # NoTask => t \in L /\ Least(p, Wants(s, E, t))

(* After i rounds of a chain that began in s. *)
ChainInv(s, L, E, up, b, i, w) ==
  /\ w.task # NoTask => /\ w.calls = i /\ i <= RECURSION_LEVELS + 1
                        /\ ~w.sys.system_error /\ Aim(w, up, b)
  /\ ~w.sys.system_error => AllMeet(w.sys, L, E, w.task, w.prio)
  /\ Few => /\ ~w.sys.system_error
            /\ w.task # NoTask => \E V : PassedBy(w, V, up, b)
  /\ up => \A v \in Tasks : s.k.priority[v] <= b => w.sys.k.priority[v] = s.k.priority[v]

(* What a round finds, and what it leaves. *)
RoundStarts(x, L, E, up, b, u, p) ==
  /\ SInv(x) /\ L = Alive(x.k) /\ Ownership(x, L, {})
  /\ E \in Extras /\ (~up => E = NoExtra)
  /\ u \in Tasks /\ AllMeet(x, L, E, u, p)
  /\ LET a == x.k.priority[u] IN IF up THEN p = b /\ a > b ELSE a = b /\ p >= b

RoundEnds(x, L, E, up, b, u, p, r) ==
  LET m == x.k.block_obj[u]
  IN  /\ AllMeet(r.sys, L, E, r.task, r.prio)
      /\ r.task # NoTask => /\ Aim(r, up, b) /\ r.task = x.mtxtsk[m] /\ m \in Mutexes
                            /\ ~Settled(x, r.task, up, b) /\ Settled(r.sys, u, up, b)
                            /\ r.task # u

(* A round of a chain, of a task that waits. *)
LEMMA RoundLemma ==
  ASSUME NEW x, NEW L, NEW E, NEW up \in BOOLEAN, NEW b, NEW u, NEW p,
         RoundStarts(x, L, E, up, b, u, p), x.k.state[u] \in PendStates,
         NEW r, SInv(r.sys), Repriced(x, r.sys), r.sys.k.priority = [x.k.priority EXCEPT ![u] = p],
         LET m == x.k.block_obj[u]
         IN  GoesOn(x, m, x.mtxtsk[m], x.k.priority[u], p, r)
  PROVE  RoundEnds(x, L, E, up, b, u, p, r)
  <1> DEFINE m == x.k.block_obj[u]
             v == x.mtxtsk[m]
             s == r.sys
             old == x.k.priority[u]
             a == x.k.priority[v]
             free == m \in x.exists /\ Policy[m] = "INHERIT"
  <1>1. /\ SInv(x) /\ L = Alive(x.k) /\ Ownership(x, L, {}) /\ E \in Extras
        /\ (~up => E = NoExtra) /\ u \in Tasks /\ u # NoTask /\ NoTask \notin L
        /\ L \subseteq Tasks
    BY ConstantsAre DEF RoundStarts, Alive
  <1>2. /\ \A z \in L \ {u} : Meets(x, E, z)
        /\ u \in L /\ Least(p, Wants(x, E, u))
    BY <1>1 DEF RoundStarts, AllMeet
  <1>3. /\ m \in Mutexes /\ (m \in x.exists => v \in L \ {u})
        /\ \A z \in L : u \in Pleaders(x, z) <=> free /\ z = v
    <2> HIDE DEF free
    <2> QED BY <1>1, WhoPleads DEF free
  <1>4. u \notin Pleaders(x, u)
    BY <1>2, <1>3
  <1>5. /\ Meets(s, E, u)
        /\ \A z \in Tasks \ {u} : s.k.priority[z] = x.k.priority[z]
        /\ \A z \in L \ {u} : u \notin Pleaders(x, z) => Meets(s, E, z)
        /\ free => /\ p <= a => Least(p, Wants(s, E, v))
                   /\ a <= p /\ a # old => Meets(s, E, v)
                   /\ \A d : a <= p /\ Least(d, Wants(s, E, v)) => a <= d
    <2>1. \A z \in L \ {u} : z \in Tasks \ {u}
      BY <1>1
    <2> DEFINE q == r.sys
    <2>2. /\ Meets(q, E, u)
          /\ \A z \in Tasks \ {u} : q.k.priority[z] = x.k.priority[z]
          /\ \A z \in Tasks \ {u} : u \notin Pleaders(x, z) /\ Meets(x, E, z) => Meets(q, E, z)
          /\ \A z \in Tasks \ {u} : u \in Pleaders(x, z) /\ Meets(x, E, z) =>
               LET c == x.k.priority[z]
               IN  /\ p <= c => Least(p, Wants(q, E, z))
                   /\ c <= p /\ c # x.k.priority[u] => Meets(q, E, z)
                   /\ \A d : c <= p /\ Least(d, Wants(q, E, z)) => c <= d
      <3>1. Repriced(x, q) /\ q.k.priority = [x.k.priority EXCEPT ![u] = p]
        OBVIOUS
      <3> HIDE DEF q
      <3> QED BY <1>1, <1>2, <1>4, <3>1, RoundExact
    <2> HIDE DEF free
    <2> QED BY <1>2, <1>3, <2>1, <2>2 DEF free
  <1>6. /\ p \in Int /\ old \in Int /\ (free => a \in Int)
        /\ IF up THEN p = b /\ old > b ELSE old = b /\ p >= b
    <2>1. x.k.priority \in [Tasks -> Int] /\ p \in Int
      BY <1>1, <1>2, WantsAre DEF Least
    <2> QED BY <1>1, <1>3, <2>1 DEF RoundStarts
  (* old is among what the owner of the mutex wants. *)
  <1>7. free => Meets(x, E, v) /\ a <= old
    <2>1. ASSUME free PROVE Meets(x, E, v) /\ a <= old
      <3>1. v \in L \ {u} /\ u \in Pleaders(x, v)
        BY <1>3, <2>1
      <3>2. old \in Wants(x, E, v)
        BY <3>1 DEF Wants, Of
      <3> QED BY <1>2, <3>1, <3>2 DEF Meets, Least
    <2> QED BY <2>1
  <1>8. free => s.k.priority[v] = a
    BY <1>1, <1>3, <1>5
  <1>9. s.k.priority[u] = p
    BY <1>1, WantsAre
  <1>10. \A z \in L : z # v => Meets(s, E, z)
    BY <1>3, <1>5
  <1>11. ~free => \A z \in L : Meets(s, E, z)
    BY <1>3, <1>5
  <1>12. \A d : Least(d, Wants(s, E, v)) /\ free /\ a <= p => a <= d
    BY <1>5
  (* What the owner is asked for when nothing is wanted besides. *)
  <1>13. free /\ ~up => /\ Wants(s, E, v) = Pleas(s, v)
                        /\ Least(demanded(s, v), Pleas(s, v)) /\ demanded(s, v) \in Int
    <2> DEFINE q == r.sys
    <2>1. ASSUME free, ~up
          PROVE  /\ Wants(q, E, v) = Pleas(q, v)
                 /\ Least(demanded(q, v), Pleas(q, v)) /\ demanded(q, v) \in Prios
      <3>1. v \in Tasks /\ E = NoExtra /\ SInv(q)
        BY <1>1, <1>3, <2>1
      <3> HIDE DEF q, v
      <3> QED BY <1>1, <3>1, WantsAre
    <2> HIDE DEF Prios
    <2> QED BY <2>1, PriosAre
  <1>14. free /\ a <= p /\ a # old => Meets(s, E, v)
    BY <1>5
  <1>15. free /\ p <= a => Least(p, Wants(s, E, v))
    BY <1>5
  <1> USE DEF GoesOn
  <1>16. CASE r.task = NoTask
    <2>1. ASSUME free PROVE Meets(s, E, v)
      <3>1. ~(a > p) /\ ~(a = old /\ demanded(s, v) # old)
        BY <1>1, <1>3, <1>8, <1>16, <2>1
      <3>2. CASE a # old
        BY <1>6, <1>14, <2>1, <3>1, <3>2
      <3>3. CASE a = old
        <4>1. ~up /\ demanded(s, v) = a
          BY <1>6, <2>1, <3>1, <3>3
        <4> QED BY <1>8, <1>13, <2>1, <4>1 DEF Meets
      <3> QED BY <3>2, <3>3
    <2>2. \A z \in L : Meets(s, E, z)
      BY <1>10, <1>11, <2>1
    <2> QED BY <1>16, <2>2 DEF RoundEnds, AllMeet
  <1>17. CASE free /\ a > p /\ r.task = v /\ r.prio = p
    <2>1. up
      BY <1>6, <1>7, <1>17
    <2>2. Least(p, Wants(s, E, v))
      BY <1>6, <1>15, <1>17
    <2>3. AllMeet(s, L, E, r.task, r.prio)
      BY <1>3, <1>10, <1>17, <2>2 DEF AllMeet
    <2>4. Aim(r, up, b) /\ ~Settled(x, v, up, b) /\ Settled(s, u, up, b)
      BY <1>6, <1>8, <1>9, <1>17, <2>1 DEF Aim, Settled
    <2> QED BY <1>3, <1>17, <2>3, <2>4 DEF RoundEnds
  <1>18. CASE /\ free /\ ~(a > p) /\ a = old /\ demanded(s, v) # old
              /\ r.task = v /\ r.prio = demanded(s, v)
    <2>1. ~up
      BY <1>6, <1>18
    <2>2. Least(demanded(s, v), Wants(s, E, v)) /\ demanded(s, v) \in Int
      BY <1>13, <1>18, <2>1
    <2>3. AllMeet(s, L, E, r.task, r.prio)
      BY <1>3, <1>10, <1>18, <2>2 DEF AllMeet
    <2>4. demanded(s, v) > b /\ a = b
      <3> DEFINE d == demanded(s, v)
      <3>1. a <= d
        BY <1>6, <1>12, <1>18, <2>2
      <3>2. a = old /\ old = b /\ d # old /\ d \in Int /\ a \in Int
        BY <1>6, <1>18, <2>1, <2>2
      <3> HIDE DEF d, a, old
      <3>3. d > b /\ a = b
        BY <3>1, <3>2
      <3> QED BY <3>3 DEF d
    (* If nothing had changed, nothing else would be demanded. *)
    <2>5. p # b
      <3> SUFFICES ASSUME p = b PROVE FALSE
        OBVIOUS
      <3>1. s.k.priority = x.k.priority
        <4>1. x.k.priority \in [Tasks -> Int] /\ p = old
          BY <1>1, <1>6, <2>1, WantsAre
        <4> QED BY <1>1, <4>1
      <3>2. Wants(s, E, v) = Wants(x, E, v) /\ Wants(x, E, v) \subseteq Int
        <4> DEFINE q == r.sys
        <4>1. v \in Tasks /\ Repriced(x, q) /\ q.k.priority = x.k.priority
          BY <1>1, <1>3, <1>18, <3>1
        <4> HIDE DEF q, v
        <4>2. Pleaders(q, v) = Pleaders(x, v) /\ Floor(q, E, v) = Floor(x, E, v)
          BY <1>1, <4>1, RepricedPleads
        <4> QED BY <1>1, <4>1, <4>2, WantsAre DEF Wants, q
      <3>3. Least(a, Wants(x, E, v))
        BY <1>7, <1>18 DEF Meets
      <3> DEFINE d == demanded(s, v)
                 W == Wants(x, E, v)
      <3>4. Least(d, W) /\ Least(a, W) /\ W \subseteq Int
        BY <2>2, <3>2, <3>3
      <3> HIDE DEF d, W, a
      <3>5. d = a
        BY <3>4, LeastUnique
      <3> QED BY <1>18, <3>5 DEF d, a
    <2>6. Aim(r, up, b) /\ ~Settled(x, v, up, b) /\ Settled(s, u, up, b)
      <3>1. a = b /\ p > b /\ ~(a > b) /\ demanded(s, v) >= b
        <4> DEFINE d == demanded(s, v)
        <4>1. d > b /\ d \in Int /\ a = b /\ a \in Int /\ p >= b /\ p \in Int /\ p # b
          BY <1>6, <1>18, <2>1, <2>2, <2>4, <2>5
        <4> HIDE DEF d, a
        <4>2. a = b /\ p > b /\ ~(a > b) /\ d >= b
          BY <4>1
        <4> QED BY <4>2 DEF d
      <3>2. Aim(r, up, b)
        BY <1>8, <1>18, <2>1, <3>1 DEF Aim
      <3>3. ~Settled(x, v, up, b) /\ Settled(s, u, up, b)
        BY <1>9, <2>1, <3>1 DEF Settled
      <3> QED BY <1>18, <3>2, <3>3
    <2> QED BY <1>3, <1>18, <2>3, <2>6 DEF RoundEnds
  <1> QED BY <1>8, <1>16, <1>17, <1>18

(* A round of a chain, of a task that does not wait. *)
LEMMA ReadyRound ==
  ASSUME NEW w \in LoopStates, SInv(w.sys), NEW u \in Tasks, w.task = u,
         w.sys.k.state[u] \notin PendStates, NEW r, r = change_one(w)
  PROVE  /\ r.task = NoTask /\ r.calls = w.calls /\ r.sys.system_error = w.sys.system_error
         /\ w.sys.k.state[u] # "DELETED" =>
              r.sys.k.priority = [w.sys.k.priority EXCEPT ![u] = w.prio]
  <1> DEFINE x == w.sys
             q == [x.k EXCEPT !.priority[u] = w.prio]
             y == [x EXCEPT !.k = q]
  <1>1. u # NoTask /\ x \in SysStates /\ x.k \in KStates
    BY ConstantsAre DEF LoopStates, SysStates
  <1>2. [x EXCEPT !.k.priority[u] = w.prio] = y
    BY <1>1 DEF SysStates, KStates
  <1>3. /\ y.k.priority = [x.k.priority EXCEPT ![u] = w.prio]
        /\ y.system_error = x.system_error
    BY <1>1 DEF SysStates, KStates
  <1>4. r = IF x.k.state[u] = "DELETED" THEN [w EXCEPT !.task = NoTask]
            ELSE [w EXCEPT !.sys = y, !.task = NoTask]
    BY <1>1, <1>2 DEF change_one
  <1> HIDE DEF y
  <1>5. /\ r.task = NoTask /\ r.calls = w.calls
        /\ r.sys = IF x.k.state[u] = "DELETED" THEN x ELSE y
    BY <1>4 DEF LoopStates
  <1> QED BY <1>3, <1>5

LEMMA RepricedOwnership ==
  ASSUME NEW s, SInv(s), NEW r, Repriced(s, r), NEW L, NEW M, Ownership(s, L, M)
  PROVE  Ownership(r, L, M) /\ Alive(r.k) = Alive(s.k)
  <1>1. /\ r.k.state = s.k.state
        /\ \A m \in Mutexes : Waiting(r.k, m) = Waiting(s.k, m)
        /\ r.mtxlist = s.mtxlist /\ r.mtxtsk = s.mtxtsk /\ r.exists = s.exists
    BY DEF Repriced, Reordered, Mutexes
  <1>2. s.exists \subseteq Mutexes
    BY DEF SInv, SysStates
  <1> QED BY <1>1, <1>2 DEF Ownership, Owned, Alive

(* What a chain that changes the priority of t begins with. *)
ChainStarts(s, L, E, up, b, t, p) ==
  /\ SInv(s) /\ L = Alive(s.k) /\ Ownership(s, L, {}) /\ s.levels = 0
  /\ E \in Extras /\ (~up => E = NoExtra) /\ p \in Prios
  /\ t \in Tasks /\ ~s.system_error /\ AllMeet(s, L, E, t, p)
  /\ LET a == s.k.priority[t] IN IF up THEN p = b /\ a > b ELSE a = b /\ p >= b

(* A mutex more that the chain has passed. *)
LEMMA PassOne ==
  ASSUME NEW w, NEW V, NEW up, NEW b, PassedBy(w, V, up, b), IsFiniteSet(Mutexes),
         NEW u, w.task = u, NEW m \in Mutexes, NEW r, r.calls = w.calls + 1,
         r.sys.mtxtsk = w.sys.mtxtsk, r.task = w.sys.mtxtsk[m], r.task \in Tasks \ {u},
         ~Settled(w.sys, r.task, up, b), Settled(r.sys, u, up, b),
         \A v \in Tasks \ {u} : r.sys.k.priority[v] = w.sys.k.priority[v]
  PROVE  PassedBy(r, V \cup {m}, up, b)
  <1>1. IsFiniteSet(V)
    BY FS_Subset DEF PassedBy
  <1>2. m \notin V
    BY DEF PassedBy
  <1>3. Cardinality(V \cup {m}) = Cardinality(V) + 1
    BY <1>1, <1>2, FS_AddElement
  <1>4. ASSUME NEW n \in V
        PROVE  r.sys.mtxtsk[n] \in Tasks /\ Settled(r.sys, r.sys.mtxtsk[n], up, b)
    <2>1. CASE w.sys.mtxtsk[n] = u
      BY <2>1 DEF PassedBy
    <2>2. CASE w.sys.mtxtsk[n] # u
      BY <2>2 DEF PassedBy, Settled
    <2> QED BY <2>1, <2>2
  <1> QED BY <1>3, <1>4 DEF PassedBy

LEMMA ChainStep ==
  ASSUME NEW s, NEW L, NEW E, NEW up \in BOOLEAN, NEW b, NEW t, NEW p,
         ChainStarts(s, L, E, up, b, t, p), NEW i \in Nat \ {0},
         NEW w, LoopInv(s, t, w), ChainInv(s, L, E, up, b, i - 1, w),
         NEW r, r = change_one(w)
  PROVE  ChainInv(s, L, E, up, b, i, r)
  <1> DEFINE u == w.task
             x == w.sys
  <1>1. /\ w \in LoopStates /\ SInv(x) /\ Repriced(s, x) /\ x.levels = w.calls
        /\ u \in Tasks \cup {NoTask} /\ w.calls \in Int /\ w.prio \in Prios
    <2>1. /\ w \in LoopStates /\ SInv(x) /\ Repriced(s, x) /\ x.levels = 0 + w.calls
      BY DEF LoopInv, ChainStarts
    <2>2. u \in Tasks \cup {NoTask} /\ w.calls \in Int /\ w.prio \in Prios
      BY <2>1 DEF LoopStates
    <2> QED BY <2>1, <2>2
  <1>2. /\ SInv(s) /\ L = Alive(s.k) /\ Ownership(s, L, {}) /\ E \in Extras
        /\ (~up => E = NoExtra) /\ L \subseteq Tasks /\ NoTask \notin Tasks
        /\ RECURSION_LEVELS \in Nat /\ s.levels \in Int
    BY ConstantsAre DEF ChainStarts, Alive
  <1>3. Ownership(x, L, {}) /\ L = Alive(x.k)
    BY <1>1, <1>2, RepricedOwnership
  <1>4. CASE u = NoTask
    <2>1. r = w
      BY <1>4 DEF change_one
    <2> QED BY <1>4, <2>1 DEF ChainInv
  <1>5. CASE u # NoTask
    <2>1. u \in Tasks /\ w.calls = i - 1 /\ i - 1 <= RECURSION_LEVELS + 1 /\ ~x.system_error
          /\ Aim(w, up, b) /\ AllMeet(x, L, E, u, w.prio) /\ u \in L
      BY <1>1, <1>5 DEF ChainInv, AllMeet
    <2>2. RoundStarts(x, L, E, up, b, u, w.prio)
      BY <1>1, <1>2, <1>3, <2>1 DEF RoundStarts, Aim
    <2>3. LoopInv(s, t, r)
      BY <1>2, ChangeOneLemma
    <2>4. SInv(r.sys) /\ Repriced(x, r.sys) /\ r.sys.mtxtsk = x.mtxtsk
      <3>1. SInv(r.sys) /\ Repriced(s, r.sys)
        BY <2>3 DEF LoopInv
      <3> QED BY <1>1, <3>1 DEF Repriced, Reordered
    <2>5. x.k.priority \in [Tasks -> Int] /\ w.prio \in Int
      BY <1>1, <1>2, <2>1, WantsAre, PriosAre
    <2>6. ASSUME r.sys.k.priority = [x.k.priority EXCEPT ![u] = w.prio]
          PROVE  /\ \A v \in Tasks \ {u} : r.sys.k.priority[v] = x.k.priority[v]
                 /\ up => \A v \in Tasks : s.k.priority[v] <= b =>
                            r.sys.k.priority[v] = s.k.priority[v]
      <3>1. \A v \in Tasks \ {u} : r.sys.k.priority[v] = x.k.priority[v]
        BY <2>5, <2>6
      <3>2. ASSUME up, s.k.priority[u] <= b PROVE FALSE
        <4>1. x.k.priority[u] = s.k.priority[u] /\ x.k.priority[u] > b
          BY <2>1, <3>2 DEF ChainInv, Aim
        <4>2. b = w.prio
          BY <2>1, <3>2 DEF Aim
        <4> QED BY <2>1, <2>5, <3>2, <4>1, <4>2
      <3>3. up => \A v \in Tasks : s.k.priority[v] <= b => x.k.priority[v] = s.k.priority[v]
        BY DEF ChainInv
      <3> QED BY <3>1, <3>2, <3>3
    <2>7. CASE x.k.state[u] \in PendStates
      <3> DEFINE m == x.k.block_obj[u]
      <3>1. /\ r.sys.k.priority = [x.k.priority EXCEPT ![u] = w.prio]
            /\ \/ x.levels > RECURSION_LEVELS /\ r.task = NoTask /\ r.sys.system_error
               \/ /\ x.levels <= RECURSION_LEVELS
                  /\ r.calls = w.calls + 1 /\ r.sys.system_error = x.system_error
                  /\ GoesOn(x, m, x.mtxtsk[m], x.k.priority[u], w.prio, r)
        BY <1>1, <2>1, <2>7, PendingRound
      <3>2. /\ \A v \in Tasks \ {u} : r.sys.k.priority[v] = x.k.priority[v]
            /\ up => \A v \in Tasks : s.k.priority[v] <= b =>
                       r.sys.k.priority[v] = s.k.priority[v]
        BY <2>6, <3>1
      <3>3. Few => ~(x.levels > RECURSION_LEVELS)
        <4> SUFFICES ASSUME Few PROVE ~(x.levels > RECURSION_LEVELS)
          OBVIOUS
        <4>1. PICK V : PassedBy(w, V, up, b)
          BY <1>5 DEF ChainInv
        <4>2. V \subseteq Mutexes /\ Cardinality(V) = w.calls /\ IsFiniteSet(Mutexes)
          BY <4>1 DEF PassedBy, Few
        <4>3. Cardinality(V) <= Cardinality(Mutexes) /\ Cardinality(Mutexes) \in Nat
          BY <4>2, FS_Subset, FS_CardinalityType
        <4> QED BY <1>1, <1>2, <4>2, <4>3 DEF Few
      <3>4. CASE x.levels > RECURSION_LEVELS /\ r.task = NoTask /\ r.sys.system_error
        BY <3>2, <3>3, <3>4 DEF ChainInv
      <3>5. CASE /\ x.levels <= RECURSION_LEVELS
                 /\ r.calls = w.calls + 1 /\ r.sys.system_error = x.system_error
                 /\ GoesOn(x, m, x.mtxtsk[m], x.k.priority[u], w.prio, r)
        <4>1. RoundEnds(x, L, E, up, b, u, w.prio, r)
          <5>1. LET n == x.k.block_obj[u]
                IN  GoesOn(x, n, x.mtxtsk[n], x.k.priority[u], w.prio, r)
            BY <3>5
          <5> DEFINE q == w.prio
          <5> HIDE DEF u, x, q
          <5> QED BY <2>2, <2>4, <2>7, <3>1, <5>1, RoundLemma DEF q
        <4>2. r.calls = i /\ ~r.sys.system_error /\ i <= RECURSION_LEVELS + 1
          BY <1>1, <1>2, <2>1, <3>5
        <4>3. /\ AllMeet(r.sys, L, E, r.task, r.prio)
              /\ r.task # NoTask => /\ Aim(r, up, b) /\ r.task = x.mtxtsk[m] /\ m \in Mutexes
                                    /\ ~Settled(x, r.task, up, b) /\ Settled(r.sys, u, up, b)
                                    /\ r.task # u
          BY <4>1 DEF RoundEnds
        <4>4. ASSUME Few, r.task # NoTask PROVE \E V : PassedBy(r, V, up, b)
          <5>1. PICK V : PassedBy(w, V, up, b)
            BY <1>5, <4>4 DEF ChainInv
          <5>2. r.task \in Tasks \ {u} /\ IsFiniteSet(Mutexes)
            BY <1>2, <4>3, <4>4 DEF AllMeet, Few
          <5>3. PassedBy(r, V \cup {m}, up, b)
            <6> HIDE DEF m, u
            <6> QED BY <2>4, <3>2, <3>5, <4>3, <4>4, <5>1, <5>2, PassOne DEF u
          <5> QED BY <5>3
        <4> QED BY <3>2, <4>2, <4>3, <4>4 DEF ChainInv
      <3> QED BY <3>1, <3>4, <3>5
    <2>8. CASE x.k.state[u] \notin PendStates
      <3>1. /\ r.task = NoTask /\ r.sys.system_error = x.system_error
            /\ r.sys.k.priority = [x.k.priority EXCEPT ![u] = w.prio]
        <4>1. x.k.state[u] # "DELETED"
          BY <1>3, <2>1 DEF Alive
        <4> QED BY <1>1, <2>1, <2>8, <4>1, ReadyRound
      <3>2. up => \A v \in Tasks : s.k.priority[v] <= b =>
                    r.sys.k.priority[v] = s.k.priority[v]
        BY <2>6, <3>1
      <3>3. AllMeet(r.sys, L, E, r.task, r.prio)
        <4> DEFINE q == r.sys
                   c == w.prio
        <4>1. \A v \in Tasks : u \notin Pleaders(x, v)
          BY <1>1, <1>3, <2>1, <2>8, WhoPleads
        <4>2. Repriced(x, q) /\ q.k.priority = [x.k.priority EXCEPT ![u] = c]
          BY <2>4, <3>1
        <4>3. Least(c, Wants(x, E, u))
          BY <2>1, <1>5 DEF AllMeet
        <4>4. SInv(x) /\ u \in Tasks
          BY <1>1, <2>1
        <4> HIDE DEF q, x, u, c
        <4>5. /\ Meets(q, E, u)
              /\ \A v \in Tasks \ {u} : u \notin Pleaders(x, v) /\ Meets(x, E, v) => Meets(q, E, v)
          BY <1>2, <4>1, <4>2, <4>3, <4>4, RoundExact
        <4>6. \A v \in L : Meets(q, E, v)
          BY <1>2, <2>1, <4>1, <4>5 DEF AllMeet, u, x
        <4> QED BY <3>1, <4>6 DEF AllMeet, q
      <3> QED BY <2>1, <3>1, <3>2, <3>3 DEF ChainInv
    <2> QED BY <2>7, <2>8
  <1> QED BY <1>4, <1>5

(* What a property of the rounds says of the chain. *)
LEMMA ChainEnd ==
  ASSUME NEW s, SInv(s), NEW t \in Tasks, NEW p \in Prios,
         NEW r, r = change_internal_task_priority(s, t, p)
  PROVE  LET last == RECURSION_LEVELS + 2
         IN  \E h : /\ h[0] = LoopState(s, t, p, 0)
                    /\ \A i \in 1 .. last : h[i] = change_one(h[i - 1])
                    /\ \A i \in 0 .. last : LoopInv(s, t, h[i])
                    /\ Alike(h[last].sys, r) /\ r.system_error = h[last].sys.system_error
  <1> DEFINE last == RECURSION_LEVELS + 2
  <1>1. last \in Nat /\ s \in SysStates /\ s.levels \in Int
    BY ConstantsAre DEF SInv, SysStates
  <1>2. PICK h : /\ h[0] = LoopState(s, t, p, 0)
                 /\ \A i \in 1 .. last : h[i] = change_one(h[i - 1])
                 /\ r = [h[last].sys EXCEPT !.levels = @ - h[last].calls]
    BY ChainRounds
  <1> HIDE DEF last
  <1> DEFINE T == {i \in 0 .. last : LoopInv(s, t, h[i])}
             b == LoopState(s, t, p, 0)
  <1>3. 0 \in T
    <2>1. b \in LoopStates /\ b.sys = s /\ b.calls = 0 /\ b.task = t
      BY <1>1 DEF LoopStates, LoopState, SInv
    <2>2. s.levels = s.levels + 0
      BY <1>1
    <2>3. LoopInv(s, t, b)
      <3> HIDE DEF b
      <3> QED BY <2>1, <2>2, RepricedSame DEF LoopInv
    <2> QED BY <1>1, <1>2, <2>3
  <1>4. \A i \in 1 .. last : i - 1 \in T => i \in T
    BY <1>1, <1>2, ChangeOneLemma
  <1>5. \A i \in 0 .. last : i \in T
    <2> HIDE DEF T
    <2> QED BY <1>1, <1>3, <1>4, Rounds
  <1>6. \A i \in 0 .. last : LoopInv(s, t, h[i])
    BY <1>5
  <1> DEFINE x == h[last].sys
             n == x.levels - h[last].calls
  <1>7. x \in SysStates
    BY <1>1, <1>6 DEF LoopInv, SInv
  <1>8. r = [x EXCEPT !.levels = n]
    BY <1>2
  <1> HIDE DEF n, x
  <1>9. Alike(x, r) /\ r.system_error = x.system_error
    BY <1>7, <1>8 DEF SysStates, Alike
  <1> QED BY <1>2, <1>6, <1>9 DEF x, last

(* An error that has been reported stays reported. *)
LEMMA ErrorStays ==
  ASSUME NEW s, SInv(s), s.system_error, NEW t \in Tasks, NEW p \in Prios,
         NEW r, r = change_internal_task_priority(s, t, p)
  PROVE  r.system_error
  <1> DEFINE last == RECURSION_LEVELS + 2
  <1>1. last \in Nat /\ NoTask \notin Tasks
    BY ConstantsAre
  <1>2. PICK h : /\ h[0] = LoopState(s, t, p, 0)
                 /\ \A i \in 1 .. last : h[i] = change_one(h[i - 1])
                 /\ \A i \in 0 .. last : LoopInv(s, t, h[i])
                 /\ Alike(h[last].sys, r) /\ r.system_error = h[last].sys.system_error
    BY ChainEnd
  <1> HIDE DEF last
  <1> DEFINE T == {i \in 0 .. last : h[i].sys.system_error}
  <1>3. 0 \in T
    BY <1>1, <1>2 DEF LoopState
  <1>4. ASSUME NEW i \in 1 .. last, i - 1 \in T PROVE i \in T
    <2> DEFINE w == h[i - 1]
               u == w.task
               q == h[i]
    <2>1. q = change_one(w) /\ LoopInv(s, t, w) /\ w.sys.system_error /\ i \in 0 .. last
      <3>1. i - 1 \in 0 .. last /\ i \in 0 .. last
        BY <1>1
      <3> QED BY <1>2, <1>4, <3>1
    <2> HIDE DEF w, q
    <2>2. w \in LoopStates /\ SInv(w.sys) /\ u \in Tasks \cup {NoTask}
      BY <2>1 DEF LoopInv, LoopStates
    <2>3. CASE u = NoTask
      BY <2>1, <2>3 DEF change_one, q
    <2>4. CASE u \in Tasks /\ w.sys.k.state[u] \in PendStates
      <3>1. q.sys.system_error \/ q.sys.system_error = w.sys.system_error
        BY <2>1, <2>2, <2>4, PendingRound
      <3> QED BY <2>1, <3>1 DEF q
    <2>5. CASE u \in Tasks /\ w.sys.k.state[u] \notin PendStates
      <3>1. q.sys.system_error = w.sys.system_error
        BY <2>1, <2>2, <2>5, ReadyRound
      <3> QED BY <2>1, <3>1 DEF q
    <2> QED BY <2>2, <2>3, <2>4, <2>5
  <1>5. \A i \in 0 .. last : i \in T
    <2> HIDE DEF T
    <2> QED BY <1>1, <1>3, <1>4, Rounds
  <1>6. h[last].sys.system_error
    BY <1>1, <1>5
  <1> QED BY <1>2, <1>6

(* A task that does not wait gets its priority, and that is all. *)
LEMMA ChainStops ==
  ASSUME NEW s, SInv(s), NEW t \in Alive(s.k), s.k.state[t] \notin PendStates, NEW p \in Prios,
         NEW r, r = change_internal_task_priority(s, t, p)
  PROVE  /\ r.k.priority = [s.k.priority EXCEPT ![t] = p]
         /\ r.system_error = s.system_error
  <1> DEFINE last == RECURSION_LEVELS + 2
  <1>1. last \in Nat \ {0} /\ NoTask \notin Tasks /\ t \in Tasks /\ s.k.state[t] # "DELETED"
    BY ConstantsAre DEF Alive
  <1>2. PICK h : /\ h[0] = LoopState(s, t, p, 0)
                 /\ \A i \in 1 .. last : h[i] = change_one(h[i - 1])
                 /\ \A i \in 0 .. last : LoopInv(s, t, h[i])
                 /\ Alike(h[last].sys, r) /\ r.system_error = h[last].sys.system_error
    BY <1>1, ChainEnd
  <1> HIDE DEF last
  <1> DEFINE w == h[0]
             q == h[1]
  <1>3. /\ w \in LoopStates /\ w.sys = s /\ w.task = t /\ w.prio = p
        /\ q = change_one(w)
    <2>1. 0 \in 0 .. last /\ 1 \in 1 .. last /\ 1 - 1 = 0
      BY <1>1
    <2>2. q = change_one(w) /\ w \in LoopStates
      BY <1>2, <2>1 DEF LoopInv
    <2> QED BY <1>2, <2>2 DEF LoopState
  <1> HIDE DEF w, q
  <1>4. /\ q.task = NoTask /\ q.sys.system_error = s.system_error
        /\ q.sys.k.priority = [s.k.priority EXCEPT ![t] = p]
    BY <1>1, <1>3, ReadyRound
  <1> DEFINE T == {i \in 0 .. last : i > 0 => h[i] = q}
  <1>5. 0 \in T
    BY <1>1
  <1>6. ASSUME NEW i \in 1 .. last, i - 1 \in T PROVE i \in T
    <2>1. i \in 0 .. last
      BY <1>1
    <2>2. CASE i = 1
      BY <2>1, <2>2 DEF q
    <2>3. CASE i # 1
      <3>1. h[i - 1] = q
        BY <1>1, <1>6, <2>3
      <3>2. h[i] = change_one(q)
        BY <1>2, <3>1
      <3>3. change_one(q) = q
        BY <1>4 DEF change_one
      <3> QED BY <2>1, <3>2, <3>3
    <2> QED BY <2>2, <2>3
  <1>7. \A i \in 0 .. last : i \in T
    <2>1. last \in Nat
      BY <1>1
    <2> HIDE DEF T
    <2> QED BY <2>1, <1>5, <1>6, Rounds
  <1>8. h[last] = q
    BY <1>1, <1>7
  <1> QED BY <1>2, <1>4, <1>8 DEF Alike

(* A chain leaves every task with what it must meet. *)
ChainGives(s, L, E, up, b, r) ==
  /\ Few => ~r.system_error
  /\ ~r.system_error => \A u \in L : Meets(r, E, u)
  /\ up => \A v \in Tasks : s.k.priority[v] <= b => r.k.priority[v] = s.k.priority[v]

LEMMA ChainExact ==
  ASSUME NEW s, NEW L, NEW E, NEW up \in BOOLEAN, NEW b, NEW t, NEW p,
         ChainStarts(s, L, E, up, b, t, p),
         NEW r, r = change_internal_task_priority(s, t, p)
  PROVE  ChainGives(s, L, E, up, b, r)
  <1> DEFINE last == RECURSION_LEVELS + 2
  <1>1. /\ last \in Nat /\ NoTask \notin Tasks /\ RECURSION_LEVELS \in Nat
        /\ SInv(s) /\ t \in Tasks /\ p \in Prios
    BY ConstantsAre DEF ChainStarts
  <1>2. PICK h : /\ h[0] = LoopState(s, t, p, 0)
                 /\ \A i \in 1 .. last : h[i] = change_one(h[i - 1])
                 /\ \A i \in 0 .. last : LoopInv(s, t, h[i])
                 /\ Alike(h[last].sys, r) /\ r.system_error = h[last].sys.system_error
    BY <1>1, ChainEnd
  <1>0. last = RECURSION_LEVELS + 2
    OBVIOUS
  <1> HIDE DEF last
  <1> DEFINE T == {i \in 0 .. last : ChainInv(s, L, E, up, b, i, h[i])}
             w == h[0]
  <1>3. 0 \in T
    <2>1. w.sys = s /\ w.task = t /\ w.prio = p /\ w.calls = 0
      BY <1>2 DEF LoopState
    <2>2. Few => PassedBy(w, {}, up, b)
      BY <2>1, FS_EmptySet DEF PassedBy
    <2>3. /\ ~s.system_error /\ AllMeet(s, L, E, t, p) /\ Aim(w, up, b)
      BY <2>1 DEF ChainStarts, Aim
    <2> HIDE DEF w
    <2>4. ChainInv(s, L, E, up, b, 0, w)
      BY <1>1, <2>1, <2>2, <2>3 DEF ChainInv
    <2> QED BY <1>1, <2>4 DEF w
  <1>4. ASSUME NEW i \in 1 .. last, i - 1 \in T PROVE i \in T
    <2>1. i \in 0 .. last /\ i - 1 \in 0 .. last /\ i \in Nat \ {0}
      BY <1>1
    <2>2. h[i] = change_one(h[i - 1]) /\ LoopInv(s, t, h[i - 1])
      BY <1>2, <2>1
    <2>3. ChainInv(s, L, E, up, b, i - 1, h[i - 1])
      BY <1>4
    <2>4. ChainInv(s, L, E, up, b, i, h[i])
      BY <2>1, <2>2, <2>3, ChainStep
    <2> QED BY <2>1, <2>4
  <1>5. \A i \in 0 .. last : i \in T
    <2> HIDE DEF T
    <2> QED BY <1>1, <1>3, <1>4, Rounds
  <1> DEFINE z == h[last]
  <1>6. ChainInv(s, L, E, up, b, last, z)
    BY <1>1, <1>5
  <1>7. Alike(z.sys, r) /\ r.system_error = z.sys.system_error
    BY <1>2
  <1> HIDE DEF z
  <1>8. z.task = NoTask
    BY <1>0, <1>1, <1>6 DEF ChainInv
  <1>9. ~r.system_error => \A u \in L : Meets(z.sys, E, u)
    <2>1. L \subseteq Tasks
      BY DEF ChainStarts, Alive
    <2> QED BY <1>1, <1>6, <1>7, <1>8, <2>1 DEF ChainInv, AllMeet
  <1>10. \A u : Meets(z.sys, E, u) => Meets(r, E, u)
    BY <1>7 DEF Alike, Meets, Wants, Floor, Pleaders, Ceilings, Owned
  <1>11. up => \A v \in Tasks : s.k.priority[v] <= b => r.k.priority[v] = s.k.priority[v]
    BY <1>6, <1>7 DEF ChainInv, Alike
  <1>12. Few => ~r.system_error
    BY <1>6, <1>7 DEF ChainInv
  <1> QED BY <1>9, <1>10, <1>11, <1>12 DEF ChainGives

-----------------------------------------------------------------------------
(***************************************************************************)
(* What the services do to priorities.                                     *)
(***************************************************************************)

Meet(s, u) == Meets(s, NoExtra, u)
Want(s, u) == Wants(s, NoExtra, u)

Exact(s, L) == \A u \in L : Meet(s, u)

(* The tasks of L have their priorities, unless the recursion has reported *)
(* an error, which it does not with few mutexes.                           *)
Good(s, L) ==
  /\ s.levels = 0 /\ (s.system_error => ~Few)
  /\ ~s.system_error => Exact(s, L)

LEMMA NoExtraIs == NoExtra \in Extras
  BY DEF NoExtra, Extras

LEMMA WantIs ==
  ASSUME NEW s, SInv(s), NEW u \in Tasks
  PROVE  /\ Want(s, u) = Pleas(s, u) /\ Want(s, u) \subseteq Int
         /\ s.k.priority \in [Tasks -> Int] /\ Pleaders(s, u) \subseteq Tasks
         /\ demanded(s, u) \in Prios /\ Least(demanded(s, u), Want(s, u))
         /\ \A q : q \in Want(s, u) <=>
              \/ q = s.bpriority[u]
              \/ \E m \in Owned(s, u) : Policy[m] = "CEILING" /\ q = Ceiling[m]
              \/ \E m \in Owned(s, u) : /\ Policy[m] = "INHERIT"
                                        /\ \E h \in Waiting(s.k, m) : q = s.k.priority[h]
  <1>1. /\ Want(s, u) = Pleas(s, u) /\ Want(s, u) \subseteq Int
        /\ s.k.priority \in [Tasks -> Int] /\ Pleaders(s, u) \subseteq Tasks
        /\ demanded(s, u) \in Prios /\ Least(demanded(s, u), Want(s, u))
    BY NoExtraIs, WantsAre DEF Want
  <1>2. \A q : q \in Want(s, u) <=>
          q = s.bpriority[u] \/ q \in Ceilings(s, u) \/ q \in Of(s.k.priority, Pleaders(s, u))
    BY DEF Want, Wants, Floor, NoExtra
  <1>3. \A q : q \in Ceilings(s, u) <=>
          \E m \in Owned(s, u) : Policy[m] = "CEILING" /\ q = Ceiling[m]
    BY DEF Ceilings
  <1>4. \A q : q \in Of(s.k.priority, Pleaders(s, u)) <=>
          \E m \in Owned(s, u) : /\ Policy[m] = "INHERIT"
                                 /\ \E h \in Waiting(s.k, m) : q = s.k.priority[h]
    BY DEF Of, Pleaders
  <1> QED BY <1>1, <1>2, <1>3, <1>4

(* The same is asked of u in s and in r. *)
LEMMA SameWant ==
  ASSUME NEW s, NEW r, NEW u, r.bpriority[u] = s.bpriority[u], r.k.priority = s.k.priority,
         Owned(r, u) = Owned(s, u),
         \A m \in Owned(s, u) : Waiting(r.k, m) = Waiting(s.k, m)
  PROVE  Want(r, u) = Want(s, u) /\ (Meet(s, u) <=> Meet(r, u))
  <1>1. Ceilings(r, u) = Ceilings(s, u) /\ Pleaders(r, u) = Pleaders(s, u)
    BY DEF Ceilings, Pleaders
  <1> QED BY <1>1 DEF Want, Meet, Wants, Meets, Floor

(* t gets the priority p that is asked of it. *)
LEMMA ChainGood ==
  ASSUME NEW s, SInv(s), NEW L, L = Alive(s.k), Ownership(s, L, {}), s.levels = 0,
         s.system_error => ~Few, NEW t \in L, NEW p \in Prios, Least(p, Want(s, t)),
         ~s.system_error => \A u \in L \ {t} : Meet(s, u),
         NEW r, r = change_internal_task_priority(s, t, p)
  PROVE  Good(r, L)
  <1>1. t \in Tasks
    BY DEF Alive
  <1>2. r.levels = 0
    BY <1>1, ChainLemma
  <1>3. CASE s.system_error
    BY <1>1, <1>2, <1>3, ErrorStays DEF Good
  <1>4. CASE ~s.system_error
    <2> DEFINE a == s.k.priority[t]
               up == p < a
               b == IF up THEN p ELSE a
    <2>1. a \in Int /\ p \in Int
      BY <1>1, WantIs, PriosAre
    <2>2. t # NoTask
      BY <1>1, ConstantsAre
    <2>3. AllMeet(s, L, NoExtra, t, p)
      BY <1>4, <2>2 DEF AllMeet, Meet, Want
    <2>4. IF up THEN p = b /\ a > b ELSE a = b /\ p >= b
      BY <2>1
    <2>5. up \in BOOLEAN
      OBVIOUS
    <2> HIDE DEF up, b
    <2>6. ChainStarts(s, L, NoExtra, up, b, t, p)
      BY <1>1, <1>4, <2>3, <2>4, NoExtraIs DEF ChainStarts
    <2>7. ChainGives(s, L, NoExtra, up, b, r)
      BY <2>5, <2>6, ChainExact
    <2> QED BY <1>2, <2>7 DEF Good, Exact, Meet, ChainGives
  <1> QED BY <1>3, <1>4

LEMMA AdjustGood ==
  ASSUME NEW s, SInv(s), NEW L, L = Alive(s.k), Ownership(s, L, {}), s.levels = 0,
         s.system_error => ~Few, NEW t \in L,
         ~s.system_error => \A u \in L \ {t} : Meet(s, u), NEW r, r = adjust(s, t)
  PROVE  Good(r, L)
  <1> DEFINE p == demanded(s, t)
  <1>1. t \in Tasks
    BY DEF Alive
  <1>2. p \in Prios /\ Least(p, Want(s, t))
    BY <1>1, WantIs
  <1>3. r = IF p = s.k.priority[t] THEN s ELSE change_internal_task_priority(s, t, p)
    BY DEF adjust
  <1> HIDE DEF p
  <1>4. CASE p = s.k.priority[t]
    <2>1. Meet(s, t) /\ r = s
      BY <1>2, <1>3, <1>4 DEF Meet, Meets, Want
    <2> QED BY <2>1 DEF Good, Exact
  <1>5. CASE p # s.k.priority[t]
    <2>1. r = change_internal_task_priority(s, t, p)
      BY <1>3, <1>5
    <2> QED BY <1>2, <2>1, ChainGood
  <1> QED BY <1>4, <1>5

(* The priority of a task that does not wait is its own affair. *)
LEMMA ReadyExact ==
  ASSUME NEW s, SInv(s), NEW L \in SUBSET Tasks, NEW t \in L, s.k.state[t] \notin PendStates,
         NEW p, Least(p, Want(s, t)), \A u \in L \ {t} : Meet(s, u),
         NEW r, Repriced(s, r), r.k.priority = [s.k.priority EXCEPT ![t] = p]
  PROVE  Exact(r, L)
  <1>1. \A v \in Tasks : t \notin Pleaders(s, v)
    <2>1. \A v \in Tasks : Owned(s, v) \subseteq Mutexes
      BY OwnedAre DEF SInv
    <2>2. \A m \in Mutexes : t \notin Waiting(s.k, m)
      BY WaitingIs DEF SInv, Mutexes
    <2> QED BY <2>1, <2>2 DEF Pleaders
  <1>2. /\ Meets(r, NoExtra, t)
        /\ \A v \in Tasks \ {t} : t \notin Pleaders(s, v) /\ Meets(s, NoExtra, v)
                                    => Meets(r, NoExtra, v)
    BY <1>1, NoExtraIs, RoundExact DEF Want
  <1> QED BY <1>1, <1>2 DEF Exact, Meet

(* t runs at the priority it wants, but for the ceiling of m. *)
ButCeiling(s, m, t) ==
  LET a == s.k.priority[t]
      W == Want(s, t)
  IN  /\ a \in W /\ (Policy[m] = "CEILING" => Ceiling[m] \in W)
      /\ \A q \in W : a <= q \/ (Policy[m] = "CEILING" /\ q = Ceiling[m])

LEMMA CeilingExact ==
  ASSUME NEW s, SInv(s), NEW L \in SUBSET Alive(s.k), NEW t \in L,
         s.k.state[t] \notin PendStates, NEW m \in Mutexes,
         ~s.system_error => ButCeiling(s, m, t) /\ \A u \in L \ {t} : Meet(s, u),
         NEW r, r = raise_to_ceiling(s, m, t)
  PROVE  r.system_error = s.system_error /\ (~s.system_error => Exact(r, L))
  <1> DEFINE a == s.k.priority[t]
             p == Ceiling[m]
             W == Want(s, t)
  <1>1. /\ L \in SUBSET Tasks /\ t \in Tasks /\ a \in Int /\ p \in Prios /\ p \in Int
        /\ W \subseteq Int
    BY ConstantsAre, PriosAre, WantIs DEF Alive
  <1>2. CASE Policy[m] = "CEILING" /\ a > p
    <2>1. r = change_internal_task_priority(s, t, p)
      BY <1>2 DEF raise_to_ceiling
    <2>2. SInv(r) /\ Repriced(s, r)
      BY <1>1, <2>1, ChainLemma
    <2>3. /\ r.k.priority = [s.k.priority EXCEPT ![t] = p]
          /\ r.system_error = s.system_error
      BY <1>1, <2>1, ChainStops
    <2>4. ASSUME ~s.system_error PROVE Exact(r, L)
      <3>1. \A q \in W : p <= q
        BY <1>1, <1>2, <2>4 DEF ButCeiling
      <3>2. Least(p, Want(s, t))
        BY <1>2, <2>4, <3>1 DEF Least, ButCeiling
      <3>3. \A u \in L \ {t} : Meet(s, u)
        BY <2>4
      <3> HIDE DEF p, a, W
      <3> QED BY <1>1, <2>2, <2>3, <3>2, <3>3, ReadyExact
    <2> QED BY <2>3, <2>4
  <1>3. CASE ~(Policy[m] = "CEILING" /\ a > p)
    <2>1. r = s
      BY <1>3 DEF raise_to_ceiling
    <2>2. ASSUME ~s.system_error PROVE Meet(s, t)
      <3>1. \A q \in W : a <= q
        BY <1>1, <1>3, <2>2 DEF ButCeiling
      <3> QED BY <2>2, <3>1 DEF Meet, Meets, Want, Least, ButCeiling
    <2> QED BY <2>1, <2>2 DEF Exact
  <1> QED BY <1>2, <1>3

(* t gets m, and nobody who waits for m pleads for more than t has.        *)
Gains(s, r, m, t, L) ==
  /\ r.k.priority = s.k.priority /\ r.bpriority = s.bpriority
  /\ r.system_error = s.system_error
  /\ Owned(r, t) = Owned(s, t) \cup {m}
  /\ \A u \in L \ {t} : Owned(r, u) = Owned(s, u)
  /\ \A u \in L : \A x \in Owned(s, u) : Waiting(r.k, x) = Waiting(s.k, x)
  /\ Policy[m] = "INHERIT" =>
       \A h \in Waiting(r.k, m) : r.k.priority[t] <= r.k.priority[h]

LEMMA GainExact ==
  ASSUME NEW s, SInv(s), NEW r, SInv(r), NEW L \in SUBSET Alive(r.k), NEW t \in L,
         NEW m \in Mutexes, Gains(s, r, m, t, L), r.k.state[t] \notin PendStates,
         ~s.system_error => Exact(s, L), NEW z, z = raise_to_ceiling(r, m, t)
  PROVE  z.system_error = s.system_error /\ (~s.system_error => Exact(z, L))
  <1>1. t \in Tasks
    BY DEF Alive
  <1>2. ASSUME ~r.system_error PROVE ButCeiling(r, m, t)
    <2> DEFINE a == s.k.priority[t]
               V == Want(s, t)
               W == Want(r, t)
    <2>1. a \in V /\ \A q \in V : a <= q
      BY <1>2 DEF Gains, Exact, Meet, Meets, Want, Least
    <2>2. \A q : q \in V <=>
              \/ q = s.bpriority[t]
              \/ \E x \in Owned(s, t) : Policy[x] = "CEILING" /\ q = Ceiling[x]
              \/ \E x \in Owned(s, t) : /\ Policy[x] = "INHERIT"
                                        /\ \E h \in Waiting(s.k, x) : q = s.k.priority[h]
      BY <1>1, WantIs
    <2>3. \A q : q \in W <=>
              \/ q = r.bpriority[t]
              \/ \E x \in Owned(r, t) : Policy[x] = "CEILING" /\ q = Ceiling[x]
              \/ \E x \in Owned(r, t) : /\ Policy[x] = "INHERIT"
                                        /\ \E h \in Waiting(r.k, x) : q = r.k.priority[h]
      BY <1>1, WantIs
    <2>4. /\ r.bpriority[t] = s.bpriority[t] /\ \A x : x \in Owned(r, t) <=> x \in Owned(s, t) \/ x = m
          /\ r.k.priority = s.k.priority
          /\ \A x \in Owned(s, t) : Waiting(r.k, x) = Waiting(s.k, x)
      BY DEF Gains
    <2> HIDE DEF V, W
    <2>5. \A q : q \in W <=>
              \/ q \in V
              \/ Policy[m] = "CEILING" /\ q = Ceiling[m]
              \/ Policy[m] = "INHERIT" /\ \E h \in Waiting(r.k, m) : q = r.k.priority[h]
      BY <2>2, <2>3, <2>4
    <2>6. a \in W /\ (Policy[m] = "CEILING" => Ceiling[m] \in W)
      BY <2>1, <2>5
    <2>7. \A q \in W : a <= q \/ (Policy[m] = "CEILING" /\ q = Ceiling[m])
      BY <2>1, <2>4, <2>5 DEF Gains
    <2> QED BY <2>4, <2>6, <2>7 DEF ButCeiling, W
  <1>3. ASSUME ~r.system_error, NEW u \in L \ {t} PROVE Meet(r, u)
    <2>1. /\ r.bpriority[u] = s.bpriority[u] /\ r.k.priority = s.k.priority
          /\ Owned(r, u) = Owned(s, u)
          /\ \A x \in Owned(s, u) : Waiting(r.k, x) = Waiting(s.k, x)
      BY DEF Gains
    <2>2. Meet(s, u)
      BY <1>3 DEF Gains, Exact
    <2> QED BY <2>1, <2>2, SameWant
  <1>4. ~r.system_error => ButCeiling(r, m, t) /\ \A u \in L \ {t} : Meet(r, u)
    BY <1>2, <1>3
  <1>5. z.system_error = r.system_error /\ (~r.system_error => Exact(z, L))
    BY <1>4, CeilingExact
  <1> QED BY <1>5 DEF Gains

(* The first task that waits for m, which is in transit, gets it.          *)
LEMMA WakeOwnerExact ==
  ASSUME NEW s, SInv(s), NEW L \in SUBSET Alive(s.k), NEW M, Ownership(s, L, M),
         NEW m \in s.exists, m \in M, NEW h \in L, h \in Waiting(s.k, m),
         \A t \in Waiting(s.k, m) : s.k.priority[h] <= s.k.priority[t],
         ObjectsMatch(s.k), CeilingsKept(s, L),
         ~s.system_error => Exact(s, L), NEW r, r = wake_owner(s, m, h)
  PROVE  r.system_error = s.system_error /\ (~s.system_error => Exact(r, L))
  <1> DEFINE x == s.k
             q == pend_task_wake_up(x, h)
             s1 == [s EXCEPT !.k = q]
             s2 == own(s1, m, h)
             st == "OK"
  <1>1. r = raise_to_ceiling(s2, m, h)
    BY DEF wake_owner
  <1>2. /\ m \in Mutexes /\ s \in SysStates /\ h \in Tasks /\ KInv(x) /\ x \in KStates
        /\ s.exists \subseteq Mutexes /\ L \subseteq Tasks
    BY DEF SInv, SysStates, KInv, Alive
  <1>3. /\ x.state[h] \in PendStates /\ x.state[h] # "DELETED"
        /\ \A y \in Mutexes \ {m} : h \notin Waiting(x, y)
    BY <1>2, WaitingIs DEF PendStates, Mutexes
  <1>4. q = end_wait(x, h, st) /\ st \in Statuses
    BY DEF pend_task_wake_up, Statuses
  <1> HIDE DEF x, q, st
  <1>5. KInv(q) /\ Ended(x, q, {h})
    BY <1>2, <1>3, <1>4, EndWaitLemma
  <1>6. Gentle(x, q)
    BY <1>2, <1>3, <1>4, EndWaitGentle
  <1>7. q.priority = x.priority /\ Alive(q) = Alive(x)
    BY <1>6 DEF Gentle, Fewer
  <1>8. /\ SInv(s1) /\ Ownership(s1, L, M) /\ (NoneAstray(s) => NoneAstray(s1))
        /\ CeilingsKept(s1, L)
        /\ ObjectsMatch(s1.k) /\ Alive(s1.k) = Alive(s.k)
        /\ TickOrder(s.k) => TickOrder(s1.k)
    <2>1. Gentle(s.k, q) /\ s1 = [s EXCEPT !.k = q]
      BY <1>6 DEF x
    <2> HIDE DEF s1
    <2> QED BY <1>2, <1>5, <2>1, GentleKeeps
  <1>9. /\ s1.k = q /\ s1.bpriority = s.bpriority /\ s1.mtxlist = s.mtxlist
        /\ s1.exists = s.exists /\ s1.system_error = s.system_error
    BY <1>2 DEF SysStates
  <1> HIDE DEF s1
  <1>10. h \notin Waiting(s1.k, m)
    BY <1>2, <1>5, <1>9 DEF Ended, Mutexes
  <1>11. SInv(s2) /\ Given(s1, s2, m, h)
    <2>1. m \in M \/ s1.mtxtsk[m] = NoTask
      OBVIOUS
    <2>2. SInv(s1) /\ Ownership(s1, L, M) /\ s2 = own(s1, m, h) /\ m \in s1.exists
      BY <1>8, <1>9
    <2> HIDE DEF s2
    <2> QED BY <1>2, <1>10, <2>1, <2>2, OwnLemma
  <1>12. s2.system_error = s1.system_error
    BY DEF own
  <1> HIDE DEF s2
  <1>13. /\ s2.k = q /\ s2.bpriority = s.bpriority /\ s2.system_error = s.system_error
         /\ Owned(s2, h) = Owned(s, h) \cup {m}
         /\ \A u \in Tasks \ {h} : Owned(s2, u) = Owned(s, u)
    BY <1>9, <1>11, <1>12 DEF Given, Owned
  <1>14. \A u \in L : m \notin Owned(s, u)
    BY <1>2 DEF Ownership
  <1>15. \A u \in L : \A y \in Owned(s, u) : Waiting(q, y) = Waiting(x, y)
    <2>1. \A y \in Mutexes \ {m} : Waiting(q, y) = Waiting(x, y)
      BY <1>3, <1>5 DEF Ended, Mutexes
    <2>2. \A u \in L : Owned(s, u) \subseteq Mutexes
      BY <1>2, OwnedAre
    <2> QED BY <1>14, <2>1, <2>2
  <1>16. \A t \in Waiting(q, m) : q.priority[h] <= q.priority[t]
    BY <1>2, <1>5, <1>7 DEF Ended, Mutexes, x
  <1>17. Gains(s, s2, m, h, L)
    BY <1>2, <1>7, <1>13, <1>15, <1>16 DEF Gains, x
  <1>18. s2.k.state[h] \notin PendStates
    BY <1>5, <1>13 DEF Ended, PendStates
  <1>19. L \in SUBSET Alive(s2.k)
    BY <1>7, <1>13 DEF x
  <1> QED BY <1>1, <1>2, <1>11, <1>17, <1>18, <1>19, GainExact

LEMMA FreeOneExact ==
  ASSUME NEW s, SInv(s), NEW c, NEW L \in SUBSET Alive(s.k), NEW M, MInv(s, c, L, M),
         NEW m \in s.exists, m \in M, Alive(s.k) \subseteq L \cup {s.mtxtsk[m]},
         ~s.system_error => Exact(s, L), NEW r, r = free_one(s, m)
  PROVE  r.system_error = s.system_error /\ (~s.system_error => Exact(r, L))
  <1>1. CASE s.k.block_list[m] = <<>>
    <2>1. r = [s EXCEPT !.mtxtsk[m] = NoTask]
      BY <1>1 DEF free_one
    <2>2. /\ r.k = s.k /\ r.bpriority = s.bpriority /\ r.mtxlist = s.mtxlist
          /\ r.system_error = s.system_error
      BY <2>1 DEF SInv, SysStates
    <2>3. \A u \in L : Meet(s, u) => Meet(r, u)
      BY <2>2, SameWant DEF Owned
    <2> QED BY <2>2, <2>3 DEF Exact
  <1>2. CASE s.k.block_list[m] # <<>>
    <2> DEFINE h == Head(s.k.block_list[m])
    <2>1. m \in Mutexes /\ s.k.block_list[m] \in Seq(Tasks) /\ KInv(s.k)
      BY DEF SInv, SysStates, KInv, KStates, Mutexes
    <2>2. h = s.k.block_list[m][1] /\ h \in Waiting(s.k, m)
      BY <1>2, <2>1, EmptyLemma DEF Waiting
    <2>3. r = wake_owner(s, m, h)
      BY <1>2 DEF free_one, hand_over
    <2>4. \A t \in Waiting(s.k, m) : s.k.priority[h] <= s.k.priority[t]
      <3>1. OrderedBy(s.k.block_list[m], s.k.priority)
        BY <2>1, ConstantsAre DEF SInv, WaitOrder, Mutexes
      <3>2. \A t \in Waiting(s.k, m) : Precedes(s.k.block_list[m], h, t)
        BY <1>2, <2>1, <2>2, HeadPrecedes DEF Waiting
      <3> QED BY <2>2, <3>1, <3>2 DEF OrderedBy, Waiting
    <2> HIDE DEF h
    <2>5. h \in Alive(s.k)
      BY <2>1, <2>2, WaitingIs DEF Alive, PendStates, Mutexes
    <2>6. s.mtxtsk[m] \notin Waiting(s.k, m)
      BY <2>2 DEF MInv, Ownership
    <2>7. h \in L
      BY <2>2, <2>5, <2>6
    <2>8. Ownership(s, L, M) /\ ObjectsMatch(s.k) /\ CeilingsKept(s, L)
      BY DEF MInv
    <2> QED BY <2>2, <2>3, <2>4, <2>7, <2>8, WakeOwnerExact
  <1> QED BY <1>1, <1>2

(* raw_task_free_mutex leaves the other tasks with exact priorities.       *)
FreedExact(s, c, t, gone, w) ==
  /\ FreedSome(s, c, t, gone, w) /\ w.system_error = s.system_error
  /\ ~s.system_error => Exact(w, Alive(s.k) \ {t})

LEMMA FreeNextExact ==
  ASSUME NEW s, SInv(s), NEW c, MInv(s, c, Alive(s.k), {}), NEW t \in Alive(s.k),
         NEW i \in 1 .. Len(s.mtxlist[t]), NEW w,
         FreedExact(s, c, t, First(s.mtxlist[t], i - 1), w),
         NEW r, r = free_one(w, s.mtxlist[t][i])
  PROVE  FreedExact(s, c, t, First(s.mtxlist[t], i), r)
  <1> DEFINE list == s.mtxlist[t]
             m == list[i]
             L == Alive(s.k) \ {t}
             gone == First(list, i - 1)
             M == Owned(s, t) \ gone
  <1>1. /\ list \in Seq(Mutexes) /\ IsInjective(list) /\ t \in Tasks
        /\ L \in SUBSET Tasks /\ s.exists \subseteq Mutexes
    BY DEF SInv, SysStates, MInv, Ownership, Alive
  <1>2. Len(list) \in Nat /\ DOMAIN list = 1 .. Len(list)
    BY <1>1, LenProperties
  <1>3. m \in Owned(s, t) /\ m \notin gone
    BY <1>1, <1>2 DEF IsInjective, First, Owned, ToSet
  <1>4. m \in Mutexes /\ m \in s.exists /\ s.mtxtsk[m] = t
    <2>1. m \in Mutexes
      BY <1>1, <1>2, ElementOfSeq
    <2> QED BY <1>3, <2>1 DEF MInv, Ownership
  <1>5. FreedSome(s, c, t, gone, w) /\ w.system_error = s.system_error
        /\ (~s.system_error => Exact(w, L))
    BY DEF FreedExact
  <1>6. FreedSome(s, c, t, First(list, i), r)
    BY <1>5, FreeNext
  <1>7. /\ SInv(w) /\ MInv(w, c, L, M) /\ w.exists = s.exists /\ Alive(w.k) = Alive(s.k)
        /\ \A x \in Mutexes \ gone : w.mtxtsk[x] = s.mtxtsk[x]
    BY <1>5 DEF FreedSome
  <1>8. r = free_one(w, m)
    OBVIOUS
  <1> HIDE DEF gone, list, m
  <1>9. m \in w.exists /\ m \in M /\ w.mtxtsk[m] = t
    BY <1>3, <1>4, <1>7
  <1>10. Alive(w.k) \subseteq L \cup {w.mtxtsk[m]} /\ L \in SUBSET Alive(w.k)
    BY <1>7, <1>9
  <1> HIDE DEF L, M
  <1>11. r.system_error = w.system_error /\ (~w.system_error => Exact(r, L))
    BY <1>5, <1>7, <1>8, <1>9, <1>10, FreeOneExact
  <1> QED BY <1>5, <1>6, <1>11 DEF FreedExact, L, list

LEMMA FreeMutexExact ==
  ASSUME NEW s, SInv(s), NEW c, MInv(s, c, Alive(s.k), {}), NEW t \in Alive(s.k),
         ~s.system_error => Exact(s, Alive(s.k)),
         NEW r, r = raw_task_free_mutex(s, t)
  PROVE  FreedExact(s, c, t, Owned(s, t), r)
  <1> DEFINE list == s.mtxlist[t]
             N == Len(list)
             G == [i \in 0 .. N |-> {w \in SysStates : FreedExact(s, c, t, First(list, i), w)}]
  <1>1. list \in Seq(Mutexes) /\ s \in SysStates
    BY DEF SInv, SysStates, Alive
  <1>2. N \in Nat /\ DOMAIN list = 1 .. N
    BY <1>1, LenProperties
  <1>3. \A i \in 1 .. N : i \in 0 .. N /\ i - 1 \in 0 .. N
    BY <1>2
  <1>4. G \in [0 .. N -> SUBSET SysStates]
    OBVIOUS
  <1>5. s \in G[0]
    <2>1. First(list, 0) = {}
      BY DEF First
    <2>2. FreedSome(s, c, t, First(list, 0), s)
      BY <2>1, FreeStart
    <2>3. FreedExact(s, c, t, First(list, 0), s)
      BY <2>2 DEF FreedExact, Exact
    <2> QED BY <1>1, <1>2, <2>3
  <1>6. ASSUME NEW i \in 1 .. N, NEW x \in G[i - 1] PROVE free_one(x, list[i]) \in G[i]
    <2>1. FreedExact(s, c, t, First(list, i - 1), x)
      BY <1>3
    <2> DEFINE y == free_one(x, list[i])
    <2>2. FreedExact(s, c, t, First(list, i), y)
      BY <2>1, FreeNextExact
    <2> HIDE DEF y
    <2>3. y \in SysStates
      BY <2>2 DEF FreedExact, FreedSome, SInv
    <2>4. y \in G[i]
      BY <1>3, <2>2, <2>3
    <2> QED BY <2>4 DEF y
  <1>7. r \in G[N]
    <2> HIDE DEF G
    <2>1. N \in Nat
      BY <1>2
    <2> QED BY <1>4, <1>5, <1>6, <2>1, FreeRounds
  <1>8. First(list, N) = ToSet(list)
    BY <1>2 DEF First, ToSet
  <1>9. FreedExact(s, c, t, First(list, N), r)
    BY <1>2, <1>7
  <1> QED BY <1>8, <1>9 DEF Owned

LEMMA AdjustReady ==
  ASSUME NEW s, SInv(s), NEW L \in SUBSET Alive(s.k), NEW t \in L,
         s.k.state[t] \notin PendStates,
         ~s.system_error => \A u \in L \ {t} : Meet(s, u), NEW r, r = adjust(s, t)
  PROVE  r.system_error = s.system_error /\ (~s.system_error => Exact(r, L))
  <1> DEFINE p == demanded(s, t)
  <1>1. t \in Tasks /\ t \in Alive(s.k) /\ L \in SUBSET Tasks
    BY DEF Alive
  <1>2. p \in Prios /\ Least(p, Want(s, t))
    BY <1>1, WantIs
  <1>3. r = IF p = s.k.priority[t] THEN s ELSE change_internal_task_priority(s, t, p)
    BY DEF adjust
  <1> HIDE DEF p
  <1>4. CASE p = s.k.priority[t]
    <2>1. Meet(s, t) /\ r = s
      BY <1>2, <1>3, <1>4 DEF Meet, Meets, Want
    <2> QED BY <2>1 DEF Exact
  <1>5. CASE p # s.k.priority[t]
    <2>1. r = change_internal_task_priority(s, t, p)
      BY <1>3, <1>5
    <2>2. SInv(r) /\ Repriced(s, r)
      BY <1>1, <1>2, <2>1, ChainLemma
    <2>3. /\ r.k.priority = [s.k.priority EXCEPT ![t] = p]
          /\ r.system_error = s.system_error
      BY <1>1, <1>2, <2>1, ChainStops
    <2>4. ASSUME ~s.system_error PROVE Exact(r, L)
      <3>1. \A u \in L \ {t} : Meet(s, u)
        BY <2>4
      <3> QED BY <1>1, <1>2, <2>2, <2>3, <3>1, ReadyExact
    <2> QED BY <2>3, <2>4
  <1> QED BY <1>4, <1>5

(* Nothing changes that priorities depend on. *)
SameDemands(s, r, L) ==
  /\ r.levels = s.levels /\ r.system_error = s.system_error
  /\ r.k.priority = s.k.priority
  /\ \A u \in L : /\ r.bpriority[u] = s.bpriority[u] /\ Owned(r, u) = Owned(s, u)
                  /\ \A m \in Owned(s, u) : Waiting(r.k, m) = Waiting(s.k, m)

LEMMA SameGood ==
  ASSUME NEW s, NEW r, NEW L, SameDemands(s, r, L), Good(s, L)
  PROVE  Good(r, L)
  <1>1. ASSUME NEW u \in L, Meet(s, u) PROVE Meet(r, u)
    <2>1. /\ r.bpriority[u] = s.bpriority[u] /\ r.k.priority = s.k.priority
          /\ Owned(r, u) = Owned(s, u)
          /\ \A x \in Owned(s, u) : Waiting(r.k, x) = Waiting(s.k, x)
      BY DEF SameDemands
    <2> QED BY <1>1, <2>1, SameWant
  <1> QED BY <1>1 DEF Good, Exact, SameDemands

LEMMA NestedGood ==
  ASSUME NEW s, SInv(s), NEW m, NEW n, NEW L, Good(s, L), NEW r, r = [s EXCEPT !.owner_nested[m] = n]
  PROVE  Good(r, L)
  <1>1. /\ r.k = s.k /\ r.bpriority = s.bpriority /\ r.mtxlist = s.mtxlist
        /\ r.levels = s.levels /\ r.system_error = s.system_error
    BY DEF SInv, SysStates
  <1>2. SameDemands(s, r, L)
    BY <1>1 DEF SameDemands, Owned
  <1> QED BY <1>2, SameGood

(* t gives m back. *)
LEMMA GiveBackGood ==
  ASSUME NEW s, NEW c, SysInv(s, c), NEW m \in s.exists, NEW t \in Alive(s.k),
         s.k.state[t] = "RDY", s.mtxtsk[m] = t, c[t] = NoObj, Good(s, Alive(s.k)),
         NEW s1, s1 = release_mutex(s, t, m), NEW r, r = free_one(s1, m)
  PROVE  Good(r, Alive(s.k)) /\ Alive(r.k) = Alive(s.k)
  <1> DEFINE L == Alive(s.k)
             s0 == [s EXCEPT !.mtxlist[t] = list_delete(@, m)]
  <1>1. /\ SInv(s) /\ MInv(s, c, L, {}) /\ TickOrder(s.k) /\ L \in SUBSET Tasks
        /\ t \in Tasks /\ m \in Mutexes /\ t \in L /\ Good(s, L)
    BY SysIs
  <1>2. s1 = adjust(s0, t)
    BY DEF release_mutex
  <1>3. SInv(s0) /\ Released(s, s0, m, t)
    <2>1. \A u \in Tasks : IsInjective(s.mtxlist[u])
      BY <1>1 DEF MInv, Ownership
    <2>2. s0 = [s EXCEPT !.mtxlist[t] = list_delete(@, m)]
      OBVIOUS
    <2> HIDE DEF s0
    <2> QED BY <1>1, <2>1, <2>2, ReleaseFields
  <1>4. s0.system_error = s.system_error
    BY <1>1 DEF SInv, SysStates
  <1> HIDE DEF s0
  <1>5. MInv(s0, c, L, {m})
    <2> HIDE DEF L
    <2> QED BY <1>1, <1>3, ReleasedKeeps
  <1>6. ASSUME ~s0.system_error, NEW u \in L \ {t} PROVE Meet(s0, u)
    <2>1. /\ s0.bpriority[u] = s.bpriority[u] /\ s0.k.priority = s.k.priority
          /\ Owned(s0, u) = Owned(s, u)
          /\ \A x \in Owned(s, u) : Waiting(s0.k, x) = Waiting(s.k, x)
      BY <1>1, <1>3, <1>6 DEF Released
    <2>2. Meet(s, u)
      BY <1>1, <1>4, <1>6 DEF Good, Exact
    <2> QED BY <2>1, <2>2, SameWant
  <1>7. L = Alive(s0.k) /\ s0.k.state[t] \notin PendStates
    BY <1>3 DEF Released, PendStates
  <1>8. s1.system_error = s0.system_error /\ (~s0.system_error => Exact(s1, L))
    <2>1. ~s0.system_error => \A u \in L \ {t} : Meet(s0, u)
      BY <1>6
    <2>2. L \in SUBSET Alive(s0.k)
      BY <1>7
    <2> HIDE DEF L
    <2> QED BY <1>1, <1>2, <1>3, <1>7, <2>1, <2>2, AdjustReady
  <1>9. /\ SInv(s1) /\ Repriced(s0, s1) /\ s1.levels = s0.levels
    BY <1>1, <1>2, <1>3, AdjustLemma
  <1>10. MInv(s1, c, L, {m}) /\ SameOwners(s0, s1)
    <2> HIDE DEF L
    <2> QED BY <1>3, <1>5, <1>9, RepricedStep
  <1>11. s1.mtxtsk = s.mtxtsk /\ s1.exists = s.exists /\ Alive(s1.k) = L
    BY <1>3, <1>7, <1>10 DEF Released, SameOwners
  <1> HIDE DEF L
  <1>12. r.system_error = s1.system_error /\ (~s1.system_error => Exact(r, L))
    <2>1. m \in s1.exists /\ m \in {m} /\ Alive(s1.k) \subseteq L \cup {s1.mtxtsk[m]}
      BY <1>11
    <2>2. L \in SUBSET Alive(s1.k) /\ (~s1.system_error => Exact(s1, L))
      BY <1>8, <1>11
    <2> QED BY <1>9, <1>10, <2>1, <2>2, FreeOneExact
  <1>13. r.levels = s.levels /\ Alive(r.k) = L
    <2>1. m \in s1.exists /\ m \in {m} /\ Alive(s1.k) \subseteq L \cup {s1.mtxtsk[m]}
      BY <1>11
    <2>2. \A u \in L : c[u] = m => s1.mtxtsk[m] # u
      BY <1>1, <1>11, ConstantsAre
    <2>3. Passed(s1, r, m)
      BY <1>1, <1>9, <1>10, <2>1, <2>2, FreeOneLemma
    <2> QED BY <1>3, <1>10, <1>11, <2>3 DEF Passed, SameOwners, Released
  <1>14. Good(r, L)
    BY <1>1, <1>4, <1>8, <1>12, <1>13 DEF Good
  <1> QED BY <1>13, <1>14 DEF L

(* The step of the system leaves every task with its priority. *)
StaysGood == Good(sys', Alive(sys'.k))

LEMMA PutGood ==
  ASSUME SysInv(sys, call), Good(sys, Alive(sys.k)), NEW t \in Tasks, NEW m \in Mutexes,
         raw_mutex_put(t, m)
  PROVE  StaysGood
  <1> DEFINE s0 == [sys EXCEPT !.owner_nested[m] = 0]
             s1 == release_mutex(s0, t, m)
             s2 == free_one(s1, m)
             r  == sys'
             L == Alive(sys.k)
  <1>1. /\ t \in sys.k.ready /\ call[t] = NoObj /\ m \in sys.exists
        /\ sys.mtxtsk[m] = t
        /\ r = IF s1.k.block_list[m] = <<>> THEN [s1 EXCEPT !.mtxtsk[m] = NoTask]
               ELSE [hand_over(s1, m) EXCEPT !.owner_nested[m] = 1]
    BY DEF raw_mutex_put, Runs, k
  <1>2. sys.k.state[t] = "RDY" /\ t \in L
    BY <1>1, SysIs
  <1>3. r = IF s1.k.block_list[m] = <<>> THEN s2 ELSE [s2 EXCEPT !.owner_nested[m] = 1]
    BY <1>1 DEF free_one
  <1> HIDE DEF s1, s2, r
  <1>4. SysInv(s0, call) /\ SameOwners(sys, s0) /\ Good(s0, L)
    <2>1. s0 = [sys EXCEPT !.owner_nested[m] = 0] /\ 0 \in Int /\ SInv(sys)
      BY DEF SysInv
    <2> HIDE DEF s0, L
    <2>2. SysInv(s0, call) /\ SameOwners(sys, s0)
      BY <2>1, NestedStep
    <2>3. Good(s0, L)
      BY <2>1, NestedGood DEF L
    <2> QED BY <2>2, <2>3
  <1>5. s0.k = sys.k /\ s0.mtxtsk = sys.mtxtsk /\ s0.exists = sys.exists
    BY DEF SysInv, SInv, SysStates
  <1> HIDE DEF s0, L
  <1>6. Good(s2, L) /\ SysInv(s2, call) /\ Alive(s2.k) = L
    <2>1. /\ m \in s0.exists /\ t \in Alive(s0.k) /\ s0.k.state[t] = "RDY" /\ s0.mtxtsk[m] = t
          /\ L = Alive(s0.k)
      BY <1>1, <1>2, <1>5 DEF L
    <2>2. s1 = release_mutex(s0, t, m) /\ s2 = free_one(s1, m)
      BY DEF s1, s2
    <2> QED BY <1>1, <1>4, <2>1, <2>2, GiveBack, GiveBackGood
  <1>7. Good(r, L)
    <2>1. CASE r = s2
      BY <1>6, <2>1
    <2>2. CASE r = [s2 EXCEPT !.owner_nested[m] = 1]
      BY <1>6, <2>2, NestedGood DEF SysInv
    <2> QED BY <1>3, <2>1, <2>2
  <1>8. Alive(r.k) = L
    <2>1. r.k = s2.k
      BY <1>3, <1>6 DEF SysInv, SInv, SysStates
    <2> QED BY <1>6, <2>1
  <1> QED BY <1>7, <1>8 DEF StaysGood, r

LEMMA GetNestedGood ==
  ASSUME SysInv(sys, call), Good(sys, Alive(sys.k)), NEW t \in Tasks, NEW m \in Mutexes,
         GetNested(t, m) \/ PutNested(t, m)
  PROVE  StaysGood
  <1> DEFINE r == sys'
  <1>1. \E n : r = [sys EXCEPT !.owner_nested[m] = n]
    BY DEF GetNested, PutNested
  <1>2. PICK n : r = [sys EXCEPT !.owner_nested[m] = n]
    BY <1>1
  <1>3. r.k = sys.k
    BY <1>2 DEF SysInv, SInv, SysStates
  <1> HIDE DEF r
  <1>4. Good(r, Alive(sys.k))
    BY <1>2, NestedGood DEF SysInv
  <1> QED BY <1>3, <1>4 DEF StaysGood, r

LEMMA GetReturnsGood ==
  ASSUME Good(sys, Alive(sys.k)), NEW t \in Tasks, GetReturns(t)
  PROVE  StaysGood
  BY DEF GetReturns, StaysGood

LEMMA GetFreeGood ==
  ASSUME SysInv(sys, call), Good(sys, Alive(sys.k)), NEW t \in Tasks, NEW m \in Mutexes,
         GetFree(t, m)
  PROVE  StaysGood
  <1> DEFINE s1 == own(sys, m, t)
             s2 == [s1 EXCEPT !.owner_nested[m] = 1]
             r  == sys'
             L  == Alive(sys.k)
  <1>1. /\ t \in sys.k.ready /\ call[t] = NoObj /\ m \in sys.exists
        /\ Policy[m] = "CEILING" => sys.bpriority[t] >= Ceiling[m]
        /\ sys.mtxtsk[m] = NoTask
    BY DEF GetFree, MayGet, Runs, k
  <1>2. sys.k.state[t] = "RDY" /\ t \in L
    BY <1>1, SysIs
  <1>3. r = raise_to_ceiling(s2, m, t)
    BY DEF GetFree
  <1>4. s1.system_error = sys.system_error
    BY DEF own
  <1> HIDE DEF s1, r
  <1>5. SysInv(s1, call) /\ Given(sys, s1, m, t)
    BY <1>1, <1>2, OwnStep DEF s1
  <1>6. SysInv(s2, call) /\ SameOwners(s1, s2)
    <2>1. s2 = [s1 EXCEPT !.owner_nested[m] = 1]
      OBVIOUS
    <2>2. 1 \in Int
      OBVIOUS
    <2> HIDE DEF s2
    <2> QED BY <1>5, <2>1, <2>2, NestedStep
  <1>7. /\ s2.k = s1.k /\ s2.bpriority = s1.bpriority /\ s2.mtxlist = s1.mtxlist
        /\ s2.system_error = s1.system_error
    BY <1>5 DEF SysInv, SInv, SysStates
  <1> HIDE DEF s2
  <1>8. s2.k = sys.k /\ s2.levels = sys.levels /\ s2.system_error = sys.system_error
    BY <1>4, <1>5, <1>6, <1>7 DEF Given, SameOwners
  <1>9. Gains(sys, s2, m, t, L)
    <2>1. Waiting(sys.k, m) = {}
      BY <1>1 DEF SysInv, MInv, Ownership
    <2>2. L \subseteq Tasks
      BY DEF Alive
    <2> HIDE DEF L
    <2> QED BY <1>5, <1>7, <1>8, <2>1, <2>2 DEF Gains, Given, Owned
  <1>10. r.system_error = s2.system_error /\ (~s2.system_error => Exact(r, L))
    <2>1. L \in SUBSET Alive(s2.k) /\ s2.k.state[t] \notin PendStates
      BY <1>2, <1>8 DEF PendStates
    <2>2. SInv(sys) /\ SInv(s2) /\ (~sys.system_error => Exact(sys, L))
      BY <1>6 DEF SysInv, Good
    <2> HIDE DEF L
    <2> QED BY <1>2, <1>3, <1>8, <1>9, <2>1, <2>2, GainExact
  <1>11. r.levels = s2.levels /\ Alive(r.k) = L
    <2>1. SInv(s2) /\ Repriced(s2, r) /\ r.levels = s2.levels
      BY <1>3, <1>6, CeilingLemma DEF SysInv
    <2> QED BY <1>8, <2>1 DEF Repriced, Reordered, Alive
  <1> QED BY <1>8, <1>10, <1>11 DEF StaysGood, Good, r

LEMMA ExtraWants ==
  ASSUME NEW s, NEW E, NEW u \in Tasks
  PROVE  Wants(s, E, u) = Want(s, u) \cup E[u]
  BY DEF Wants, Want, Floor, NoExtra

(* What t, when it waits for m, asks of the owner.                         *)
Asks(m, owner, p) ==
  [u \in Tasks |-> IF u = owner /\ Policy[m] = "INHERIT" THEN {p} ELSE {}]

(* t begins to wait for m.                                                 *)
Joins(s, r, m, owner, t, L) ==
  /\ r.k.priority = s.k.priority /\ r.bpriority = s.bpriority
  /\ r.mtxlist = s.mtxlist
  /\ Waiting(r.k, m) = Waiting(s.k, m) \cup {t}
  /\ \A x \in Mutexes \ {m} : Waiting(r.k, x) = Waiting(s.k, x)
  /\ \A u \in L : m \in Owned(s, u) <=> u = owner

LEMMA JoinExact ==
  ASSUME NEW s, SInv(s), NEW r, SInv(r), NEW L \in SUBSET Tasks, NEW m \in Mutexes,
         NEW owner, NEW t, Joins(s, r, m, owner, t, L),
         \A u \in L : Meets(s, Asks(m, owner, s.k.priority[t]), u)
  PROVE  Exact(r, L)
  <1> DEFINE E == Asks(m, owner, s.k.priority[t])
  <1> SUFFICES ASSUME NEW u \in L PROVE Meet(r, u)
    BY DEF Exact
  <1>1. u \in Tasks /\ Owned(s, u) \subseteq Mutexes
    BY OwnedAre DEF SInv
  <1> DEFINE V == Want(s, u)
             W == Want(r, u)
             X == Wants(s, E, u)
  <1>2. X = V \cup E[u] /\ Least(s.k.priority[u], X)
    BY <1>1, ExtraWants DEF Meets
  <1>3. \A q : q \in E[u] <=> u = owner /\ Policy[m] = "INHERIT" /\ q = s.k.priority[t]
    BY <1>1 DEF Asks
  <1>4. \A q : q \in V <=>
          \/ q = s.bpriority[u]
          \/ \E x \in Owned(s, u) : Policy[x] = "CEILING" /\ q = Ceiling[x]
          \/ \E x \in Owned(s, u) : /\ Policy[x] = "INHERIT"
                                    /\ \E h \in Waiting(s.k, x) : q = s.k.priority[h]
    BY <1>1, WantIs
  <1>5. \A q : q \in W <=>
          \/ q = r.bpriority[u]
          \/ \E x \in Owned(r, u) : Policy[x] = "CEILING" /\ q = Ceiling[x]
          \/ \E x \in Owned(r, u) : /\ Policy[x] = "INHERIT"
                                    /\ \E h \in Waiting(r.k, x) : q = r.k.priority[h]
    BY <1>1, WantIs
  <1>6. /\ r.bpriority[u] = s.bpriority[u] /\ Owned(r, u) = Owned(s, u)
        /\ r.k.priority = s.k.priority
        /\ \A h : h \in Waiting(r.k, m) <=> h \in Waiting(s.k, m) \/ h = t
        /\ \A x \in Owned(s, u) \ {m} : Waiting(r.k, x) = Waiting(s.k, x)
        /\ m \in Owned(s, u) <=> u = owner
    BY <1>1 DEF Joins, Owned
  <1> HIDE DEF V, W, X, E
  <1>7. \A q : q \in W <=> q \in V \/ q \in E[u]
    <2>1. ASSUME NEW q
          PROVE  (\E x \in Owned(r, u) : /\ Policy[x] = "INHERIT"
                                         /\ \E h \in Waiting(r.k, x) : q = r.k.priority[h])
                 <=> \/ \E x \in Owned(s, u) : /\ Policy[x] = "INHERIT"
                                               /\ \E h \in Waiting(s.k, x) : q = s.k.priority[h]
                     \/ q \in E[u]
      BY <1>3, <1>6
    <2> QED BY <1>4, <1>5, <1>6, <2>1
  <1>8. W = X
    BY <1>2, <1>7
  <1> QED BY <1>2, <1>6, <1>8 DEF W, Meet, Meets, Want

(* The owner has heard of the wait that t will begin with priority p.      *)
Asked(r, m, owner, t, p, L) ==
  /\ r.system_error => ~Few
  /\ ~r.system_error => /\ \A u \in L : Meets(r, Asks(m, owner, p), u)
                        /\ r.k.priority[t] = p

(* The chain that prepares the wait.                                       *)
LEMMA AskChain ==
  ASSUME NEW s, NEW c, SysInv(s, c), NEW L, L = Alive(s.k), Good(s, L), NEW m \in s.exists,
         NEW t \in L, NEW owner, owner = s.mtxtsk[m], owner \in L \ {t},
         NEW p, p = s.k.priority[t], NEW r,
         r = IF Policy[m] = "INHERIT" /\ p < s.k.priority[owner]
             THEN change_internal_task_priority(s, owner, p) ELSE s
  PROVE  Asked(r, m, owner, t, p, L)
  <1> DEFINE E == Asks(m, owner, p)
             a == s.k.priority[owner]
             up == TRUE
  <1>1. /\ SInv(s) /\ MInv(s, c, Alive(s.k), {}) /\ L \subseteq Tasks /\ t \in Tasks
        /\ owner \in Tasks /\ owner # NoTask
    BY SysIs, ConstantsAre DEF Alive
  <1>2. p \in Prios /\ a \in Int /\ p \in Int
    BY <1>1, PriosAre DEF SInv
  <1>3. E \in Extras
    BY <1>2 DEF Asks, Extras
  <1>4. ASSUME ~s.system_error, NEW u \in L
        PROVE  /\ Least(s.k.priority[u], Want(s, u))
               /\ u # owner \/ Policy[m] # "INHERIT" => Meets(s, E, u)
    <2>1. Least(s.k.priority[u], Want(s, u))
      BY <1>4 DEF Good, Exact, Meet, Meets, Want
    <2>2. Wants(s, E, u) = Want(s, u) \cup E[u]
      BY <1>1, ExtraWants
    <2>3. u # owner \/ Policy[m] # "INHERIT" => E[u] = {}
      BY <1>1 DEF Asks
    <2> QED BY <2>1, <2>2, <2>3 DEF Meets
  <1>5. Wants(s, E, owner) = Want(s, owner) \cup E[owner]
    BY <1>1, ExtraWants
  <1>6. Policy[m] = "INHERIT" => E[owner] = {p}
    BY <1>1 DEF Asks
  <1>7. Want(s, owner) \subseteq Int
    BY <1>1, WantIs
  <1>8. CASE Policy[m] = "INHERIT" /\ p < a
    <2>1. r = change_internal_task_priority(s, owner, p)
      BY <1>8
    <2>2. CASE s.system_error
      <3>1. r.system_error
        BY <1>1, <1>2, <2>1, <2>2, ErrorStays
      <3> QED BY <2>2, <3>1 DEF Good, Asked
    <2>3. CASE ~s.system_error
      <3>1. Least(p, Wants(s, E, owner))
        BY <1>2, <1>4, <1>5, <1>6, <1>7, <1>8, <2>3 DEF Least
      <3>2. \A u \in L \ {owner} : Meets(s, E, u)
        BY <1>4, <2>3
      <3> HIDE DEF E
      <3>3. AllMeet(s, L, E, owner, p)
        BY <3>1, <3>2 DEF AllMeet
      <3>4. /\ up \in BOOLEAN /\ (~up => E = NoExtra)
            /\ IF up THEN p = p /\ a > p ELSE a = p /\ p >= p
        BY <1>2, <1>8
      <3>5. s.levels = 0 /\ Ownership(s, L, {})
        BY <1>1 DEF Good, MInv
      <3> HIDE DEF up
      <3>6. ChainStarts(s, L, E, up, p, owner, p)
        BY <1>1, <1>2, <1>3, <2>3, <3>3, <3>4, <3>5 DEF ChainStarts
      <3>7. ChainGives(s, L, E, up, p, r)
        BY <2>1, <3>4, <3>6, ChainExact
      <3>8. r.k.priority[t] = p
        BY <1>1, <1>2, <3>7 DEF ChainGives, up
      <3> QED BY <3>7, <3>8 DEF ChainGives, E, Asked
    <2> QED BY <2>2, <2>3
  <1>9. CASE ~(Policy[m] = "INHERIT" /\ p < a)
    <2>1. r = s
      BY <1>9
    <2>2. ASSUME ~s.system_error, NEW u \in L PROVE Meets(s, E, u)
      <3>1. CASE u # owner \/ Policy[m] # "INHERIT"
        BY <1>4, <2>2, <3>1
      <3>2. CASE u = owner /\ Policy[m] = "INHERIT"
        <4>1. a \in Want(s, owner) /\ \A q \in Want(s, owner) : a <= q
          BY <1>4, <2>2, <3>2 DEF Least
        <4>2. a <= p
          BY <1>2, <1>9, <3>2
        <4> HIDE DEF E, a
        <4>3. Least(a, Wants(s, E, owner))
          BY <1>5, <1>6, <3>2, <4>1, <4>2 DEF Least
        <4> QED BY <3>2, <4>3 DEF Meets, a
      <3> QED BY <3>1, <3>2
    <2> QED BY <1>1, <2>1, <2>2 DEF Good, Asked
  <1> QED BY <1>8, <1>9

LEMMA PendJoins ==
  ASSUME NEW s, KInv(s), WaitOrder(s), TickOrder(s), NEW m \in Mutexes, NEW t \in Tasks,
         s.state[t] = "RDY", NEW timeout \in 1 .. TICKS - 1 \cup {FOREVER},
         NEW r, r = raw_pend_object(s, m, t, timeout)
  PROVE  /\ r.priority = s.priority /\ r \in KStates
         /\ Waiting(r, m) = Waiting(s, m) \cup {t}
         /\ \A x \in Mutexes \ {m} : Waiting(r, x) = Waiting(s, x)
  <1>1. /\ timeout \in Int /\ timeout # 0 /\ TICKS \in Nat \ {0, 1} /\ TICKS \in Nat \ {0}
        /\ m \in Objects
    BY ConstantsAre DEF FOREVER, Mutexes
  <1>2. /\ KInv(r) /\ OthersKept(s, r, t)
        /\ r.state[t] \in PendStates /\ r.block_obj[t] = m
    BY <1>1, PendLemma
  <1>3. r.priority = s.priority
    BY <1>1, PendOrder
  <1>4. \A x \in Mutexes :
          /\ Waiting(r, x) = {u \in Tasks : r.state[u] \in PendStates /\ r.block_obj[u] = x}
          /\ Waiting(s, x) = {u \in Tasks : s.state[u] \in PendStates /\ s.block_obj[u] = x}
    BY <1>2, WaitingIs DEF Mutexes
  <1>5. s.state[t] \notin PendStates
    BY DEF PendStates
  <1>6. \A u \in Tasks \ {t} : r.state[u] = s.state[u] /\ r.block_obj[u] = s.block_obj[u]
    BY <1>2 DEF OthersKept
  <1>7. \A x \in Mutexes, u \in Tasks :
          u \in Waiting(r, x) <=> u \in Waiting(s, x) \/ (x = m /\ u = t)
    BY <1>2, <1>4, <1>5, <1>6
  <1>8. \A x \in Mutexes : Waiting(r, x) \subseteq Tasks /\ Waiting(s, x) \subseteq Tasks
    BY <1>4
  <1> QED BY <1>2, <1>3, <1>7, <1>8 DEF KInv

LEMMA GetBlocksGood ==
  ASSUME SysInv(sys, call), Good(sys, Alive(sys.k)), NEW t \in Tasks, NEW m \in Mutexes,
         NEW timeout \in Timeouts, GetBlocks(t, m, timeout)
  PROVE  StaysGood
  <1> DEFINE owner == sys.mtxtsk[m]
             p  == sys.k.priority[t]
             s1 == IF Policy[m] = "INHERIT" /\ p < sys.k.priority[owner]
                   THEN change_internal_task_priority(sys, owner, p) ELSE sys
             q  == raw_pend_object(s1.k, m, t, timeout)
             r  == sys'
             L  == Alive(sys.k)
  <1>1. /\ t \in sys.k.ready /\ m \in sys.exists
        /\ owner \notin {NoTask, t} /\ r = [s1 EXCEPT !.k = q]
    BY DEF GetBlocks, MayGet, Runs, k
  <1>2. SysInv(sys', call') /\ SameOwners(sys, sys')
    BY GetBlocksStep
  <1>3. /\ sys.k.state[t] = "RDY" /\ t \in L /\ SInv(sys) /\ TickOrder(sys.k)
        /\ MInv(sys, call, Alive(sys.k), {}) /\ SInv(r)
    BY <1>1, <1>2, SysIs
  <1>4. owner \in L \ {t} /\ owner \in Tasks /\ p \in Prios
    <2>1. owner \in L \cup {NoTask}
      BY <1>1, <1>3 DEF MInv, Ownership
    <2> QED BY <1>1, <1>3, <2>1 DEF SInv, Alive
  <1>5. Asked(s1, m, owner, t, p, L)
    <2>1. /\ L = Alive(sys.k) /\ owner = sys.mtxtsk[m] /\ p = sys.k.priority[t]
          /\ s1 = IF Policy[m] = "INHERIT" /\ p < sys.k.priority[owner]
                  THEN change_internal_task_priority(sys, owner, p) ELSE sys
          /\ Good(sys, L) /\ SysInv(sys, call)
      OBVIOUS
    <2> HIDE DEF s1, L, owner, p
    <2> QED BY <1>1, <1>3, <1>4, <2>1, AskChain
  <1>6. /\ SInv(s1) /\ Repriced(sys, s1) /\ s1.levels = sys.levels
    <2> HIDE DEF owner, p
    <2>1. s1 = change_internal_task_priority(sys, owner, p) \/ s1 = sys
      OBVIOUS
    <2> HIDE DEF s1
    <2>2. ASSUME s1 = change_internal_task_priority(sys, owner, p)
          PROVE  SInv(s1) /\ Repriced(sys, s1) /\ s1.levels = sys.levels
      BY <1>3, <1>4, <2>2, ChainLemma
    <2> QED BY <1>3, <2>1, <2>2, RepricedSame
  <1> HIDE DEF s1, q, r
  <1>7. MInv(s1, call, L, {}) /\ SameOwners(sys, s1)
    <2> HIDE DEF L
    <2>1. MInv(sys, call, L, {})
      BY <1>3 DEF L
    <2> QED BY <1>3, <1>6, <2>1, RepricedStep
  <1>8. /\ q.priority = s1.k.priority /\ q \in KStates
        /\ Waiting(q, m) = Waiting(s1.k, m) \cup {t}
        /\ \A x \in Mutexes \ {m} : Waiting(q, x) = Waiting(s1.k, x)
    <2>1. KInv(s1.k) /\ WaitOrder(s1.k) /\ TickOrder(s1.k) /\ s1.k.state[t] = "RDY"
      BY <1>3, <1>6, <1>7 DEF SInv, SameOwners, Repriced, Reordered
    <2>2. timeout \in 1 .. TICKS - 1 \cup {FOREVER}
      BY MutexAssumption
    <2> QED BY <2>1, <2>2, PendJoins DEF q
  <1>9. /\ r.k = q /\ r.bpriority = s1.bpriority /\ r.mtxlist = s1.mtxlist
        /\ r.levels = s1.levels /\ r.system_error = s1.system_error
    BY <1>1, <1>6 DEF SInv, SysStates
  <1>10. Joins(s1, r, m, owner, t, L)
    <2>1. \A u \in L : m \in Owned(s1, u) <=> u = owner
      <3>1. s1.mtxtsk[m] = owner /\ m \in s1.exists
        BY <1>1, <1>7 DEF SameOwners
      <3> HIDE DEF L, owner
      <3> QED BY <1>7, <3>1 DEF MInv, Ownership
    <2> HIDE DEF L, owner
    <2> QED BY <1>8, <1>9, <2>1 DEF Joins
  <1>11. ~r.system_error => Exact(r, L)
    <2>1. ~s1.system_error => \A u \in L : Meets(s1, Asks(m, owner, s1.k.priority[t]), u)
      BY <1>5 DEF Asked
    <2>2. L \in SUBSET Tasks
      BY DEF Alive
    <2> HIDE DEF L, owner
    <2> QED BY <1>3, <1>6, <1>9, <1>10, <2>1, <2>2, JoinExact
  <1>12. Alive(r.k) = L /\ r.levels = 0
    BY <1>2, <1>6, <1>9 DEF SameOwners, r, Good
  <1> QED BY <1>5, <1>9, <1>11, <1>12 DEF StaysGood, Good, Asked, r

(* t waits for o no longer, and did not wait for anything else.            *)
Abandons(s, r, t, o) ==
  /\ r.levels = s.levels /\ r.system_error = s.system_error
  /\ r.k.priority = s.k.priority /\ r.bpriority = s.bpriority /\ r.mtxlist = s.mtxlist
  /\ \A x \in Mutexes : /\ Waiting(r.k, x) = Waiting(s.k, x) \ {t}
                        /\ t \in Waiting(s.k, x) => x = o

(* Only the owner of o may find that its priority is too high.             *)
LEMMA AbandonExact ==
  ASSUME NEW s, SInv(s), NEW r, SInv(r), NEW t, NEW o, Abandons(s, r, t, o),
         NEW u \in Tasks, Meet(s, u),
         o \in Owned(s, u) /\ Policy[o] = "INHERIT" => s.k.priority[u] # s.k.priority[t]
  PROVE  Meet(r, u)
  <1> DEFINE V == Want(s, u)
             W == Want(r, u)
             a == s.k.priority[u]
  <1>1. Owned(s, u) \subseteq Mutexes /\ a \in V /\ \A q \in V : a <= q
    BY OwnedAre DEF SInv, Meet, Meets, Want, Least
  <1>2. \A q : q \in V <=>
          \/ q = s.bpriority[u]
          \/ \E x \in Owned(s, u) : Policy[x] = "CEILING" /\ q = Ceiling[x]
          \/ \E x \in Owned(s, u) : /\ Policy[x] = "INHERIT"
                                    /\ \E h \in Waiting(s.k, x) : q = s.k.priority[h]
    BY WantIs
  <1>3. \A q : q \in W <=>
          \/ q = r.bpriority[u]
          \/ \E x \in Owned(r, u) : Policy[x] = "CEILING" /\ q = Ceiling[x]
          \/ \E x \in Owned(r, u) : /\ Policy[x] = "INHERIT"
                                    /\ \E h \in Waiting(r.k, x) : q = r.k.priority[h]
    BY WantIs
  <1>4. /\ r.bpriority[u] = s.bpriority[u] /\ Owned(r, u) = Owned(s, u)
        /\ r.k.priority = s.k.priority
        /\ \A x \in Owned(s, u) :
             /\ \A h : h \in Waiting(r.k, x) <=> h \in Waiting(s.k, x) /\ h # t
             /\ t \in Waiting(s.k, x) => x = o
    BY <1>1 DEF Abandons, Owned
  <1> HIDE DEF V, W
  <1>5. W \subseteq V
    BY <1>2, <1>3, <1>4
  <1>6. a \in W
    <2>1. CASE a = s.bpriority[u]
      BY <1>3, <1>4, <2>1
    <2>2. CASE \E x \in Owned(s, u) : Policy[x] = "CEILING" /\ a = Ceiling[x]
      BY <1>3, <1>4, <2>2
    <2>3. CASE \E x \in Owned(s, u) : /\ Policy[x] = "INHERIT"
                                      /\ \E h \in Waiting(s.k, x) : a = s.k.priority[h]
      <3>1. PICK x \in Owned(s, u) : /\ Policy[x] = "INHERIT"
                                     /\ \E h \in Waiting(s.k, x) : a = s.k.priority[h]
        BY <2>3
      <3>2. PICK h \in Waiting(s.k, x) : a = s.k.priority[h]
        BY <3>1
      <3>3. h # t
        BY <1>4, <3>1, <3>2
      <3>4. h \in Waiting(r.k, x) /\ a = r.k.priority[h]
        BY <1>4, <3>2, <3>3
      <3> QED BY <1>3, <1>4, <3>1, <3>4
    <2> QED BY <1>1, <1>2, <2>1, <2>2, <2>3
  <1> QED BY <1>1, <1>4, <1>5, <1>6 DEF W, Meet, Meets, Want, Least

(* mutex_state_change puts that right.                                     *)
LEMMA TellGood ==
  ASSUME NEW s, SInv(s), NEW x, SInv(x), NEW t \in Tasks, NEW o \in Mutexes,
         Abandons(s, x, t, o), NEW L, L = Alive(x.k), Good(s, L), Ownership(x, L, {}),
         x.mtxtsk[o] \in L, NEW r, r = mutex_state_change(x, t, o)
  PROVE  Good(r, L)
  <1> DEFINE v == x.mtxtsk[o]
  <1>1. /\ x.levels = 0 /\ (x.system_error => ~Few) /\ x.system_error = s.system_error
        /\ x.k.priority = s.k.priority /\ L \subseteq Tasks
    BY DEF Abandons, Good, Alive
  <1>2. ASSUME ~x.system_error, NEW u \in L,
               ~(o \in x.exists /\ u = v /\ Policy[o] = "INHERIT" /\ x.k.priority[v] = x.k.priority[t])
        PROVE  Meet(x, u)
    <2>1. Meet(s, u) /\ u \in Tasks
      BY <1>1, <1>2 DEF Good, Exact
    <2>2. o \in Owned(s, u) => o \in x.exists /\ u = v
      <3>1. o \in Owned(s, u) <=> o \in Owned(x, u)
        BY DEF Abandons, Owned
      <3> QED BY <1>2, <3>1 DEF Ownership
    <2>3. o \in Owned(s, u) /\ Policy[o] = "INHERIT" => s.k.priority[u] # s.k.priority[t]
      BY <1>1, <1>2, <2>2
    <2> QED BY <2>1, <2>3, AbandonExact
  <1>3. CASE o \in x.exists /\ Policy[o] = "INHERIT" /\ x.k.priority[v] = x.k.priority[t]
    <2>1. r = adjust(x, v)
      BY <1>3 DEF mutex_state_change
    <2>2. ~x.system_error => \A u \in L \ {v} : Meet(x, u)
      BY <1>2
    <2> HIDE DEF v
    <2>3. v \in L
      BY DEF v
    <2> QED BY <1>1, <2>1, <2>2, <2>3, AdjustGood
  <1>4. CASE ~(o \in x.exists /\ Policy[o] = "INHERIT" /\ x.k.priority[v] = x.k.priority[t])
    <2>1. r = x
      BY <1>4 DEF mutex_state_change
    <2>2. ~x.system_error => Exact(x, L)
      BY <1>2, <1>4 DEF Exact
    <2> QED BY <1>1, <2>1, <2>2 DEF Good
  <1> QED BY <1>3, <1>4

(* t waits no longer, and the owner of what it waited for is told.         *)
LEMMA GiveUpGood ==
  ASSUME NEW s, SInv(s), NEW c, MInv(s, c, Alive(s.k), {}), NEW t \in Alive(s.k),
         Good(s, Alive(s.k)),
         NEW q, KInv(q), Gentle(s.k, q), Calm(s.k, q, Getting(c)),
         \A x \in Mutexes : Waiting(q, x) = Waiting(s.k, x) \ {t},
         NEW r, r = LET s1 == [s EXCEPT !.k = q]
                        o  == s.k.block_obj[t]
                    IN  IF o = NoObj THEN s1 ELSE mutex_state_change(s1, t, o)
  PROVE  Good(r, Alive(s.k))
  <1> DEFINE s1 == [s EXCEPT !.k = q]
             o == s.k.block_obj[t]
             L == Alive(s.k)
  <1>1. /\ SInv(s1) /\ MInv(s1, c, L, {}) /\ SameOwners(s, s1) /\ s1.k = q
    <2> HIDE DEF s1
    <2>1. s1 = [s EXCEPT !.k = q]
      BY DEF s1
    <2>2. /\ SInv(s1) /\ MInv(s1, c, Alive(s.k), {}) /\ SameOwners(s, s1)
          /\ s1.k = q
      BY <2>1, GentleStep
    <2> QED BY <2>2
  <1>2. r = IF o = NoObj THEN s1 ELSE mutex_state_change(s1, t, o)
    OBVIOUS
  <1>3. o # NoObj => o \in s.exists /\ s.mtxtsk[o] \in Tasks
    BY OwnerExists
  <1>4. s.exists \subseteq Mutexes /\ t \in Tasks /\ NoObj \notin Mutexes /\ KInv(s.k) /\ NoTask \notin Tasks
    BY ConstantsAre DEF SInv, SysStates, Alive
  <1>5. Abandons(s, s1, t, o)
    <2>1. /\ s1.levels = s.levels /\ s1.system_error = s.system_error
          /\ s1.bpriority = s.bpriority /\ s1.mtxlist = s.mtxlist
      BY DEF SInv, SysStates
    <2>2. q.priority = s.k.priority
      BY DEF Gentle, Fewer
    <2>3. \A x \in Mutexes : t \in Waiting(s.k, x) => x = o
      BY <1>4, WaitingIs DEF Mutexes
    <2> HIDE DEF s1, o
    <2> QED BY <1>1, <2>1, <2>2, <2>3 DEF Abandons
  <1>6. L = Alive(s1.k) /\ Good(s, L) /\ Ownership(s1, L, {})
    BY <1>1 DEF SameOwners, MInv
  <1>7. o # NoObj => s1.mtxtsk[o] \in L /\ o \in Mutexes
    <2> HIDE DEF s1, L, o
    <2>1. ASSUME o # NoObj PROVE s1.mtxtsk[o] \in L \cup {NoTask}
      BY <1>1, <1>3, <1>6, <2>1 DEF Ownership, SameOwners
    <2> QED BY <1>1, <1>3, <1>4, <2>1 DEF SameOwners
  <1> HIDE DEF s1, o, L
  <1>8. CASE o = NoObj
    <2>1. \A u \in L : \A x \in Owned(s, u) : Waiting(s1.k, x) = Waiting(s.k, x)
      <3>1. \A u \in L : Owned(s, u) \subseteq Mutexes
        BY OwnedAre DEF SInv, L, Alive
      <3>2. \A x \in Mutexes : t \notin Waiting(s.k, x)
        BY <1>4, <1>5, <1>8 DEF Abandons
      <3> QED BY <1>5, <3>1, <3>2 DEF Abandons
    <2>2. SameDemands(s, s1, L)
      BY <1>5, <2>1 DEF Abandons, SameDemands, Owned
    <2> QED BY <1>2, <1>6, <1>8, <2>2, SameGood DEF L
  <1>9. CASE o # NoObj
    <2>1. Good(r, L)
      BY <1>1, <1>2, <1>4, <1>5, <1>6, <1>7, <1>9, TellGood
    <2> QED BY <2>1 DEF L
  <1> QED BY <1>8, <1>9

LEMMA OutOfLists ==
  ASSUME NEW s, KInv(s), NEW r, KInv(r), NEW t \in Tasks, OthersKept(s, r, t),
         r.state[t] \notin PendStates
  PROVE  \A x \in Mutexes : Waiting(r, x) = Waiting(s, x) \ {t}
  <1>1. \A x \in Mutexes :
          /\ Waiting(r, x) = {u \in Tasks : r.state[u] \in PendStates /\ r.block_obj[u] = x}
          /\ Waiting(s, x) = {u \in Tasks : s.state[u] \in PendStates /\ s.block_obj[u] = x}
    BY WaitingIs DEF Mutexes
  <1>2. \A u \in Tasks \ {t} : r.state[u] = s.state[u] /\ r.block_obj[u] = s.block_obj[u]
    BY DEF OthersKept
  <1>3. \A x \in Mutexes, u \in Tasks : u \in Waiting(r, x) <=> u \in Waiting(s, x) /\ u # t
    BY <1>1, <1>2
  <1> QED BY <1>1, <1>3

LEMMA AbortGood ==
  ASSUME SysInv(sys, call), Good(sys, Alive(sys.k)), NEW t \in Tasks, raw_task_wait_abort(t)
  PROVE  StaysGood
  <1> DEFINE x == sys.k
             I == Getting(call)
             q == wait_abort(x, t)
             r == sys'
  <1>1. /\ KInv(x) /\ \A u \in Tasks \ I : x.state[u] \notin IdleStates
        /\ SInv(sys) /\ MInv(sys, call, Alive(x), {}) /\ TickOrder(x)
    BY SysIs, SomeIdle
  <1>2. /\ x.state[t] \notin {"RDY", "DELETED"}
        /\ r = LET s1 == [sys EXCEPT !.k = q]
                   o  == x.block_obj[t]
               IN  IF o = NoObj THEN s1 ELSE mutex_state_change(s1, t, o)
    BY DEF raw_task_wait_abort, k
  <1>3. t \in Alive(x)
    BY <1>2 DEF Alive
  <1> HIDE DEF x, I, q, r
  <1>4. /\ KInv(q) /\ Calm(x, q, I) /\ Gentle(x, q)
        /\ OthersKept(x, q, t) /\ q.state[t] = "RDY"
    BY <1>1, <1>2, AbortCalm DEF q
  <1>5. \A y \in Mutexes : Waiting(q, y) = Waiting(x, y) \ {t}
    BY <1>1, <1>4, OutOfLists DEF PendStates
  <1>6. Good(r, Alive(x))
    BY <1>1, <1>2, <1>3, <1>4, <1>5, GiveUpGood DEF x, I
  <1>7. Alive(r.k) = Alive(x)
    BY AbortStep DEF SameOwners, r, x
  <1> QED BY <1>6, <1>7 DEF StaysGood, r

(* Each wait that times out leaves the tasks with their priorities.        *)
TickedExact(s, c, gone, w) == TickedSome(s, c, gone, w) /\ Good(w, Alive(s.k))

LEMMA TickNextExact ==
  ASSUME NEW s, NEW c, NEW gone, NEW w, TickedExact(s, c, gone, w),
         NEW t \in ToSet(s.k.tick_head) \ gone, NEW r, r = Expire(w, t)
  PROVE  TickedExact(s, c, gone \cup {t}, r)
  <1> DEFINE x == w.k
             q == expire(x, t)
  <1>0. TickedSome(s, c, gone, w)
    BY DEF TickedExact
  <1>1. /\ SInv(w) /\ MInv(w, c, Alive(x), {}) /\ KInv(x) /\ Alive(x) = Alive(s.k)
        /\ ToSet(x.tick_head) = ToSet(s.k.tick_head) \ gone /\ Good(w, Alive(x))
    BY DEF TickedExact, TickedSome, SInv
  <1>2. t \in ToSet(x.tick_head) /\ x.tick_head \in Seq(Tasks)
    BY <1>1 DEF KInv, KStates
  <1>3. t \in Tasks /\ x.state[t] \in TickStates /\ t \in Alive(x)
    <2>1. t \in Tasks
      BY <1>2, EmptyLemma
    <2> QED BY <1>1, <1>2, <2>1 DEF KInv, StateMatchesListsIn, TickStates, Alive
  <1> HIDE DEF x
  <1>4. KInv(q) /\ Ended(x, q, {t}) /\ Gentle(x, q)
    BY <1>1, <1>3, ExpireLemma
  <1>5. Calm(x, q, Getting(c))
    <2>1. /\ c \in [Tasks -> Mutexes \cup {NoObj}]
          /\ \A u \in Tasks : x.state[u] \in IdleStates => c[u] = NoObj
      BY <1>1 DEF MInv, CallsMatch, x
    <2> HIDE DEF q
    <2>2. q = expire(x, t)
      BY DEF q
    <2> QED BY <1>1, <1>3, <2>1, <2>2, ExpireIsCalm
  <1>6. r = LET s1 == [w EXCEPT !.k = q]
                o  == w.k.block_obj[t]
            IN  IF o = NoObj THEN s1 ELSE mutex_state_change(s1, t, o)
    BY DEF Expire, x
  <1>7. \A y \in Mutexes : Waiting(q, y) = Waiting(x, y) \ {t}
    BY <1>4 DEF Ended, Mutexes
  <1> HIDE DEF q
  <1>8. Good(r, Alive(x))
    BY <1>1, <1>3, <1>4, <1>5, <1>6, <1>7, GiveUpGood DEF x
  <1>9. TickedSome(s, c, gone \cup {t}, r)
    BY <1>0, TickNext
  <1> QED BY <1>1, <1>8, <1>9 DEF TickedExact

LEMMA TickAllExact ==
  ASSUME NEW s, NEW c, SInv(s), MInv(s, c, Alive(s.k), {}), Good(s, Alive(s.k)),
         NEW list \in Seq(Tasks), IsInjective(list), ToSet(list) \subseteq ToSet(s.k.tick_head),
         NEW r, r = LET after[i \in 0 .. Len(list)] ==
                          IF i = 0 THEN s ELSE Expire(after[i - 1], list[i])
                    IN  after[Len(list)]
  PROVE  TickedExact(s, c, ToSet(list), r)
  <1> DEFINE N == Len(list)
             G == [i \in 0 .. N |-> {w \in SysStates : TickedExact(s, c, First(list, i), w)}]
  <1>1. s \in SysStates
    BY DEF SInv
  <1>2. N \in Nat /\ DOMAIN list = 1 .. N
    BY LenProperties
  <1>3. \A i \in 1 .. N : i \in 0 .. N /\ i - 1 \in 0 .. N
    BY <1>2
  <1>4. G \in [0 .. N -> SUBSET SysStates]
    OBVIOUS
  <1>5. s \in G[0]
    <2>1. First(list, 0) = {}
      BY DEF First
    <2>2. TickedExact(s, c, {}, s)
      BY SublistSame DEF TickedExact, TickedSome
    <2>3. TickedExact(s, c, First(list, 0), s)
      BY <2>1, <2>2
    <2> QED BY <1>1, <1>2, <2>3
  <1>6. ASSUME NEW i \in 1 .. N, NEW x \in G[i - 1] PROVE Expire(x, list[i]) \in G[i]
    <2> DEFINE y == Expire(x, list[i])
               t == list[i]
               gone == First(list, i - 1)
    <2>1. TickedExact(s, c, gone, x)
      BY <1>3
    <2>2. First(list, i) = gone \cup {t}
      <3>1. \A j : j \in 1 .. i <=> j \in 1 .. i - 1 \/ j = i
        BY <1>2
      <3> QED BY <3>1 DEF First
    <2>3. t \in ToSet(s.k.tick_head) \ gone
      <3>1. t \in ToSet(list)
        BY <1>2 DEF ToSet
      <3>2. t \notin gone
        BY <1>2 DEF IsInjective, First
      <3> QED BY <3>1, <3>2
    <2> HIDE DEF gone, t
    <2>4. y = Expire(x, t)
      BY DEF t
    <2> HIDE DEF y
    <2>5. TickedExact(s, c, gone \cup {t}, y)
      BY <2>1, <2>3, <2>4, TickNextExact
    <2>6. TickedExact(s, c, First(list, i), y) /\ y \in SysStates
      BY <2>2, <2>5 DEF TickedExact, TickedSome, SInv
    <2>7. y \in G[i]
      BY <1>3, <2>6
    <2> QED BY <2>7 DEF y
  <1>7. r \in G[N]
    <2> HIDE DEF G
    <2>1. N \in Nat
      BY <1>2
    <2> QED BY <1>4, <1>5, <1>6, <2>1, TickRounds
  <1>8. First(list, N) = ToSet(list)
    BY <1>2 DEF First, ToSet
  <1>9. TickedExact(s, c, First(list, N), r)
    BY <1>2, <1>7
  <1> QED BY <1>8, <1>9

LEMMA TickGood ==
  ASSUME SysInv(sys, call), Good(sys, Alive(sys.k)), tick_list_update
  PROVE  StaysGood
  <1> DEFINE s1 == [sys EXCEPT !.k = advance_tick(@)]
             list == due(s1.k)
             r == sys'
             L == Alive(sys.k)
  <1>1. r = LET after[i \in 0 .. Len(list)] ==
                  IF i = 0 THEN s1 ELSE Expire(after[i - 1], list[i])
            IN  after[Len(list)]
    BY DEF tick_list_update
  <1>2. /\ SInv(s1) /\ MInv(s1, call, Alive(s1.k), {})
        /\ list \in Seq(Tasks) /\ IsInjective(list)
        /\ ToSet(list) \subseteq ToSet(s1.k.tick_head)
    <2> HIDE DEF s1
    <2>1. s1 = [sys EXCEPT !.k = advance_tick(@)]
      BY DEF s1
    <2> QED BY <2>1, TickStarts
  <1>3. /\ s1.levels = sys.levels /\ s1.system_error = sys.system_error
        /\ s1.bpriority = sys.bpriority /\ s1.mtxlist = sys.mtxlist
        /\ s1.k = advance_tick(sys.k)
    BY DEF SysInv, SInv, SysStates
  <1>4. /\ s1.k.state = sys.k.state /\ s1.k.priority = sys.k.priority
        /\ s1.k.block_list = sys.k.block_list
    <2> HIDE DEF s1
    <2>1. KInv(sys.k) /\ TickOrder(sys.k) /\ TICKS \in Nat \ {0, 1}
      BY ConstantsAre DEF SysInv, SInv
    <2> QED BY <1>3, <2>1, AdvanceLemma
  <1>5. L = Alive(s1.k)
    BY <1>4 DEF Alive
  <1> HIDE DEF s1, list, L, r
  <1>6. Good(s1, L)
    <2>1. SameDemands(sys, s1, L)
      BY <1>3, <1>4 DEF SameDemands, Owned, Waiting
    <2> QED BY <2>1, SameGood DEF L
  <1>7. TickedExact(s1, call, ToSet(list), r)
    BY <1>1, <1>2, <1>5, <1>6, TickAllExact
  <1>8. Alive(r.k) = L
    BY <1>5, <1>7 DEF TickedExact, TickedSome
  <1> QED BY <1>5, <1>7, <1>8 DEF TickedExact, StaysGood, r

LEMMA TaskDeleteGood ==
  ASSUME SysInv(sys, call), Good(sys, Alive(sys.k)), NEW t \in Tasks, raw_task_delete(t)
  PROVE  StaysGood
  <1> DEFINE s  == sys
             L  == Alive(s.k) \ {t}
             s0 == raw_task_free_mutex(s, t)
             q  == leave_lists(s0.k, t)
             s1 == [s0 EXCEPT !.k = q]
             o  == s.k.block_obj[t]
             r  == sys'
             d  == call'
  <1>1. /\ s.k.state[t] # "DELETED" /\ d = [call EXCEPT ![t] = NoObj]
        /\ r = IF s.k.state[t] \in PendStates THEN mutex_state_change(s1, t, o) ELSE s1
    BY DEF raw_task_delete, k
  <1>2. /\ SInv(s) /\ MInv(s, call, Alive(s.k), {}) /\ t \in Alive(s.k)
        /\ s.exists \subseteq Mutexes /\ NoObj \notin Mutexes /\ NoTask \notin Tasks
        /\ Good(s, Alive(s.k)) /\ L \subseteq Tasks
    BY <1>1, SysIs, ConstantsAre DEF Alive
  <1>3. \A m \in Mutexes : m \in Owned(s, t) <=> m \in s.exists /\ s.mtxtsk[m] = t
    BY <1>2 DEF MInv, Ownership
  <1> HIDE DEF s, s0, q, r, d
  <1>4. FreedExact(s, call, t, Owned(s, t), s0)
    BY <1>2, FreeMutexExact DEF s0, Good
  <1>5. /\ SInv(s0) /\ Alive(s0.k) = Alive(s.k)
        /\ s0.exists = s.exists /\ s0.levels = s.levels
        /\ s0.k.state[t] = s.k.state[t] /\ s0.k.block_obj[t] = o
        /\ \A x \in Mutexes \ Owned(s, t) : s0.mtxtsk[x] = s.mtxtsk[x]
        /\ (TickOrder(s.k) => TickOrder(s0.k))
    BY <1>4 DEF FreedExact, FreedSome
  <1>6. MInv(s0, call, L, {})
    <2>1. MInv(s0, call, L, Owned(s, t) \ Owned(s, t))
      BY <1>4 DEF FreedExact, FreedSome
    <2>2. Owned(s, t) \ Owned(s, t) = {}
      OBVIOUS
    <2> HIDE DEF L
    <2> QED BY <2>1, <2>2
  <1>7. Good(s0, L)
    BY <1>2, <1>4, <1>5 DEF FreedExact, Good
  <1>8. /\ SysInv(s1, d) /\ Alive(s1.k) = L /\ s1.mtxtsk = s0.mtxtsk /\ s1.exists = s0.exists
    <2>1. L = Alive(s0.k) \ {t} /\ t \in Alive(s0.k) /\ TickOrder(s.k)
      BY <1>2, <1>5, SysIs DEF s
    <2>2. Leaves(s0, call, t, s1, d)
      BY <1>1 DEF Leaves, q
    <2> HIDE DEF L, s1
    <2>3. MInv(s0, call, Alive(s0.k) \ {t}, {})
      BY <1>6, <2>1
    <2>4. SysInv(s1, d) /\ HasLeft(s0, s1, t)
      <3>1. SInv(s0) /\ TickOrder(s0.k) /\ t \in Alive(s0.k)
        BY <1>5, <2>1
      <3> QED BY <2>2, <2>3, <3>1, LeaveLemma
    <2> QED BY <2>1, <2>4 DEF HasLeft
  <1>9. KInv(q) /\ OthersKept(s0.k, q, t) /\ q.state[t] = "DELETED" /\ q.priority = s0.k.priority
    <2>1. KInv(s0.k) /\ t \in Tasks
      BY <1>5 DEF SInv
    <2>2. KInv(q) /\ OthersKept(s0.k, q, t) /\ q.state[t] = "DELETED" /\ Fewer(s0.k, q)
      BY <2>1, DeleteTaskLemma DEF q
    <2> QED BY <2>2 DEF Fewer
  <1>10. /\ s1.k = q /\ s1.levels = s0.levels /\ s1.system_error = s0.system_error
         /\ s1.bpriority = s0.bpriority /\ s1.mtxlist = s0.mtxlist
    BY <1>5 DEF SInv, SysStates
  <1> HIDE DEF s1, o, L
  <1>11. Abandons(s0, s1, t, o)
    <2>1. KInv(s0.k)
      BY <1>5 DEF SInv
    <2>2. \A x \in Mutexes : Waiting(q, x) = Waiting(s0.k, x) \ {t}
      BY <1>9, <2>1, OutOfLists DEF PendStates
    <2>3. \A x \in Mutexes : t \in Waiting(s0.k, x) => x = o
      BY <1>5, <2>1, WaitingIs DEF Mutexes
    <2> QED BY <1>9, <1>10, <2>2, <2>3 DEF Abandons
  <1>12. CASE s.k.state[t] \notin PendStates
    <2>1. \A x \in Mutexes : Waiting(q, x) = Waiting(s0.k, x)
      <3>1. \A x \in Mutexes : t \notin Waiting(s0.k, x)
        BY <1>5, <1>12, WaitingIs DEF Mutexes, SInv
      <3> QED BY <1>10, <1>11, <3>1 DEF Abandons
    <2>2. \A u \in L : Owned(s0, u) \subseteq Mutexes
      BY <1>2, <1>5, OwnedAre DEF SInv
    <2>3. SameDemands(s0, s1, L)
      BY <1>9, <1>10, <2>1, <2>2 DEF SameDemands, Owned
    <2>4. Good(s1, L) /\ r = s1
      BY <1>1, <1>7, <1>12, <2>3, SameGood
    <2> QED BY <1>8, <2>4 DEF StaysGood, r
  <1>13. CASE s.k.state[t] \in PendStates
    <2>1. r = mutex_state_change(s1, t, o)
      BY <1>1, <1>13
    <2>2. o \in Mutexes
      BY <1>2, <1>13 DEF SInv, KInv, Mutexes, o
    <2>3. o \in s.exists /\ s.mtxtsk[o] \in Tasks \ {t}
      <3>1. s.k.block_obj[t] # NoObj
        BY <1>2, <2>2 DEF o
      <3> QED BY <1>2, <3>1, OwnerExists DEF o
    <2>4. s1.mtxtsk[o] \in Tasks /\ o \in s1.exists
      <3>1. o \notin Owned(s, t)
        BY <1>3, <2>2, <2>3
      <3> QED BY <1>5, <1>8, <2>2, <2>3, <3>1
    <2>5. SInv(s1) /\ Ownership(s1, L, {})
      BY <1>8 DEF SysInv, MInv
    <2>6. s1.mtxtsk[o] \in L
      BY <1>2, <2>4, <2>5 DEF Ownership
    <2>7. Good(r, L)
      BY <1>5, <1>7, <1>8, <1>11, <2>1, <2>2, <2>5, <2>6, TellGood
    <2>8. Alive(r.k) = L
      BY <1>8, <2>1, <2>2, <2>4, <2>5, StateChangeLemma DEF Repriced, Reordered, Alive
    <2> QED BY <2>7, <2>8 DEF StaysGood, r
  <1> QED BY <1>12, <1>13

(* The services that leave the wait lists and the priorities alone.        *)
LEMMA QuietGood ==
  ASSUME NEW s, SInv(s), Good(s, Alive(s.k)), NEW q,
         q.priority = s.k.priority, q.block_list = s.k.block_list, Alive(q) = Alive(s.k),
         NEW r, r = [s EXCEPT !.k = q]
  PROVE  Good(r, Alive(r.k))
  <1>1. /\ r.k = q /\ r.bpriority = s.bpriority /\ r.mtxlist = s.mtxlist
        /\ r.levels = s.levels /\ r.system_error = s.system_error
    BY DEF SInv, SysStates
  <1>2. SameDemands(s, r, Alive(s.k))
    BY <1>1 DEF SameDemands, Owned, Waiting
  <1> QED BY <1>1, <1>2, SameGood

LEMMA SuspendGood ==
  ASSUME SysInv(sys, call), Good(sys, Alive(sys.k)), NEW t \in Tasks, Suspend(t) \/ Resume(t)
  PROVE  StaysGood
  <1> DEFINE x == sys.k
             q == IF Suspend(t) THEN task_suspend(x, t) ELSE task_resume(x, t)
  <1>1. /\ SInv(sys) /\ KInv(x) /\ x \in KStates /\ COUNT_MOD \in Nat \ {0}
        /\ \A u \in Tasks \ Getting(call) : x.state[u] \notin IdleStates
    BY SysIs, SomeIdle, ConstantsAre
  <1>2. CASE Suspend(t)
    <2>1. sys' = [sys EXCEPT !.k = task_suspend(x, t)] /\ x.state[t] # "DELETED"
      BY <1>2 DEF Suspend, k
    <2>2. /\ task_suspend(x, t).priority = x.priority
          /\ task_suspend(x, t).block_list = x.block_list
      BY <1>1 DEF task_suspend, remove_ready, KStates
    <2>3. Gentle(x, task_suspend(x, t))
      BY <1>1, <2>1, SuspendCalm
    <2> HIDE DEF x
    <2>4. Alive(task_suspend(x, t)) = Alive(x)
      BY <2>3 DEF Gentle
    <2> QED BY <1>1, <2>1, <2>2, <2>4, QuietGood DEF StaysGood, x
  <1>3. CASE Resume(t)
    <2>1. /\ sys' = [sys EXCEPT !.k = task_resume(x, t)]
          /\ x.state[t] \notin DOMAIN Suspended \cup {"DELETED"}
      BY <1>3 DEF Resume, k
    <2>2. /\ task_resume(x, t).priority = x.priority
          /\ task_resume(x, t).block_list = x.block_list
      BY <1>1 DEF task_resume, make_ready, KStates
    <2>3. Gentle(x, task_resume(x, t))
      BY <1>1, <2>1, ResumeCalm
    <2> HIDE DEF x
    <2>4. Alive(task_resume(x, t)) = Alive(x)
      BY <2>3 DEF Gentle
    <2> QED BY <1>1, <2>1, <2>2, <2>4, QuietGood DEF StaysGood, x
  <1> QED BY <1>2, <1>3

LEMMA SleepGood ==
  ASSUME SysInv(sys, call), Good(sys, Alive(sys.k)), NEW t \in Tasks, NEW dly \in Delays,
         Sleep(t, dly)
  PROVE  StaysGood
  <1> DEFINE x == sys.k
             q == raw_sleep(x, t, dly)
  <1>1. /\ KInv(x) /\ SInv(sys) /\ TickOrder(x) /\ WaitOrder(x) /\ ObjectsMatch(x)
        /\ TICKS \in Nat \ {0, 1} /\ x \in KStates
    BY SysIs, ConstantsAre DEF SysInv, SInv, MInv
  <1>2. x.state[t] = "RDY" /\ sys' = [sys EXCEPT !.k = q]
    BY SysIs DEF Sleep, Runs, k
  <1>3. dly \in 1 .. TICKS - 1
    BY MutexAssumption
  <1>4. q.priority = x.priority /\ Alive(q) = Alive(x)
    <2> HIDE DEF x
    <2> QED BY <1>1, <1>2, <1>3, SleepOrder
  <1>5. q.block_list = x.block_list
    BY <1>1 DEF raw_sleep, remove_ready, tick_list_insert, KStates
  <1> HIDE DEF x, q
  <1> QED BY <1>1, <1>2, <1>4, <1>5, QuietGood DEF StaysGood, x

(* A mutex that nobody waits for exists again. *)
LEMMA CreateMutexGood ==
  ASSUME SysInv(sys, call), Good(sys, Alive(sys.k)), NEW m \in Mutexes, raw_mutex_create(m)
  PROVE  StaysGood
  <1> DEFINE s == sys
             bl == [s.k.block_list EXCEPT ![m] = <<>>]
             q == [s.k EXCEPT !.block_list = bl]
             r == sys'
  <1>1. /\ SInv(s) /\ MInv(s, call, Alive(s.k), {}) /\ s \in SysStates /\ s.k \in KStates
        /\ m \notin s.exists
    BY SysIs DEF raw_mutex_create
  <1>2. s.k.block_list[m] = <<>>
    <2>1. Waiting(s.k, m) = {}
      BY <1>1 DEF MInv, NoneAstray
    <2>2. s.k.block_list[m] \in Seq(Tasks)
      BY <1>1 DEF KStates, Mutexes
    <2> QED BY <2>1, <2>2, EmptyLemma DEF Waiting
  <1>3. q = s.k
    <2>1. bl = s.k.block_list
      BY <1>1, <1>2 DEF KStates, Mutexes
    <2> HIDE DEF bl
    <2> QED BY <1>1, <2>1 DEF KStates
  <1>4. /\ r.k = q /\ r.bpriority = s.bpriority /\ r.mtxlist = s.mtxlist
        /\ r.levels = s.levels /\ r.system_error = s.system_error
    BY <1>1 DEF raw_mutex_create, SysStates, KStates
  <1> HIDE DEF s, q, r
  <1>5. SameDemands(s, r, Alive(s.k))
    BY <1>3, <1>4 DEF SameDemands, Owned
  <1> QED BY <1>3, <1>4, <1>5, SameGood DEF StaysGood, s, r

(* m has left the list of its owner, which gets the priority that is left. *)
LEMMA DropGood ==
  ASSUME NEW s, NEW c, SysInv(s, c), Good(s, Alive(s.k)), NEW m \in s.exists,
         NEW t, t = s.mtxtsk[m],
         NEW r, r = LET s1 == [s EXCEPT !.exists = @ \ {m}]
                    IN  IF t = NoTask THEN s1 ELSE release_mutex(s1, t, m)
  PROVE  Good(r, Alive(s.k))
  <1> DEFINE s1 == [s EXCEPT !.exists = @ \ {m}]
             L == Alive(s.k)
  <1>1. /\ SInv(s) /\ MInv(s, c, L, {}) /\ m \in Mutexes /\ s \in SysStates
        /\ L \in SUBSET Tasks /\ NoTask \notin Tasks /\ Good(s, L)
    BY SysIs, ConstantsAre
  <1>2. /\ \A u \in L : m \in Owned(s, u) <=> t = u
        /\ t \in L \cup {NoTask} /\ \A u \in Tasks : IsInjective(s.mtxlist[u])
    BY <1>1 DEF MInv, Ownership
  <1>3. /\ SInv(s1) /\ s1.k = s.k /\ s1.bpriority = s.bpriority /\ s1.exists = s.exists \ {m}
        /\ s1.mtxtsk = s.mtxtsk /\ s1.levels = s.levels /\ s1.mtxlist = s.mtxlist
        /\ s1.system_error = s.system_error
    <2>1. s1 = [s EXCEPT !.exists = @ \ {m}]
      OBVIOUS
    <2>2. s1.system_error = s.system_error
      BY <1>1 DEF SysStates
    <2> HIDE DEF s1
    <2> QED BY <1>1, <2>1, <2>2, ExistsFields
  <1>4. r = IF t = NoTask THEN s1 ELSE adjust([s1 EXCEPT !.mtxlist[t] = list_delete(@, m)], t)
    BY DEF release_mutex
  <1> HIDE DEF s1, L
  <1>5. CASE t = NoTask
    <2>1. SameDemands(s, s1, L) /\ r = s1
      BY <1>3, <1>4, <1>5 DEF SameDemands, Owned
    <2> QED BY <1>1, <2>1, SameGood DEF L
  <1>6. CASE t # NoTask
    <2> DEFINE x == [s1 EXCEPT !.mtxlist[t] = list_delete(@, m)]
    <2>1. r = adjust(x, t) /\ t \in L /\ t \in Tasks /\ s1 \in SysStates
      BY <1>1, <1>2, <1>3, <1>4, <1>6 DEF SInv
    <2>2. x.system_error = s1.system_error
      BY <2>1 DEF SysStates
    <2>3. SInv(x) /\ Released(s1, x, m, t)
      <3>1. x = [s1 EXCEPT !.mtxlist[t] = list_delete(@, m)]
        OBVIOUS
      <3>2. \A u \in Tasks : IsInjective(s1.mtxlist[u])
        BY <1>2, <1>3
      <3> HIDE DEF x
      <3> QED BY <1>3, <2>1, <3>1, <3>2, ReleaseFields
    <2> HIDE DEF x
    <2>4. /\ x.k = s.k /\ x.bpriority = s.bpriority /\ x.levels = s.levels
          /\ x.system_error = s.system_error
          /\ \A u \in L \ {t} : Owned(x, u) = Owned(s, u)
      BY <1>1, <1>3, <2>2, <2>3 DEF Released, Owned
    <2>5. Ownership(x, L, {})
      <3>1. \A u \in L : Owned(x, u) = Owned(s, u) \ {m}
        <4>1. Owned(x, t) = Owned(s, t) \ {m}
          BY <1>3, <2>3 DEF Released, Owned
        <4> QED BY <1>2, <2>4, <4>1
      <3>2. Dropped(s, x, m)
        BY <1>3, <2>3, <3>1 DEF Dropped, Released, L
      <3> QED BY <1>1, <3>2, DroppedOwners DEF Owners, L
    <2>6. ~x.system_error => \A u \in L \ {t} : Meet(x, u)
      <3>1. ASSUME NEW u \in L \ {t}, Meet(s, u) PROVE Meet(x, u)
        BY <2>4, <3>1, SameWant
      <3> QED BY <1>1, <2>4, <3>1 DEF Good, Exact
    <2>7. L = Alive(x.k) /\ x.levels = 0 /\ (x.system_error => ~Few)
      BY <1>1, <2>4 DEF Good, L
    <2> QED BY <2>1, <2>3, <2>5, <2>6, <2>7, AdjustGood DEF L
  <1> QED BY <1>5, <1>6

LEMMA DeleteGood ==
  ASSUME SysInv(sys, call), Good(sys, Alive(sys.k)), NEW m \in Mutexes, raw_mutex_delete(m)
  PROVE  StaysGood
  <1> DEFINE t  == sys.mtxtsk[m]
             L  == Alive(sys.k)
             s2 == LET s1 == [sys EXCEPT !.exists = @ \ {m}]
                   IN  IF t = NoTask THEN s1 ELSE release_mutex(s1, t, m)
             q  == delete_pend_objs(s2.k, m)
             r  == sys'
  <1>1. m \in sys.exists /\ r = [s2 EXCEPT !.k = q]
    BY DEF raw_mutex_delete
  <1>2. SInv(sys) /\ MInv(sys, call, L, {})
    BY DEF SysInv
  <1>3. /\ t = sys.mtxtsk[m]
        /\ s2 = LET s1 == [sys EXCEPT !.exists = @ \ {m}]
                IN  IF t = NoTask THEN s1 ELSE release_mutex(s1, t, m)
    OBVIOUS
  <1>4. q = delete_pend_objs(s2.k, m)
    OBVIOUS
  <1> HIDE DEF t, s2, q, r
  <1>5. Good(s2, L)
    BY <1>1, <1>3, DropGood
  <1>6. \E x : SInv(x) /\ Dropped(sys, x, m) /\ SInv(s2) /\ Repriced(x, s2)
               /\ s2.levels = sys.levels
    <2>1. m \in sys.exists
      BY <1>1
    <2> QED BY <1>3, <2>1, DropLemma
  <1>7. PICK x : SInv(x) /\ Dropped(sys, x, m) /\ SInv(s2) /\ Repriced(x, s2)
    BY <1>6
  <1>8. Alive(s2.k) = L /\ \A u \in L : Owned(s2, u) \subseteq Mutexes \ {m}
    <2>1. L \subseteq Tasks
      BY DEF Alive
    <2>2. \A u \in L : Owned(s2, u) = Owned(sys, u) \ {m}
      BY <1>7 DEF Dropped, Repriced, Owned
    <2>3. \A u \in L : Owned(sys, u) \subseteq Mutexes
      BY <1>2, <2>1, OwnedAre DEF SInv
    <2>4. Alive(s2.k) = L
      BY <1>7 DEF Dropped, Repriced, Reordered, Alive
    <2> QED BY <2>2, <2>3, <2>4
  <1> HIDE DEF L
  <1>9. KInv(q) /\ Ended(s2.k, q, Waiting(s2.k, m)) /\ Gentle(s2.k, q)
    <2>1. KInv(s2.k)
      BY <1>7 DEF SInv
    <2> QED BY <1>4, <2>1, DeleteObjsLemma DEF Mutexes
  <1>10. \A y \in Mutexes \ {m} : Waiting(q, y) = Waiting(s2.k, y)
    <2> TAKE y \in Mutexes \ {m}
    <2>1. Waiting(q, y) = Waiting(s2.k, y) \ Waiting(s2.k, m)
      BY <1>9 DEF Ended, Mutexes
    <2>2. KInv(s2.k)
      BY <1>7 DEF SInv
    <2>3. \A u : ~(u \in Waiting(s2.k, y) /\ u \in Waiting(s2.k, m))
      BY <2>2, WaitingIs DEF Mutexes
    <2> QED BY <2>1, <2>3
  <1>11. q.priority = s2.k.priority /\ Alive(q) = L
    BY <1>8, <1>9 DEF Gentle, Fewer
  <1>12. /\ r.k = q /\ r.bpriority = s2.bpriority /\ r.mtxlist = s2.mtxlist
         /\ r.levels = s2.levels /\ r.system_error = s2.system_error
    BY <1>1, <1>7 DEF SInv, SysStates
  <1>13. SameDemands(s2, r, L)
    BY <1>8, <1>10, <1>11, <1>12 DEF SameDemands, Owned
  <1>14. Good(r, L)
    BY <1>5, <1>13, SameGood
  <1> QED BY <1>11, <1>12, <1>14 DEF StaysGood, r

LEMMA PriorityGood ==
  ASSUME SysInv(sys, call), Good(sys, Alive(sys.k)), NEW t \in Tasks, NEW p \in NewPrios,
         raw_task_priority_change(t, p)
  PROVE  StaysGood
  <1> DEFINE s1 == [sys EXCEPT !.bpriority[t] = p]
             n  == chg_pri_mutex(sys, t, p)
             L  == Alive(sys.k)
             r  == sys'
  <1>1. /\ sys.k.state[t] # "DELETED" /\ p >= CeilingLimit(sys, t)
        /\ r = change_internal_task_priority(s1, t, n)
    BY DEF raw_task_priority_change, k
  <1>2. /\ SInv(sys) /\ p \in Prios /\ t \in L /\ L \subseteq Tasks /\ Good(sys, L)
    BY <1>1, MutexAssumption DEF SysInv, Alive
  <1>3. n \in Prios
    BY <1>2, ChgPriMutexLemma
  <1>4. /\ s1.mtxlist = sys.mtxlist /\ s1.system_error = sys.system_error
        /\ s1.bpriority[t] = p /\ \A u \in L \ {t} : s1.bpriority[u] = sys.bpriority[u]
    BY <1>2 DEF SInv, SysStates
  <1>5. SysInv(s1, call) /\ s1.k = sys.k /\ s1.levels = sys.levels
    <2>1. s1 = [sys EXCEPT !.bpriority[t] = p]
      OBVIOUS
    <2> HIDE DEF s1
    <2> QED BY <1>1, <1>2, <2>1, BasePriority
  <1>6. n = demanded(s1, t)
    <2>1. Owned(s1, t) = Owned(sys, t) /\ \A m : Demand(s1, m) = Demand(sys, m)
      BY <1>4, <1>5 DEF Owned, Demand
    <2> HIDE DEF s1
    <2> QED BY <1>4, <2>1 DEF demanded, chg_pri_mutex
  <1> HIDE DEF s1, n, r, L
  <1>7. SInv(s1) /\ L = Alive(s1.k) /\ Ownership(s1, L, {})
    BY <1>5 DEF SysInv, MInv, L
  <1>8. Least(n, Want(s1, t))
    BY <1>2, <1>6, <1>7, WantIs
  <1>9. ~s1.system_error => \A u \in L \ {t} : Meet(s1, u)
    <2>1. ASSUME NEW u \in L \ {t}, Meet(sys, u) PROVE Meet(s1, u)
      <3>1. /\ s1.bpriority[u] = sys.bpriority[u] /\ Owned(s1, u) = Owned(sys, u)
        BY <1>4 DEF Owned
      <3> QED BY <1>5, <2>1, <3>1, SameWant
    <2> QED BY <1>2, <1>4, <2>1 DEF Good, Exact
  <1>10. s1.levels = 0 /\ (s1.system_error => ~Few)
    BY <1>2, <1>4, <1>5 DEF Good
  <1>11. Good(r, L)
    BY <1>1, <1>2, <1>3, <1>7, <1>8, <1>9, <1>10, ChainGood
  <1>12. Repriced(s1, r)
    BY <1>1, <1>3, <1>7, ChainLemma
  <1>13. Alive(r.k) = L
    BY <1>7, <1>12 DEF Repriced, Reordered, Alive
  <1> QED BY <1>11, <1>13 DEF StaysGood, r

(* The least of what a task wants that owns nothing. *)
LEMMA IdleMeets ==
  ASSUME NEW s, SInv(s), NEW t \in Tasks, Owned(s, t) = {},
         s.k.priority[t] = s.bpriority[t]
  PROVE  Meet(s, t)
  <1>1. s.bpriority[t] \in Int
    BY PriosAre DEF SInv
  <1>2. /\ Want(s, t) \subseteq Int
        /\ \A q : q \in Want(s, t) <=> q = s.bpriority[t]
    BY WantIs
  <1>3. Least(s.k.priority[t], Want(s, t))
    BY <1>1, <1>2 DEF Least
  <1> QED BY <1>3 DEF Meet, Meets, Want

(* t begins with its base priority; nobody hears of it. *)
LEMMA CreateGood ==
  ASSUME SysInv(sys, call), Good(sys, Alive(sys.k)), NEW t \in Tasks,
         NEW auto_start \in BOOLEAN, Create(t, auto_start)
  PROVE  StaysGood
  <1> DEFINE s == sys
             x == s.k
             p == InitPrio[t]
             L == Alive(x)
             I == Getting(call)
             q == raw_task_create(x, t, p, auto_start)
             r == sys'
  <1>1. /\ SInv(s) /\ KInv(x) /\ Good(s, L) /\ x.state[t] = "DELETED"
        /\ \A u \in Tasks \ I : x.state[u] \notin IdleStates
        /\ r = [s EXCEPT !.k = q, !.bpriority[t] = p, !.mtxlist[t] = <<>>]
    BY SysIs, SomeIdle DEF Create, k
  <1>2. p \in Prios /\ p \in Int
    BY ConstantsAre, PriosAre
  <1>3. SInv(r)
    <2>1. SysInv(sys', call')
      BY CreateStep
    <2> QED BY <2>1 DEF SysInv, r
  <1>4. r.system_error = s.system_error
    BY <1>1 DEF SInv, SysStates
  <1> HIDE DEF s, x, p, L, I, q, r
  <1>5. /\ KInv(q) /\ Calm(x, q, I)
        /\ q.priority = [x.priority EXCEPT ![t] = p]
        /\ q.tick_match = [x.tick_match EXCEPT ![t] = 0]
        /\ q.raw_tick_count = x.raw_tick_count
        /\ q.tick_head = x.tick_head /\ q.block_list = x.block_list
        /\ OthersKept(x, q, t) /\ q.block_obj[t] = NoObj
        /\ q.state[t] \in {"RDY", "SUSPENDED"}
    <2>1. KInv(x) /\ x.state[t] = "DELETED" /\ p \in Int
      BY <1>1, <1>2
    <2>2. q = raw_task_create(x, t, p, auto_start)
      BY DEF q
    <2>3. \A u \in Tasks \ I : x.state[u] \notin IdleStates
      BY <1>1
    <2> QED BY <2>1, <2>2, <2>3, CreateCalm
  <1>6. /\ r.k = q /\ r.levels = s.levels
        /\ r.bpriority = [s.bpriority EXCEPT ![t] = p]
        /\ r.mtxlist[t] = <<>> /\ \A u \in Tasks \ {t} : r.mtxlist[u] = s.mtxlist[u]
    <2>1. q \in KStates
      BY <1>5 DEF KInv
    <2>2. SInv(s) /\ p \in Int /\ Starts(s, t, q, p, r)
      BY <1>1, <1>2 DEF Starts
    <2> QED BY <2>1, <2>2, StartFields, SMTT(60)
  <1>7. /\ x.priority \in [Tasks -> Prios] /\ s.bpriority \in [Tasks -> Prios]
        /\ x \in KStates /\ s \in SysStates
    BY <1>1 DEF SInv, KInv, x
  <1>8. Alive(q) = L \cup {t} /\ \A u \in L : u \in Tasks \ {t}
    BY <1>1, <1>5 DEF Alive, OthersKept, L
  <1>9. \A m \in Mutexes : t \notin Waiting(x, m) /\ Waiting(q, m) = Waiting(x, m)
    <2>1. x.state[t] \notin PendStates
      BY <1>1 DEF PendStates
    <2> QED BY <1>1, <1>5, <2>1, WaitingIs DEF Waiting, Mutexes
  <1>10. Meet(r, t)
    <2>1. <<>> \in Seq(Mutexes)
      OBVIOUS
    <2>2. Owned(r, t) = {}
      BY <1>6, <2>1, EmptyLemma DEF Owned
    <2>3. r.k.priority[t] = p /\ r.bpriority[t] = p
      BY <1>5, <1>6, <1>7
    <2> QED BY <1>3, <2>2, <2>3, IdleMeets
  <1>11. ASSUME NEW u \in L, Meet(s, u) PROVE Meet(r, u)
    <2>1. u \in Tasks \ {t} /\ Owned(r, u) = Owned(s, u) /\ Owned(s, u) \subseteq Mutexes
      BY <1>6, <1>7, <1>8, OwnedAre DEF Owned
    <2>2. r.bpriority[u] = s.bpriority[u] /\ r.k.priority[u] = x.priority[u]
      BY <1>5, <1>6, <1>7, <2>1
    <2>3. \A m \in Owned(s, u) : /\ Waiting(r.k, m) = Waiting(x, m)
                                 /\ \A h \in Waiting(x, m) : r.k.priority[h] = x.priority[h]
      <3> TAKE m \in Owned(s, u)
      <3>1. Waiting(q, m) = Waiting(x, m) /\ t \notin Waiting(x, m)
        BY <1>9, <2>1
      <3>2. Waiting(x, m) \subseteq Tasks
        BY <1>1, <2>1, WaitingIs DEF Mutexes
      <3> QED BY <1>5, <1>6, <1>7, <3>1, <3>2
    <2>4. \A a : a \in Want(s, u) <=> a \in Want(r, u)
      <3>1. \A a : a \in Want(s, u) <=>
              \/ a = s.bpriority[u]
              \/ \E m \in Owned(s, u) : Policy[m] = "CEILING" /\ a = Ceiling[m]
              \/ \E m \in Owned(s, u) : /\ Policy[m] = "INHERIT"
                                        /\ \E h \in Waiting(s.k, m) : a = s.k.priority[h]
        BY <1>1, <2>1, WantIs
      <3>2. \A a : a \in Want(r, u) <=>
              \/ a = r.bpriority[u]
              \/ \E m \in Owned(r, u) : Policy[m] = "CEILING" /\ a = Ceiling[m]
              \/ \E m \in Owned(r, u) : /\ Policy[m] = "INHERIT"
                                        /\ \E h \in Waiting(r.k, m) : a = r.k.priority[h]
        BY <1>3, <2>1, WantIs
      <3> QED BY <2>1, <2>2, <2>3, <3>1, <3>2 DEF x
    <2>5. \A a : Least(a, Want(s, u)) => Least(a, Want(r, u))
      BY <2>4 DEF Least
    <2> QED BY <1>11, <2>2, <2>5 DEF Meet, Meets, Want, x
  <1>12. Good(r, Alive(r.k))
    BY <1>1, <1>4, <1>6, <1>8, <1>10, <1>11 DEF Good, Exact
  <1> QED BY <1>12 DEF StaysGood, r

LEMMA InitGood ==
  ASSUME Init
  PROVE  Good(sys, Alive(sys.k))
  <1>1. SInv(sys)
    BY InitLemma DEF SysInv
  <1>2. InitPrio \in [Tasks -> Int]
    BY ConstantsAre, PriosAre
  <1>3. /\ sys.k = TaskInit(InitPrio) /\ sys.bpriority = InitPrio
        /\ sys.mtxlist = [t \in Tasks |-> <<>>]
        /\ sys.levels = 0 /\ ~sys.system_error
    BY DEF Init
  <1>4. sys.k.priority = InitPrio
    BY <1>2, <1>3, TaskInitOrder, ConstantsAre
  <1>5. \A t \in Tasks : Meet(sys, t)
    <2> TAKE t \in Tasks
    <2>1. <<>> \in Seq(Mutexes) /\ sys.mtxlist[t] = <<>>
      BY <1>3
    <2>2. Owned(sys, t) = {}
      BY <2>1, EmptyLemma DEF Owned
    <2> QED BY <1>1, <1>3, <1>4, <2>2, IdleMeets
  <1> QED BY <1>3, <1>5 DEF Good, Exact, Alive

LEMMA NextGood ==
  ASSUME SysInv(sys, call), Good(sys, Alive(sys.k)), [Next]_vars
  PROVE  StaysGood
  <1>1. ASSUME MutexServices PROVE StaysGood
    <2>1. PICK t \in Tasks :
            \/ GetReturns(t)
            \/ \E m \in Mutexes :
                 \/ GetNested(t, m) \/ GetFree(t, m)
                 \/ PutNested(t, m) \/ raw_mutex_put(t, m)
                 \/ \E timeout \in Timeouts : GetBlocks(t, m, timeout)
      BY <1>1 DEF MutexServices
    <2>2. CASE GetReturns(t)
      BY <2>2, GetReturnsGood
    <2>3. ASSUME NEW m \in Mutexes, GetNested(t, m) \/ PutNested(t, m) PROVE StaysGood
      BY <2>3, GetNestedGood
    <2>4. ASSUME NEW m \in Mutexes, GetFree(t, m) PROVE StaysGood
      BY <2>4, GetFreeGood
    <2>5. ASSUME NEW m \in Mutexes, raw_mutex_put(t, m) PROVE StaysGood
      BY <2>5, PutGood
    <2>6. ASSUME NEW m \in Mutexes, NEW timeout \in Timeouts, GetBlocks(t, m, timeout)
          PROVE  StaysGood
      BY <2>6, GetBlocksGood
    <2> QED BY <2>1, <2>2, <2>3, <2>4, <2>5, <2>6
  <1>2. ASSUME TaskServices PROVE StaysGood
    <2>1. /\ SuspendTasks \subseteq Tasks /\ AbortTasks \subseteq Tasks
          /\ ChangeTasks \subseteq Tasks /\ DeleteTasks \subseteq Tasks
      BY MutexAssumption
    <2>2. CASE tick_list_update
      BY <2>2, TickGood
    <2>3. ASSUME NEW t \in Tasks, NEW dly \in Delays, Sleep(t, dly) PROVE StaysGood
      BY <2>3, SleepGood
    <2>4. ASSUME NEW t \in SuspendTasks, Suspend(t) \/ Resume(t) PROVE StaysGood
      BY <2>1, <2>4, SuspendGood
    <2>5. ASSUME NEW t \in AbortTasks, raw_task_wait_abort(t) PROVE StaysGood
      BY <2>1, <2>5, AbortGood
    <2>6. ASSUME NEW t \in ChangeTasks, NEW p \in NewPrios, raw_task_priority_change(t, p)
          PROVE  StaysGood
      BY <2>1, <2>6, PriorityGood
    <2>7. ASSUME NEW t \in DeleteTasks, raw_task_delete(t) PROVE StaysGood
      BY <2>1, <2>7, TaskDeleteGood
    <2>8. ASSUME NEW t \in DeleteTasks, NEW auto_start \in BOOLEAN, Create(t, auto_start)
          PROVE  StaysGood
      BY <2>1, <2>8, CreateGood
    <2> QED BY <1>2, <2>2, <2>3, <2>4, <2>5, <2>6, <2>7, <2>8 DEF TaskServices
  <1>3. ASSUME Lifecycle PROVE StaysGood
    <2>1. DeleteMutexes \subseteq Mutexes
      BY MutexAssumption
    <2>2. ASSUME NEW m \in DeleteMutexes, raw_mutex_delete(m) PROVE StaysGood
      BY <2>1, <2>2, DeleteGood
    <2>3. ASSUME NEW m \in DeleteMutexes, raw_mutex_create(m) PROVE StaysGood
      BY <2>1, <2>3, CreateMutexGood
    <2> QED BY <1>3, <2>2, <2>3 DEF Lifecycle
  <1>4. ASSUME UNCHANGED vars PROVE StaysGood
    BY <1>4 DEF vars, StaysGood
  <1> QED BY <1>1, <1>2, <1>3, <1>4 DEF Next

(* Between services every task that exists runs at the priority it wants,  *)
(* unless the recursion has reported an error.                             *)
PriorityInv == Good(sys, Alive(sys.k))

LEMMA PrioritiesKept == Spec => []PriorityInv
  <1>1. Init => PriorityInv
    BY InitGood DEF PriorityInv
  <1>2. IInv /\ PriorityInv /\ [Next]_vars => PriorityInv'
    BY NextGood DEF IInv, PriorityInv, StaysGood
  <1> QED BY <1>1, <1>2, MutexInvariant, PTL DEF Spec

LEMMA GoodIsExact ==
  ASSUME IInv, PriorityInv, ~sys.system_error
  PROVE  PriorityExact
  <1> SUFFICES ASSUME NEW t \in Tasks, Live(t) PROVE k.priority[t] = demanded(sys, t)
    BY DEF PriorityExact
  <1>1. SInv(sys) /\ t \in Alive(sys.k)
    BY DEF IInv, SysInv, Live, Alive, k
  <1>2. Least(sys.k.priority[t], Want(sys, t))
    BY <1>1 DEF PriorityInv, Good, Exact, Meet, Meets, Want
  <1>3. Want(sys, t) \subseteq Int /\ Least(demanded(sys, t), Want(sys, t))
    BY <1>1, WantIs
  <1> HIDE DEF Want
  <1> QED BY <1>2, <1>3, LeastUnique DEF k

(* The recursion of mtx_chg_pri and release_mutex returns to level 0, and  *)
(* reports no error when there are no more mutexes than it may pass.       *)
THEOREM RecursionFits ==
  ASSUME Few
  PROVE  Spec => []NoSystemError
  <1>1. PriorityInv => NoSystemError
    BY DEF PriorityInv, Good, NoSystemError
  <1> QED BY <1>1, PrioritiesKept, PTL

(* As long as the recursion has reported no error, the priority of every   *)
(* task is its base priority raised by what its mutexes demand: none of    *)
(* release_mutex, mtx_chg_pri, mutex_state_change and chg_pri_mutex        *)
(* forgets an inherited priority or keeps one, however the chains of       *)
(* waiting owners run.                                                     *)
THEOREM PrioritiesUntilError == Spec => [](NoSystemError => PriorityExact)
  <1>1. IInv /\ PriorityInv => (NoSystemError => PriorityExact)
    BY GoodIsExact DEF NoSystemError
  <1> QED BY <1>1, PrioritiesKept, MutexInvariant, PTL

THEOREM PrioritiesAreExact ==
  ASSUME Few
  PROVE  Spec => []PriorityExact
  BY PrioritiesUntilError, RecursionFits, PTL
=============================================================================
