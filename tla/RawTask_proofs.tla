---------------------------- MODULE RawTask_proofs ----------------------------
(***************************************************************************)
(* What the functions of raw_pend.c, raw_tick.c and raw_task.c do to the   *)
(* states and the lists of tasks, for any number of tasks and objects.     *)
(* Each keeps KInv; what else it does is said in terms of the members of   *)
(* the wait lists, which the abstract objects consist of.                  *)
(***************************************************************************)
EXTENDS RawTask, RawList_proofs

KStates ==
  [state : [Tasks -> States], suspend_count : [Tasks -> Int], priority : [Tasks -> Int],
   block_status : [Tasks -> Statuses], block_obj : [Tasks -> Objects \cup {NoObj}],
   tick_match : [Tasks -> Int], ready : SUBSET Tasks, tick_head : Seq(Tasks),
   raw_tick_count : Int, block_list : [Objects -> Seq(Tasks)]]

(* The state of a task says which lists it is in; a task that waits, waits *)
(* for an object.                                                          *)
KInv(s) ==
  /\ s \in KStates
  /\ StateMatchesListsIn(s)
  /\ ListsDistinctIn(s)
  /\ \A t \in Tasks : s.state[t] \in PendStates => s.block_obj[t] \in Objects

Waiting(s, o) == ToSet(s.block_list[o])

LEMMA StatesAre ==
  /\ DOMAIN Suspended = {"RDY", "DLY", "PEND", "PEND_TIMEOUT"}
  /\ States = {"RDY", "DLY", "PEND", "PEND_TIMEOUT", "SUSPENDED", "DLY_SUSPENDED",
               "PEND_SUSPENDED", "PEND_TIMEOUT_SUSPENDED", "DELETED"}
  /\ Suspended["RDY"] = "SUSPENDED" /\ Suspended["DLY"] = "DLY_SUSPENDED"
  /\ Suspended["PEND"] = "PEND_SUSPENDED"
  /\ Suspended["PEND_TIMEOUT"] = "PEND_TIMEOUT_SUSPENDED"
  BY DEF Suspended, States

LEMMA ResumedIs ==
  /\ Resumed("DLY_SUSPENDED") = "DLY"
  /\ Resumed("PEND_SUSPENDED") = "PEND"
  /\ Resumed("PEND_TIMEOUT_SUSPENDED") = "PEND_TIMEOUT"
  BY StatesAre DEF Resumed

(* Unlinking keeps a list a list, whatever is unlinked. *)
LEMMA DeleteSeq ==
  ASSUME NEW S, NEW s \in Seq(S), NEW e
  PROVE  list_delete(s, e) \in Seq(S)
  <1> DEFINE I == {j \in 1 .. Len(s) : s[j] = e}
             i == Min(I)
  <1>1. CASE I = {}
    BY <1>1 DEF list_delete, RemoveFirst
  <1>2. CASE I # {}
    <2>1. Len(s) \in Nat
      BY LenProperties
    <2>2. I \subseteq Nat
      BY <2>1
    <2>3. i \in I
      <3> HIDE DEF I
      <3> QED BY <1>2, <2>2, MinLemma
    <2>4. list_delete(s, e) = RemoveAt(s, i)
      BY <1>2 DEF list_delete, RemoveFirst, SelectInSeq
    <2> QED BY <2>3, <2>4, RemoveAtLemma
  <1> QED BY <1>1, <1>2

-----------------------------------------------------------------------------
(***************************************************************************)
(* The end of a wait.                                                      *)
(***************************************************************************)

(* What end_wait does to each field. *)
LEMMA EndWaitFields ==
  ASSUME NEW s \in KStates, NEW t \in Tasks, NEW status \in Statuses,
         NEW r, r = end_wait(s, t, status)
  PROVE  /\ r \in KStates
         /\ r.state = [s.state EXCEPT ![t] =
              IF s.state[t] \in {"PEND", "PEND_TIMEOUT"} THEN "RDY" ELSE "SUSPENDED"]
         /\ r.ready = IF s.state[t] \in {"PEND", "PEND_TIMEOUT"} THEN s.ready \cup {t}
                      ELSE s.ready
         /\ r.block_status = [s.block_status EXCEPT ![t] = status]
         /\ r.block_obj = [s.block_obj EXCEPT ![t] = NoObj]
         /\ r.tick_head = list_delete(s.tick_head, t)
         /\ r.block_list =
              [s.block_list EXCEPT ![s.block_obj[t]] = list_delete(@, t)]
         /\ r.priority = s.priority
         /\ r.tick_match = s.tick_match /\ r.raw_tick_count = s.raw_tick_count
  <1> DEFINE k1 == tick_list_remove(unlink(s, t), t)
             k2 == IF s.state[t] \in {"PEND", "PEND_TIMEOUT"} THEN make_ready(k1, t)
                   ELSE [k1 EXCEPT !.state[t] = "SUSPENDED"]
             bl == [s.block_list EXCEPT ![s.block_obj[t]] = list_delete(@, t)]
             th == list_delete(s.tick_head, t)
  <1>1. bl \in [Objects -> Seq(Tasks)] /\ th \in Seq(Tasks)
    BY DeleteSeq DEF KStates
  <1>2. k1 = [s EXCEPT !.block_list = bl, !.tick_head = th]
    BY DEF KStates, tick_list_remove, unlink
  <1>3. r = [k2 EXCEPT !.block_status[t] = status, !.block_obj[t] = NoObj]
    BY DEF end_wait
  <1> HIDE DEF k1, bl, th
  <1>4. /\ k1 \in KStates /\ k1.block_list = bl /\ k1.tick_head = th
        /\ k1.state = s.state /\ k1.ready = s.ready /\ k1.block_status = s.block_status
        /\ k1.block_obj = s.block_obj /\ k1.priority = s.priority
        /\ k1.tick_match = s.tick_match /\ k1.raw_tick_count = s.raw_tick_count
    BY <1>1, <1>2 DEF KStates
  <1>5. /\ "RDY" \in States /\ "SUSPENDED" \in States
    BY StatesAre
  <1>6. /\ k2 \in KStates
        /\ k2.state = [s.state EXCEPT ![t] =
             IF s.state[t] \in {"PEND", "PEND_TIMEOUT"} THEN "RDY" ELSE "SUSPENDED"]
        /\ k2.ready = IF s.state[t] \in {"PEND", "PEND_TIMEOUT"} THEN s.ready \cup {t}
                      ELSE s.ready
        /\ k2.block_list = bl /\ k2.tick_head = th
        /\ k2.block_status = s.block_status
        /\ k2.block_obj = s.block_obj /\ k2.priority = s.priority
        /\ k2.tick_match = s.tick_match /\ k2.raw_tick_count = s.raw_tick_count
    BY <1>4, <1>5 DEF KStates, make_ready
  <1> HIDE DEF k2
  <1>7. r \in KStates
    <2>1. /\ [k2.block_status EXCEPT ![t] = status] \in [Tasks -> Statuses]
          /\ [k2.block_obj EXCEPT ![t] = NoObj] \in [Tasks -> Objects \cup {NoObj}]
      BY <1>6 DEF KStates
    <2>2. r = [k2 EXCEPT !.block_status = [k2.block_status EXCEPT ![t] = status],
                         !.block_obj = [k2.block_obj EXCEPT ![t] = NoObj]]
      BY <1>3, <1>6 DEF KStates
    <2> QED BY <1>6, <2>1, <2>2 DEF KStates
  <1>8. /\ r.state = k2.state /\ r.ready = k2.ready
        /\ r.block_status = [k2.block_status EXCEPT ![t] = status]
        /\ r.block_obj = [k2.block_obj EXCEPT ![t] = NoObj]
        /\ r.tick_head = k2.tick_head /\ r.block_list = k2.block_list
        /\ r.priority = k2.priority
        /\ r.tick_match = k2.tick_match /\ r.raw_tick_count = k2.raw_tick_count
    BY <1>3, <1>6 DEF KStates
  <1>9. r.block_list = [s.block_list EXCEPT ![s.block_obj[t]] = list_delete(@, t)]
    BY <1>6, <1>8 DEF bl
  <1>10. r.tick_head = list_delete(s.tick_head, t)
    BY <1>6, <1>8 DEF th
  <1> QED BY <1>6, <1>7, <1>8, <1>9, <1>10

(* What the tasks of W, which stop waiting, leave to the others. *)
Ended(s, r, W) ==
  /\ \A t \in W : r.state[t] \in {"RDY", "SUSPENDED"}
  /\ \A t \in Tasks \ W : /\ r.state[t] = s.state[t]
                          /\ r.block_status[t] = s.block_status[t]
                          /\ r.block_obj[t] = s.block_obj[t]
  /\ \A o \in Objects : Waiting(r, o) = Waiting(s, o) \ W

(* The lists without t. *)
LEMMA UnlinkedLists ==
  ASSUME NEW s, KInv(s), NEW t \in Tasks
  PROVE  /\ IsInjective(list_delete(s.tick_head, t))
         /\ ToSet(list_delete(s.tick_head, t)) = ToSet(s.tick_head) \ {t}
         /\ \A o \in Objects :
              LET bl == [s.block_list EXCEPT ![s.block_obj[t]] = list_delete(@, t)]
              IN  IsInjective(bl[o]) /\ ToSet(bl[o]) = Waiting(s, o) \ {t}
  <1>1. s.tick_head \in Seq(Tasks) /\ IsInjective(s.tick_head)
    BY DEF KInv, KStates, ListsDistinctIn
  <1>2. /\ IsInjective(list_delete(s.tick_head, t))
        /\ ToSet(list_delete(s.tick_head, t)) = ToSet(s.tick_head) \ {t}
    BY <1>1, DeleteLemma
  <1> DEFINE bl == [s.block_list EXCEPT ![s.block_obj[t]] = list_delete(@, t)]
  <1>3. ASSUME NEW o \in Objects PROVE IsInjective(bl[o]) /\ ToSet(bl[o]) = Waiting(s, o) \ {t}
    <2>1. s.block_list \in [Objects -> Seq(Tasks)]
      BY DEF KInv, KStates
    <2>2. s.block_list[o] \in Seq(Tasks) /\ IsInjective(s.block_list[o])
      BY <2>1 DEF KInv, ListsDistinctIn
    <2>3. CASE o = s.block_obj[t]
      <3>1. bl[o] = list_delete(s.block_list[o], t)
        BY <2>1, <2>3
      <3> HIDE DEF bl
      <3> QED BY <2>2, <3>1, DeleteLemma DEF Waiting
    <2>4. CASE o # s.block_obj[t]
      <3>1. bl[o] = s.block_list[o]
        BY <2>1, <2>4
      <3>2. t \notin Waiting(s, o)
        BY <2>4 DEF KInv, StateMatchesListsIn, Waiting
      <3> HIDE DEF bl
      <3> QED BY <2>2, <3>1, <3>2 DEF Waiting
    <2> QED BY <2>3, <2>4
  <1> QED BY <1>2, <1>3

-----------------------------------------------------------------------------
(***************************************************************************)
(* The order of the lists, and the tasks that exist.                       *)
(***************************************************************************)

TimeLeft(s) == [u \in Tasks |-> Remaining(s, u)]

(* The wait lists are sorted by priority, the tick list by the time left.  *)
WaitOrder(s) == \A o \in Objects \ FifoObjects : OrderedBy(s.block_list[o], s.priority)

TickOrder(s) ==
  /\ s.raw_tick_count \in 0 .. TICKS - 1
  /\ \A t \in ToSet(s.tick_head) :
       s.tick_match[t] \in 0 .. TICKS - 1 /\ Remaining(s, t) > 0
  /\ OrderedBy(s.tick_head, TimeLeft(s))

Alive(s) == {t \in Tasks : s.state[t] # "DELETED"}

(* A task that exists has an object to wait for while it waits only. *)
ObjectsMatch(s) == \A t \in Alive(s) : s.block_obj[t] # NoObj => s.state[t] \in PendStates

(* The members of a, in the order they have in b. *)
Sublist(a, b) ==
  /\ ToSet(a) \subseteq ToSet(b)
  /\ \A x, y \in ToSet(a) : Precedes(a, x, y) => Precedes(b, x, y)

(* The lists have lost members or none. *)
Fewer(s, r) ==
  /\ r.priority = s.priority
  /\ r.tick_match = s.tick_match /\ r.raw_tick_count = s.raw_tick_count
  /\ Sublist(r.tick_head, s.tick_head)
  /\ \A o \in Objects : Sublist(r.block_list[o], s.block_list[o])

(* Nobody was created or deleted, or has begun to wait. *)
Gentle(s, r) ==
  /\ Fewer(s, r) /\ Alive(r) = Alive(s)
  /\ \A t \in Tasks : r.block_obj[t] \in {s.block_obj[t], NoObj}
  /\ ObjectsMatch(s) => ObjectsMatch(r)

LEMMA SublistSame == \A a : Sublist(a, a)
  BY DEF Sublist

LEMMA SublistDelete ==
  ASSUME NEW S, NEW s \in Seq(S), NEW e, IsInjective(s)
  PROVE  Sublist(list_delete(s, e), s)
  <1>1. /\ ToSet(list_delete(s, e)) = ToSet(s) \ {e}
        /\ \A a, b \in ToSet(s) \ {e} :
             Precedes(list_delete(s, e), a, b) <=> Precedes(s, a, b)
    BY DeleteLemma
  <1> QED BY <1>1 DEF Sublist

LEMMA SublistTrans ==
  ASSUME NEW a, NEW b, NEW c, Sublist(a, b), Sublist(b, c)
  PROVE  Sublist(a, c)
  BY DEF Sublist

LEMMA FewerTrans ==
  ASSUME NEW s, NEW q, NEW r, Fewer(s, q), Fewer(q, r)
  PROVE  Fewer(s, r)
  <1>1. Sublist(r.tick_head, s.tick_head)
    BY SublistTrans DEF Fewer
  <1>2. \A o \in Objects : Sublist(r.block_list[o], s.block_list[o])
    BY SublistTrans DEF Fewer
  <1> QED BY <1>1, <1>2 DEF Fewer

LEMMA GentleTrans ==
  ASSUME NEW s, NEW q, NEW r, Gentle(s, q), Gentle(q, r)
  PROVE  Gentle(s, r)
  <1>1. Fewer(s, r)
    BY FewerTrans DEF Gentle
  <1> QED BY <1>1 DEF Gentle

LEMMA GentleSame == \A s : Gentle(s, s)
  BY SublistSame DEF Gentle, Fewer

(* Lists that lose members remain sorted. *)
LEMMA FewerOrder ==
  ASSUME NEW s, NEW r, Fewer(s, r)
  PROVE  /\ WaitOrder(s) => WaitOrder(r)
         /\ TickOrder(s) => TickOrder(r)
  <1>1. TimeLeft(r) = TimeLeft(s)
    BY DEF Fewer, TimeLeft, Remaining
  <1>2. ASSUME NEW a, NEW b, NEW key, Sublist(a, b), OrderedBy(b, key)
        PROVE  OrderedBy(a, key)
    BY <1>2 DEF Sublist, OrderedBy
  <1>3. WaitOrder(s) => WaitOrder(r)
    BY <1>2 DEF WaitOrder, Fewer
  <1>4. ASSUME TickOrder(s) PROVE TickOrder(r)
    <2>1. OrderedBy(r.tick_head, TimeLeft(r))
      BY <1>1, <1>2, <1>4 DEF TickOrder, Fewer
    <2>2. \A t \in ToSet(r.tick_head) :
            r.tick_match[t] \in 0 .. TICKS - 1 /\ Remaining(r, t) > 0
      BY <1>4 DEF TickOrder, Fewer, Sublist, Remaining
    <2>3. r.raw_tick_count \in 0 .. TICKS - 1
      BY <1>4 DEF TickOrder, Fewer
    <2> QED BY <2>1, <2>2, <2>3 DEF TickOrder
  <1> QED BY <1>3, <1>4

(* t leaves its wait list. *)
LEMMA UnlinkedSublists ==
  ASSUME NEW s, KInv(s), NEW t \in Tasks, NEW o \in Objects
  PROVE  LET bl == [s.block_list EXCEPT ![s.block_obj[t]] = list_delete(@, t)]
         IN  Sublist(bl[o], s.block_list[o])
  <1>1. s.block_list \in [Objects -> Seq(Tasks)] /\ IsInjective(s.block_list[o])
    BY DEF KInv, KStates, ListsDistinctIn
  <1>2. Sublist(list_delete(s.block_list[o], t), s.block_list[o])
    BY <1>1, SublistDelete
  <1> QED BY <1>1, <1>2, SublistSame

LEMMA TickSublist ==
  ASSUME NEW s, KInv(s), NEW t
  PROVE  Sublist(list_delete(s.tick_head, t), s.tick_head)
  BY SublistDelete DEF KInv, KStates, ListsDistinctIn

-----------------------------------------------------------------------------
(* A task that is in no list but the ready list. *)
LEMMA LeftLists ==
  ASSUME NEW s, KInv(s), NEW t \in Tasks, NEW r \in KStates,
         IsInjective(r.tick_head), ToSet(r.tick_head) = ToSet(s.tick_head) \ {t},
         \A o \in Objects : IsInjective(r.block_list[o])
                              /\ Waiting(r, o) = Waiting(s, o) \ {t},
         r.state[t] \in {"RDY", "SUSPENDED", "DELETED"},
         \A u \in Tasks \ {t} : r.state[u] = s.state[u] /\ r.block_obj[u] = s.block_obj[u],
         t \in r.ready <=> r.state[t] = "RDY",
         \A u \in Tasks \ {t} : u \in r.ready <=> u \in s.ready
  PROVE  KInv(r)
  <1>1. r.state[t] \notin PendStates /\ r.state[t] \notin TickStates
    BY DEF PendStates, TickStates
  <1>2. ASSUME NEW u \in Tasks
        PROVE  /\ u \in r.ready <=> r.state[u] = "RDY"
               /\ u \in ToSet(r.tick_head) <=> r.state[u] \in TickStates
               /\ \A o \in Objects :
                    u \in ToSet(r.block_list[o])
                      <=> r.state[u] \in PendStates /\ r.block_obj[u] = o
    <2>1. CASE u = t
      BY <1>1, <2>1 DEF Waiting
    <2>2. CASE u # t
      BY <2>2 DEF KInv, StateMatchesListsIn, Waiting
    <2> QED BY <2>1, <2>2
  <1>3. \A u \in Tasks : r.state[u] \in PendStates => r.block_obj[u] \in Objects
    BY <1>1 DEF KInv
  <1> QED BY <1>2, <1>3 DEF KInv, StateMatchesListsIn, ListsDistinctIn

(* end_wait, of a task that waits: it leaves its wait list and the tick    *)
(* list, and becomes ready unless it is suspended.                         *)
LEMMA EndWaitLemma ==
  ASSUME NEW s, KInv(s), NEW t \in Tasks, s.state[t] \in PendStates,
         NEW status \in Statuses, NEW r, r = end_wait(s, t, status)
  PROVE  /\ KInv(r)
         /\ Ended(s, r, {t})
         /\ r.block_status[t] = status
  <1> DEFINE st == IF s.state[t] \in {"PEND", "PEND_TIMEOUT"} THEN "RDY" ELSE "SUSPENDED"
             bl == [s.block_list EXCEPT ![s.block_obj[t]] = list_delete(@, t)]
  <1>0. s \in KStates
    BY DEF KInv
  <1>1. /\ r \in KStates
        /\ r.state = [s.state EXCEPT ![t] = st]
        /\ r.ready = IF s.state[t] \in {"PEND", "PEND_TIMEOUT"} THEN s.ready \cup {t}
                     ELSE s.ready
        /\ r.block_status = [s.block_status EXCEPT ![t] = status]
        /\ r.block_obj = [s.block_obj EXCEPT ![t] = NoObj]
        /\ r.tick_head = list_delete(s.tick_head, t)
        /\ r.block_list = bl
    BY <1>0, EndWaitFields
  <1>2. /\ IsInjective(r.tick_head) /\ ToSet(r.tick_head) = ToSet(s.tick_head) \ {t}
        /\ \A o \in Objects : IsInjective(r.block_list[o])
                                /\ Waiting(r, o) = Waiting(s, o) \ {t}
    <2>1. /\ IsInjective(list_delete(s.tick_head, t))
          /\ ToSet(list_delete(s.tick_head, t)) = ToSet(s.tick_head) \ {t}
          /\ \A o \in Objects : IsInjective(bl[o]) /\ ToSet(bl[o]) = Waiting(s, o) \ {t}
      BY UnlinkedLists
    <2> HIDE DEF bl
    <2> QED BY <1>1, <2>1 DEF Waiting
  <1>3. t \notin s.ready
    BY DEF KInv, StateMatchesListsIn, PendStates
  <1>4. /\ r.state[t] = st /\ r.block_status[t] = status
        /\ \A u \in Tasks \ {t} : /\ r.state[u] = s.state[u] /\ r.block_obj[u] = s.block_obj[u]
                                  /\ r.block_status[u] = s.block_status[u]
    BY <1>0, <1>1 DEF KStates
  <1>5. /\ t \in r.ready <=> st = "RDY"
        /\ \A u \in Tasks \ {t} : u \in r.ready <=> u \in s.ready
    BY <1>1, <1>3
  <1>6. st \in {"RDY", "SUSPENDED"}
    OBVIOUS
  <1> HIDE DEF st, bl
  <1>7. KInv(r)
    <2>1. r \in KStates
      BY <1>1
    <2>2. /\ r.state[t] \in {"RDY", "SUSPENDED", "DELETED"}
          /\ t \in r.ready <=> r.state[t] = "RDY"
          /\ \A u \in Tasks \ {t} : u \in r.ready <=> u \in s.ready
      BY <1>4, <1>5, <1>6
    <2>3. \A u \in Tasks \ {t} : r.state[u] = s.state[u] /\ r.block_obj[u] = s.block_obj[u]
      BY <1>4
    <2> QED BY <1>2, <2>1, <2>2, <2>3, LeftLists
  <1> QED BY <1>2, <1>4, <1>6, <1>7 DEF Ended

LEMMA EndWaitGentle ==
  ASSUME NEW s, KInv(s), NEW t \in Tasks, s.state[t] # "DELETED", NEW status \in Statuses,
         NEW r, r = end_wait(s, t, status)
  PROVE  Gentle(s, r) /\ r.tick_head = list_delete(s.tick_head, t)
  <1> DEFINE bl == [s.block_list EXCEPT ![s.block_obj[t]] = list_delete(@, t)]
  <1>0. s \in KStates
    BY DEF KInv
  <1>1. /\ r \in KStates
        /\ r.state = [s.state EXCEPT ![t] =
             IF s.state[t] \in {"PEND", "PEND_TIMEOUT"} THEN "RDY" ELSE "SUSPENDED"]
        /\ r.ready = IF s.state[t] \in {"PEND", "PEND_TIMEOUT"} THEN s.ready \cup {t}
                     ELSE s.ready
        /\ r.block_status = [s.block_status EXCEPT ![t] = status]
        /\ r.block_obj = [s.block_obj EXCEPT ![t] = NoObj]
        /\ r.tick_head = list_delete(s.tick_head, t)
        /\ r.block_list = bl
        /\ r.priority = s.priority
        /\ r.tick_match = s.tick_match /\ r.raw_tick_count = s.raw_tick_count
    BY <1>0, EndWaitFields, SMTT(40)
  <1>2. \A o \in Objects : Sublist(bl[o], s.block_list[o])
    BY UnlinkedSublists
  <1> HIDE DEF bl
  <1>3. Fewer(s, r)
    BY <1>1, <1>2, TickSublist DEF Fewer
  <1>4. r.state[t] \in {"RDY", "SUSPENDED"} /\ \A u \in Tasks \ {t} : r.state[u] = s.state[u]
    BY <1>0, <1>1 DEF KStates
  <1>5. r.block_obj[t] = NoObj /\ \A u \in Tasks \ {t} : r.block_obj[u] = s.block_obj[u]
    BY <1>0, <1>1 DEF KStates
  <1>6. Alive(r) = Alive(s)
    BY <1>4 DEF Alive
  <1>7. ObjectsMatch(s) => ObjectsMatch(r)
    BY <1>4, <1>5, <1>6 DEF ObjectsMatch, Alive
  <1> QED BY <1>1, <1>3, <1>5, <1>6, <1>7 DEF Gentle

(* The states between the rounds of end_waits. *)
LEMMA EndWaitsRounds ==
  ASSUME NEW s \in KStates, NEW o \in Objects, NEW who, NEW status \in Statuses
  PROVE  LET list == s.block_list[o]
         IN  \E h : /\ h[0] = s /\ end_waits(s, o, who, status) = h[Len(list)]
                    /\ \A i \in 1 .. Len(list) : h[i] =
                         IF list[i] \in who THEN end_wait(h[i - 1], list[i], status)
                         ELSE h[i - 1]
  <1> DEFINE list == s.block_list[o]
             N == Len(list)
             E(g) == [i \in 0 .. N |->
                        IF i = 0 THEN s
                        ELSE IF list[i] \in who THEN end_wait(g[i - 1], list[i], status)
                        ELSE g[i - 1]]
             F == [i \in 1 .. N |-> [x \in KStates |->
                     IF list[i] \in who THEN end_wait(x, list[i], status) ELSE x]]
             h == CHOOSE g : g = E(g)
  <1>1. list \in Seq(Tasks) /\ N \in Nat
    BY LenProperties DEF KStates
  <1>2. end_waits(s, o, who, status) = h[N]
    BY DEF end_waits
  <1> HIDE DEF list
  <1>3. \A i \in 1 .. N : list[i] \in Tasks
    BY <1>1, ElementOfSeq
  <1>4. F \in [1 .. N -> [KStates -> KStates]]
    <2>1. \A i \in 1 .. N, x \in KStates : end_wait(x, list[i], status) \in KStates
      BY <1>3, EndWaitFields
    <2> QED BY <2>1
  <1>5. PICK g \in [0 .. N -> KStates] :
          g[0] = s /\ \A i \in 1 .. N : g[i] = F[i][g[i - 1]]
    <2> HIDE DEF F, N, E, h
    <2>1. N \in Nat /\ s \in KStates
      BY <1>1
    <2> QED BY <1>4, <2>1, Iteration
  <1>6. g = E(g)
    <2>1. \A i \in 1 .. N : g[i - 1] \in KStates
      BY <1>1, <1>5
    <2>2. g[0] = E(g)[0]
      BY <1>1, <1>5
    <2>3. ASSUME NEW i \in 1 .. N PROVE g[i] = E(g)[i]
      <3>1. i \in 0 .. N /\ i # 0
        OBVIOUS
      <3>2. g[i] = IF list[i] \in who THEN end_wait(g[i - 1], list[i], status) ELSE g[i - 1]
        BY <1>5, <2>1
      <3> QED BY <3>1, <3>2
    <2>4. \A i \in 0 .. N : i = 0 \/ i \in 1 .. N
      OBVIOUS
    <2>5. \A i \in 0 .. N : g[i] = E(g)[i]
      <3> HIDE DEF E
      <3> QED BY <2>2, <2>3, <2>4
    <2>6. E(g) = [i \in 0 .. N |-> E(g)[i]]
      OBVIOUS
    <2>7. g = [i \in 0 .. N |-> g[i]]
      BY <1>5
    <2> HIDE DEF E
    <2> QED BY <2>5, <2>6, <2>7
  <1> HIDE DEF N
  <1>7. h = E(h)
    <2> HIDE DEF E
    <2> QED BY <1>6
  <1> HIDE DEF h
  <1>8. h[0] = s /\ \A i \in 1 .. N : h[i] =
          IF list[i] \in who THEN end_wait(h[i - 1], list[i], status) ELSE h[i - 1]
    <2>1. \A i \in 0 .. N : h[i] = E(h)[i]
      BY <1>7
    <2>2. \A i \in 1 .. N : i \in 0 .. N /\ i # 0
      BY <1>1
    <2> HIDE DEF E
    <2>3. h[0] = E(h)[0] /\ \A i \in 1 .. N : h[i] = E(h)[i]
      BY <1>1, <2>1, <2>2
    <2> USE DEF E
    <2>4. E(h)[0] = s
      BY <1>1
    <2>5. \A i \in 1 .. N : E(h)[i] =
            IF list[i] \in who THEN end_wait(h[i - 1], list[i], status) ELSE h[i - 1]
      BY <2>2
    <2> HIDE DEF E
    <2> QED BY <2>3, <2>4, <2>5
  <1> QED BY <1>2, <1>8 DEF N, list

(* One wait more that ends. *)
LEMMA EndedMore ==
  ASSUME NEW s, NEW q, NEW r, NEW V \in SUBSET Tasks, NEW t \in Tasks, t \notin V,
         Ended(s, q, V), Ended(q, r, {t})
  PROVE  Ended(s, r, V \cup {t})
  <1>1. /\ \A u \in V \cup {t} : r.state[u] \in {"RDY", "SUSPENDED"}
        /\ \A u \in Tasks \ (V \cup {t}) : /\ r.state[u] = s.state[u]
                                           /\ r.block_status[u] = s.block_status[u]
                                           /\ r.block_obj[u] = s.block_obj[u]
    BY DEF Ended
  <1>2. \A o \in Objects : Waiting(r, o) = Waiting(s, o) \ (V \cup {t})
    BY DEF Ended
  <1> QED BY <1>1, <1>2 DEF Ended

(* end_waits ends the waits of the tasks in who that wait for o, and no    *)
(* other.                                                                  *)
LEMMA EndWaitsLemma ==
  ASSUME NEW s, KInv(s), NEW o \in Objects, NEW who, NEW status \in Statuses,
         NEW r, r = end_waits(s, o, who, status)
  PROVE  /\ KInv(r)
         /\ Ended(s, r, Waiting(s, o) \cap who)
         /\ \A t \in Waiting(s, o) \cap who : r.block_status[t] = status
         /\ Gentle(s, r)
  <1> DEFINE list == s.block_list[o]
             N == Len(list)
  <1>0. s \in KStates
    BY DEF KInv
  <1>1. PICK h : /\ h[0] = s /\ r = h[N]
                 /\ \A i \in 1 .. N : h[i] =
                      IF list[i] \in who THEN end_wait(h[i - 1], list[i], status)
                      ELSE h[i - 1]
    BY <1>0, EndWaitsRounds
  <1>2. list \in Seq(Tasks) /\ IsInjective(list)
    BY <1>0 DEF KInv, KStates, ListsDistinctIn
  <1>3. N \in Nat /\ DOMAIN list = 1 .. N /\ \A i \in 1 .. N : list[i] \in Tasks
    BY <1>2, LenProperties, ElementOfSeq
  <1> HIDE DEF list, N
  <1> DEFINE W(i) == {list[j] : j \in 1 .. i} \cap who
             T == {i \in 0 .. N : /\ KInv(h[i])
                                  /\ Ended(s, h[i], W(i))
                                  /\ \A t \in W(i) : h[i].block_status[t] = status
                                  /\ Gentle(s, h[i])}
  <1>4. W(0) = {}
    OBVIOUS
  <1>5. 0 \in T
    <2>1. Ended(s, s, {})
      BY DEF Ended
    <2>2. h[0] = s /\ 0 \in 0 .. N
      BY <1>1, <1>3
    <2>3. \A t \in W(0) : h[0].block_status[t] = status
      BY <1>4
    <2> HIDE DEF W
    <2>4. Ended(s, h[0], W(0))
      BY <1>4, <2>1, <2>2
    <2> QED BY <2>2, <2>3, <2>4, GentleSame
  <1>6. ASSUME NEW i \in 1 .. N, i - 1 \in T PROVE i \in T
    <2> DEFINE t == list[i]
               q == h[i - 1]
    <2>1. /\ KInv(q) /\ Ended(s, q, W(i - 1))
          /\ \A u \in W(i - 1) : q.block_status[u] = status
          /\ Gentle(s, q)
      BY <1>6
    <2>2. t \in Tasks /\ t \notin W(i - 1)
      BY <1>2, <1>3 DEF IsInjective
    <2>3. W(i) = IF t \in who THEN W(i - 1) \cup {t} ELSE W(i - 1)
      <3>1. \A j : j \in 1 .. i <=> j \in 1 .. i - 1 \/ j = i
        BY <1>3
      <3> QED BY <3>1
    <2>4. W(i - 1) \subseteq Tasks
      BY <1>3
    <2>5. t \in Waiting(s, o)
      BY <1>3 DEF Waiting, ToSet, list
    <2>6. h[i] = IF t \in who THEN end_wait(q, t, status) ELSE q
      BY <1>1
    <2> HIDE DEF W, t, q
    <2>7. CASE t \notin who
      BY <1>3, <2>1, <2>3, <2>6, <2>7
    <2>8. CASE t \in who
      <3>1. t \in Waiting(q, o)
        BY <2>1, <2>2, <2>5 DEF Ended
      <3>2. q.state[t] \in PendStates
        BY <2>1, <2>2, <3>1 DEF KInv, StateMatchesListsIn, Waiting
      <3>3. h[i] = end_wait(q, t, status)
        BY <2>6, <2>8
      <3>4. KInv(h[i]) /\ Ended(q, h[i], {t}) /\ h[i].block_status[t] = status
        BY <2>1, <2>2, <3>2, <3>3, EndWaitLemma
      <3>5. Ended(s, h[i], W(i))
        BY <2>1, <2>2, <2>3, <2>4, <2>8, <3>4, EndedMore
      <3>6. \A u \in W(i) : h[i].block_status[u] = status
        BY <2>1, <2>2, <2>3, <2>4, <2>8, <3>4 DEF Ended
      <3>7. Gentle(s, h[i])
        <4>1. q.state[t] # "DELETED"
          BY <3>2 DEF PendStates
        <4>2. Gentle(q, h[i])
          BY <2>1, <2>2, <3>3, <4>1, EndWaitGentle
        <4> QED BY <2>1, <4>2, GentleTrans
      <3> QED BY <1>3, <3>4, <3>5, <3>6, <3>7
    <2> QED BY <2>7, <2>8
  <1>7. N \in T
    <2> HIDE DEF T
    <2>1. \A i \in 0 .. N : i \in T
      BY <1>3, <1>5, <1>6, Rounds
    <2> QED BY <1>3, <2>1
  <1>8. W(N) = Waiting(s, o) \cap who
    BY <1>3 DEF Waiting, ToSet, list
  <1> HIDE DEF W
  <1> QED BY <1>1, <1>7, <1>8

-----------------------------------------------------------------------------
(***************************************************************************)
(* Ticks.                                                                  *)
(***************************************************************************)

(* delete_pend_objs *)
LEMMA DeleteObjsLemma ==
  ASSUME NEW s, KInv(s), NEW o \in Objects, NEW r, r = delete_pend_objs(s, o)
  PROVE  /\ KInv(r) /\ Ended(s, r, Waiting(s, o))
         /\ \A t \in Waiting(s, o) : r.block_status[t] = "DEL"
         /\ Gentle(s, r)
  <1>1. Waiting(s, o) \cap Tasks = Waiting(s, o)
    <2>1. s.block_list[o] \in Seq(Tasks)
      BY DEF KInv, KStates
    <2> QED BY <2>1, EmptyLemma DEF Waiting
  <1>2. r = end_waits(s, o, Tasks, "DEL") /\ "DEL" \in Statuses
    BY DEF delete_pend_objs, Statuses
  <1> DEFINE who == Tasks
             status == "DEL"
  <1>3. r = end_waits(s, o, who, status)
    BY <1>2
  <1>4. status \in Statuses
    BY <1>2
  <1> HIDE DEF who, status
  <1>5. /\ KInv(r)
        /\ Ended(s, r, Waiting(s, o) \cap who)
        /\ \A t \in Waiting(s, o) \cap who : r.block_status[t] = status
        /\ Gentle(s, r)
    BY <1>3, <1>4, EndWaitsLemma
  <1> QED BY <1>1, <1>5 DEF who, status

(* What t's lists and state must agree on when only t has changed.         *)
LEMMA OneTask ==
  ASSUME NEW s, KInv(s), NEW t \in Tasks, NEW r \in KStates, ListsDistinctIn(r),
         \A u \in Tasks \ {t} :
           /\ r.state[u] = s.state[u] /\ r.block_obj[u] = s.block_obj[u]
           /\ u \in r.ready <=> u \in s.ready
           /\ u \in ToSet(r.tick_head) <=> u \in ToSet(s.tick_head)
           /\ \A o \in Objects : u \in Waiting(r, o) <=> u \in Waiting(s, o),
         t \in r.ready <=> r.state[t] = "RDY",
         t \in ToSet(r.tick_head) <=> r.state[t] \in TickStates,
         \A o \in Objects :
           t \in Waiting(r, o) <=> r.state[t] \in PendStates /\ r.block_obj[t] = o,
         r.state[t] \in PendStates => r.block_obj[t] \in Objects
  PROVE  KInv(r)
  <1>1. ASSUME NEW u \in Tasks
        PROVE  /\ u \in r.ready <=> r.state[u] = "RDY"
               /\ u \in ToSet(r.tick_head) <=> r.state[u] \in TickStates
               /\ \A o \in Objects :
                    u \in Waiting(r, o) <=> r.state[u] \in PendStates /\ r.block_obj[u] = o
               /\ r.state[u] \in PendStates => r.block_obj[u] \in Objects
    <2>1. CASE u = t
      BY <2>1
    <2>2. CASE u # t
      BY <2>2 DEF KInv, StateMatchesListsIn, Waiting
    <2> QED BY <2>1, <2>2
  <1> QED BY <1>1 DEF KInv, StateMatchesListsIn, Waiting

(* A task that waits for a time leaves the tick list. *)
LEMMA TickListRemove ==
  ASSUME NEW s, KInv(s), NEW t \in Tasks, NEW r, r = tick_list_remove(s, t)
  PROVE  /\ r \in KStates /\ ListsDistinctIn(r)
         /\ ToSet(r.tick_head) = ToSet(s.tick_head) \ {t}
         /\ r.state = s.state /\ r.block_obj = s.block_obj /\ r.ready = s.ready
         /\ r.block_status = s.block_status /\ r.block_list = s.block_list
         /\ r.priority = s.priority /\ r.tick_match = s.tick_match
         /\ r.raw_tick_count = s.raw_tick_count
         /\ r.tick_head = list_delete(s.tick_head, t)
  <1>0. s \in KStates
    BY DEF KInv
  <1> DEFINE th == list_delete(s.tick_head, t)
  <1>1. th \in Seq(Tasks)
    BY <1>0, DeleteSeq DEF KStates
  <1>2. IsInjective(th) /\ ToSet(th) = ToSet(s.tick_head) \ {t}
    BY UnlinkedLists
  <1>3. r = [s EXCEPT !.tick_head = th]
    BY <1>0 DEF tick_list_remove, KStates
  <1> HIDE DEF th
  <1>4. /\ r \in KStates /\ r.tick_head = th
        /\ r.state = s.state /\ r.block_obj = s.block_obj /\ r.ready = s.ready
        /\ r.block_status = s.block_status /\ r.block_list = s.block_list
        /\ r.priority = s.priority /\ r.tick_match = s.tick_match
        /\ r.raw_tick_count = s.raw_tick_count
    BY <1>0, <1>1, <1>3 DEF KStates
  <1> QED BY <1>2, <1>4 DEF KInv, ListsDistinctIn, th

(* One task whose time has come. *)
LEMMA ExpireLemma ==
  ASSUME NEW s, KInv(s), NEW t \in Tasks, s.state[t] \in TickStates,
         NEW r, r = expire(s, t)
  PROVE  /\ KInv(r)
         /\ Ended(s, r, {t})
         /\ s.state[t] \in PendStates => r.block_status[t] = "TIMEOUT"
         /\ Gentle(s, r) /\ r.tick_head = list_delete(s.tick_head, t)
  <1>0. s \in KStates
    BY DEF KInv
  <1>1. CASE s.state[t] \in {"PEND_TIMEOUT", "PEND_TIMEOUT_SUSPENDED"}
    <2>1. r = end_wait(s, t, "TIMEOUT")
      BY <1>1 DEF expire
    <2>2. /\ s.state[t] \in PendStates /\ "TIMEOUT" \in Statuses
          /\ s.state[t] # "DELETED"
      BY <1>1 DEF PendStates, Statuses
    <2>3. Gentle(s, r) /\ r.tick_head = list_delete(s.tick_head, t)
      BY <2>1, <2>2, EndWaitGentle
    <2> QED BY <2>1, <2>2, <2>3, EndWaitLemma
  <1>2. CASE s.state[t] \in {"DLY", "DLY_SUSPENDED"}
    <2> DEFINE q == tick_list_remove(s, t)
               st == IF s.state[t] = "DLY" THEN "RDY" ELSE "SUSPENDED"
               rd == IF s.state[t] = "DLY" THEN q.ready \cup {t} ELSE q.ready
    <2>1. /\ q \in KStates /\ ListsDistinctIn(q)
          /\ ToSet(q.tick_head) = ToSet(s.tick_head) \ {t}
          /\ q.state = s.state /\ q.block_obj = s.block_obj /\ q.ready = s.ready
          /\ q.block_status = s.block_status /\ q.block_list = s.block_list
          /\ q.priority = s.priority /\ q.tick_match = s.tick_match
          /\ q.raw_tick_count = s.raw_tick_count
          /\ q.tick_head = list_delete(s.tick_head, t)
      BY TickListRemove
    <2>2. r = IF s.state[t] = "DLY" THEN [make_ready(q, t) EXCEPT !.block_status[t] = "OK"]
              ELSE [q EXCEPT !.block_status[t] = "OK", !.state[t] = "SUSPENDED"]
      BY <1>2 DEF expire
    <2> HIDE DEF q
    <2>3. r = [q EXCEPT !.state[t] = st, !.ready = rd, !.block_status[t] = "OK"]
      BY <1>2, <2>1, <2>2 DEF make_ready, KStates
    <2>4. st \in States /\ rd \in SUBSET Tasks /\ "OK" \in Statuses
      BY <2>1, StatesAre DEF KStates, Statuses
    <2>5. st \in {"RDY", "SUSPENDED"} /\ (st = "RDY" <=> s.state[t] = "DLY")
      OBVIOUS
    <2>6. rd = IF s.state[t] = "DLY" THEN s.ready \cup {t} ELSE s.ready
      BY <2>1
    <2> HIDE DEF st, rd
    <2>7. /\ r.state = [q.state EXCEPT ![t] = st] /\ r.ready = rd
          /\ r.block_status = [q.block_status EXCEPT ![t] = "OK"]
          /\ r.block_obj = q.block_obj /\ r.tick_head = q.tick_head
          /\ r.block_list = q.block_list
          /\ r.priority = q.priority /\ r.tick_match = q.tick_match
          /\ r.raw_tick_count = q.raw_tick_count
      BY <2>1, <2>3 DEF KStates
    <2>8. r \in KStates
      <3>1. /\ [q.state EXCEPT ![t] = st] \in [Tasks -> States]
            /\ [q.block_status EXCEPT ![t] = "OK"] \in [Tasks -> Statuses]
        BY <2>1, <2>4 DEF KStates
      <3>2. r = [q EXCEPT !.state = [q.state EXCEPT ![t] = st], !.ready = rd,
                          !.block_status = [q.block_status EXCEPT ![t] = "OK"]]
        BY <2>1, <2>3 DEF KStates
      <3> QED BY <2>1, <2>4, <3>1, <3>2 DEF KStates
    <2>9. /\ r.state[t] = st
          /\ \A u \in Tasks \ {t} : /\ r.state[u] = s.state[u]
                                    /\ r.block_status[u] = s.block_status[u]
                                    /\ r.block_obj[u] = s.block_obj[u]
      BY <1>0, <2>1, <2>7 DEF KStates
    <2>10. \A o \in Objects : t \notin Waiting(s, o)
      BY <1>2 DEF KInv, StateMatchesListsIn, Waiting, PendStates
    <2>11. \A o \in Objects : Waiting(r, o) = Waiting(s, o) \ {t}
      BY <2>1, <2>7, <2>10 DEF Waiting
    <2>12. Ended(s, r, {t})
      BY <2>5, <2>9, <2>11 DEF Ended
    <2>13. KInv(r)
      <3>1. /\ IsInjective(r.tick_head) /\ ToSet(r.tick_head) = ToSet(s.tick_head) \ {t}
            /\ \A o \in Objects : IsInjective(r.block_list[o])
                                    /\ Waiting(r, o) = Waiting(s, o) \ {t}
        BY <2>1, <2>7, <2>11 DEF ListsDistinctIn
      <3>2. r.state[t] \in {"RDY", "SUSPENDED", "DELETED"}
        BY <2>5, <2>9
      <3>3. \A u \in Tasks \ {t} : r.state[u] = s.state[u] /\ r.block_obj[u] = s.block_obj[u]
        BY <2>9
      <3>4. t \notin s.ready
        BY <1>2 DEF KInv, StateMatchesListsIn
      <3>5. /\ t \in r.ready <=> r.state[t] = "RDY"
            /\ \A u \in Tasks \ {t} : u \in r.ready <=> u \in s.ready
        BY <2>5, <2>6, <2>7, <2>9, <3>4
      <3> QED BY <2>8, <3>1, <3>2, <3>3, <3>5, LeftLists
    <2>14. s.state[t] \notin PendStates
      BY <1>2 DEF PendStates
    <2>15. Fewer(s, r)
      BY <2>1, <2>7, SublistSame, TickSublist DEF Fewer
    <2>16. Alive(r) = Alive(s)
      BY <1>2, <2>5, <2>9 DEF Alive
    <2>17. ObjectsMatch(s) => ObjectsMatch(r)
      BY <2>1, <2>7, <2>9, <2>14, <2>16 DEF ObjectsMatch, Alive
    <2>18. Gentle(s, r)
      BY <2>1, <2>7, <2>15, <2>16, <2>17 DEF Gentle
    <2> QED BY <2>1, <2>7, <2>12, <2>13, <2>14, <2>18
  <1> QED BY <1>1, <1>2 DEF TickStates

(* The first i elements of a list. *)
First(ts, i) == {ts[j] : j \in 1 .. i}

(* The states between the rounds of expire_all. *)
LEMMA ExpireRounds ==
  ASSUME NEW s, KInv(s), NEW ts \in Seq(Tasks), IsInjective(ts),
         \A t \in ToSet(ts) : s.state[t] \in TickStates
  PROVE  \E g : /\ g[0] = s /\ expire_all(s, ts) = g[Len(ts)]
                /\ \A i \in 0 .. Len(ts) :
                     /\ KInv(g[i]) /\ Ended(s, g[i], First(ts, i))
                     /\ \A t \in First(ts, i) : s.state[t] \in PendStates
                                                  => g[i].block_status[t] = "TIMEOUT"
  <1> DEFINE N == Len(ts)
             KI == {x \in KStates : KInv(x)}
             E(g) == [i \in 0 .. N |-> IF i = 0 THEN s ELSE expire(g[i - 1], ts[i])]
             F == [i \in 1 .. N |-> [x \in KI |->
                     IF x.state[ts[i]] \in TickStates THEN expire(x, ts[i]) ELSE x]]
             h == CHOOSE g : g = E(g)
             Good(x, i) ==
               /\ KInv(x) /\ Ended(s, x, First(ts, i))
               /\ \A t \in First(ts, i) : s.state[t] \in PendStates => x.block_status[t] = "TIMEOUT"
  <1>1. N \in Nat /\ DOMAIN ts = 1 .. N /\ \A i \in 1 .. N : ts[i] \in Tasks
    BY LenProperties, ElementOfSeq
  <1>2. expire_all(s, ts) = h[N]
    BY DEF expire_all
  <1>3. F \in [1 .. N -> [KI -> KI]]
    <2>1. \A i \in 1 .. N, x \in KStates :
            KInv(x) /\ x.state[ts[i]] \in TickStates => KInv(expire(x, ts[i]))
      BY <1>1, ExpireLemma
    <2>2. \A x : KInv(x) => x \in KStates
      BY DEF KInv
    <2> QED BY <2>1, <2>2
  <1>4. PICK g \in [0 .. N -> KI] :
          g[0] = s /\ \A i \in 1 .. N : g[i] = F[i][g[i - 1]]
    <2> HIDE DEF F, N, E, h, KI
    <2>1. N \in Nat
      BY <1>1
    <2>2. s \in KI
      BY DEF KInv, KI
    <2> HIDE DEF Good
    <2> QED BY <1>3, <2>1, <2>2, Iteration, SMTT(60)
  <1>5. \A i \in 1 .. N : g[i] = IF g[i - 1].state[ts[i]] \in TickStates
                                 THEN expire(g[i - 1], ts[i]) ELSE g[i - 1]
    <2>1. \A i \in 1 .. N : i - 1 \in 0 .. N
      BY <1>1
    <2>2. \A i \in 1 .. N : g[i - 1] \in KI
      BY <1>4, <2>1
    <2> QED BY <1>4, <2>2
  <1> HIDE DEF F
  <1> DEFINE T == {i \in 0 .. N : Good(g[i], i)}
  <1>6. 0 \in T
    <2>1. First(ts, 0) = {}
      BY DEF First
    <2>2. Ended(s, s, {})
      BY DEF Ended
    <2>3. Good(s, 0)
      BY <2>1, <2>2
    <2> QED BY <1>1, <1>4, <2>3
  <1>7. ASSUME NEW i \in 1 .. N, i - 1 \in T
        PROVE  i \in T /\ g[i - 1].state[ts[i]] \in TickStates
    <2> DEFINE t == ts[i]
               q == g[i - 1]
    <2>1. Good(q, i - 1) /\ q \in KStates
      BY <1>7 DEF KInv
    <2>2. t \in Tasks /\ t \notin First(ts, i - 1)
      BY <1>1 DEF IsInjective, First
    <2>3. First(ts, i) = First(ts, i - 1) \cup {t}
      <3>1. \A j : j \in 1 .. i <=> j \in 1 .. i - 1 \/ j = i
        BY <1>1
      <3> QED BY <3>1 DEF First
    <2>4. First(ts, i - 1) \subseteq Tasks
      BY <1>1 DEF First
    <2>5. s.state[t] \in TickStates
      BY <1>1 DEF ToSet
    <2>6. g[i] = IF q.state[t] \in TickStates THEN expire(q, t) ELSE q
      BY <1>5
    <2> HIDE DEF t, q
    <2>7. q.state[t] = s.state[t]
      BY <2>1, <2>2 DEF Ended
    <2>8. q.state[t] \in TickStates /\ g[i] = expire(q, t)
      BY <2>5, <2>6, <2>7
    <2>9. /\ KInv(g[i]) /\ Ended(q, g[i], {t})
          /\ q.state[t] \in PendStates => g[i].block_status[t] = "TIMEOUT"
      BY <2>1, <2>2, <2>8, ExpireLemma
    <2>10. Ended(s, g[i], First(ts, i))
      BY <2>1, <2>2, <2>3, <2>4, <2>9, EndedMore
    <2>11. \A u \in First(ts, i) : s.state[u] \in PendStates => g[i].block_status[u] = "TIMEOUT"
      BY <2>1, <2>2, <2>3, <2>4, <2>7, <2>9 DEF Ended
    <2>12. Good(g[i], i)
      BY <2>9, <2>10, <2>11
    <2> QED BY <1>1, <2>8, <2>12 DEF t, q
  <1>8. \A i \in 0 .. N : i \in T
    <2> HIDE DEF T
    <2> QED BY <1>1, <1>6, <1>7, Rounds
  <1>9. \A i \in 1 .. N : g[i] = expire(g[i - 1], ts[i])
    <2>1. \A i \in 1 .. N : i - 1 \in 0 .. N
      BY <1>1
    <2> HIDE DEF T
    <2> QED BY <1>5, <1>7, <1>8, <2>1
  <1>10. g = E(g)
    <2>1. \A i \in 0 .. N : g[i] = E(g)[i]
      BY <1>1, <1>4, <1>9
    <2> QED BY <1>4, <2>1
  <1>11. h = E(h)
    <2> HIDE DEF E
    <2> QED BY <1>10
  <1> HIDE DEF h
  <1> DEFINE S == {i \in 0 .. N : h[i] = g[i]}
  <1>12. 0 \in S
    BY <1>1, <1>4, <1>11
  <1>13. \A i \in 1 .. N : i - 1 \in S => i \in S
    <2> SUFFICES ASSUME NEW i \in 1 .. N, i - 1 \in S PROVE i \in S
      OBVIOUS
    <2>1. i \in 0 .. N /\ i # 0
      BY <1>1
    <2>2. E(h)[i] = expire(h[i - 1], ts[i])
      BY <2>1
    <2> HIDE DEF E
    <2>3. h[i] = expire(h[i - 1], ts[i])
      BY <1>11, <2>2
    <2> QED BY <1>9, <2>1, <2>3
  <1>14. h[N] = g[N]
    <2> HIDE DEF S
    <2>1. \A i \in 0 .. N : i \in S
      BY <1>1, <1>12, <1>13, Rounds
    <2> USE DEF S
    <2> QED BY <1>1, <2>1
  <1> HIDE DEF N, E
  <1>15. \A i \in 0 .. N : Good(g[i], i)
    BY <1>8
  <1> QED BY <1>2, <1>4, <1>14, <1>15 DEF N

(* tick_list_update *)
LEMMA TickLemma ==
  ASSUME NEW s, KInv(s), TICKS \in Nat \ {0}, NEW r,
         r = LET k1 == advance_tick(s) IN expire_all(k1, due(k1))
  PROVE  KInv(r)
         /\ \E W \in SUBSET Tasks :
              /\ Ended(s, r, W)
              /\ \A t \in W : /\ s.state[t] \in TickStates
                              /\ s.state[t] \in PendStates => r.block_status[t] = "TIMEOUT"
  <1> DEFINE q == advance_tick(s)
             ts == due(q)
  <1>0. s \in KStates
    BY DEF KInv
  <1>1. /\ q \in KStates /\ q.state = s.state /\ q.block_status = s.block_status
        /\ q.block_obj = s.block_obj /\ q.ready = s.ready /\ q.tick_head = s.tick_head
        /\ q.block_list = s.block_list
    <2> DEFINE c == (s.raw_tick_count + 1) % TICKS
    <2>1. c \in Int
      BY <1>0 DEF KStates
    <2>2. q = [s EXCEPT !.raw_tick_count = c]
      BY <1>0 DEF advance_tick, KStates
    <2> HIDE DEF c, q
    <2> QED BY <1>0, <2>1, <2>2 DEF KStates
  <1>2. KInv(q)
    BY <1>1 DEF KInv, StateMatchesListsIn, ListsDistinctIn
  <1> DEFINE th == q.tick_head
             I == {j \in 1 .. Len(th) : q.tick_match[th[j]] # q.raw_tick_count}
             i == Min(I)
  <1>3. th \in Seq(Tasks) /\ IsInjective(th)
    BY <1>2 DEF KInv, KStates, ListsDistinctIn
  <1>4. Len(th) \in Nat /\ DOMAIN th = 1 .. Len(th)
    BY <1>3, LenProperties
  <1>5. ts = IF I = {} THEN th ELSE IF i = 0 THEN th ELSE SubSeq(th, 1, i - 1)
    BY DEF due, SelectInSeq
  <1> HIDE DEF q, th
  <1>6. I # {} => i \in 1 .. Len(th)
    <2>1. I \subseteq Nat /\ I \subseteq 1 .. Len(th)
      BY <1>4
    <2> HIDE DEF I
    <2> QED BY <2>1, MinLemma
  <1> HIDE DEF ts, I, i
  <1>7. ts \in Seq(Tasks) /\ IsInjective(ts) /\ ToSet(ts) \subseteq ToSet(th)
    <2>1. CASE I = {}
      BY <1>3, <1>5, <2>1
    <2>2. CASE I # {}
      <3>1. i \in 1 .. Len(th) /\ ts = SubSeq(th, 1, i - 1)
        BY <1>5, <1>6, <2>2
      <3>2. /\ ts \in Seq(Tasks) /\ Len(ts) = i - 1 /\ DOMAIN ts = 1 .. i - 1
            /\ \A j \in 1 .. i - 1 : ts[j] = th[j]
        BY <1>3, <1>4, <3>1
      <3>3. \A j \in 1 .. i - 1 : j \in 1 .. Len(th)
        BY <1>4, <3>1
      <3> QED BY <1>3, <1>4, <3>2, <3>3 DEF IsInjective, ToSet
    <2> QED BY <2>1, <2>2
  <1>8. \A t \in ToSet(ts) : t \in Tasks /\ q.state[t] \in TickStates
    BY <1>2, <1>3, <1>7, EmptyLemma DEF KInv, StateMatchesListsIn, th
  <1>9. PICK g : /\ g[0] = q /\ expire_all(q, ts) = g[Len(ts)]
                 /\ \A n \in 0 .. Len(ts) :
                      /\ KInv(g[n]) /\ Ended(q, g[n], First(ts, n))
                      /\ \A t \in First(ts, n) : q.state[t] \in PendStates
                                           => g[n].block_status[t] = "TIMEOUT"
    BY <1>2, <1>7, <1>8, ExpireRounds
  <1>10. r = g[Len(ts)]
    BY <1>9 DEF q, ts
  <1>11. Len(ts) \in 0 .. Len(ts) /\ First(ts, Len(ts)) = ToSet(ts)
    BY <1>7, LenProperties DEF ToSet, First
  <1>12. /\ KInv(r) /\ Ended(q, r, ToSet(ts))
         /\ \A t \in ToSet(ts) : q.state[t] \in PendStates => r.block_status[t] = "TIMEOUT"
    BY <1>9, <1>10, <1>11
  <1>13. Ended(s, r, ToSet(ts))
    BY <1>1, <1>12 DEF Ended, Waiting
  <1> QED BY <1>1, <1>8, <1>12, <1>13

-----------------------------------------------------------------------------
(***************************************************************************)
(* Waiting.                                                                *)
(***************************************************************************)

(* tick_list_insert *)
LEMMA TickListInsert ==
  ASSUME NEW s \in KStates, ListsDistinctIn(s), NEW t \in Tasks,
         t \notin ToSet(s.tick_head), TICKS \in Nat \ {0},
         NEW time \in Int, time # 0, NEW r, r = tick_list_insert(s, t, time)
  PROVE  /\ r \in KStates /\ ListsDistinctIn(r)
         /\ ToSet(r.tick_head) = ToSet(s.tick_head) \cup {t}
         /\ r.state = s.state /\ r.block_obj = s.block_obj /\ r.ready = s.ready
         /\ r.block_status = s.block_status /\ r.block_list = s.block_list
         /\ r.priority = s.priority
  <1> DEFINE tm == [s.tick_match EXCEPT ![t] = (s.raw_tick_count + time) % TICKS]
             q == [s EXCEPT !.tick_match = tm]
             key == [u \in Tasks |-> Remaining(q, u)]
             th == SortedInsert(s.tick_head, t, key)
  <1>1. tm \in [Tasks -> Int]
    <2>1. (s.raw_tick_count + time) % TICKS \in Int
      BY DEF KStates
    <2> QED BY <2>1 DEF KStates
  <1>2. r = [q EXCEPT !.tick_head = th]
    <2>1. [s EXCEPT !.tick_match[t] = (s.raw_tick_count + time) % TICKS] = q
      BY DEF KStates
    <2> QED BY <2>1 DEF tick_list_insert, KStates
  <1> HIDE DEF tm
  <1>3. key \in [Tasks -> Int]
    <2>1. \A u \in Tasks : q.tick_match[u] \in Int /\ q.raw_tick_count \in Int
      BY <1>1 DEF KStates
    <2> HIDE DEF q
    <2>2. \A u \in Tasks : (q.tick_match[u] - q.raw_tick_count) % TICKS \in Int
      BY <2>1
    <2> QED BY <2>2 DEF Remaining
  <1>4. s.tick_head \in Seq(Tasks) /\ IsInjective(s.tick_head)
    BY DEF KStates, ListsDistinctIn
  <1> HIDE DEF key
  <1>5. th \in Seq(Tasks) /\ IsInjective(th) /\ ToSet(th) = ToSet(s.tick_head) \cup {t}
    BY <1>3, <1>4, SortedInsertLemma
  <1> HIDE DEF th
  <1>6. r = [s EXCEPT !.tick_match = tm, !.tick_head = th]
    BY <1>2 DEF KStates
  <1>7. /\ r \in KStates /\ r.tick_head = th
        /\ r.state = s.state /\ r.block_obj = s.block_obj /\ r.ready = s.ready
        /\ r.block_status = s.block_status /\ r.block_list = s.block_list
        /\ r.priority = s.priority
    BY <1>1, <1>5, <1>6 DEF KStates
  <1> QED BY <1>5, <1>7 DEF ListsDistinctIn

(* add_to_block_list, of a task that is not there yet. *)
LEMMA AddToBlockList ==
  ASSUME NEW s \in KStates, ListsDistinctIn(s), NEW o \in Objects, NEW t \in Tasks,
         t \notin Waiting(s, o), NEW r, r = add_to_block_list(s, o, t)
  PROVE  /\ r \in KStates /\ ListsDistinctIn(r)
         /\ Waiting(r, o) = Waiting(s, o) \cup {t}
         /\ \A x \in Objects \ {o} : Waiting(r, x) = Waiting(s, x)
         /\ r.state = s.state /\ r.block_obj = s.block_obj /\ r.ready = s.ready
         /\ r.block_status = s.block_status /\ r.tick_head = s.tick_head
  <1> DEFINE l == s.block_list[o]
             n == IF o \in FifoObjects THEN Append(l, t)
                  ELSE SortedInsert(l, t, s.priority)
             bl == [s.block_list EXCEPT ![o] = n]
  <1>1. l \in Seq(Tasks) /\ IsInjective(l) /\ t \notin ToSet(l)
    BY DEF KStates, ListsDistinctIn, Waiting
  <1>2. s.priority \in [Tasks -> Int]
    BY DEF KStates
  <1>3. r = [s EXCEPT !.block_list = bl]
    BY DEF add_to_block_list, add_to_priority_list, KStates
  <1>4. n \in Seq(Tasks) /\ IsInjective(n) /\ ToSet(n) = ToSet(l) \cup {t}
    <2> HIDE DEF l
    <2>1. CASE o \in FifoObjects
      BY <1>1, <2>1, AppendLemma
    <2>2. CASE o \notin FifoObjects
      BY <1>1, <1>2, <2>2, SortedInsertLemma
    <2> QED BY <2>1, <2>2
  <1> HIDE DEF n
  <1>5. /\ bl \in [Objects -> Seq(Tasks)] /\ bl[o] = n
        /\ \A x \in Objects \ {o} : bl[x] = s.block_list[x]
    BY <1>4 DEF KStates
  <1> HIDE DEF bl
  <1>6. /\ r \in KStates /\ r.block_list = bl
        /\ r.state = s.state /\ r.block_obj = s.block_obj /\ r.ready = s.ready
        /\ r.block_status = s.block_status /\ r.tick_head = s.tick_head
    BY <1>3, <1>5 DEF KStates
  <1>7. \A x \in Objects : IsInjective(bl[x])
    BY <1>4, <1>5 DEF ListsDistinctIn
  <1> QED BY <1>4, <1>5, <1>6, <1>7 DEF ListsDistinctIn, Waiting

(* The other tasks are as they were. *)
OthersKept(s, r, t) ==
  \A u \in Tasks \ {t} : /\ r.state[u] = s.state[u]
                         /\ r.block_status[u] = s.block_status[u]
                         /\ r.block_obj[u] = s.block_obj[u]

(* raw_pend_object: a ready task waits for o. *)
LEMMA PendLemma ==
  ASSUME NEW s, KInv(s), NEW o \in Objects, NEW t \in Tasks, s.state[t] = "RDY",
         TICKS \in Nat \ {0}, NEW timeout \in Int, timeout # 0,
         NEW r, r = raw_pend_object(s, o, t, timeout)
  PROVE  /\ KInv(r) /\ OthersKept(s, r, t)
         /\ r.state[t] \in PendStates /\ r.block_obj[t] = o
  <1> DEFINE st == IF timeout = FOREVER THEN "PEND" ELSE "PEND_TIMEOUT"
             s1 == [s EXCEPT !.block_obj[t] = o, !.state[t] = st]
             s2 == IF timeout = FOREVER THEN s1 ELSE tick_list_insert(s1, t, timeout)
             s3 == remove_ready(s2, t)
  <1>0. s \in KStates /\ ListsDistinctIn(s)
    BY DEF KInv
  <1>1. /\ t \notin ToSet(s.tick_head) /\ \A x \in Objects : t \notin Waiting(s, x)
    BY DEF KInv, StateMatchesListsIn, TickStates, PendStates, Waiting
  <1>2. r = add_to_block_list(s3, o, t)
    BY DEF raw_pend_object
  <1>3. st \in States /\ st \in PendStates /\ (st \in TickStates <=> timeout # FOREVER)
        /\ st # "RDY"
    BY StatesAre DEF PendStates, TickStates
  <1> HIDE DEF st
  <1>4. /\ s1 \in KStates
        /\ s1.state = [s.state EXCEPT ![t] = st] /\ s1.block_obj = [s.block_obj EXCEPT ![t] = o]
        /\ s1.block_status = s.block_status /\ s1.ready = s.ready
        /\ s1.tick_head = s.tick_head /\ s1.block_list = s.block_list
    <2>1. /\ [s.state EXCEPT ![t] = st] \in [Tasks -> States]
          /\ [s.block_obj EXCEPT ![t] = o] \in [Tasks -> Objects \cup {NoObj}]
      BY <1>0, <1>3 DEF KStates
    <2>2. s1 = [s EXCEPT !.block_obj = [s.block_obj EXCEPT ![t] = o],
                         !.state = [s.state EXCEPT ![t] = st]]
      BY <1>0 DEF KStates
    <2> QED BY <1>0, <2>1, <2>2 DEF KStates
  <1>5. ListsDistinctIn(s1)
    BY <1>0, <1>4 DEF ListsDistinctIn
  <1> HIDE DEF s1
  <1>6. /\ s2 \in KStates /\ ListsDistinctIn(s2)
        /\ s2.state = s1.state /\ s2.block_obj = s1.block_obj /\ s2.ready = s1.ready
        /\ s2.block_status = s1.block_status /\ s2.block_list = s1.block_list
        /\ ToSet(s2.tick_head) =
             IF timeout = FOREVER THEN ToSet(s.tick_head) ELSE ToSet(s.tick_head) \cup {t}
    <2>1. CASE timeout = FOREVER
      BY <1>4, <1>5, <2>1
    <2>2. CASE timeout # FOREVER
      <3>1. s2 = tick_list_insert(s1, t, timeout) /\ t \notin ToSet(s1.tick_head)
        BY <1>1, <1>4, <2>2
      <3> HIDE DEF s2
      <3> QED BY <1>4, <1>5, <2>2, <3>1, TickListInsert
    <2> QED BY <2>1, <2>2
  <1> HIDE DEF s2
  <1>7. /\ s3 \in KStates /\ ListsDistinctIn(s3)
        /\ s3.state = s2.state /\ s3.block_obj = s2.block_obj /\ s3.ready = s2.ready \ {t}
        /\ s3.block_status = s2.block_status /\ s3.block_list = s2.block_list
        /\ s3.tick_head = s2.tick_head
    BY <1>6 DEF KStates, remove_ready, ListsDistinctIn
  <1> HIDE DEF s3
  <1>8. \A x \in Objects : Waiting(s3, x) = Waiting(s, x)
    BY <1>4, <1>6, <1>7 DEF Waiting
  <1>9. /\ r \in KStates /\ ListsDistinctIn(r)
        /\ Waiting(r, o) = Waiting(s3, o) \cup {t}
        /\ \A x \in Objects \ {o} : Waiting(r, x) = Waiting(s3, x)
        /\ r.state = s3.state /\ r.block_obj = s3.block_obj /\ r.ready = s3.ready
        /\ r.block_status = s3.block_status /\ r.tick_head = s3.tick_head
    BY <1>1, <1>2, <1>7, <1>8, AddToBlockList
  <1>10. /\ r.state[t] = st /\ r.block_obj[t] = o /\ OthersKept(s, r, t)
    BY <1>0, <1>4, <1>6, <1>7, <1>9 DEF OthersKept, KStates
  <1>11. KInv(r)
    <2>1. \A u \in Tasks \ {t} :
            /\ r.state[u] = s.state[u] /\ r.block_obj[u] = s.block_obj[u]
            /\ u \in r.ready <=> u \in s.ready
            /\ u \in ToSet(r.tick_head) <=> u \in ToSet(s.tick_head)
            /\ \A x \in Objects : u \in Waiting(r, x) <=> u \in Waiting(s, x)
      BY <1>4, <1>6, <1>7, <1>8, <1>9, <1>10 DEF OthersKept
    <2>2. t \in r.ready <=> r.state[t] = "RDY"
      BY <1>3, <1>7, <1>9, <1>10
    <2>3. t \in ToSet(r.tick_head) <=> r.state[t] \in TickStates
      BY <1>1, <1>3, <1>6, <1>7, <1>9, <1>10
    <2>4. \A x \in Objects :
            t \in Waiting(r, x) <=> r.state[t] \in PendStates /\ r.block_obj[t] = x
      BY <1>1, <1>3, <1>8, <1>9, <1>10
    <2> QED BY <1>9, <1>10, <2>1, <2>2, <2>3, <2>4, OneTask
  <1> QED BY <1>3, <1>10, <1>11

-----------------------------------------------------------------------------
(***************************************************************************)
(* The services of raw_task.c.  The tasks of I are in no service that has  *)
(* blocked; only these sleep or are deleted.                               *)
(***************************************************************************)

IdleStates == {"DLY", "DLY_SUSPENDED", "DELETED"}

Done(s, t) == s.block_status[t] = "OK" /\ s.state[t] \in {"RDY", "SUSPENDED"}

(* No task starts to wait, and no wait is granted. *)
Calm(s, r, I) ==
  \A t \in Tasks :
    /\ r.state[t] \in PendStates
         => s.state[t] \in PendStates /\ r.block_obj[t] = s.block_obj[t]
    /\ t \notin I => r.state[t] \notin IdleStates /\ (Done(r, t) <=> Done(s, t))

LEMMA CalmOne ==
  ASSUME NEW s, NEW r, NEW I, NEW t \in Tasks, OthersKept(s, r, t),
         \A u \in Tasks \ I : s.state[u] \notin IdleStates,
         r.state[t] \in PendStates
           => s.state[t] \in PendStates /\ r.block_obj[t] = s.block_obj[t],
         t \notin I => r.state[t] \notin IdleStates /\ (Done(r, t) <=> Done(s, t))
  PROVE  Calm(s, r, I)
  BY DEF Calm, OthersKept, Done

(* tick_list_update *)
LEMMA TickCalm ==
  ASSUME NEW s, KInv(s), NEW I, \A t \in Tasks \ I : s.state[t] \notin IdleStates,
         TICKS \in Nat \ {0}, NEW r,
         r = LET k1 == advance_tick(s) IN expire_all(k1, due(k1))
  PROVE  KInv(r) /\ Calm(s, r, I)
  <1>1. PICK W \in SUBSET Tasks :
          /\ Ended(s, r, W)
          /\ \A t \in W : /\ s.state[t] \in TickStates
                          /\ s.state[t] \in PendStates => r.block_status[t] = "TIMEOUT"
    BY TickLemma
  <1>2. KInv(r)
    BY TickLemma
  <1>3. ASSUME NEW t \in Tasks
        PROVE  /\ r.state[t] \in PendStates
                    => s.state[t] \in PendStates /\ r.block_obj[t] = s.block_obj[t]
               /\ t \notin I => r.state[t] \notin IdleStates /\ (Done(r, t) <=> Done(s, t))
    <2>1. CASE t \in W
      <3>1. r.state[t] \in {"RDY", "SUSPENDED"}
        BY <1>1, <2>1 DEF Ended
      <3>2. s.state[t] \in TickStates
        BY <1>1, <2>1
      <3>3. t \notin I => s.state[t] \in PendStates
        BY <3>2 DEF TickStates, PendStates, IdleStates
      <3>4. t \notin I => r.block_status[t] = "TIMEOUT"
        BY <1>1, <2>1, <3>3
      <3> QED BY <3>1, <3>2, <3>4 DEF Done, IdleStates, PendStates, TickStates
    <2>2. CASE t \notin W
      BY <1>1, <2>2 DEF Ended, Done
    <2> QED BY <2>1, <2>2
  <1> QED BY <1>2, <1>3 DEF Calm

(* raw_sleep *)
LEMMA SleepCalm ==
  ASSUME NEW s, KInv(s), NEW I, \A t \in Tasks \ I : s.state[t] \notin IdleStates,
         NEW t \in Tasks, t \in I, s.state[t] = "RDY",
         TICKS \in Nat \ {0}, NEW dly \in Int, dly # 0, NEW r, r = raw_sleep(s, t, dly)
  PROVE  KInv(r) /\ Calm(s, r, I)
  <1> DEFINE s1 == [s EXCEPT !.state[t] = "DLY"]
             s2 == tick_list_insert(s1, t, dly)
  <1>0. s \in KStates /\ ListsDistinctIn(s)
    BY DEF KInv
  <1>1. r = remove_ready(s2, t)
    BY DEF raw_sleep
  <1>2. /\ s1 \in KStates /\ s1.state = [s.state EXCEPT ![t] = "DLY"]
        /\ s1.block_obj = s.block_obj /\ s1.block_status = s.block_status
        /\ s1.ready = s.ready /\ s1.tick_head = s.tick_head /\ s1.block_list = s.block_list
    BY <1>0, StatesAre DEF KStates
  <1>3. t \notin ToSet(s1.tick_head) /\ \A o \in Objects : t \notin Waiting(s, o)
    BY <1>2 DEF KInv, StateMatchesListsIn, TickStates, PendStates, Waiting
  <1>4. ListsDistinctIn(s1)
    BY <1>0, <1>2 DEF ListsDistinctIn
  <1> HIDE DEF s1
  <1>5. /\ s2 \in KStates /\ ListsDistinctIn(s2)
        /\ ToSet(s2.tick_head) = ToSet(s1.tick_head) \cup {t}
        /\ s2.state = s1.state /\ s2.block_obj = s1.block_obj /\ s2.ready = s1.ready
        /\ s2.block_status = s1.block_status /\ s2.block_list = s1.block_list
    BY <1>2, <1>3, <1>4, TickListInsert
  <1> HIDE DEF s2
  <1>6. /\ r \in KStates /\ ListsDistinctIn(r) /\ r.tick_head = s2.tick_head
        /\ r.state = s2.state /\ r.block_obj = s2.block_obj /\ r.ready = s2.ready \ {t}
        /\ r.block_status = s2.block_status /\ r.block_list = s2.block_list
    BY <1>1, <1>5 DEF remove_ready, KStates, ListsDistinctIn
  <1>7. r.state[t] = "DLY" /\ OthersKept(s, r, t)
    BY <1>0, <1>2, <1>5, <1>6 DEF OthersKept, KStates
  <1>8. r.state[t] \notin PendStates /\ r.state[t] \in TickStates /\ r.state[t] # "RDY"
    BY <1>7 DEF PendStates, TickStates
  <1>9. \A o \in Objects : Waiting(r, o) = Waiting(s, o)
    BY <1>2, <1>5, <1>6 DEF Waiting
  <1>10. KInv(r)
    <2>1. \A u \in Tasks \ {t} :
            /\ r.state[u] = s.state[u] /\ r.block_obj[u] = s.block_obj[u]
            /\ u \in r.ready <=> u \in s.ready
            /\ u \in ToSet(r.tick_head) <=> u \in ToSet(s.tick_head)
            /\ \A x \in Objects : u \in Waiting(r, x) <=> u \in Waiting(s, x)
      BY <1>2, <1>5, <1>6, <1>7, <1>9 DEF OthersKept
    <2>2. t \in r.ready <=> r.state[t] = "RDY"
      BY <1>6, <1>8
    <2>3. t \in ToSet(r.tick_head) <=> r.state[t] \in TickStates
      BY <1>5, <1>6, <1>8
    <2>4. \A x \in Objects :
            t \in Waiting(r, x) <=> r.state[t] \in PendStates /\ r.block_obj[t] = x
      BY <1>3, <1>8, <1>9
    <2> QED BY <1>6, <1>8, <2>1, <2>2, <2>3, <2>4, OneTask
  <1>11. Calm(s, r, I)
    BY <1>7, <1>8, CalmOne
  <1> QED BY <1>10, <1>11

(* A task that is suspended or resumed stays where it waits. *)
LEMMA RelabelCalm ==
  ASSUME NEW s, KInv(s), NEW I, \A t \in Tasks \ I : s.state[t] \notin IdleStates,
         NEW t \in Tasks, NEW r \in KStates, NEW st, r.state = [s.state EXCEPT ![t] = st],
         r.tick_head = s.tick_head, r.block_list = s.block_list,
         r.block_obj = s.block_obj, r.block_status = s.block_status,
         r.ready = IF st = "RDY" THEN s.ready \cup {t} ELSE s.ready \ {t},
         st \in PendStates <=> s.state[t] \in PendStates,
         st \in TickStates <=> s.state[t] \in TickStates,
         st \in {"RDY", "SUSPENDED"} <=> s.state[t] \in {"RDY", "SUSPENDED"},
         st \in IdleStates <=> s.state[t] \in IdleStates
  PROVE  KInv(r) /\ Calm(s, r, I)
  <1>0. s \in KStates
    BY DEF KInv
  <1>1. r.state[t] = st /\ OthersKept(s, r, t)
    BY <1>0 DEF OthersKept, KStates
  <1>2. ListsDistinctIn(r)
    BY DEF KInv, ListsDistinctIn
  <1>3. \A o \in Objects : Waiting(r, o) = Waiting(s, o)
    BY DEF Waiting
  <1>4. KInv(r)
    <2>1. \A u \in Tasks \ {t} :
            /\ r.state[u] = s.state[u] /\ r.block_obj[u] = s.block_obj[u]
            /\ u \in r.ready <=> u \in s.ready
            /\ u \in ToSet(r.tick_head) <=> u \in ToSet(s.tick_head)
            /\ \A x \in Objects : u \in Waiting(r, x) <=> u \in Waiting(s, x)
      BY <1>1, <1>3 DEF OthersKept
    <2>2. t \in r.ready <=> r.state[t] = "RDY"
      BY <1>1
    <2>3. t \in ToSet(r.tick_head) <=> r.state[t] \in TickStates
      BY <1>1 DEF KInv, StateMatchesListsIn
    <2>4. \A x \in Objects :
            t \in Waiting(r, x) <=> r.state[t] \in PendStates /\ r.block_obj[t] = x
      BY <1>1, <1>3 DEF KInv, StateMatchesListsIn, Waiting
    <2>5. r.state[t] \in PendStates => r.block_obj[t] \in Objects
      BY <1>1 DEF KInv
    <2> QED BY <1>2, <2>1, <2>2, <2>3, <2>4, <2>5, OneTask
  <1>5. Calm(s, r, I)
    <2>1. Done(r, t) <=> Done(s, t)
      BY <1>1 DEF Done
    <2>2. r.state[t] \in PendStates
            => s.state[t] \in PendStates /\ r.block_obj[t] = s.block_obj[t]
      BY <1>1
    <2>3. t \notin I => r.state[t] \notin IdleStates
      BY <1>1
    <2> QED BY <1>1, <2>1, <2>2, <2>3, CalmOne
  <1> QED BY <1>4, <1>5

(* What a suspended state has in common with the state itself. *)
LEMMA SuspendedAlike ==
  ASSUME NEW a \in DOMAIN Suspended, NEW b, b = Suspended[a]
  PROVE  /\ b \in States /\ b \notin {"RDY", "DELETED"}
         /\ b \in PendStates <=> a \in PendStates
         /\ b \in TickStates <=> a \in TickStates
         /\ b \in {"RDY", "SUSPENDED"} <=> a \in {"RDY", "SUSPENDED"}
         /\ b \in IdleStates <=> a \in IdleStates
  BY StatesAre DEF PendStates, TickStates, IdleStates

(* A change of label does not touch the lists. *)
LEMMA RelabelGentle ==
  ASSUME NEW s \in KStates, NEW t \in Tasks, NEW st, NEW r,
         r.state = [s.state EXCEPT ![t] = st], r.tick_head = s.tick_head,
         r.block_list = s.block_list, r.block_obj = s.block_obj, r.priority = s.priority,
         r.tick_match = s.tick_match, r.raw_tick_count = s.raw_tick_count,
         s.state[t] # "DELETED", st # "DELETED",
         st \in PendStates <=> s.state[t] \in PendStates
  PROVE  Gentle(s, r)
  <1>1. r.state[t] = st /\ \A u \in Tasks \ {t} : r.state[u] = s.state[u]
    BY DEF KStates
  <1>2. Fewer(s, r)
    BY SublistSame DEF Fewer
  <1>3. Alive(r) = Alive(s)
    BY <1>1 DEF Alive
  <1>4. ObjectsMatch(s) => ObjectsMatch(r)
    BY <1>1, <1>3 DEF ObjectsMatch, Alive
  <1> QED BY <1>2, <1>3, <1>4 DEF Gentle

LEMMA KeptGentle ==
  ASSUME NEW s, NEW r, r.state = s.state, r.tick_head = s.tick_head,
         r.block_list = s.block_list, r.block_obj = s.block_obj, r.priority = s.priority,
         r.tick_match = s.tick_match, r.raw_tick_count = s.raw_tick_count
  PROVE  Gentle(s, r)
  <1>1. Fewer(s, r)
    BY SublistSame DEF Fewer
  <1>2. Alive(r) = Alive(s) /\ (ObjectsMatch(s) => ObjectsMatch(r))
    BY DEF Alive, ObjectsMatch
  <1> QED BY <1>1, <1>2 DEF Gentle

LEMMA KeptCalm ==
  ASSUME NEW s, KInv(s), NEW I, \A t \in Tasks \ I : s.state[t] \notin IdleStates,
         NEW r \in KStates, r.state = s.state, r.tick_head = s.tick_head,
         r.block_list = s.block_list, r.block_obj = s.block_obj,
         r.block_status = s.block_status, r.ready = s.ready
  PROVE  KInv(r) /\ Calm(s, r, I)
  BY DEF KInv, Calm, Done, StateMatchesListsIn, ListsDistinctIn

(* task_suspend *)
LEMMA SuspendCalm ==
  ASSUME NEW s, KInv(s), NEW I, \A t \in Tasks \ I : s.state[t] \notin IdleStates,
         NEW t \in Tasks, COUNT_MOD \in Nat \ {0}, NEW r, r = task_suspend(s, t)
  PROVE  KInv(r) /\ Calm(s, r, I) /\ (s.state[t] # "DELETED" => Gentle(s, r))
  <1>0. s \in KStates
    BY DEF KInv
  <1>1. CASE s.state[t] \in DOMAIN Suspended
    <2> DEFINE st == Suspended[s.state[t]]
               sc == [s.suspend_count EXCEPT ![t] = 1]
               ss == [s.state EXCEPT ![t] = st]
    <2>1. /\ st \in States /\ st \notin {"RDY", "DELETED"}
          /\ st \in PendStates <=> s.state[t] \in PendStates
          /\ st \in TickStates <=> s.state[t] \in TickStates
          /\ st \in {"RDY", "SUSPENDED"} <=> s.state[t] \in {"RDY", "SUSPENDED"}
          /\ st \in IdleStates <=> s.state[t] \in IdleStates
      BY <1>1, SuspendedAlike
    <2>2. r = [s EXCEPT !.suspend_count = sc, !.state = ss, !.ready = s.ready \ {t}]
      BY <1>0, <1>1 DEF task_suspend, remove_ready, KStates
    <2> HIDE DEF st
    <2>3. sc \in [Tasks -> Int] /\ ss \in [Tasks -> States]
      BY <1>0, <2>1 DEF KStates
    <2>4. ss = [s.state EXCEPT ![t] = st]
      OBVIOUS
    <2> HIDE DEF sc, ss
    <2>5. /\ r \in KStates /\ r.state = ss /\ r.tick_head = s.tick_head
          /\ r.block_list = s.block_list /\ r.block_obj = s.block_obj
          /\ r.block_status = s.block_status /\ r.ready = s.ready \ {t}
          /\ r.priority = s.priority /\ r.tick_match = s.tick_match
          /\ r.raw_tick_count = s.raw_tick_count
      BY <1>0, <2>2, <2>3, ZenonT(30) DEF KStates
    <2>6. r.ready = IF st = "RDY" THEN s.ready \cup {t} ELSE s.ready \ {t}
      BY <2>1, <2>5
    <2>7. r.state = [s.state EXCEPT ![t] = st]
      BY <2>4, <2>5
    <2>8. KInv(r) /\ Calm(s, r, I)
      BY <2>1, <2>5, <2>6, <2>7, RelabelCalm
    <2>9. Gentle(s, r)
      <3>1. s.state[t] # "DELETED" /\ st # "DELETED"
        BY <1>1, <2>1, StatesAre DEF IdleStates
      <3> QED BY <1>0, <2>1, <2>5, <2>7, <3>1, RelabelGentle
    <2> QED BY <2>8, <2>9
  <1>2. CASE s.state[t] \notin DOMAIN Suspended
    <2> DEFINE sc == [s.suspend_count EXCEPT ![t] = (s.suspend_count[t] + 1) % COUNT_MOD]
    <2>1. r = [s EXCEPT !.suspend_count = sc]
      BY <1>0, <1>2 DEF task_suspend, KStates
    <2>2. sc \in [Tasks -> Int]
      BY <1>0 DEF KStates
    <2> HIDE DEF sc
    <2>3. /\ r \in KStates /\ r.state = s.state /\ r.tick_head = s.tick_head
          /\ r.block_list = s.block_list /\ r.block_obj = s.block_obj
          /\ r.block_status = s.block_status /\ r.ready = s.ready
          /\ r.priority = s.priority /\ r.tick_match = s.tick_match
          /\ r.raw_tick_count = s.raw_tick_count
      BY <1>0, <2>1, <2>2 DEF KStates
    <2>4. KInv(r) /\ Calm(s, r, I)
      BY <2>3, KeptCalm
    <2> QED BY <2>3, <2>4, KeptGentle
  <1> QED BY <1>1, <1>2

(* task_resume, of a suspended task *)
LEMMA ResumeCalm ==
  ASSUME NEW s, KInv(s), NEW I, \A t \in Tasks \ I : s.state[t] \notin IdleStates,
         NEW t \in Tasks, COUNT_MOD \in Nat \ {0},
         s.state[t] \notin DOMAIN Suspended \cup {"DELETED"},
         NEW r, r = task_resume(s, t)
  PROVE  KInv(r) /\ Calm(s, r, I) /\ Gentle(s, r)
  <1> DEFINE sc == [s.suspend_count EXCEPT ![t] = (s.suspend_count[t] - 1) % COUNT_MOD]
             k1 == [s EXCEPT !.suspend_count = sc]
             st == IF s.state[t] = "SUSPENDED" THEN "RDY" ELSE Resumed(s.state[t])
             ss == [s.state EXCEPT ![t] = st]
             rd == IF st = "RDY" THEN s.ready \cup {t} ELSE s.ready \ {t}
  <1>0. s \in KStates
    BY DEF KInv
  <1>1. sc \in [Tasks -> Int]
    <2>1. (s.suspend_count[t] - 1) % COUNT_MOD \in Int
      BY <1>0 DEF KStates
    <2> QED BY <1>0, <2>1 DEF KStates
  <1>2. [s EXCEPT !.suspend_count[t] = (@ - 1) % COUNT_MOD] = k1
    BY <1>0 DEF KStates
  <1> HIDE DEF sc
  <1>3. /\ k1 \in KStates /\ k1.state = s.state /\ k1.tick_head = s.tick_head
        /\ k1.block_list = s.block_list /\ k1.block_obj = s.block_obj
        /\ k1.block_status = s.block_status /\ k1.ready = s.ready
        /\ k1.priority = s.priority /\ k1.tick_match = s.tick_match
        /\ k1.raw_tick_count = s.raw_tick_count
    BY <1>0, <1>1 DEF KStates
  <1>4. r = IF k1.suspend_count[t] # 0 THEN k1
            ELSE IF s.state[t] = "SUSPENDED" THEN make_ready(k1, t)
            ELSE [k1 EXCEPT !.state[t] = Resumed(@)]
    BY <1>2 DEF task_resume
  <1> HIDE DEF k1
  <1>5. CASE k1.suspend_count[t] # 0
    <2>1. KInv(r) /\ Calm(s, r, I)
      BY <1>3, <1>4, <1>5, KeptCalm
    <2> QED BY <1>3, <1>4, <1>5, <2>1, KeptGentle
  <1>6. CASE k1.suspend_count[t] = 0
    <2>1. s.state[t] \in {"SUSPENDED", "DLY_SUSPENDED", "PEND_SUSPENDED",
                          "PEND_TIMEOUT_SUSPENDED"}
      BY <1>0, StatesAre DEF KStates
    <2>2. /\ st \in States /\ (st = "RDY" <=> s.state[t] = "SUSPENDED")
          /\ st \in PendStates <=> s.state[t] \in PendStates
          /\ st \in TickStates <=> s.state[t] \in TickStates
          /\ st \in {"RDY", "SUSPENDED"} <=> s.state[t] \in {"RDY", "SUSPENDED"}
          /\ st \in IdleStates <=> s.state[t] \in IdleStates
          /\ st # "DELETED"
      BY <2>1, StatesAre, ResumedIs DEF PendStates, TickStates, IdleStates
    <2>3. t \notin s.ready
      BY <2>1 DEF KInv, StateMatchesListsIn
    <2>4. r = [k1 EXCEPT !.state = ss, !.ready = rd]
      <3>1. CASE s.state[t] = "SUSPENDED"
        BY <1>3, <1>4, <1>6, <3>1 DEF make_ready, KStates
      <3>2. CASE s.state[t] # "SUSPENDED"
        <4>1. st = Resumed(s.state[t]) /\ rd = k1.ready
          BY <1>3, <2>2, <2>3, <3>2
        <4>2. r = [k1 EXCEPT !.state[t] = Resumed(@)]
          BY <1>4, <1>6, <3>2
        <4> HIDE DEF rd, st
        <4>3. r = [k1 EXCEPT !.state = ss]
          BY <1>3, <4>1, <4>2 DEF KStates
        <4> HIDE DEF ss
        <4> QED BY <1>3, <4>1, <4>3 DEF KStates
      <3> QED BY <3>1, <3>2
    <2> HIDE DEF st
    <2>5. rd \in SUBSET Tasks /\ ss \in [Tasks -> States]
      BY <1>0, <2>2 DEF KStates
    <2>6. ss = [s.state EXCEPT ![t] = st] /\
          rd = IF st = "RDY" THEN s.ready \cup {t} ELSE s.ready \ {t}
      OBVIOUS
    <2> HIDE DEF ss, rd
    <2>7. /\ r \in KStates /\ r.state = ss /\ r.tick_head = s.tick_head
          /\ r.block_list = s.block_list /\ r.block_obj = s.block_obj
          /\ r.block_status = s.block_status /\ r.ready = rd
          /\ r.priority = s.priority /\ r.tick_match = s.tick_match
          /\ r.raw_tick_count = s.raw_tick_count
      BY <1>3, <2>4, <2>5 DEF KStates
    <2>8. r.state = [s.state EXCEPT ![t] = st]
          /\ r.ready = IF st = "RDY" THEN s.ready \cup {t} ELSE s.ready \ {t}
      BY <2>6, <2>7
    <2>9. KInv(r) /\ Calm(s, r, I)
      BY <2>2, <2>7, <2>8, RelabelCalm
    <2>10. Gentle(s, r)
      <3>1. s.state[t] # "DELETED" /\ st # "DELETED"
        BY <2>1, <2>2 DEF IdleStates
      <3> QED BY <1>0, <2>2, <2>7, <2>8, <3>1, RelabelGentle
    <2> QED BY <2>9, <2>10
  <1> QED BY <1>5, <1>6

(* change_pend_list_priority: t changes its place in its wait list. *)
LEMMA ReorderLemma ==
  ASSUME NEW s, KInv(s), NEW t \in Tasks, s.state[t] \in PendStates,
         NEW r, r = change_pend_list_priority(s, t)
  PROVE  /\ KInv(r) /\ r.state = s.state
         /\ r.block_obj = s.block_obj /\ r.block_status = s.block_status
  <1> DEFINE o == s.block_obj[t]
             q == unlink(s, t)
             bl == [s.block_list EXCEPT ![o] = list_delete(@, t)]
  <1>0. s \in KStates
    BY DEF KInv
  <1>1. o \in Objects
    BY DEF KInv
  <1>2. r = IF o \in FifoObjects THEN s ELSE add_to_priority_list(q, o, t)
    BY DEF change_pend_list_priority
  <1>3. bl \in [Objects -> Seq(Tasks)]
    BY <1>0, DeleteSeq DEF KStates
  <1>4. \A x \in Objects : IsInjective(bl[x]) /\ ToSet(bl[x]) = Waiting(s, x) \ {t}
    BY UnlinkedLists
  <1>5. q = [s EXCEPT !.block_list = bl]
    BY <1>0 DEF unlink, KStates
  <1>6. \A x \in Objects : t \in Waiting(s, x) <=> x = o
    BY DEF KInv, StateMatchesListsIn, Waiting
  <1> HIDE DEF bl, q, o
  <1>7. /\ q \in KStates /\ q.block_list = bl /\ q.state = s.state
        /\ q.block_obj = s.block_obj /\ q.ready = s.ready
        /\ q.block_status = s.block_status /\ q.tick_head = s.tick_head
    BY <1>0, <1>3, <1>5 DEF KStates
  <1>8. ListsDistinctIn(q)
    BY <1>4, <1>7 DEF KInv, ListsDistinctIn
  <1>9. \A x \in Objects : Waiting(q, x) = Waiting(s, x) \ {t}
    BY <1>4, <1>7 DEF Waiting
  <1>10. CASE o \in FifoObjects
    BY <1>2, <1>10
  <1>11. CASE o \notin FifoObjects
    <2>1. r = add_to_block_list(q, o, t)
      BY <1>2, <1>11 DEF add_to_block_list
    <2>2. t \notin Waiting(q, o) /\ q \in KStates
      BY <1>1, <1>7, <1>9
    <2>3. /\ r \in KStates /\ ListsDistinctIn(r)
          /\ Waiting(r, o) = Waiting(q, o) \cup {t}
          /\ \A x \in Objects \ {o} : Waiting(r, x) = Waiting(q, x)
          /\ r.state = q.state /\ r.block_obj = q.block_obj /\ r.ready = q.ready
          /\ r.block_status = q.block_status /\ r.tick_head = q.tick_head
      BY <1>1, <1>8, <2>1, <2>2, AddToBlockList
    <2>4. \A x \in Objects : Waiting(r, x) = Waiting(s, x)
      <3>1. Waiting(s, o) = (Waiting(s, o) \ {t}) \cup {t}
        BY <1>1, <1>6
      <3>2. \A x \in Objects \ {o} : Waiting(s, x) \ {t} = Waiting(s, x)
        BY <1>6
      <3>3. Waiting(r, o) = Waiting(s, o)
        BY <1>1, <1>9, <2>3, <3>1
      <3>4. \A x \in Objects \ {o} : Waiting(r, x) = Waiting(s, x)
        BY <1>9, <2>3, <3>2
      <3> QED BY <3>3, <3>4
    <2>5. r.state = s.state /\ r.block_obj = s.block_obj /\ r.ready = s.ready
          /\ r.block_status = s.block_status /\ r.tick_head = s.tick_head
      BY <1>7, <2>3
    <2> QED BY <2>3, <2>4, <2>5 DEF KInv, StateMatchesListsIn, Waiting
  <1> QED BY <1>10, <1>11

(* raw_task_priority_change, of a task that waits or not *)
LEMMA PriorityCalm ==
  ASSUME NEW s, KInv(s), NEW I, \A t \in Tasks \ I : s.state[t] \notin IdleStates,
         NEW t \in Tasks, NEW p \in Int,
         NEW r, r = LET k1 == [s EXCEPT !.priority[t] = p]
                    IN  IF s.state[t] \in PendStates THEN change_pend_list_priority(k1, t)
                        ELSE k1
  PROVE  KInv(r) /\ Calm(s, r, I)
  <1> DEFINE q == [s EXCEPT !.priority[t] = p]
  <1>0. s \in KStates
    BY DEF KInv
  <1>1. /\ q \in KStates /\ q.state = s.state /\ q.tick_head = s.tick_head
        /\ q.block_list = s.block_list /\ q.block_obj = s.block_obj
        /\ q.block_status = s.block_status /\ q.ready = s.ready
    BY <1>0 DEF KStates
  <1>2. r = IF s.state[t] \in PendStates THEN change_pend_list_priority(q, t) ELSE q
    OBVIOUS
  <1> HIDE DEF q
  <1>3. KInv(q) /\ Calm(s, q, I)
    BY <1>1, KeptCalm
  <1>4. CASE s.state[t] \notin PendStates
    BY <1>2, <1>3, <1>4
  <1>5. CASE s.state[t] \in PendStates
    <2>1. r = change_pend_list_priority(q, t) /\ q.state[t] \in PendStates
      BY <1>1, <1>2, <1>5
    <2>0. KInv(q)
      BY <1>3
    <2>2. /\ KInv(r) /\ r.state = q.state
          /\ r.block_obj = q.block_obj /\ r.block_status = q.block_status
      BY <2>0, <2>1, ReorderLemma, ZenonT(40)
    <2> QED BY <1>1, <2>2 DEF Calm, Done
  <1> QED BY <1>4, <1>5

(* raw_task_wait_abort, of a task that is neither ready nor deleted *)
LEMMA AbortCalm ==
  ASSUME NEW s, KInv(s), NEW I, \A t \in Tasks \ I : s.state[t] \notin IdleStates,
         NEW t \in Tasks, s.state[t] \notin {"RDY", "DELETED"},
         NEW r, r = wait_abort(s, t)
  PROVE  /\ KInv(r) /\ Calm(s, r, I) /\ Gentle(s, r)
         /\ OthersKept(s, r, t) /\ r.state[t] = "RDY"
  <1>0. s \in KStates /\ ListsDistinctIn(s)
    BY DEF KInv
  <1>1. CASE s.state[t] = "SUSPENDED"
    <2> DEFINE ss == [s.state EXCEPT ![t] = "RDY"]
    <2>1. r = [s EXCEPT !.ready = s.ready \cup {t}, !.state = ss]
      BY <1>0, <1>1 DEF wait_abort, make_ready, KStates, PendStates
    <2>2. /\ ss \in [Tasks -> States] /\ ss = [s.state EXCEPT ![t] = "RDY"]
          /\ s.ready \cup {t} \in SUBSET Tasks
      BY <1>0, StatesAre DEF KStates
    <2> HIDE DEF ss
    <2>3. /\ r \in KStates /\ r.state = ss /\ r.tick_head = s.tick_head
          /\ r.block_list = s.block_list /\ r.block_obj = s.block_obj
          /\ r.block_status = s.block_status /\ r.ready = s.ready \cup {t}
          /\ r.priority = s.priority /\ r.tick_match = s.tick_match
          /\ r.raw_tick_count = s.raw_tick_count
      BY <1>0, <2>1, <2>2 DEF KStates
    <2>4. /\ "RDY" \in PendStates <=> s.state[t] \in PendStates
          /\ "RDY" \in TickStates <=> s.state[t] \in TickStates
          /\ "RDY" \in {"RDY", "SUSPENDED"} <=> s.state[t] \in {"RDY", "SUSPENDED"}
          /\ "RDY" \in IdleStates <=> s.state[t] \in IdleStates
      BY <1>1 DEF PendStates, TickStates, IdleStates
    <2>5. r.state = [s.state EXCEPT ![t] = "RDY"]
          /\ r.ready = IF "RDY" = "RDY" THEN s.ready \cup {t} ELSE s.ready \ {t}
      BY <2>2, <2>3
    <2>6. KInv(r) /\ Calm(s, r, I)
      BY <2>3, <2>4, <2>5, RelabelCalm
    <2>7. Gentle(s, r)
      BY <1>0, <1>1, <2>3, <2>4, <2>5, RelabelGentle
    <2>8. OthersKept(s, r, t) /\ r.state[t] = "RDY"
      BY <1>0, <2>3, <2>5 DEF KStates, OthersKept
    <2> QED BY <2>6, <2>7, <2>8
  <1>2. CASE s.state[t] # "SUSPENDED"
    <2> DEFINE pend == s.state[t] \in PendStates
               bl == IF pend THEN [s.block_list EXCEPT ![s.block_obj[t]] = list_delete(@, t)]
                     ELSE s.block_list
               th == list_delete(s.tick_head, t)
               ss == [s.state EXCEPT ![t] = "RDY"]
               bs == [s.block_status EXCEPT ![t] = "ABORT"]
               bo == IF pend THEN [s.block_obj EXCEPT ![t] = NoObj] ELSE s.block_obj
               rd == s.ready \cup {t}
    <2>1. s.state[t] \in {"DLY", "DLY_SUSPENDED"} \/ pend
      BY <1>0, <1>2, StatesAre DEF KStates, PendStates
    <2>2. r = [s EXCEPT !.block_list = bl, !.tick_head = th, !.ready = rd,
                        !.state = ss, !.block_status = bs, !.block_obj = bo]
      <3>1. CASE pend
        <4>1. s.state[t] \notin {"DLY", "DLY_SUSPENDED", "SUSPENDED"}
          BY <3>1 DEF PendStates
        <4>2. r = [make_ready(tick_list_remove(unlink(s, t), t), t) EXCEPT
                     !.block_status[t] = "ABORT", !.block_obj[t] = NoObj]
          BY <3>1, <4>1 DEF wait_abort
        <4> QED BY <1>0, <3>1, <4>2 DEF make_ready, tick_list_remove, unlink, KStates
      <3>2. CASE ~pend
        <4>1. r = [make_ready(tick_list_remove(s, t), t) EXCEPT !.block_status[t] = "ABORT"]
          BY <2>1, <3>2 DEF wait_abort
        <4> QED BY <1>0, <3>2, <4>1 DEF make_ready, tick_list_remove, KStates
      <3> QED BY <3>1, <3>2
    <2>3. /\ bl \in [Objects -> Seq(Tasks)] /\ th \in Seq(Tasks)
      BY <1>0, DeleteSeq DEF KStates
    <2>4. /\ ss \in [Tasks -> States] /\ bs \in [Tasks -> Statuses]
          /\ bo \in [Tasks -> Objects \cup {NoObj}] /\ rd \in SUBSET Tasks
      BY <1>0, StatesAre DEF KStates, Statuses
    <2>5. /\ IsInjective(th) /\ ToSet(th) = ToSet(s.tick_head) \ {t}
          /\ \A o \in Objects : IsInjective(bl[o]) /\ ToSet(bl[o]) = Waiting(s, o) \ {t}
      <3>1. CASE pend
        BY <3>1, UnlinkedLists
      <3>2. CASE ~pend
        <4>1. \A o \in Objects : t \notin Waiting(s, o)
          BY <3>2 DEF KInv, StateMatchesListsIn, Waiting
        <4> HIDE DEF pend, th
        <4>2. IsInjective(th) /\ ToSet(th) = ToSet(s.tick_head) \ {t}
          BY UnlinkedLists DEF th
        <4>3. \A o \in Objects : IsInjective(bl[o]) /\ ToSet(bl[o]) = Waiting(s, o)
          BY <1>0, <3>2 DEF ListsDistinctIn, Waiting
        <4> QED BY <4>1, <4>2, <4>3
      <3> QED BY <3>1, <3>2
    <2>6. /\ ss[t] = "RDY" /\ bs[t] = "ABORT"
          /\ \A u \in Tasks \ {t} : ss[u] = s.state[u] /\ bs[u] = s.block_status[u]
                                      /\ bo[u] = s.block_obj[u]
          /\ rd = s.ready \cup {t}
      BY <1>0 DEF KStates
    <2>10. bo[t] = IF pend THEN NoObj ELSE s.block_obj[t]
      BY <1>0 DEF KStates
    <2>11. Sublist(th, s.tick_head) /\ \A o \in Objects : Sublist(bl[o], s.block_list[o])
      BY UnlinkedSublists, TickSublist, SublistSame
    <2> HIDE DEF bl, th, ss, bs, bo, rd
    <2>7. /\ r \in KStates /\ r.state = ss /\ r.block_list = bl /\ r.tick_head = th
          /\ r.ready = rd /\ r.block_status = bs /\ r.block_obj = bo
          /\ r.priority = s.priority /\ r.tick_match = s.tick_match
          /\ r.raw_tick_count = s.raw_tick_count
      BY <1>0, <2>2, <2>3, <2>4 DEF KStates
    <2> HIDE DEF pend
    <2>8. KInv(r)
      <3>1. /\ IsInjective(r.tick_head) /\ ToSet(r.tick_head) = ToSet(s.tick_head) \ {t}
            /\ \A o \in Objects : IsInjective(r.block_list[o])
                                    /\ Waiting(r, o) = Waiting(s, o) \ {t}
        BY <2>5, <2>7 DEF Waiting
      <3>2. r.state[t] \in {"RDY", "SUSPENDED", "DELETED"}
        BY <2>6, <2>7
      <3>3. \A u \in Tasks \ {t} : r.state[u] = s.state[u] /\ r.block_obj[u] = s.block_obj[u]
        BY <2>6, <2>7
      <3>4. /\ t \in r.ready <=> r.state[t] = "RDY"
            /\ \A u \in Tasks \ {t} : u \in r.ready <=> u \in s.ready
        BY <2>6, <2>7
      <3> QED BY <2>7, <3>1, <3>2, <3>3, <3>4, LeftLists
    <2>9. Calm(s, r, I)
      <3>1. OthersKept(s, r, t)
        BY <2>6, <2>7 DEF OthersKept
      <3>2. r.state[t] = "RDY" /\ r.block_status[t] = "ABORT"
        BY <2>6, <2>7
      <3>3. r.state[t] \notin PendStates /\ r.state[t] \notin IdleStates /\ ~Done(r, t)
        BY <3>2 DEF PendStates, IdleStates, Done
      <3>4. t \notin I => ~Done(s, t)
        BY <2>1 DEF Done, IdleStates, PendStates, pend
      <3> QED BY <3>1, <3>3, <3>4, CalmOne
    <2>12. Gentle(s, r)
      <3>1. Fewer(s, r)
        BY <2>7, <2>11 DEF Fewer
      <3>2. Alive(r) = Alive(s)
        BY <2>6, <2>7 DEF Alive
      <3>3. ObjectsMatch(s) => ObjectsMatch(r)
        BY <2>6, <2>7, <2>10, <3>2 DEF ObjectsMatch, Alive, pend
      <3>4. \A u \in Tasks : r.block_obj[u] \in {s.block_obj[u], NoObj}
        BY <2>6, <2>7, <2>10
      <3> QED BY <3>1, <3>2, <3>3, <3>4 DEF Gentle
    <2>13. OthersKept(s, r, t) /\ r.state[t] = "RDY"
      BY <2>6, <2>7 DEF OthersKept
    <2> QED BY <2>8, <2>9, <2>12, <2>13
  <1> QED BY <1>1, <1>2

(* raw_task_delete *)
LEMMA DeleteTaskLemma ==
  ASSUME NEW s, KInv(s), NEW t \in Tasks, NEW r, r = leave_lists(s, t)
  PROVE  KInv(r) /\ OthersKept(s, r, t) /\ r.state[t] = "DELETED" /\ Fewer(s, r)
  <1> DEFINE pend == s.state[t] \in PendStates
             tick == s.state[t] \in PendStates \cup {"DLY", "DLY_SUSPENDED"}
             bl == IF pend THEN [s.block_list EXCEPT ![s.block_obj[t]] = list_delete(@, t)]
                   ELSE s.block_list
             th == IF tick THEN list_delete(s.tick_head, t) ELSE s.tick_head
             ss == [s.state EXCEPT ![t] = "DELETED"]
  <1>0. s \in KStates /\ ListsDistinctIn(s)
    BY DEF KInv
  <1>1. r = [s EXCEPT !.block_list = bl, !.tick_head = th, !.ready = s.ready \ {t},
                      !.state = ss]
    <2> DEFINE k1 == IF pend THEN unlink(s, t) ELSE s
               k2 == IF tick THEN tick_list_remove(k1, t) ELSE k1
    <2>1. r = [remove_ready(k2, t) EXCEPT !.state[t] = "DELETED"]
      BY DEF leave_lists
    <2>2. k1 = [s EXCEPT !.block_list = bl]
      BY <1>0 DEF unlink, KStates
    <2> HIDE DEF k1, bl, pend
    <2>3. k2 = [s EXCEPT !.block_list = bl, !.tick_head = th]
      BY <1>0, <2>2 DEF tick_list_remove, KStates
    <2> HIDE DEF k2, th
    <2> QED BY <1>0, <2>1, <2>3 DEF remove_ready, KStates
  <1>2. /\ bl \in [Objects -> Seq(Tasks)] /\ th \in Seq(Tasks) /\ ss \in [Tasks -> States]
    BY <1>0, DeleteSeq, StatesAre DEF KStates
  <1>3. /\ IsInjective(th) /\ ToSet(th) = ToSet(s.tick_head) \ {t}
    <2>1. CASE tick
      BY <2>1, UnlinkedLists
    <2>2. CASE ~tick
      <3>1. t \notin ToSet(s.tick_head)
        BY <2>2 DEF KInv, StateMatchesListsIn, TickStates, PendStates
      <3> QED BY <1>0, <2>2, <3>1 DEF ListsDistinctIn
    <2> QED BY <2>1, <2>2
  <1>4. \A o \in Objects : IsInjective(bl[o]) /\ ToSet(bl[o]) = Waiting(s, o) \ {t}
    <2>1. CASE pend
      BY <2>1, UnlinkedLists
    <2>2. CASE ~pend
      <3>1. \A o \in Objects : t \notin Waiting(s, o)
        BY <2>2 DEF KInv, StateMatchesListsIn, Waiting
      <3> HIDE DEF pend
      <3>2. \A o \in Objects : IsInjective(bl[o]) /\ ToSet(bl[o]) = Waiting(s, o)
        BY <1>0, <2>2 DEF ListsDistinctIn, Waiting
      <3> QED BY <3>1, <3>2
    <2> QED BY <2>1, <2>2
  <1>5. ss[t] = "DELETED" /\ \A u \in Tasks \ {t} : ss[u] = s.state[u]
    BY <1>0 DEF KStates
  <1>12. Sublist(th, s.tick_head) /\ \A o \in Objects : Sublist(bl[o], s.block_list[o])
    BY UnlinkedSublists, TickSublist, SublistSame
  <1> HIDE DEF bl, th, ss
  <1>6. /\ r \in KStates /\ r.state = ss /\ r.block_list = bl /\ r.tick_head = th
        /\ r.ready = s.ready \ {t} /\ r.block_status = s.block_status
        /\ r.block_obj = s.block_obj /\ r.priority = s.priority
        /\ r.tick_match = s.tick_match /\ r.raw_tick_count = s.raw_tick_count
    <2>1. s.ready \ {t} \in SUBSET Tasks
      BY <1>0 DEF KStates
    <2>2. /\ r.state = ss /\ r.block_list = bl /\ r.tick_head = th
          /\ r.ready = s.ready \ {t} /\ r.block_status = s.block_status
          /\ r.block_obj = s.block_obj /\ r.priority = s.priority
          /\ r.tick_match = s.tick_match /\ r.raw_tick_count = s.raw_tick_count
      BY <1>0, <1>1 DEF KStates
    <2>3. r \in KStates
      BY <1>0, <1>1, <1>2, <2>1 DEF KStates
    <2> QED BY <2>2, <2>3
  <1>7. /\ IsInjective(r.tick_head) /\ ToSet(r.tick_head) = ToSet(s.tick_head) \ {t}
        /\ \A o \in Objects : IsInjective(r.block_list[o])
                                /\ Waiting(r, o) = Waiting(s, o) \ {t}
    BY <1>3, <1>4, <1>6 DEF Waiting
  <1>8. r.state[t] \in {"RDY", "SUSPENDED", "DELETED"} /\ r.state[t] = "DELETED"
    BY <1>5, <1>6
  <1>9. \A u \in Tasks \ {t} : r.state[u] = s.state[u] /\ r.block_obj[u] = s.block_obj[u]
    BY <1>5, <1>6
  <1>10. /\ t \in r.ready <=> r.state[t] = "RDY"
         /\ \A u \in Tasks \ {t} : u \in r.ready <=> u \in s.ready
    BY <1>6, <1>8
  <1>11. KInv(r)
    BY <1>6, <1>7, <1>8, <1>9, <1>10, LeftLists
  <1>13. Fewer(s, r)
    BY <1>6, <1>12 DEF Fewer
  <1> QED BY <1>6, <1>8, <1>9, <1>11, <1>13 DEF OthersKept

(* raw_task_create, of a deleted task *)
LEMMA CreateCalm ==
  ASSUME NEW s, KInv(s), NEW I, \A t \in Tasks \ I : s.state[t] \notin IdleStates,
         NEW t \in Tasks, s.state[t] = "DELETED", NEW p \in Int, NEW auto_start \in BOOLEAN,
         NEW r, r = raw_task_create(s, t, p, auto_start)
  PROVE  /\ KInv(r) /\ Calm(s, r, I)
         /\ r.priority = [s.priority EXCEPT ![t] = p]
         /\ r.tick_match = [s.tick_match EXCEPT ![t] = 0]
         /\ r.raw_tick_count = s.raw_tick_count
         /\ r.tick_head = s.tick_head /\ r.block_list = s.block_list
         /\ OthersKept(s, r, t) /\ r.block_obj[t] = NoObj
         /\ r.state[t] \in {"RDY", "SUSPENDED"}
  <1> DEFINE pr == [s.priority EXCEPT ![t] = p]
             bs == [s.block_status EXCEPT ![t] = "OK"]
             bo == [s.block_obj EXCEPT ![t] = NoObj]
             tm == [s.tick_match EXCEPT ![t] = 0]
             st == IF auto_start THEN "RDY" ELSE "SUSPENDED"
             ss == [s.state EXCEPT ![t] = st]
             sc == [s.suspend_count EXCEPT ![t] = IF auto_start THEN 0 ELSE 1]
             rd == IF auto_start THEN s.ready \cup {t} ELSE s.ready
  <1>0. s \in KStates /\ ListsDistinctIn(s)
    BY DEF KInv
  <1>1. r = [s EXCEPT !.priority = pr, !.block_status = bs, !.block_obj = bo,
                      !.tick_match = tm, !.suspend_count = sc, !.ready = rd, !.state = ss]
    <2>1. CASE auto_start
      BY <1>0, <2>1 DEF raw_task_create, make_ready, KStates
    <2>2. CASE ~auto_start
      BY <1>0, <2>2 DEF raw_task_create, make_ready, KStates
    <2> QED BY <2>1, <2>2
  <1>2. /\ pr \in [Tasks -> Int] /\ bs \in [Tasks -> Statuses]
        /\ bo \in [Tasks -> Objects \cup {NoObj}] /\ tm \in [Tasks -> Int]
    BY <1>0 DEF KStates, Statuses
  <1>3. ss \in [Tasks -> States] /\ sc \in [Tasks -> Int] /\ rd \in SUBSET Tasks
    BY <1>0, StatesAre DEF KStates
  <1>4. /\ ss[t] = st
        /\ \A u \in Tasks \ {t} : ss[u] = s.state[u] /\ bs[u] = s.block_status[u]
                                    /\ bo[u] = s.block_obj[u]
        /\ bo[t] = NoObj
    BY <1>0 DEF KStates
  <1>5. /\ st \in {"RDY", "SUSPENDED"} /\ (st = "RDY" <=> auto_start)
        /\ rd = IF auto_start THEN s.ready \cup {t} ELSE s.ready
    OBVIOUS
  <1> HIDE DEF pr, bs, bo, tm, ss, sc, rd, st
  <1>6. /\ r \in KStates /\ r.state = ss /\ r.ready = rd /\ r.block_status = bs
        /\ r.block_obj = bo /\ r.tick_head = s.tick_head /\ r.block_list = s.block_list
        /\ r.priority = pr /\ r.tick_match = tm /\ r.raw_tick_count = s.raw_tick_count
    <2>1. rd \in SUBSET Tasks
      BY <1>0, <1>5 DEF KStates
    <2>2. /\ r.state = ss /\ r.ready = rd /\ r.block_status = bs
          /\ r.block_obj = bo /\ r.tick_head = s.tick_head /\ r.block_list = s.block_list
          /\ r.priority = pr /\ r.tick_match = tm /\ r.raw_tick_count = s.raw_tick_count
      BY <1>0, <1>1, <1>2, <1>3 DEF KStates
    <2>3. r \in KStates
      BY <1>0, <1>1, <1>2, <1>3, <2>1, ZenonT(30) DEF KStates
    <2> QED BY <2>2, <2>3
  <1>7. /\ t \notin s.ready /\ t \notin ToSet(s.tick_head)
        /\ \A o \in Objects : t \notin Waiting(s, o)
    BY DEF KInv, StateMatchesListsIn, PendStates, TickStates, Waiting
  <1>8. KInv(r)
    <2>1. /\ IsInjective(r.tick_head) /\ ToSet(r.tick_head) = ToSet(s.tick_head) \ {t}
          /\ \A o \in Objects : IsInjective(r.block_list[o])
                                  /\ Waiting(r, o) = Waiting(s, o) \ {t}
      BY <1>0, <1>6, <1>7 DEF ListsDistinctIn, Waiting
    <2>2. r.state[t] \in {"RDY", "SUSPENDED", "DELETED"}
      BY <1>4, <1>5, <1>6
    <2>3. \A u \in Tasks \ {t} : r.state[u] = s.state[u] /\ r.block_obj[u] = s.block_obj[u]
      BY <1>4, <1>6
    <2>4. /\ t \in r.ready <=> r.state[t] = "RDY"
          /\ \A u \in Tasks \ {t} : u \in r.ready <=> u \in s.ready
      BY <1>4, <1>5, <1>6, <1>7
    <2>5. r \in KStates
      BY <1>6
    <2> QED BY <2>1, <2>2, <2>3, <2>4, <2>5, LeftLists
  <1>9. Calm(s, r, I)
    <2>1. OthersKept(s, r, t)
      BY <1>4, <1>6 DEF OthersKept
    <2>2. t \in I
      BY DEF IdleStates
    <2>3. r.state[t] \notin PendStates
      BY <1>4, <1>5, <1>6 DEF PendStates
    <2> QED BY <2>1, <2>2, <2>3, CalmOne
  <1>10. OthersKept(s, r, t) /\ r.block_obj[t] = NoObj /\ r.state[t] \in {"RDY", "SUSPENDED"}
    BY <1>4, <1>5, <1>6 DEF OthersKept
  <1> QED BY <1>6, <1>8, <1>9, <1>10 DEF pr, tm

(* All tasks start ready. *)
LEMMA TaskInitLemma ==
  ASSUME NEW prio \in [Tasks -> Int], NEW s, s = TaskInit(prio)
  PROVE  KInv(s) /\ \A t \in Tasks : s.state[t] = "RDY"
  <1>1. s \in KStates
    <2>1. "RDY" \in States /\ "OK" \in Statuses
      BY StatesAre DEF Statuses
    <2> QED BY <2>1 DEF KStates, TaskInit
  <1>2. /\ \A t \in Tasks : s.state[t] = "RDY"
        /\ s.ready = Tasks /\ s.tick_head = <<>> /\ \A o \in Objects : s.block_list[o] = <<>>
    BY DEF TaskInit
  <1>3. ToSet(<<>>) = {} /\ IsInjective(<<>>)
    BY DEF ToSet, IsInjective
  <1>4. ListsDistinctIn(s)
    BY <1>2, <1>3 DEF ListsDistinctIn
  <1>5. StateMatchesListsIn(s)
    BY <1>2, <1>3 DEF StateMatchesListsIn, PendStates, TickStates
  <1>6. \A t \in Tasks : s.state[t] \notin PendStates
    BY <1>2 DEF PendStates
  <1> QED BY <1>1, <1>2, <1>4, <1>5, <1>6 DEF KInv

-----------------------------------------------------------------------------
(***************************************************************************)
(* The order of the lists that gain a member.                              *)
(***************************************************************************)

LEMMA TickInsertOrder ==
  ASSUME NEW s \in KStates, ListsDistinctIn(s), TICKS \in Nat \ {0, 1}, TickOrder(s),
         NEW t \in Tasks, t \notin ToSet(s.tick_head), NEW time \in 1 .. TICKS - 1,
         NEW r, r = tick_list_insert(s, t, time)
  PROVE  TickOrder(r)
  <1> DEFINE v == (s.raw_tick_count + time) % TICKS
             tm == [s.tick_match EXCEPT ![t] = v]
             q == [s EXCEPT !.tick_match = tm]
             key == TimeLeft(q)
             th == SortedInsert(s.tick_head, t, key)
  <1>1. /\ s.raw_tick_count \in 0 .. TICKS - 1 /\ time \in 0 .. TICKS - 1
        /\ TICKS \in Nat \ {0}
    BY DEF TickOrder
  <1>2. v = IF s.raw_tick_count + time < TICKS THEN s.raw_tick_count + time
            ELSE s.raw_tick_count + time - TICKS
    BY <1>1, ModSum
  <1>3. v \in 0 .. TICKS - 1
    <2> HIDE DEF v
    <2> QED BY <1>1, <1>2
  <1>4. (v - s.raw_tick_count) % TICKS = time
    <2> HIDE DEF v
    <2>1. (v - s.raw_tick_count) % TICKS =
            IF s.raw_tick_count <= v THEN v - s.raw_tick_count
            ELSE v - s.raw_tick_count + TICKS
      BY <1>1, <1>3, ModDifference
    <2> QED BY <1>1, <1>2, <2>1
  <1>5. r = [q EXCEPT !.tick_head = th]
    <2>1. [s EXCEPT !.tick_match[t] = v] = q
      BY DEF KStates
    <2> QED BY <2>1 DEF tick_list_insert, KStates, TimeLeft
  <1>6. tm \in [Tasks -> Int] /\ tm[t] = v /\ \A u \in Tasks \ {t} : tm[u] = s.tick_match[u]
    <2> HIDE DEF v
    <2>1. v \in Int
      BY <1>3
    <2> QED BY <2>1 DEF KStates
  <1> HIDE DEF tm, v
  <1>7. /\ q.tick_match = tm /\ q.raw_tick_count = s.raw_tick_count
        /\ q.tick_head = s.tick_head /\ q \in KStates
    BY <1>6 DEF KStates
  <1>8. /\ r.tick_match = tm /\ r.raw_tick_count = s.raw_tick_count /\ r.tick_head = th
    BY <1>5, <1>7 DEF KStates
  <1> HIDE DEF q
  <1>9. /\ key[t] = time
        /\ \A u \in Tasks \ {t} : key[u] = TimeLeft(s)[u]
        /\ \A u \in Tasks : key[u] = Remaining(r, u)
    BY <1>4, <1>6, <1>7, <1>8 DEF TimeLeft, Remaining
  <1>10. key \in [Tasks -> Int]
    <2>1. \A u \in Tasks : q.tick_match[u] \in Int /\ q.raw_tick_count \in Int
      BY <1>1, <1>6, <1>7
    <2>2. \A u \in Tasks : (q.tick_match[u] - q.raw_tick_count) % TICKS \in Int
      BY <1>1, <2>1
    <2> QED BY <2>2 DEF TimeLeft, Remaining
  <1>11. TimeLeft(r) = key
    BY <1>7, <1>8 DEF TimeLeft, Remaining
  <1> HIDE DEF key
  <1>12. s.tick_head \in Seq(Tasks) /\ IsInjective(s.tick_head)
    BY DEF KStates, ListsDistinctIn
  <1>13. ToSet(s.tick_head) \subseteq Tasks
    BY <1>12, EmptyLemma
  <1>14. OrderedBy(s.tick_head, key)
    <2>1. OrderedBy(s.tick_head, TimeLeft(s))
      BY DEF TickOrder
    <2> QED BY <1>9, <1>13, <2>1 DEF OrderedBy
  <1>15. ToSet(th) = ToSet(s.tick_head) \cup {t} /\ OrderedBy(th, key)
    BY <1>10, <1>12, <1>14, SortedInsertLemma
  <1> HIDE DEF th
  <1>16. \A u \in ToSet(th) : tm[u] \in 0 .. TICKS - 1 /\ Remaining(r, u) > 0
    <2>1. \A u \in ToSet(s.tick_head) :
            s.tick_match[u] \in 0 .. TICKS - 1 /\ TimeLeft(s)[u] > 0
      BY <1>13 DEF TickOrder, TimeLeft
    <2>2. tm[t] \in 0 .. TICKS - 1 /\ key[t] > 0
      BY <1>3, <1>6, <1>9
    <2>3. \A u \in ToSet(s.tick_head) : tm[u] \in 0 .. TICKS - 1 /\ key[u] > 0
      BY <1>6, <1>9, <1>13, <2>1
    <2> QED BY <1>9, <1>13, <1>15, <2>2, <2>3
  <1> QED BY <1>1, <1>8, <1>11, <1>15, <1>16 DEF TickOrder

(* Neither priorities nor ticks change. *)
KeysKept(s, r) ==
  /\ r.priority = s.priority /\ r.tick_match = s.tick_match
  /\ r.raw_tick_count = s.raw_tick_count /\ r.tick_head = s.tick_head

LEMMA AddToListOrder ==
  ASSUME NEW s \in KStates, ListsDistinctIn(s), NEW o \in Objects, NEW t \in Tasks,
         t \notin Waiting(s, o), WaitOrder(s), NEW r, r = add_to_block_list(s, o, t)
  PROVE  WaitOrder(r) /\ KeysKept(s, r)
  <1> DEFINE l == s.block_list[o]
             n == IF o \in FifoObjects THEN Append(l, t)
                  ELSE SortedInsert(l, t, s.priority)
             bl == [s.block_list EXCEPT ![o] = n]
  <1>1. l \in Seq(Tasks) /\ IsInjective(l) /\ t \notin ToSet(l)
    BY DEF KStates, ListsDistinctIn, Waiting
  <1>2. s.priority \in [Tasks -> Int]
    BY DEF KStates
  <1>3. r = [s EXCEPT !.block_list = bl]
    BY DEF add_to_block_list, add_to_priority_list, KStates
  <1>4. o \notin FifoObjects => OrderedBy(n, s.priority)
    <2>1. o \notin FifoObjects => OrderedBy(l, s.priority)
      BY DEF WaitOrder
    <2> HIDE DEF l
    <2> QED BY <1>1, <1>2, <2>1, SortedInsertLemma
  <1> HIDE DEF n
  <1>5. bl[o] = n /\ \A x \in Objects \ {o} : bl[x] = s.block_list[x]
    BY DEF KStates
  <1> HIDE DEF bl
  <1>6. /\ r.block_list = bl /\ r.priority = s.priority
        /\ r.tick_match = s.tick_match /\ r.raw_tick_count = s.raw_tick_count
        /\ r.tick_head = s.tick_head
    BY <1>3 DEF KStates
  <1>7. \A x \in Objects \ FifoObjects : OrderedBy(bl[x], s.priority)
    BY <1>4, <1>5 DEF WaitOrder
  <1> QED BY <1>6, <1>7 DEF WaitOrder, KeysKept

(* raw_pend_object keeps the order of the lists. *)
LEMMA PendOrder ==
  ASSUME NEW s, KInv(s), NEW o \in Objects, NEW t \in Tasks, s.state[t] = "RDY",
         TICKS \in Nat \ {0, 1}, NEW timeout \in 1 .. TICKS - 1 \cup {FOREVER},
         WaitOrder(s), TickOrder(s), NEW r, r = raw_pend_object(s, o, t, timeout)
  PROVE  WaitOrder(r) /\ TickOrder(r) /\ r.priority = s.priority
  <1> DEFINE st == IF timeout = FOREVER THEN "PEND" ELSE "PEND_TIMEOUT"
             s1 == [s EXCEPT !.block_obj[t] = o, !.state[t] = st]
             s2 == IF timeout = FOREVER THEN s1 ELSE tick_list_insert(s1, t, timeout)
             s3 == remove_ready(s2, t)
  <1>0. s \in KStates /\ ListsDistinctIn(s)
    BY DEF KInv
  <1>1. /\ t \notin ToSet(s.tick_head) /\ t \notin Waiting(s, o)
    BY DEF KInv, StateMatchesListsIn, TickStates, PendStates, Waiting
  <1>2. r = add_to_block_list(s3, o, t)
    BY DEF raw_pend_object
  <1>3. st \in States
    BY StatesAre
  <1> HIDE DEF st
  <1>4. /\ s1 \in KStates
        /\ s1.tick_head = s.tick_head /\ s1.block_list = s.block_list
        /\ s1.priority = s.priority /\ s1.tick_match = s.tick_match
        /\ s1.raw_tick_count = s.raw_tick_count
    <2>1. /\ [s.state EXCEPT ![t] = st] \in [Tasks -> States]
          /\ [s.block_obj EXCEPT ![t] = o] \in [Tasks -> Objects \cup {NoObj}]
      BY <1>0, <1>3 DEF KStates
    <2>2. s1 = [s EXCEPT !.block_obj = [s.block_obj EXCEPT ![t] = o],
                         !.state = [s.state EXCEPT ![t] = st]]
      BY <1>0 DEF KStates
    <2> QED BY <1>0, <2>1, <2>2 DEF KStates
  <1>5. ListsDistinctIn(s1) /\ TickOrder(s1) /\ WaitOrder(s1)
    BY <1>0, <1>4 DEF ListsDistinctIn, TickOrder, WaitOrder, TimeLeft, Remaining
  <1> HIDE DEF s1
  <1>6. /\ s2 \in KStates /\ ListsDistinctIn(s2) /\ s2.block_list = s1.block_list
        /\ s2.priority = s1.priority /\ TickOrder(s2)
    <2>1. CASE timeout = FOREVER
      BY <1>4, <1>5, <2>1
    <2>2. CASE timeout # FOREVER
      <3>1. /\ s2 = tick_list_insert(s1, t, timeout) /\ t \notin ToSet(s1.tick_head)
            /\ timeout \in 1 .. TICKS - 1
        BY <1>1, <1>4, <2>2
      <3>2. timeout \in Int /\ timeout # 0 /\ TICKS \in Nat \ {0}
        BY <3>1
      <3> HIDE DEF s2
      <3>3. /\ s2 \in KStates /\ ListsDistinctIn(s2)
            /\ ToSet(s2.tick_head) = ToSet(s1.tick_head) \cup {t}
            /\ s2.state = s1.state /\ s2.block_obj = s1.block_obj /\ s2.ready = s1.ready
            /\ s2.block_status = s1.block_status /\ s2.block_list = s1.block_list
            /\ s2.priority = s1.priority
        BY <1>4, <1>5, <3>1, <3>2, TickListInsert
      <3>4. TickOrder(s2)
        BY <1>4, <1>5, <3>1, TickInsertOrder
      <3> QED BY <3>3, <3>4
    <2> QED BY <2>1, <2>2
  <1> HIDE DEF s2
  <1>7. /\ s3 \in KStates /\ s3.block_list = s2.block_list /\ s3.priority = s2.priority
        /\ s3.tick_head = s2.tick_head /\ s3.tick_match = s2.tick_match
        /\ s3.raw_tick_count = s2.raw_tick_count
    BY <1>6 DEF KStates, remove_ready
  <1> HIDE DEF s3
  <1>8. ListsDistinctIn(s3) /\ TickOrder(s3) /\ WaitOrder(s3) /\ t \notin Waiting(s3, o)
    BY <1>1, <1>4, <1>5, <1>6, <1>7
      DEF ListsDistinctIn, TickOrder, WaitOrder, TimeLeft, Remaining, Waiting
  <1>9. WaitOrder(r) /\ KeysKept(s3, r)
    BY <1>2, <1>7, <1>8, AddToListOrder
  <1>10. TickOrder(r)
    BY <1>8, <1>9 DEF TickOrder, TimeLeft, Remaining, KeysKept
  <1> QED BY <1>4, <1>6, <1>7, <1>9, <1>10 DEF KeysKept

(* raw_sleep keeps the order of the lists. *)
LEMMA SleepOrder ==
  ASSUME NEW s, KInv(s), NEW t \in Tasks, s.state[t] = "RDY",
         TICKS \in Nat \ {0, 1}, NEW dly \in 1 .. TICKS - 1,
         WaitOrder(s), TickOrder(s), ObjectsMatch(s), NEW r, r = raw_sleep(s, t, dly)
  PROVE  /\ WaitOrder(r) /\ TickOrder(r) /\ ObjectsMatch(r) /\ Alive(r) = Alive(s)
         /\ r.priority = s.priority /\ r.block_obj = s.block_obj
  <1> DEFINE s1 == [s EXCEPT !.state[t] = "DLY"]
             s2 == tick_list_insert(s1, t, dly)
  <1>0. s \in KStates /\ ListsDistinctIn(s)
    BY DEF KInv
  <1>1. r = remove_ready(s2, t)
    BY DEF raw_sleep
  <1>2. /\ s1 \in KStates /\ s1.state = [s.state EXCEPT ![t] = "DLY"]
        /\ s1.tick_head = s.tick_head /\ s1.block_list = s.block_list
        /\ s1.priority = s.priority /\ s1.tick_match = s.tick_match
        /\ s1.raw_tick_count = s.raw_tick_count /\ s1.block_obj = s.block_obj
    BY <1>0, StatesAre DEF KStates
  <1>3. t \notin ToSet(s1.tick_head)
    BY <1>2 DEF KInv, StateMatchesListsIn, TickStates
  <1>4. ListsDistinctIn(s1) /\ TickOrder(s1) /\ WaitOrder(s1)
    BY <1>0, <1>2 DEF ListsDistinctIn, TickOrder, WaitOrder, TimeLeft, Remaining
  <1>5. dly \in Int /\ dly # 0 /\ TICKS \in Nat \ {0}
    OBVIOUS
  <1> HIDE DEF s1
  <1>6. TickOrder(s2)
    BY <1>2, <1>3, <1>4, TickInsertOrder
  <1>7. /\ s2 \in KStates /\ ListsDistinctIn(s2)
        /\ ToSet(s2.tick_head) = ToSet(s1.tick_head) \cup {t}
        /\ s2.state = s1.state /\ s2.block_obj = s1.block_obj /\ s2.ready = s1.ready
        /\ s2.block_status = s1.block_status /\ s2.block_list = s1.block_list
        /\ s2.priority = s1.priority
    BY <1>2, <1>3, <1>4, <1>5, TickListInsert
  <1> HIDE DEF s2
  <1>8. /\ r.tick_head = s2.tick_head /\ r.tick_match = s2.tick_match
        /\ r.raw_tick_count = s2.raw_tick_count /\ r.block_list = s2.block_list
        /\ r.priority = s2.priority /\ r.state = s2.state /\ r.block_obj = s2.block_obj
    BY <1>1, <1>7 DEF remove_ready, KStates
  <1>9. WaitOrder(r) /\ TickOrder(r)
    BY <1>2, <1>4, <1>6, <1>7, <1>8 DEF TickOrder, WaitOrder, TimeLeft, Remaining
  <1>10. r.state[t] = "DLY" /\ \A u \in Tasks \ {t} : r.state[u] = s.state[u]
    BY <1>0, <1>2, <1>7, <1>8 DEF KStates
  <1>11. Alive(r) = Alive(s)
    BY <1>10 DEF Alive
  <1>12. ObjectsMatch(r)
    BY <1>2, <1>7, <1>8, <1>10, <1>11 DEF ObjectsMatch, Alive, PendStates
  <1> QED BY <1>2, <1>7, <1>8, <1>9, <1>11, <1>12

-----------------------------------------------------------------------------
(***************************************************************************)
(* The priority of a task changes.                                         *)
(***************************************************************************)

(* Nothing has changed but priorities and the order of the wait lists. *)
Reordered(s, r) ==
  /\ r.state = s.state /\ r.suspend_count = s.suspend_count
  /\ r.block_status = s.block_status /\ r.block_obj = s.block_obj
  /\ r.tick_match = s.tick_match /\ r.raw_tick_count = s.raw_tick_count
  /\ r.ready = s.ready /\ r.tick_head = s.tick_head
  /\ \A o \in Objects : Waiting(r, o) = Waiting(s, o)

LEMMA ReorderedTrans ==
  ASSUME NEW s, NEW q, NEW r, Reordered(s, q), Reordered(q, r)
  PROVE  Reordered(s, r)
  BY DEF Reordered

(* A task that waits goes to the place its new priority gives it. *)
LEMMA RepriceLemma ==
  ASSUME NEW s, KInv(s), WaitOrder(s), NEW t \in Tasks, NEW p \in Int,
         NEW r, r = LET k1 == [s EXCEPT !.priority[t] = p]
                    IN  IF s.state[t] \in PendStates THEN change_pend_list_priority(k1, t)
                        ELSE k1
  PROVE  /\ KInv(r) /\ WaitOrder(r) /\ Reordered(s, r)
         /\ r.priority = [s.priority EXCEPT ![t] = p]
         /\ s.state[t] \notin PendStates => r.block_list = s.block_list
  <1> DEFINE pr == [s.priority EXCEPT ![t] = p]
             q == [s EXCEPT !.priority[t] = p]
             o == s.block_obj[t]
  <1>0. s \in KStates /\ ListsDistinctIn(s)
    BY DEF KInv
  <1>1. pr \in [Tasks -> Int] /\ \A u \in Tasks \ {t} : pr[u] = s.priority[u]
    BY <1>0 DEF KStates
  <1>2. q = [s EXCEPT !.priority = pr]
    BY <1>0 DEF KStates
  <1>3. r = IF s.state[t] \in PendStates THEN change_pend_list_priority(q, t) ELSE q
    OBVIOUS
  <1> HIDE DEF q, pr
  <1>4. /\ q \in KStates /\ q.state = s.state /\ q.suspend_count = s.suspend_count
        /\ q.tick_head = s.tick_head
        /\ q.block_list = s.block_list /\ q.block_obj = s.block_obj
        /\ q.block_status = s.block_status /\ q.ready = s.ready /\ q.priority = pr
        /\ q.tick_match = s.tick_match /\ q.raw_tick_count = s.raw_tick_count
    BY <1>0, <1>1, <1>2 DEF KStates
  <1>5. KInv(q)
    BY <1>4 DEF KInv, StateMatchesListsIn, ListsDistinctIn
  <1>6. \A x \in Objects : s.block_list[x] \in Seq(Tasks) /\ Waiting(s, x) \subseteq Tasks
    BY <1>0, EmptyLemma DEF KStates, Waiting
  <1>7. ASSUME NEW l, NEW x \in Objects \ FifoObjects, Sublist(l, s.block_list[x]),
               t \notin ToSet(l)
        PROVE  OrderedBy(l, pr)
    <2>1. OrderedBy(s.block_list[x], s.priority)
      BY DEF WaitOrder
    <2>2. \A u \in ToSet(l) : pr[u] = s.priority[u]
      BY <1>1, <1>6, <1>7 DEF Sublist, Waiting
    <2> QED BY <1>7, <2>1, <2>2 DEF OrderedBy, Sublist
  <1>8. CASE s.state[t] \notin PendStates
    <2>1. \A x \in Objects : t \notin Waiting(s, x)
      BY <1>8 DEF KInv, StateMatchesListsIn, Waiting
    <2>2. r = q
      BY <1>3, <1>8
    <2>3. WaitOrder(r)
      BY <1>4, <1>7, <2>1, <2>2, SublistSame DEF WaitOrder, Waiting
    <2>4. Reordered(s, r)
      BY <1>4, <2>2 DEF Reordered, Waiting
    <2> QED BY <1>4, <1>5, <2>2, <2>3, <2>4 DEF pr
  <1>9. CASE s.state[t] \in PendStates
    <2> DEFINE bl == [s.block_list EXCEPT ![o] = list_delete(@, t)]
               v == unlink(q, t)
    <2>1. o \in Objects /\ \A x \in Objects : t \in Waiting(s, x) <=> x = o
      BY <1>9 DEF KInv, StateMatchesListsIn, Waiting
    <2>2. r = change_pend_list_priority(q, t) /\ q.state[t] \in PendStates
      BY <1>3, <1>4, <1>9
    <2>3. KInv(r)
      BY <1>5, <2>2, ReorderLemma
    <2>4. bl \in [Objects -> Seq(Tasks)]
      BY <1>0, DeleteSeq DEF KStates
    <2>5. /\ \A x \in Objects : IsInjective(bl[x]) /\ ToSet(bl[x]) = Waiting(s, x) \ {t}
          /\ \A x \in Objects : Sublist(bl[x], s.block_list[x])
      BY UnlinkedLists, UnlinkedSublists
    <2>6. v = [q EXCEPT !.block_list = bl]
      BY <1>4 DEF unlink, KStates
    <2> HIDE DEF v, bl
    <2>7. /\ v \in KStates /\ v.block_list = bl
          /\ v.state = s.state /\ v.suspend_count = s.suspend_count
          /\ v.tick_head = s.tick_head /\ v.block_obj = s.block_obj
          /\ v.block_status = s.block_status /\ v.ready = s.ready /\ v.priority = pr
          /\ v.tick_match = s.tick_match /\ v.raw_tick_count = s.raw_tick_count
      BY <1>4, <2>4, <2>6 DEF KStates
    <2>8. /\ ListsDistinctIn(v) /\ \A x \in Objects : Waiting(v, x) = Waiting(s, x) \ {t}
      BY <1>0, <2>5, <2>7 DEF ListsDistinctIn, Waiting
    <2>9. CASE o \in FifoObjects
      <3>1. r = q
        BY <1>4, <2>2, <2>9 DEF change_pend_list_priority
      <3>2. \A x \in Objects \ FifoObjects : t \notin Waiting(s, x)
        BY <2>1, <2>9
      <3>3. WaitOrder(r)
        BY <1>4, <1>7, <3>1, <3>2, SublistSame DEF WaitOrder, Waiting
      <3>4. Reordered(s, r)
        BY <1>4, <3>1 DEF Reordered, Waiting
      <3> QED BY <1>4, <1>5, <1>9, <3>1, <3>3, <3>4 DEF pr
    <2>10. CASE o \notin FifoObjects
      <3>1. r = add_to_block_list(v, o, t)
        BY <1>4, <2>2, <2>10 DEF change_pend_list_priority, add_to_block_list, v
      <3> HIDE DEF o
      <3>2. t \notin Waiting(v, o)
        BY <2>1, <2>8
      <3>3. WaitOrder(v)
        BY <1>7, <2>5, <2>7 DEF WaitOrder
      <3>4. WaitOrder(r) /\ KeysKept(v, r)
        <4>1. o \in Objects /\ v \in KStates /\ ListsDistinctIn(v)
          BY <2>1, <2>7, <2>8
        <4> QED BY <3>1, <3>2, <3>3, <4>1, AddToListOrder
      <3>5. /\ r \in KStates /\ ListsDistinctIn(r)
            /\ Waiting(r, o) = Waiting(v, o) \cup {t}
            /\ \A x \in Objects \ {o} : Waiting(r, x) = Waiting(v, x)
            /\ r.state = v.state /\ r.block_obj = v.block_obj /\ r.ready = v.ready
            /\ r.block_status = v.block_status /\ r.tick_head = v.tick_head
        BY <2>1, <2>7, <2>8, <3>1, <3>2, AddToBlockList
      <3>6. r.suspend_count = v.suspend_count
        BY <2>7, <3>1 DEF add_to_block_list, add_to_priority_list, KStates
      <3>7. \A x \in Objects : Waiting(r, x) = Waiting(s, x)
        <4>1. Waiting(r, o) = Waiting(s, o)
          <5>1. Waiting(r, o) = Waiting(v, o) \cup {t}
            BY <3>5
          <5>2. o \in Objects
            BY <2>1
          <5>3. t \in Waiting(s, o)
            BY <2>1, <5>2
          <5>4. Waiting(v, o) = Waiting(s, o) \ {t}
            BY <2>8, <5>2
          <5> QED BY <5>1, <5>3, <5>4
        <4>2. ASSUME NEW x \in Objects \ {o} PROVE Waiting(r, x) = Waiting(s, x)
          <5>1. Waiting(r, x) = Waiting(v, x)
            BY <3>5
          <5>2. Waiting(v, x) = Waiting(s, x) \ {t}
            BY <2>8
          <5>3. t \notin Waiting(s, x)
            BY <2>1
          <5> QED BY <5>1, <5>2, <5>3
        <4> QED BY <4>1, <4>2
      <3>8. Reordered(s, r)
        BY <2>7, <3>4, <3>5, <3>6, <3>7 DEF Reordered, KeysKept
      <3> QED BY <1>9, <2>3, <2>7, <3>4, <3>8 DEF pr, KeysKept
    <2> QED BY <2>9, <2>10
  <1> QED BY <1>8, <1>9

-----------------------------------------------------------------------------
(***************************************************************************)
(* One tick.                                                               *)
(***************************************************************************)

(* TickOrder between the ticks: the wait of some tasks may be over. *)
TickSorted(s) ==
  /\ s.raw_tick_count \in 0 .. TICKS - 1
  /\ \A t \in ToSet(s.tick_head) : s.tick_match[t] \in 0 .. TICKS - 1
  /\ OrderedBy(s.tick_head, TimeLeft(s))

(* raw_tick_count advances: what remains is one tick less for every task,  *)
(* and the tasks at the front whose wait is over are all there are.        *)
LEMMA AdvanceLemma ==
  ASSUME NEW s, KInv(s), TickOrder(s), TICKS \in Nat \ {0, 1}, NEW r, r = advance_tick(s)
  PROVE  /\ KInv(r) /\ TickSorted(r) /\ r.tick_head = s.tick_head
         /\ r.state = s.state /\ r.block_status = s.block_status
         /\ r.block_obj = s.block_obj /\ r.ready = s.ready
         /\ r.block_list = s.block_list /\ r.priority = s.priority
         /\ due(r) \in Seq(Tasks) /\ IsInjective(due(r))
         /\ ToSet(due(r)) = {t \in ToSet(r.tick_head) : Remaining(r, t) = 0}
  <1> DEFINE c == (s.raw_tick_count + 1) % TICKS
  <1>0. s \in KStates /\ s.raw_tick_count \in 0 .. TICKS - 1
    BY DEF KInv, TickOrder
  <1>1. c = IF s.raw_tick_count + 1 < TICKS THEN s.raw_tick_count + 1
            ELSE s.raw_tick_count + 1 - TICKS
    <2>1. 1 \in 0 .. TICKS - 1 /\ TICKS \in Nat \ {0}
      OBVIOUS
    <2> QED BY <1>0, <2>1, ModSum
  <1>2. r = [s EXCEPT !.raw_tick_count = c]
    BY <1>0 DEF advance_tick, KStates
  <1> HIDE DEF c
  <1>3. c \in 0 .. TICKS - 1
    BY <1>0, <1>1
  <1>4. /\ r \in KStates /\ r.state = s.state /\ r.block_status = s.block_status
        /\ r.block_obj = s.block_obj /\ r.ready = s.ready /\ r.tick_head = s.tick_head
        /\ r.block_list = s.block_list /\ r.priority = s.priority
        /\ r.tick_match = s.tick_match /\ r.raw_tick_count = c
    <2>1. c \in Int
      BY <1>3
    <2> QED BY <1>0, <1>2, <2>1 DEF KStates
  <1>5. KInv(r)
    BY <1>4 DEF KInv, StateMatchesListsIn, ListsDistinctIn
  <1> DEFINE th == r.tick_head
             key == TimeLeft(r)
  <1>6. th \in Seq(Tasks) /\ IsInjective(th) /\ ToSet(th) \subseteq Tasks
    BY <1>5, EmptyLemma DEF KInv, KStates, ListsDistinctIn
  <1>7. ASSUME NEW t \in ToSet(th)
        PROVE  /\ r.tick_match[t] \in 0 .. TICKS - 1
               /\ key[t] = TimeLeft(s)[t] - 1 /\ key[t] = Remaining(r, t)
               /\ key[t] \in Nat /\ TimeLeft(s)[t] \in Nat
               /\ key[t] = 0 <=> r.tick_match[t] = r.raw_tick_count
    <2> DEFINE a == s.tick_match[t]
    <2>1. t \in Tasks /\ a \in 0 .. TICKS - 1 /\ Remaining(s, t) > 0
      BY <1>4, <1>6 DEF TickOrder
    <2>2. /\ Remaining(s, t) = (a - s.raw_tick_count) % TICKS
          /\ Remaining(r, t) = (a - c) % TICKS
      BY <1>4 DEF Remaining
    <2>3. key[t] = Remaining(r, t) /\ TimeLeft(s)[t] = Remaining(s, t)
      BY <2>1 DEF TimeLeft
    <2>4. r.tick_match[t] = a
      BY <1>4
    <2> HIDE DEF a
    <2>5. (a - s.raw_tick_count) % TICKS =
            IF s.raw_tick_count <= a THEN a - s.raw_tick_count
            ELSE a - s.raw_tick_count + TICKS
      BY <1>0, <2>1, ModDifference
    <2>6. (a - c) % TICKS = IF c <= a THEN a - c ELSE a - c + TICKS
      BY <1>3, <2>1, ModDifference
    <2> DEFINE x == Remaining(s, t)
               y == Remaining(r, t)
    <2>7. /\ x = IF s.raw_tick_count <= a THEN a - s.raw_tick_count
                 ELSE a - s.raw_tick_count + TICKS
          /\ y = IF c <= a THEN a - c ELSE a - c + TICKS
          /\ x > 0
      BY <2>1, <2>2, <2>5, <2>6
    <2> HIDE DEF x, y
    <2>8. y = x - 1 /\ y \in Nat /\ x \in Nat /\ (y = 0 <=> a = c)
      BY <1>0, <1>1, <1>3, <2>1, <2>7
    <2> QED BY <1>4, <2>1, <2>3, <2>4, <2>8 DEF x, y
  <1> HIDE DEF key
  <1>8. OrderedBy(th, key)
    <2>1. OrderedBy(th, TimeLeft(s))
      BY <1>4 DEF TickOrder
    <2>2. SUFFICES ASSUME NEW a \in ToSet(th), NEW b \in ToSet(th), Precedes(th, a, b)
                   PROVE  key[a] <= key[b]
      BY DEF OrderedBy
    <2>3. TimeLeft(s)[a] <= TimeLeft(s)[b]
      BY <2>1, <2>2 DEF OrderedBy
    <2>4. /\ key[a] = TimeLeft(s)[a] - 1 /\ TimeLeft(s)[a] \in Nat
          /\ key[b] = TimeLeft(s)[b] - 1 /\ TimeLeft(s)[b] \in Nat
      BY <1>7
    <2> QED BY <2>3, <2>4
  <1>9. TickSorted(r)
    BY <1>3, <1>4, <1>7, <1>8 DEF TickSorted, key
  <1> DEFINE I == {j \in 1 .. Len(th) : r.tick_match[th[j]] # r.raw_tick_count}
             i == Min(I)
             ts == due(r)
  <1>10. Len(th) \in Nat /\ DOMAIN th = 1 .. Len(th) /\ ToSet(th) = {th[j] : j \in 1 .. Len(th)}
    BY <1>6, LenProperties DEF ToSet
  <1>11. ts = IF I = {} THEN th ELSE IF i = 0 THEN th ELSE SubSeq(th, 1, i - 1)
    BY DEF due, SelectInSeq
  <1>12. I # {} => i \in I /\ \A j \in I : i <= j
    <2>1. I \subseteq Nat
      BY <1>10
    <2> HIDE DEF I
    <2> QED BY <2>1, MinLemma
  <1> HIDE DEF th
  <1>13. \A j \in 1 .. Len(th) : j \in I <=> key[th[j]] # 0
    BY <1>7, <1>10
  <1>14. \A a, b \in 1 .. Len(th) : a <= b => key[th[a]] <= key[th[b]]
    BY <1>8, <1>10 DEF OrderedBy, Precedes
  <1>18. \A j \in 1 .. Len(th) : key[th[j]] \in Nat
    BY <1>7, <1>10
  <1> HIDE DEF ts, I, i
  <1>15. ts \in Seq(Tasks) /\ IsInjective(ts) /\ ToSet(ts) = {u \in ToSet(th) : key[u] = 0}
    <2>1. CASE I = {}
      <3>1. \A u \in ToSet(th) : key[u] = 0
        BY <1>10, <1>13, <2>1
      <3> QED BY <1>6, <1>11, <2>1, <3>1
    <2>2. CASE I # {}
      <3>0. i \in 1 .. Len(th)
        BY <1>12, <2>2 DEF I
      <3>1. ts = SubSeq(th, 1, i - 1)
        BY <1>11, <2>2, <3>0
      <3>2. /\ ts \in Seq(Tasks) /\ Len(ts) = i - 1 /\ DOMAIN ts = 1 .. i - 1
            /\ \A j \in 1 .. i - 1 : ts[j] = th[j]
        BY <1>6, <1>10, <3>0, <3>1
      <3>3. \A j \in 1 .. i - 1 : j \in 1 .. Len(th)
        BY <1>10, <3>0
      <3>4. IsInjective(ts)
        BY <1>6, <1>10, <3>2, <3>3 DEF IsInjective
      <3>5. \A j \in 1 .. Len(th) : j \in 1 .. i - 1 <=> key[th[j]] = 0
        <4>1. ASSUME NEW j \in 1 .. Len(th), j \in 1 .. i - 1 PROVE key[th[j]] = 0
          <5>1. j \notin I
            BY <1>10, <1>12, <2>2, <3>0, <4>1
          <5> QED BY <1>13, <4>1, <5>1
        <4>2. ASSUME NEW j \in 1 .. Len(th), j \notin 1 .. i - 1 PROVE key[th[j]] # 0
          <5>1. i <= j
            BY <1>10, <3>0, <4>2
          <5>2. key[th[i]] <= key[th[j]] /\ key[th[i]] # 0
            BY <1>12, <1>13, <1>14, <2>2, <3>0, <5>1
          <5> QED BY <1>18, <3>0, <5>2
        <4> QED BY <4>1, <4>2
      <3>6. ToSet(ts) = {th[j] : j \in 1 .. i - 1}
        BY <3>2 DEF ToSet
      <3> QED BY <1>10, <3>2, <3>3, <3>4, <3>5, <3>6
    <2> QED BY <2>1, <2>2
  <1>16. ToSet(ts) = {u \in ToSet(th) : Remaining(r, u) = 0}
    BY <1>7, <1>15
  <1> QED BY <1>4, <1>5, <1>9, <1>15, <1>16 DEF ts, th

(* The tasks whose wait is over have left the list. *)
LEMMA TickDone ==
  ASSUME NEW s, TickSorted(s), KInv(s), TICKS \in Nat \ {0, 1}, NEW r,
         r.tick_match = s.tick_match, r.raw_tick_count = s.raw_tick_count,
         Sublist(r.tick_head, s.tick_head),
         \A t \in ToSet(r.tick_head) : Remaining(s, t) # 0
  PROVE  TickOrder(r)
  <1>1. TimeLeft(r) = TimeLeft(s)
    BY DEF TimeLeft, Remaining
  <1>2. OrderedBy(r.tick_head, TimeLeft(r))
    BY <1>1 DEF TickSorted, Sublist, OrderedBy
  <1>3. ASSUME NEW t \in ToSet(r.tick_head)
        PROVE  r.tick_match[t] \in 0 .. TICKS - 1 /\ Remaining(r, t) > 0
    <2>1. t \in ToSet(s.tick_head) /\ Remaining(s, t) # 0
      BY DEF Sublist
    <2>2. s.tick_match[t] \in 0 .. TICKS - 1 /\ s.raw_tick_count \in 0 .. TICKS - 1
      BY <2>1 DEF TickSorted
    <2>3. (s.tick_match[t] - s.raw_tick_count) % TICKS =
            IF s.raw_tick_count <= s.tick_match[t] THEN s.tick_match[t] - s.raw_tick_count
            ELSE s.tick_match[t] - s.raw_tick_count + TICKS
      BY <2>2, ModDifference
    <2>4. Remaining(r, t) = Remaining(s, t)
      BY DEF Remaining
    <2>5. Remaining(s, t) \in Nat
      BY <2>2, <2>3 DEF Remaining
    <2> QED BY <2>1, <2>2, <2>4, <2>5
  <1> QED BY <1>2, <1>3 DEF TickOrder, TickSorted

(* What the orders mean for neighbours in the lists. *)
LEMMA SortedLists ==
  ASSUME NEW s, KInv(s)
  PROVE  /\ WaitOrder(s) => WaitListSortedIn(s)
         /\ TickOrder(s) => TickListSortedIn(s)
  <1>1. ASSUME NEW l \in Seq(Tasks), NEW key, OrderedBy(l, key), NEW i \in DOMAIN l, i > 1
        PROVE  key[l[i - 1]] <= key[l[i]]
    <2>1. DOMAIN l = 1 .. Len(l) /\ Len(l) \in Nat
      BY LenProperties
    <2>2. i - 1 \in DOMAIN l /\ i - 1 <= i
      BY <1>1, <2>1
    <2>3. Precedes(l, l[i - 1], l[i]) /\ l[i - 1] \in ToSet(l) /\ l[i] \in ToSet(l)
      BY <2>2 DEF Precedes, ToSet
    <2> QED BY <1>1, <2>3 DEF OrderedBy
  <1>2. /\ s.tick_head \in Seq(Tasks) /\ \A o \in Objects : s.block_list[o] \in Seq(Tasks)
    BY DEF KInv, KStates
  <1>3. WaitOrder(s) => WaitListSortedIn(s)
    BY <1>1, <1>2 DEF WaitOrder, WaitListSortedIn
  <1>4. ASSUME TickOrder(s) PROVE TickListSortedIn(s)
    <2> SUFFICES ASSUME NEW i \in DOMAIN s.tick_head
                 PROVE  /\ Remaining(s, s.tick_head[i]) > 0
                        /\ i > 1 => Remaining(s, s.tick_head[i - 1])
                                      <= Remaining(s, s.tick_head[i])
      BY DEF TickListSortedIn
    <2>1. DOMAIN s.tick_head = 1 .. Len(s.tick_head) /\ Len(s.tick_head) \in Nat
      BY <1>2, LenProperties
    <2>2. s.tick_head[i] \in ToSet(s.tick_head) /\ s.tick_head[i] \in Tasks
      BY <1>2, <2>1, ElementOfSeq DEF ToSet
    <2>3. Remaining(s, s.tick_head[i]) > 0
      BY <1>4, <2>2 DEF TickOrder
    <2>4. ASSUME i > 1
          PROVE  Remaining(s, s.tick_head[i - 1]) <= Remaining(s, s.tick_head[i])
      <3>1. TimeLeft(s)[s.tick_head[i - 1]] <= TimeLeft(s)[s.tick_head[i]]
        BY <1>1, <1>2, <1>4, <2>4 DEF TickOrder
      <3>2. s.tick_head[i - 1] \in Tasks
        BY <1>2, <2>1, <2>4, ElementOfSeq
      <3> QED BY <2>2, <3>1, <3>2 DEF TimeLeft
    <2> QED BY <2>3, <2>4
  <1> QED BY <1>3, <1>4

LEMMA TaskInitOrder ==
  ASSUME NEW prio \in [Tasks -> Int], TICKS \in Nat \ {0, 1}, NEW s, s = TaskInit(prio)
  PROVE  WaitOrder(s) /\ TickOrder(s) /\ ObjectsMatch(s) /\ s.priority = prio
         /\ \A o \in Objects : Waiting(s, o) = {}
  <1>1. /\ s.tick_head = <<>> /\ \A o \in Objects : s.block_list[o] = <<>>
        /\ s.raw_tick_count = 0 /\ s.priority = prio
        /\ \A t \in Tasks : s.block_obj[t] = NoObj
    BY DEF TaskInit
  <1>2. ToSet(<<>>) = {}
    BY DEF ToSet
  <1> QED BY <1>1, <1>2 DEF WaitOrder, TickOrder, ObjectsMatch, OrderedBy, Alive, Waiting

LEMMA WaitingIs ==
  ASSUME NEW s, KInv(s), NEW o \in Objects
  PROVE  Waiting(s, o) = {t \in Tasks : s.state[t] \in PendStates /\ s.block_obj[t] = o}
  <1>1. s.block_list[o] \in Seq(Tasks)
    BY DEF KInv, KStates
  <1>2. Waiting(s, o) \subseteq Tasks
    BY <1>1, EmptyLemma DEF Waiting
  <1>3. ASSUME NEW t \in Tasks
        PROVE  t \in Waiting(s, o) <=> s.state[t] \in PendStates /\ s.block_obj[t] = o
    BY DEF Waiting, KInv, StateMatchesListsIn
  <1> QED BY <1>2, <1>3
=============================================================================
