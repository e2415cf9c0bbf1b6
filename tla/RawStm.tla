------------------------------- MODULE RawStm -------------------------------
(***************************************************************************)
(* State machines, flat and hierarchical.  A state is a function that      *)
(* answers to a signal: it has handled it, it is a transition (the target  *)
(* is in temp), or its father should know (the father is in temp).  temp   *)
(* is written by every call of a state, which the walks up the tree rely   *)
(* on.  The tree, and what each state answers, belong to the application.  *)
(***************************************************************************)
EXTENDS Integers, SequencesExt, FiniteSetsExt

CONSTANTS
  StmStates,
  hsm_top,             \* the root of the tree, which is not a state to be in
  Father,              \* Father[s]: the state that s is nested in, or hsm_top
  InitTran,            \* InitTran[s]: where STM_INIT_SIG leads from s
  QuietStates,         \* states that handle neither entry nor exit signals
  GuardedStates,       \* states that answer STM_RET_UNHANDLED, not their father
  STM_MAX_NEST_DEPTH

(* The states around s, from s to hsm_top. *)
RECURSIVE Line(_)
Line(s) == IF s = hsm_top THEN <<s>> ELSE <<s>> \o Line(Father[s])

Around(s) == Range(Line(s))

(* The walk of hsm_exceute stores hsm_top too: one level less than the     *)
(* array has places.                                                       *)
ASSUME StmAssumption ==
  /\ hsm_top \notin StmStates
  /\ Father \in [StmStates -> StmStates \cup {hsm_top}]
  /\ \A s \in StmStates : Len(Line(s)) <= STM_MAX_NEST_DEPTH
  /\ \A s \in DOMAIN InitTran : s \in Around(InitTran[s]) \ {InitTran[s]}
  /\ QuietStates \subseteq StmStates /\ GuardedStates \subseteq StmStates

VARIABLE
  stm   \* flat; state, temp; log: the entries and exits of the last call;
        \* call: it was an event that handler answered with a transition to
        \* target, in the state before; overrun: path was written beyond its
        \* end; answer: what is_hsm_in_state said of which state

-----------------------------------------------------------------------------
(* STM_TRIG, on m: temp and log.  ret is what the state returns.           *)

ToFather(m, s) == [m EXCEPT !.temp = Father[s], !.ret = "FATHER"]

STM_TRIG(m, s, sig) ==
  CASE s = hsm_top -> [m EXCEPT !.ret = "IGNORED"]
    [] s # hsm_top /\ sig = "INIT" ->
         IF s \in DOMAIN InitTran THEN [m EXCEPT !.temp = InitTran[s], !.ret = "TRAN"]
         ELSE ToFather(m, s)
    [] s # hsm_top /\ sig \in {"ENTRY", "EXIT"} ->
         LET logged == [m EXCEPT !.log = Append(@, <<sig, s>>)]
         IN  IF s \in QuietStates THEN ToFather(logged, s)
             ELSE [logged EXCEPT !.ret = "HANDLED"]
    [] s # hsm_top /\ sig = "EMPTY" -> ToFather(m, s)

STM_ENTER(m, s) == STM_TRIG(m, s, "ENTRY")
STM_EXIT(m, s) == STM_TRIG(m, s, "EXIT")

(* s is left; temp is its father. *)
ExitUp(m, s) ==
  LET left == STM_EXIT(m, s)
  IN  IF left.ret = "HANDLED" THEN STM_TRIG(left, s, "EMPTY") ELSE left

(* States are left from s up to the first one of stops, which is in temp.  *)
RECURSIVE ExitTo(_, _, _)
ExitTo(m, s, stops) ==
  IF s \in stops THEN [m EXCEPT !.temp = s]
  ELSE LET left == ExitUp(m, s) IN ExitTo(left, left.temp, stops)

(* path[ip], ..., path[0] are entered. *)
EnterPath(m, path) == FoldRight(LAMBDA s, n : STM_ENTER(n, s), path, m)

(* What is between s and t, which is around s, without t: path, filled.    *)
Below(t, s) == SelectSeq(Line(s), LAMBDA u : u \notin Around(t))

(* STM_INIT_SIG, as long as it is answered by a transition into the state. *)
RECURSIVE Initialised(_, _)
Initialised(m, t) ==
  LET tran == STM_TRIG(m, t, "INIT")
      path == Below(t, tran.temp)
  IN  IF tran.ret # "TRAN" THEN [m EXCEPT !.temp = t]
      ELSE Initialised([EnterPath(tran, path) EXCEPT !.overrun = @ \/ Len(path) > STM_MAX_NEST_DEPTH],
                       path[1])

-----------------------------------------------------------------------------

NoTransition == [before |-> hsm_top, handler |-> hsm_top, target |-> hsm_top]
NoAnswer == [of |-> hsm_top, is |-> TRUE]

Idle(state) == [temp |-> state, ret |-> "HANDLED", log |-> <<>>, overrun |-> FALSE]

(* The constructor's transition leads to target. *)
hsm_init(target) ==
  /\ ~stm.flat /\ stm.state = hsm_top
  /\ LET path == Below(hsm_top, target)
         m    == Initialised(EnterPath([Idle(target) EXCEPT
                               !.overrun = Len(path) > STM_MAX_NEST_DEPTH], path), target)
     IN  stm' = [stm EXCEPT !.state = m.temp, !.temp = m.temp, !.log = m.log, !.overrun = m.overrun,
                   !.answer = NoAnswer, !.call = [before |-> hsm_top, handler |-> hsm_top, target |-> target]]

(* The states around the one that the event is for hand it up to handler.  *)
RECURSIVE Offered(_, _, _)
Offered(m, s, handler) ==
  IF s = handler THEN m
  ELSE LET up == IF s \in GuardedStates THEN STM_TRIG([m EXCEPT !.ret = "UNHANDLED"], s, "EMPTY")
                 ELSE ToFather(m, s)
       IN  Offered(up, up.temp, handler)

PlaceIn(path, s) == CHOOSE i \in DOMAIN path : path[i] = s

(* The walk from the target up to hsm_top or to the handler s.             *)
Path(target, s) ==
  LET line == Line(target)
  IN  IF s \in Range(line) THEN SubSeq(line, 1, PlaceIn(line, s))
      ELSE line

(* Fault: s is taken with them. *)
UpTo_with(path, s) == SubSeq(path, 1, PlaceIn(path, s))

(* The part of the path below s. *)
UpTo(path, s) == SubSeq(path, 1, PlaceIn(path, s) - 1)

(* s, which answered, is left up to the least state around both, and the   *)
(* states from there to the target are entered.                            *)
Switch(m, s, target) ==
  LET path  == Path(target, s)
      walk  == [m EXCEPT !.overrun = @ \/ Len(path) > STM_MAX_NEST_DEPTH]
      left  == STM_EXIT(walk, s)
      above == ExitTo(left, Father[s], Range(path))
  IN  CASE s = target                -> STM_ENTER(STM_EXIT(m, s), target)
        [] s = Father[target]        -> STM_ENTER(m, target)
        [] s # target /\ Father[s] = Father[target] -> STM_ENTER(STM_EXIT(m, s), target)
        [] Father[s] = target        -> STM_EXIT(m, s)
        [] OTHER -> IF s \in Range(path) THEN EnterPath(walk, UpTo(path, s))
                    ELSE EnterPath(above, UpTo(path, above.temp))

hsm_exceute(handler, target) ==
  /\ ~stm.flat /\ stm.state # hsm_top /\ handler \in Around(stm.state) \ {hsm_top}
  /\ LET offered == Offered(Idle(stm.state), stm.state, handler)
         m == Initialised(Switch(ExitTo(offered, stm.state, {handler}), handler, target), target)
     IN  stm' = [stm EXCEPT !.state = m.temp, !.temp = m.temp, !.log = m.log, !.overrun = m.overrun,
                   !.answer = NoAnswer, !.call = [before |-> stm.state, handler |-> handler, target |-> target]]

(* The event is handled without a transition, or ignored by hsm_top. *)
hsm_exceute_stays ==
  /\ ~stm.flat /\ stm.state # hsm_top
  /\ stm' = [stm EXCEPT !.temp = stm.state]

RECURSIVE InState(_, _)
InState(m, state) ==
  m.temp = state \/ (m.temp # hsm_top /\ InState(STM_TRIG(m, m.temp, "EMPTY"), state))

is_hsm_in_state(state) ==
  /\ ~stm.flat /\ stm.state # hsm_top
  /\ stm' = [stm EXCEPT !.log = <<>>, !.call = NoTransition,
                        !.answer = [of |-> state, is |-> InState(Idle(stm.temp), state)]]

-----------------------------------------------------------------------------
(* Flat machines. *)

fsm_init(target) ==
  /\ stm.flat /\ stm.state = hsm_top
  /\ stm' = [stm EXCEPT !.state = target, !.temp = target,
                        !.log = STM_ENTER(Idle(target), target).log,
                        !.answer = NoAnswer, !.call = [before |-> hsm_top, handler |-> hsm_top, target |-> target]]

fsm_exceute(target) ==
  /\ stm.flat /\ stm.state # hsm_top
  /\ stm' = [stm EXCEPT !.state = target, !.temp = target,
               !.log = STM_ENTER(STM_EXIT(Idle(target), stm.state), target).log,
               !.answer = NoAnswer, !.call = [before |-> stm.state, handler |-> stm.state, target |-> target]]

-----------------------------------------------------------------------------

StmInit ==
  \E flat \in BOOLEAN :
    stm = [flat |-> flat, state |-> hsm_top, temp |-> hsm_top, log |-> <<>>, overrun |-> FALSE,
           call |-> NoTransition, answer |-> NoAnswer]

StmNext ==
  \/ hsm_exceute_stays
  \/ \E target \in StmStates :
       hsm_init(target) \/ is_hsm_in_state(target) \/ fsm_init(target) \/ fsm_exceute(target)
  \/ \E handler, target \in StmStates : hsm_exceute(handler, target)

StmSpec == StmInit /\ [][StmNext]_stm

-----------------------------------------------------------------------------

(* The innermost state that a transition neither leaves nor enters.        *)
Untouched(handler, target) ==
  IF handler = target /\ handler # hsm_top THEN Father[handler]
  ELSE CHOOSE s \in Around(handler) \cap Around(target) :
         Around(handler) \cap Around(target) = Around(s)

Signals(sig, states) == [i \in DOMAIN states |-> <<sig, states[i]>>]

RECURSIVE Drill(_)
Drill(s) ==
  IF s \notin DOMAIN InitTran THEN <<>>
  ELSE Reverse(Below(s, InitTran[s])) \o Drill(InitTran[s])

(* A transition leaves the states up to the innermost one around both its  *)
(* handler and its target, from the inside out, enters those down to the   *)
(* target and on to where the initial transitions lead, and none twice:    *)
(* whichever of the eight shapes of the code it has, and whether the       *)
(* states handle the signals or not.  is_hsm_in_state knows all states it  *)
(* is in.                                                                  *)
TransitionsExact ==
  LET c       == stm.call
      through == Untouched(c.handler, c.target)
      flat    == (IF c.before = hsm_top THEN <<>> ELSE <<<<"EXIT", c.before>>>>)
                   \o <<<<"ENTRY", c.target>>>>
  IN  /\ stm.temp = stm.state /\ ~stm.overrun
      /\ stm.log =
           IF c.target = hsm_top THEN <<>> ELSE IF stm.flat THEN flat
           ELSE Signals("EXIT", Below(through, c.before))
                  \o Signals("ENTRY", Reverse(Below(through, c.target)) \o Drill(c.target))
      /\ stm.answer # NoAnswer => (stm.answer.is <=> stm.answer.of \in Around(stm.state))
=============================================================================
