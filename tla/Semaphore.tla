------------------------------ MODULE Semaphore ------------------------------
(***************************************************************************)
(* What a counting semaphore promises: a unit that is put is either kept   *)
(* or given to one waiting task, and is kept only while no task waits.     *)
(***************************************************************************)
EXTENDS Naturals

CONSTANTS Tasks, COUNT_MAX

VARIABLES
  units,    \* units at hand
  waiting,  \* tasks that wait for one
  granted,  \* tasks that were given one and have not returned yet
  alive     \* the semaphore exists

vars == <<units, waiting, granted, alive>>

Init == units = 0 /\ waiting = {} /\ granted = {} /\ ~alive

Create == ~alive /\ alive' /\ units' \in 0 .. COUNT_MAX
            /\ UNCHANGED <<waiting, granted>>

Keep == alive /\ waiting = {} /\ units < COUNT_MAX /\ units' = units + 1
          /\ UNCHANGED <<waiting, granted, alive>>

(* A unit for each task of ts. *)
Give(ts) ==
  /\ alive /\ units = 0
  /\ waiting' = waiting \ ts
  /\ granted' = granted \cup ts
  /\ UNCHANGED <<units, alive>>

Get == alive /\ units > 0 /\ units' = units - 1
         /\ UNCHANGED <<waiting, granted, alive>>

Wait(t) == alive /\ units = 0 /\ waiting' = waiting \cup {t}
             /\ UNCHANGED <<units, granted, alive>>

(* Tasks time out, are aborted or are deleted. *)
Leave(ts) == waiting' = waiting \ ts /\ UNCHANGED <<units, granted, alive>>

(* t goes on, or is deleted. *)
Return(t) == granted' = granted \ {t} /\ UNCHANGED <<units, waiting, alive>>

Set == alive /\ waiting = {} /\ units' \in 0 .. COUNT_MAX
         /\ UNCHANGED <<waiting, granted, alive>>

Delete == alive /\ ~alive' /\ units' = 0 /\ waiting' = {} /\ UNCHANGED granted

Next ==
  \/ Create \/ Keep \/ Get \/ Set \/ Delete
  \/ \E t \in waiting : Give({t})
  \/ Give(waiting)
  \/ \E ts \in SUBSET waiting : Leave(ts)
  \/ \E t \in Tasks : Wait(t) \/ Return(t)

Spec == Init /\ [][Next]_vars
=============================================================================
