------------------------------- MODULE Mailbox -------------------------------
(***************************************************************************)
(* What a message queue promises: a message is kept, in order, only while  *)
(* no task waits for one, and otherwise goes straight to a task that does. *)
(***************************************************************************)
EXTENDS Sequences, Naturals

CONSTANTS Tasks, Messages, NoMsg,
          Weight,    \* Weight[m]: the room m takes
          Capacity   \* all the room there is

VARIABLES
  box,      \* the messages kept
  room,     \* the room that is left
  waiting,  \* tasks that wait for one
  got,      \* got[t]: the message t was given and has not returned with yet
  alive     \* the queue exists

vars == <<waiting, got, alive, box, room>>

Init == box = <<>> /\ room = Capacity /\ waiting = {} /\ got = [t \in Tasks |-> NoMsg] /\ ~alive

Create == ~alive /\ alive' /\ UNCHANGED <<waiting, got, box, room>>

Keep(m) ==
  /\ alive /\ waiting = {}
  /\ UNCHANGED <<waiting, got, alive>>
  /\ room >= Weight[m] /\ room' = room - Weight[m]
  /\ box' \in {Append(box, m), <<m>> \o box}

(* A message for each task of ts; box is empty. *)
Give(m, ts) ==
  /\ alive /\ ts # {}
  /\ waiting' = waiting \ ts
  /\ got' = [t \in Tasks |-> IF t \in ts THEN m ELSE got[t]]
  /\ box = <<>>
  /\ UNCHANGED <<alive, box, room>>

Take ==
  /\ alive /\ box # <<>>
  /\ box' = Tail(box) /\ room' = room + Weight[Head(box)]
  /\ UNCHANGED <<waiting, got, alive>>

Wait(t) == alive /\ waiting' = waiting \cup {t} /\ box = <<>>
             /\ UNCHANGED <<got, alive, box, room>>

(* Tasks time out, are aborted or are deleted. *)
Leave(ts) == waiting' = waiting \ ts /\ UNCHANGED <<got, alive, box, room>>

(* t goes on with its message, or is deleted. *)
Return(t) == got' = [got EXCEPT ![t] = NoMsg] /\ UNCHANGED <<waiting, alive, box, room>>

Flush == alive /\ box' = <<>> /\ room' = Capacity /\ UNCHANGED <<waiting, got, alive>>

Delete ==
  alive /\ ~alive' /\ waiting' = {} /\ box' = <<>> /\ room' = Capacity /\ UNCHANGED got

Next ==
  \/ Create \/ Take \/ Flush \/ Delete
  \/ \E m \in Messages :
       Keep(m) \/ Give(m, waiting) \/ \E t \in waiting : Give(m, {t})
  \/ \E ts \in SUBSET waiting : Leave(ts)
  \/ \E t \in Tasks : Wait(t) \/ Return(t)

Spec == Init /\ [][Next]_vars
=============================================================================
