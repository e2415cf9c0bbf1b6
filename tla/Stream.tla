------------------------------- MODULE Stream -------------------------------
(***************************************************************************)
(* What a ring of bytes promises: it holds, in their order, the bytes that *)
(* were put in and not taken out yet, and a call moves as many bytes as it *)
(* was asked for, or as many as there is room for or are there.            *)
(***************************************************************************)
EXTENDS SequencesExt, Naturals

CONSTANT Capacity  \* how many bytes it can hold

VARIABLES
  held,   \* the bytes in it, the oldest first
  moved,  \* what the last call copied from its caller or to it
  asked   \* how many bytes it was asked to

Init == held = <<>> /\ moved = <<>> /\ asked = 0

AsManyAs(n) == Len(moved') = IF asked' < n THEN asked' ELSE n

Put == held' = held \o moved' /\ AsManyAs(Capacity - Len(held))

Peek == UNCHANGED held /\ IsPrefix(moved', held) /\ AsManyAs(Len(held))

Take == held = moved' \o held' /\ AsManyAs(Len(held))

(* The oldest bytes are discarded. *)
Drop == IsSuffix(held', held) /\ moved' = <<>> /\ asked' = 0

Next == Put \/ Peek \/ Take

Spec == Init /\ [][Next]_<<held, moved, asked>>
=============================================================================
