------------------------------ MODULE Allocator ------------------------------
(***************************************************************************)
(* What a memory pool promises: the pieces it gives are within its area,   *)
(* do not overlap, and stay given until they are released.                 *)
(***************************************************************************)
CONSTANT Area   \* the words the application may be given

VARIABLE given  \* the pieces of memory it has, as sets of words

Init == given = {}

Allocate ==
  \E piece \in given' \ given :
    /\ piece \subseteq Area /\ piece # {}
    /\ piece \cap UNION given = {}
    /\ given' = given \cup {piece}

Release == \E piece \in given : given' = given \ {piece}

(* A piece becomes larger or smaller, or moves.                            *)
Resize ==
  \E piece \in given, new \in given' :
    /\ new \subseteq Area /\ new # {}
    /\ new \cap UNION (given \ {piece}) = {}
    /\ given' = (given \ {piece}) \cup {new}

Next == Allocate \/ Release \/ Resize

Spec == Init /\ [][Next]_given
=============================================================================
