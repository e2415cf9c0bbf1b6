----------------------------- MODULE MCRawMutex -----------------------------
(* Instances of RawMutex for TLC. *)
EXTENDS RawMutex

CONSTANTS a, b, c, mu, nu

(* a is the most urgent task. *)
MCInitPrio == (a :> 1) @@ (b :> 2) @@ (c :> 3)

MCInherit == [o \in Objects |-> "INHERIT"]
MCMixed == (mu :> "INHERIT") @@ (nu :> "CEILING")
MCCeiling == [o \in Objects |-> IF o = mu THEN 0 ELSE 1]
=============================================================================
