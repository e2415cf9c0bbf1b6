----------------------------- MODULE MCRawSched -----------------------------
(* Instances of RawSched for TLC. *)
EXTENDS RawSched, TLC

CONSTANTS idle, tick, a, b

MCTasks == {idle, tick, a, b}
MCTasksNoTick == {idle, a, b}

(* The tick task is the most urgent, a and b share a priority. *)
MCInitPrio == (idle :> IDLE_PRIORITY) @@ (tick :> 0) @@ (a :> 1) @@ (b :> 1)

MCInitPrioNoTick == (idle :> IDLE_PRIORITY) @@ (a :> 1) @@ (b :> 1)
MCPolicyTasks == {a}
=============================================================================
