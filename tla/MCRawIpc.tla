------------------------------ MODULE MCRawIpc ------------------------------
(* One object of each kind, one of them at a time: a task that can be      *)
(* suspended and aborted, and one that can be changed and deleted.         *)
EXTENDS RawIpc

CONSTANTS t1, t2, m1, m2, f1, f2, s1, q1, z1, x1, e1

MCInitPrio == [t \in Tasks |-> IF t = t1 THEN 1 ELSE 2]
MCMsgSize == [x \in Messages |-> IF x = m1 THEN 1 ELSE 3]
MCRequests == {[flags |-> {f1}, all |-> FALSE, clear |-> TRUE],
               [flags |-> {f1, f2}, all |-> TRUE, clear |-> FALSE]}

(* What a task's next wait overwrites before it is read: the status of its *)
(* last wait, and its match time while it is not in the tick list.         *)
MCView ==
  <<[k EXCEPT !.block_status = [t \in Tasks |-> IF call[t] = NoObj THEN "OK" ELSE @[t]],
              !.tick_match =
                [t \in Tasks |-> IF k.state[t] \in TickStates THEN @[t] ELSE 0]],
    call, exists, msg, count, msg_q, list_q, buf_q, eventvars>>
=============================================================================
