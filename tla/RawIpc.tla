------------------------------- MODULE RawIpc -------------------------------
(***************************************************************************)
(* The kernel's objects for communication together: semaphores, the three  *)
(* kinds of message queues and events, whose waiting tasks share the task  *)
(* states, the tick list and the services of raw_task.c.                   *)
(***************************************************************************)
EXTENDS RawSem, RawQueue, RawQueueSize, RawQueueBuffer, RawEvent

vars == <<objvars, msg, count, msg_q, list_q, buf_q, eventvars>>

(* The kinds of objects do not overlap. *)
ASSUME IpcAssumption ==
  \A i, j \in 1 .. 5 :
    LET kind == <<Sems, Queues, SizeQueues, Buffers, Events>>
    IN  i # j => kind[i] \cap kind[j] = {}

Init ==
  ObjectInit /\ MessageInit /\ SemInit /\ QueueInit /\ QueueSizeInit /\ QueueBufferInit
    /\ EventInit

Next ==
  \/ TaskServices /\ UNCHANGED <<msg, count, msg_q, list_q, buf_q, eventvars>>
  \/ \E t \in Tasks :
       /\ Finish(t)
       /\ msg' = [msg EXCEPT ![t] = NoMsg]
       /\ EventFinish(t)
       /\ UNCHANGED <<count, msg_q, list_q, buf_q>>
  \/ SemNext /\ UNCHANGED <<msg, msg_q, list_q, buf_q, eventvars>>
  \/ QueueNext /\ UNCHANGED <<count, list_q, buf_q, eventvars>>
  \/ QueueSizeNext /\ UNCHANGED <<count, msg_q, buf_q, eventvars>>
  \/ QueueBufferNext /\ UNCHANGED <<count, msg_q, list_q, eventvars>>
  \/ EventNext /\ UNCHANGED <<msg, count, msg_q, list_q, buf_q>>

Spec == Init /\ [][Next]_vars

-----------------------------------------------------------------------------

(* All three kinds of queues keep the promise of a message queue: messages *)
(* keep their order, none is lost or delivered twice, none is kept while a *)
(* task waits, whatever timeouts, aborts, suspensions and deletions come   *)
(* between.                                                                *)
QueuesAreMailboxes ==
  /\ RingInit /\ ListInit /\ BufferInit
  /\ [][RingStep /\ ListStep /\ BufferStep]_vars
=============================================================================
