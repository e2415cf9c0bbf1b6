------------------------------ MODULE RawEvent ------------------------------
(***************************************************************************)
(* Event flag groups, raw_event.c.  A task waits for all or for any of the *)
(* flags it requests, and may have them cleared when it gets them.         *)
(***************************************************************************)
EXTENDS RawObject

CONSTANTS Events,    \* event objects
          Flags,     \* the bits of an event
          Requests   \* what the application asks for

ASSUME EventAssumption ==
  /\ Events \subseteq Objects
  /\ Requests \subseteq [flags : SUBSET Flags \ {{}}, all : BOOLEAN, clear : BOOLEAN]

VARIABLES
  flags,   \* flags[e]: the flags that are set
  wants,   \* wants[t]: raw_suspend_flags and raw_suspend_option
  actual   \* actual[t]: the flags stored at raw_additional_suspend_info

eventvars == <<flags, wants, actual>>

NoRequest == [flags |-> {}, all |-> FALSE, clear |-> FALSE]

EventInit ==
  /\ flags = [e \in Events |-> {}]
  /\ wants = [t \in Tasks |-> NoRequest]
  /\ actual = [t \in Tasks |-> {}]

raw_event_create(e, fs) ==
  /\ ObjectCreate(e)
  /\ flags' = [flags EXCEPT ![e] = fs]
  /\ UNCHANGED <<wants, actual>>

(* The test of raw_event_get and of event_set. *)
Satisfied(fs, r) == IF r.all THEN r.flags \subseteq fs ELSE r.flags \cap fs # {}

GetFlags(t, e, r) ==
  /\ Runs(t) /\ e \in exists
  /\ Satisfied(flags[e], r)
  /\ flags' = IF r.clear THEN [flags EXCEPT ![e] = @ \ r.flags] ELSE flags
  /\ UNCHANGED <<objvars, wants, actual>>

GetFlagsBlocks(t, e, r, timeout) ==
  /\ Runs(t) /\ e \in exists
  /\ ~Satisfied(flags[e], r)
  /\ wants' = [wants EXCEPT ![t] = r]
  /\ Block(t, e, timeout)
  /\ UNCHANGED <<flags, actual>>

(* event_set with RAW_AND: clears all the other flags. *)
SetAnd(e, fs) ==
  /\ e \in exists
  /\ flags' = [flags EXCEPT ![e] = @ \cap fs]
  /\ UNCHANGED <<objvars, wants, actual>>

(* Faults: the flags are tested again after a task has cleared some; the   *)
(* first task that can be woken is the only one.                           *)
Served_one_by_one(e, fs) ==
  LET left[i \in 0 .. Len(k.block_list[e])] ==
        IF i = 0 THEN fs
        ELSE LET r == wants[k.block_list[e][i]]
             IN  IF r.clear /\ Satisfied(left[i - 1], r) THEN left[i - 1] \ r.flags
                                                         ELSE left[i - 1]
  IN  {k.block_list[e][i] : i \in {j \in DOMAIN k.block_list[e] :
                                   Satisfied(left[j - 1], wants[k.block_list[e][j]])}}

Served_first(e, fs) ==
  LET i == SelectInSeq(k.block_list[e], LAMBDA t : Satisfied(fs, wants[t]))
  IN  IF i = 0 THEN {} ELSE {k.block_list[e][i]}

(* The tasks that flags fs wake. *)
Served(e, fs) == {t \in ToSet(k.block_list[e]) : Satisfied(fs, wants[t])}

(* event_set with RAW_OR: every waiting task is tested against the flags   *)
(* there were before any of them was cleared.                              *)
SetOr(e, fs) ==
  /\ e \in exists
  /\ LET current == flags[e] \cup fs
         ts      == Served(e, current)
     IN  /\ k' = end_waits(k, e, ts, "OK")
         /\ actual' = [t \in Tasks |-> IF t \in ts THEN current ELSE actual[t]]
         /\ flags' = [flags EXCEPT ![e] =
                        current \ UNION {wants[t].flags : t \in {u \in ts : wants[u].clear}}]
  /\ UNCHANGED <<call, exists, wants>>

(* The flags of a deleted event are not used again. *)
raw_event_delete(e) ==
  /\ ObjectDelete(e)
  /\ flags' = [flags EXCEPT ![e] = {}]
  /\ UNCHANGED <<wants, actual>>

(* A task that is done with raw_event_get has no request any more.         *)
EventFinish(t) ==
  /\ wants' = [wants EXCEPT ![t] = NoRequest]
  /\ actual' = [actual EXCEPT ![t] = {}]
  /\ UNCHANGED flags

EventNext ==
  \E e \in Events :
    \/ \E fs \in SUBSET Flags : raw_event_create(e, fs) \/ SetAnd(e, fs) \/ SetOr(e, fs)
    \/ \E t \in Tasks, r \in Requests :
         GetFlags(t, e, r) \/ \E timeout \in Timeouts : GetFlagsBlocks(t, e, r, timeout)
    \/ raw_event_delete(e)

-----------------------------------------------------------------------------

(* No task waits for flags that are set, and a task whose wait succeeded   *)
(* was told of flags that it had asked for.                                *)
EventsNotMissed ==
  \A e \in Events :
    /\ \A t \in ToSet(k.block_list[e]) : ~Satisfied(flags[e], wants[t])
    /\ \A t \in Tasks : Granted(t, e) => Satisfied(actual[t], wants[t])

(* Whoever is served is served together: when flags wake one task, every   *)
(* task that waits for the event and is content with them is woken too,    *)
(* even if another one has them cleared.                                   *)
ServedTogether ==
  [][\A e \in Events, t, u \in Tasks :
       /\ {t, u} \subseteq ToSet(k.block_list[e]) /\ Granted(t, e)'
       /\ Satisfied(actual'[t], wants[u])
       => Granted(u, e)']_<<objvars, eventvars>>
=============================================================================
