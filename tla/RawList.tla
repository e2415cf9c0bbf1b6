------------------------------- MODULE RawList -------------------------------
(***************************************************************************)
(* The doubly linked lists of raw_list.h as sequences, and the sorted      *)
(* insertion of the kernel's priority, tick and timer lists.               *)
(***************************************************************************)
EXTENDS Integers, SequencesExt

(* Unlink e from the list s; what is not linked is left alone. *)
list_delete(s, e) == RemoveFirst(s, e)

(* Insert e into s before the first element with a greater key. *)
SortedInsert(s, e, key) ==
  LET i == SelectInSeq(s, LAMBDA u : key[u] > key[e])
  IN  IF i = 0 THEN Append(s, e) ELSE InsertAt(s, i, e)
=============================================================================
