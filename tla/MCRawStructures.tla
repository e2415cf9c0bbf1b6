--------------------------- MODULE MCRawStructures ---------------------------
(* A bitmap of the real size with two bits set; a pool of four blocks and  *)
(* what is left of a fifth; the smallest byte pool, of 25 words.  Heaps of *)
(* 84 bytes at aligned and unaligned addresses, a heap of two regions;     *)
(* page tables of two to six pages; a segregated fit pool to which areas   *)
(* that touch it are added; two zones of frames that merge, one described  *)
(* in its last frame; a slab allocator of four frames.  A fifo of two      *)
(* bytes, of which four are counted; a serial fifo of two blocks of two;   *)
(* trees of up to eight nodes; a tree of nine states, six deep; processes  *)
(* and timers in four casts; two active objects, the first of each row;    *)
(* three sessions of the line editor; lines of up to four characters;      *)
(* active objects in three troupes; two work queues with three messages.   *)
EXTENDS RawStructures

CONSTANTS user1, user2, tidy, busy, soon, late, hero, chorus, sender, parcel, letter, alarm, notice

TaskSymmetry == Permutations(ByteTasks)

OneArea == {<<24, 12>>}
ThreeAreas == {<<24, 10>>, <<34, 10>>, <<44, 10>>}
TwoZones == {<<2, 4, 2>>, <<6, 3, 8>>}
OneReserved == {<<1, 1>>}
StateFather == <<0, 1, 2, 3, 4, 0, 2, 1, 6>>
StateInit == (1 :> 4) @@ (4 :> 5) @@ (6 :> 9)

FourCasts ==
  { [threads |-> {tidy, busy}, timers |-> {}, receivers |-> {busy}, intervals |-> {}],
    [threads |-> {tidy, busy}, timers |-> {}, receivers |-> {PROCESS_NONE}, intervals |-> {}],
    [threads |-> {tidy}, timers |-> {soon, late}, receivers |-> {}, intervals |-> {1}],
    [threads |-> {tidy}, timers |-> {soon}, receivers |-> {tidy}, intervals |-> {1, 2}] }

OneSignal == [e \in StaticEvents |-> 1]
ThreeTroupes ==
  { [tasks |-> {hero, chorus, sender}, pool |-> {parcel}, static |-> {},
     calls |-> {"end", "front", "broadcast", "register"}],
    [tasks |-> {hero, sender}, pool |-> {parcel, letter}, static |-> {},
     calls |-> {"end", "front", "broadcast", "register", "unregister", "delete"}],
    [tasks |-> {hero}, pool |-> {parcel}, static |-> {alarm, notice},
     calls |-> {"end", "fire", "defer", "recall"}] }

RingEnds == (0 :> 3) @@ (8 :> 1)

Editing == {"^A", "^F", "^B", "^D", "^K", "^E", "^O", "^U", "DEL", "\t"}
ThreeSessions ==
  { [chars |-> {"a", " "}, len |-> 5, lines |-> 0, keys |-> Editing],
    [chars |-> {"a"}, len |-> 3, lines |-> 1, keys |-> {ESC, "\r", "^O"}],
    [chars |-> {"b"}, len |-> 2, lines |-> 4, keys |-> {"^P", "^N", "^C", "^B"}] }

Names == << <<"a", "b">>, <<"a", "b", "a">>, <<"b">> >>
Hash == <<"#">>
RepeatableNames == {<<"a", "b">>, <<"a", "b", "a">>}
HelpName == <<"b">>
Words == (<<"a", "b">> :> 1) @@ (<<"a", "b", "a">> :> 1) @@ (<<"b">> :> 2)
Alphabet == <<"a", "b">>
TypedChars == {"a", "b", " ", ";", "'", "\\", "$", "("}
=============================================================================
