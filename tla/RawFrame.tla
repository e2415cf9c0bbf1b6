------------------------------ MODULE RawFrame ------------------------------
(***************************************************************************)
(* The physical frames of extension/mm/slab: zones of frames               *)
(* (raw_frame.c), each with a buddy system (raw_buddy.c).  Frames of a     *)
(* zone are known by their index in it, frames of the system by their pfn. *)
(* The description of a zone takes frames of its own.  The locks of this   *)
(* code are empty on a single processor: its services are not used from    *)
(* tasks that preempt each other, so a service is one action.              *)
(***************************************************************************)
EXTENDS Integers, Sequences, FiniteSetsExt, SequencesExt

CONSTANTS
  ZoneParts,       \* <<start, count, confframe>> of zones that can be created
  ReservedParts,   \* <<start, count>> of zones that are not available
  FRAMES_PER_CONF, \* how many frames one frame of description serves
  FrameOrders,     \* orders the application asks for
  MaxReferences    \* bound: references to a frame

ASSUME FrameAssumption ==
  /\ ZoneParts \subseteq Nat \X Nat \X Nat /\ ReservedParts \subseteq Nat \X Nat
  /\ FRAMES_PER_CONF \in Nat \ {0} /\ FrameOrders \subseteq Nat
  /\ MaxReferences \in Nat

VARIABLES
  zones,  \* the zones by their base; "free" and "busy" are their counters
  owned   \* what the application has: first frame |-> number of frames

framevars == <<zones, owned>>

ZONES_MAX == 4             \* 32 in the code
INNER_BLOCK == 255         \* the order of a frame inside a block

fnzb(n) == CHOOSE k \in 0 .. n : 2 ^ k <= n /\ n < 2 ^ (k + 1)

zone_conf_frames(count) == (count + FRAMES_PER_CONF - 1) \div FRAMES_PER_CONF

-----------------------------------------------------------------------------
(* The buddy system of a zone, as functions of the zone.                   *)

Unlinked(seq, i) == SelectSeq(seq, LAMBDA x : x # i)

(* Fault: the halves of a pair are told by the index in the zone. *)
find_buddy_relative(z, i) ==
  LET k == z.frames[i].order
      left == (i \div 2 ^ k) % 2 = 0
      j == IF left THEN i + 2 ^ k ELSE i - 2 ^ k
  IN  {x \in {j} \cap DOMAIN z.frames :
         k < z.max /\ z.frames[x].order = k /\ z.frames[x].ref = 0}

(* The other half of the pair a block belongs to, when it is free.         *)
find_buddy(z, i) ==
  LET k == z.frames[i].order
      left == ((z.base + i) \div 2 ^ k) % 2 = 0
      j == IF left THEN i + 2 ^ k ELSE i - 2 ^ k
  IN  {x \in {j} \cap DOMAIN z.frames :
         k < z.max /\ z.frames[x].order = k /\ z.frames[x].ref = 0}

RECURSIVE buddy_system_free(_, _)
buddy_system_free(z, i) ==
  LET k == z.frames[i].order
      buddy == find_buddy(z, i)
      pair == {i} \cup buddy
      joined == [z EXCEPT !.list[k] = Unlinked(Unlinked(@, i), Max(buddy \cup {-1})),
                          !.frames[Max(pair)].order = INNER_BLOCK,
                          !.frames[Min(pair)].order = k + 1]
      joined2 == [joined EXCEPT !.list[k] = Unlinked(@, Min(buddy \cup {Max(pair)}))]
  IN  IF buddy = {} THEN [z EXCEPT !.list[k] = Append(@, i)]
      ELSE buddy_system_free(joined2, Min(pair))

buddy_system_can_alloc(z, order) == \E k \in order .. z.max : z.list[k] # <<>>

(* A block of 2^order frames and the zone without it.                      *)
RECURSIVE buddy_system_alloc(_, _)
buddy_system_alloc(z, order) ==
  IF z.list[order] # <<>>
  THEN LET i == Head(z.list[order])
       IN  [zone |-> [z EXCEPT !.list[order] = Tail(@), !.frames[i].ref = 1], at |-> i]
  ELSE LET up == buddy_system_alloc(z, order + 1)
           half == up.at + 2 ^ order
           halves == [up.zone EXCEPT !.frames[up.at].order = order,
                                     !.frames[half].order = order]
       IN  [zone |-> buddy_system_free(halves, half), at |-> up.at]

(* The first frame of the block that holds frame i. *)
find_block(z, i) == Max({j \in 0 .. i : z.frames[j].order # INNER_BLOCK})

(* One particular frame is taken out of the block "l", which is in no list *)
(* any more: the halves without it become free again.                      *)
RECURSIVE Isolated(_, _, _)
Isolated(z, l, i) ==
  LET k == z.frames[l].order - 1
      r == l + 2 ^ k
      halves == [z EXCEPT !.frames[l].order = k, !.frames[r].order = k]
      kept == find_block(halves, i)
      other == IF kept = r THEN l ELSE r
      freed == buddy_system_free([halves EXCEPT !.frames[kept].ref = 1], other)
  IN  IF z.frames[l].order = 0 THEN [z EXCEPT !.frames[l].ref = 1]
      ELSE Isolated([freed EXCEPT !.frames[kept].ref = 0], kept, i)

buddy_system_alloc_block(z, i) ==
  LET l == find_block(z, i)
      k == z.frames[l].order
  IN  Isolated([z EXCEPT !.list[k] = Unlinked(@, l)], l, i)

buddy_system_create(z) ==
  [z EXCEPT !.max = fnzb(z.count), !.list = [k \in 0 .. fnzb(z.count) |-> <<>>],
            !.frames = [i \in 0 .. z.count - 1 |-> [ref |-> 1, order |-> 0]]]

-----------------------------------------------------------------------------
(* Zones.                                                                  *)

zone_frame_alloc(z, order) ==
  LET b == buddy_system_alloc(z, order)
  IN  [b EXCEPT !.zone.free = @ - 2 ^ order, !.zone.busy = @ + 2 ^ order]

zone_frame_free(z, i) ==
  LET size == 2 ^ z.frames[i].order
      less == [z EXCEPT !.frames[i].ref = @ - 1]
  IN  IF less.frames[i].ref > 0 THEN less
      ELSE [buddy_system_free(less, i) EXCEPT !.free = @ + size, !.busy = @ - size]

zone_mark_unavailable(z, i) ==
  IF z.frames[i].ref > 0 THEN z
  ELSE [buddy_system_alloc_block(z, i) EXCEPT !.free = @ - 1]

Ascending(S) ==
  SelectSeq([n \in 1 .. Max(S \cup {0}) + 1 |-> n - 1], LAMBDA i : i \in S)

Stuffed(z, frames) ==
  FoldLeft(LAMBDA a, i : buddy_system_free([a EXCEPT !.frames[i].ref = 0], i), z, frames)

NoFrames == [base |-> 0, count |-> 0, avail |-> FALSE, conf |-> 0, free |-> 0,
             busy |-> 0, max |-> 0, list |-> <<>>, frames |-> <<>>]

(* A zone of free frames, without those that describe it.                  *)
zone_construct(start, count, conf) ==
  LET z == [NoFrames EXCEPT !.base = start, !.count = count, !.avail = TRUE,
                            !.conf = conf, !.free = count]
      full == Stuffed(buddy_system_create(z), [i \in 1 .. count |-> i - 1])
      own == [i \in 1 .. zone_conf_frames(count) |-> conf - start + i - 1]
  IN  IF conf \in start .. start + count - 1
      THEN FoldLeft(zone_mark_unavailable, full, own) ELSE full

ZoneEnd(z) == z.base + z.count

overlaps(z, start, count) == z.base < start + count /\ start < ZoneEnd(z)

zones_insert_zone(z) ==
  LET lower == Cardinality({n \in DOMAIN zones : zones[n].base <= z.base})
  IN  /\ Len(zones) + 1 # ZONES_MAX
      /\ \A n \in DOMAIN zones : ~overlaps(zones[n], z.base, z.count)
      /\ zones' = InsertAt(zones, lower + 1, z)

zone_create(part) ==
  /\ zones_insert_zone(zone_construct(part[1], part[2], part[3]))
  /\ UNCHANGED owned

zone_create_reserved(part) ==
  /\ zones_insert_zone([NoFrames EXCEPT !.base = part[1], !.count = part[2],
                                        !.free = part[2]])
  /\ UNCHANGED owned

(* The frames of both zones in one; what is between them stays busy.  Free *)
(* frames are taken out of the old zones and stuffed into the new one.     *)
zone_merge_internal(z1, z2, conf) ==
  LET diff == z2.base - z1.base
      old(i) == IF i < z1.count THEN z1.frames[i] ELSE z2.frames[i - diff]
      merged == buddy_system_create(
                  [z1 EXCEPT !.count = diff + z2.count, !.conf = conf,
                             !.free = z1.free + z2.free, !.busy = z1.busy + z2.busy])
      inside(z, i) == z.frames[find_block(z, i)].ref = 0
      loose == Ascending({i \in DOMAIN z1.frames : inside(z1, i)}
                 \cup {i + diff : i \in {j \in DOMAIN z2.frames : inside(z2, j)}})
      copied == [i \in DOMAIN merged.frames |->
                   IF i \in ToSet(loose) \/ (i >= z1.count /\ i < diff)
                   THEN [ref |-> 1, order |-> 0] ELSE old(i)]
  IN  Stuffed([merged EXCEPT !.frames = copied], loose)

(* What is over of the block for the description is freed again.           *)
zone_reduce_region(z, i, count) ==
  LET block == i .. i + 2 ^ z.frames[i].order - 1
      single == [z EXCEPT !.frames = [j \in block |-> [ref |-> 1, order |-> 0]] @@ @]
  IN  FoldLeft(zone_frame_free, single, Ascending({j \in block : j >= i + count}))

return_config_frames(z, old) ==
  LET own == [n \in 1 .. zone_conf_frames(old.count) |-> old.conf - z.base + n - 1]
  IN  IF old.conf \in z.base .. ZoneEnd(z) - 1
      THEN FoldLeft(LAMBDA a, i : zone_frame_free([a EXCEPT !.busy = @ + 1], i), z, own)
      ELSE z

(* Two neighbours in the list become one zone.  Its description is put in  *)
(* the first of them that has room for it; the assertion in                *)
(* zone_reduce_region stops the system when that is its very end.          *)
zone_merge(n) ==
  LET z1 == zones[n]
      z2 == zones[n + 1]
      cframes == zone_conf_frames(ZoneEnd(z2) - z1.base)
      order == IF cframes = 1 THEN 0 ELSE fnzb(cframes - 1) + 1
      first == buddy_system_can_alloc(z1, order)
      place == zone_frame_alloc(IF first THEN z1 ELSE z2, order)
      pfn == (IF first THEN z1.base ELSE z2.base) + place.at
      joined == zone_merge_internal(IF first THEN place.zone ELSE z1,
                                    IF first THEN z2 ELSE place.zone, pfn)
      reduced == zone_reduce_region(joined, pfn - z1.base, cframes)
      counted == [reduced EXCEPT !.busy = @ - cframes]
  IN  /\ n + 1 <= Len(zones) /\ z1.avail /\ z2.avail
      /\ first \/ buddy_system_can_alloc(z2, order)
      /\ pfn - z1.base + cframes < ZoneEnd(z2) - z1.base
      /\ zones' = RemoveAt([zones EXCEPT ![n] = return_config_frames(
                              return_config_frames(counted, z1), z2)], n + 1)
      /\ UNCHANGED owned

-----------------------------------------------------------------------------
(* Frames.                                                                 *)

find_zone(pfn) == {n \in DOMAIN zones : zones[n].base <= pfn /\ pfn < ZoneEnd(zones[n])}

zone_can_alloc(z, order) == z.avail /\ buddy_system_can_alloc(z, order)

(* The first zone with room, from the zone the caller had before ("hint")  *)
(* on.  Without FRAME_ATOMIC the service would try again for ever.         *)
frame_alloc_generic(order, hint) ==
  LET turn == [n \in DOMAIN zones |-> (n + Len(zones) - hint) % Len(zones)]
      able == {n \in DOMAIN zones : zone_can_alloc(zones[n], order)}
  IN  \E n \in able :
        /\ \A m \in able : turn[n] <= turn[m]
        /\ LET b == zone_frame_alloc(zones[n], order)
           IN  /\ zones' = [zones EXCEPT ![n] = b.zone]
               /\ owned' = (zones[n].base + b.at :> 2 ^ order) @@ owned

frame_free(pfn) ==
  \E n \in find_zone(pfn) :
    LET i == pfn - zones[n].base
        last == zones[n].frames[i].ref = 1
    IN  /\ zones' = [zones EXCEPT ![n] = zone_frame_free(@, i)]
        /\ owned' = [p \in DOMAIN owned \ (IF last THEN {pfn} ELSE {}) |-> owned[p]]

frame_reference_add(pfn) ==
  \E n \in find_zone(pfn) :
    /\ zones[n].frames[pfn - zones[n].base].ref < MaxReferences
    /\ zones' = [zones EXCEPT ![n].frames[pfn - zones[n].base].ref = @ + 1]
    /\ UNCHANGED owned

(* Only for frames that nobody has. *)
frame_mark_unavailable(pfn) ==
  \E n \in find_zone(pfn) :
    /\ zones[n].avail
    /\ zones[n].frames[find_block(zones[n], pfn - zones[n].base)].ref = 0
    /\ zones' = [zones EXCEPT ![n] = zone_mark_unavailable(@, pfn - zones[n].base)]
    /\ UNCHANGED owned

(* frame_init leaves one zone, in the memory it is told of.                *)
FrameInit ==
  /\ \E part \in ZoneParts : zones = <<zone_construct(part[1], part[2], part[1])>>
  /\ owned = <<>>

FrameNext ==
  \/ \E part \in ZoneParts : zone_create(part)
  \/ \E part \in ReservedParts : zone_create_reserved(part)
  \/ \E n \in DOMAIN zones : zone_merge(n)
  \/ \E order \in FrameOrders, hint \in DOMAIN zones : frame_alloc_generic(order, hint)
  \/ \E pfn \in DOMAIN owned : frame_free(pfn) \/ frame_reference_add(pfn)
  \/ \E z \in ToSet(zones) : frame_mark_unavailable(ZoneEnd(z) - 1)

-----------------------------------------------------------------------------

FreeBlocksOf(z) == UNION {{<<i, k>> : i \in ToSet(z.list[k])} : k \in 0 .. z.max}

BlockFrames(z, b) == z.base + b[1] .. z.base + b[1] + 2 ^ b[2] - 1

(* The lists of a zone, the orders and references of its frames and its    *)
(* counters agree; free blocks lie on multiples of their size, do not      *)
(* overlap what is in use, and are as large as they can be.                *)
ZonesExact ==
  \A n \in DOMAIN zones : LET z == zones[n] IN z.avail =>
    /\ \A b \in FreeBlocksOf(z) :
         /\ z.frames[b[1]].order = b[2] /\ z.frames[b[1]].ref = 0
         /\ (z.base + b[1]) % 2 ^ b[2] = 0 /\ b[1] + 2 ^ b[2] <= z.count
         /\ find_buddy(z, b[1]) = {}
         /\ \A c \in FreeBlocksOf(z) \ {b} : BlockFrames(z, b) \cap BlockFrames(z, c) = {}
         /\ \A p \in DOMAIN owned : BlockFrames(z, b) \cap (p .. p + owned[p] - 1) = {}
         /\ BlockFrames(z, b) \cap (z.conf .. z.conf + zone_conf_frames(z.count) - 1) = {}
    /\ \A i \in DOMAIN z.frames :
         z.frames[find_block(z, i)].ref = 0 =>
           \E b \in FreeBlocksOf(z) : z.base + i \in BlockFrames(z, b)
    /\ z.free = MapThenSumSet(LAMBDA b : 2 ^ b[2], FreeBlocksOf(z))
    /\ z.busy = MapThenSumSet(LAMBDA p : owned[p],
                  {p \in DOMAIN owned : p \in z.base .. ZoneEnd(z) - 1})

FrameMemory == INSTANCE Allocator WITH
  Area <- Nat, given <- {p .. p + owned[p] - 1 : p \in DOMAIN owned}
=============================================================================
