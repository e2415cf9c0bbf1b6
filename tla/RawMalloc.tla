----------------------------- MODULE RawMalloc -----------------------------
(***************************************************************************)
(* raw_malloc.c: memory of any size, in pages of raw_page.c.  Addresses    *)
(* and sizes are in units of 8 bytes, the size of a LIST: an area is a     *)
(* header of one unit and what follows it up to the next header.           *)
(*                                                                         *)
(* arena.area is the area queue; within a page it is in the order of the   *)
(* addresses, and the last area of a page is its end mark.  arena.free is  *)
(* the free queue in its two tiers: lists of areas of one size, from the   *)
(* smallest size on.  A service holds mem_lock, so it is one action.       *)
(***************************************************************************)
EXTENDS RawPage, SequencesExt

CONSTANT MallocWants   \* bytes the application asks for

ASSUME MallocAssumption == MallocWants \subseteq Nat

VARIABLE
  arena   \* area: Seq([at, use, top, end]); free: Seq(Seq(address));
          \* given: what the application has: where, and the size it
          \* asked for

UNIT == 8
PAGE_UNITS == PAGE_SIZE \div UNIT
MIN_FRAGMENT == 2

(* A request in units: the minimum fragment at least, rounded up.          *)
ROUND_MALLOC(bytes) ==
  IF bytes = 0 THEN 0 ELSE Max({MIN_FRAGMENT, (bytes + UNIT - 1) \div UNIT})

-----------------------------------------------------------------------------
(* An area is meant by its address; queues are functions of the state m.   *)

AreaIndex(m, at) == CHOOSE i \in DOMAIN m.area : m.area[i].at = at
AreaAt(m, at) == m.area[AreaIndex(m, at)]
NextArea(m, at) == m.area[AreaIndex(m, at) + 1]
AreaSize(m, at) == NextArea(m, at).at - at - 1

insertAreaQue(m, i, area) == [m EXCEPT !.area = InsertAt(@, i, area)]
removeAreaQue(m, at) == [m EXCEPT !.area = RemoveAt(@, AreaIndex(m, at))]
setAreaUse(m, at, use) == [m EXCEPT !.area[AreaIndex(m, at)].use = use]

PlainArea(at) == [at |-> at, use |-> FALSE, top |-> FALSE, end |-> FALSE]

TierSize(m, tier) == AreaSize(m, Head(tier))

(* The tier of the smallest size that is enough, Len + 1 if there is none. *)
(* Small requests are looked for from the smallest size on, others from    *)
(* the largest.                                                            *)
searchFreeArea(m, size) ==
  LET tiers == DOMAIN m.free
      enough == {i \in tiers : TierSize(m, m.free[i]) >= size}
      too_small == {i \in tiers : TierSize(m, m.free[i]) < size}
  IN  IF size > PAGE_UNITS \div 4
        THEN IF too_small = {} THEN 1 ELSE Max(too_small) + 1
        ELSE IF enough = {} THEN Len(m.free) + 1 ELSE Min(enough)

(* An area joins those of its size, behind them, or starts a tier.         *)
appendFreeArea(m, at) ==
  LET free == setAreaUse(m, at, FALSE)
      size == AreaSize(m, at)
      i == searchFreeArea(m, size)
  IN  IF i \in DOMAIN m.free /\ TierSize(m, m.free[i]) = size
        THEN [free EXCEPT !.free[i] = Append(@, at)]
        ELSE [free EXCEPT !.free = InsertAt(@, i, <<at>>)]

(* The second of a tier takes the place of the first.                      *)
removeFreeQue(m, at) ==
  LET i == CHOOSE j \in DOMAIN m.free : \E n \in DOMAIN m.free[j] : m.free[j][n] = at
      tier == SelectSeq(m.free[i], LAMBDA a : a # at)
  IN  IF tier = <<>> THEN [m EXCEPT !.free = RemoveAt(@, i)]
                     ELSE [m EXCEPT !.free[i] = tier]

-----------------------------------------------------------------------------

toPageCount(size) == (size + PAGE_UNITS - 1) \div PAGE_UNITS

(* The pages that a request of so many units takes, with their two marks.  *)
PagesFor(size) == toPageCount(size + 2)

PageAddress(pn) == (pn - 1) * PAGE_UNITS

newPage(m, top, n) ==
  LET first == [PlainArea(top) EXCEPT !.top = TRUE]
      last == [PlainArea(top + n * PAGE_UNITS - 1) EXCEPT !.end = TRUE]
  IN  insertAreaQue(insertAreaQue(m, 1, last), 1, first)

(* What is left of an area becomes a free one if it is large enough.       *)
allocate(m, at, size) ==
  LET left == AreaSize(m, at) - size
      rest == at + 1 + size
      cut == insertAreaQue(m, AreaIndex(m, at) + 1, PlainArea(rest))
  IN  IF left >= MIN_FRAGMENT + 1
        THEN setAreaUse(appendFreeArea(cut, rest), at, TRUE)
        ELSE setAreaUse(m, at, TRUE)

(* A pair of what becomes of the arena and the pages, and where the memory *)
(* is; there is none if the pages do not suffice.                          *)
NoMemory == [ok |-> FALSE]

_mem_malloc(m, p, size) ==
  LET i == searchFreeArea(m, size)
      at == Head(m.free[i])
      pn == search_free_page(p.q, PagesFor(size))
  IN  IF i \in DOMAIN m.free
        THEN [ok |-> TRUE, at |-> at, p |-> p,
              m |-> allocate(removeFreeQue(m, at), at, size)]
      ELSE IF pn = 0 THEN NoMemory
      ELSE [ok |-> TRUE, at |-> PageAddress(pn),
            p |-> get_pages(p, PagesFor(size)),
            m |-> allocate(newPage(m, PageAddress(pn), PagesFor(size)),
                           PageAddress(pn), size)]

FreeArea(area) == ~area.use /\ ~area.end

(* The area behind is taken out of both queues if it is free. *)
MergeNext(m, at) ==
  LET next == NextArea(m, at)
  IN  IF FreeArea(next) THEN removeAreaQue(removeFreeQue(m, next.at), next.at)
                        ELSE m


(* Merges with both neighbours; a page without anything in use goes back.  *)
_mem_free(m, p, at) ==
  LET merged == MergeNext(m, at)
      i == AreaIndex(merged, at)
      before == merged.area[i - 1]
      joins == ~merged.area[i].top /\ ~before.use
      start == IF joins THEN before.at ELSE at
      whole == IF joins
                 THEN removeAreaQue(removeFreeQue(merged, before.at), at)
                 ELSE merged
      empty == AreaAt(whole, start).top /\ NextArea(whole, start).end
  IN  IF empty
        THEN [m |-> removeAreaQue(removeAreaQue(whole, NextArea(whole, start).at),
                                  start),
              p |-> free_pages(p, start \div PAGE_UNITS + 1)]
        ELSE [m |-> appendFreeArea(whole, start), p |-> p]

Commit(r) == arena' = r.m /\ pages' = r.p

Gift(at, size) == [at |-> at, size |-> size]

-----------------------------------------------------------------------------

raw_malloc_init == arena = [area |-> <<>>, free |-> <<>>, given |-> {}]

raw_malloc(bytes) ==
  LET r == _mem_malloc(arena, pages, ROUND_MALLOC(bytes))
  IN  /\ ROUND_MALLOC(bytes) > 0 /\ r.ok
      /\ arena' = [r.m EXCEPT !.given = @ \cup {Gift(r.at, ROUND_MALLOC(bytes))}]
      /\ pages' = r.p

raw_free(g) ==
  Commit(_mem_free([arena EXCEPT !.given = @ \ {g}], pages, g.at))

(* raw_realloc of memory g.  If the free area behind is not enough, the    *)
(* contents move; if there is no memory, g keeps its old size, and what    *)
(* was merged is cut off again.                                            *)
raw_realloc(g, bytes) ==
  LET size == ROUND_MALLOC(bytes)
      taken == [arena EXCEPT !.given = @ \ {g}]
      oldsz == AreaSize(arena, g.at)
      merged == MergeNext(taken, g.at)
      fits == size <= AreaSize(merged, g.at)
      new == _mem_malloc(merged, pages, size)
      moved == _mem_free(new.m, new.p, g.at)
  IN  \/ /\ fits /\ size > 0
         /\ arena' = [allocate(merged, g.at, size) EXCEPT
                        !.given = @ \cup {Gift(g.at, size)}]
         /\ UNCHANGED pages
      \/ fits /\ size = 0 /\ Commit(_mem_free(merged, pages, g.at))
      \/ /\ ~fits /\ new.ok
         /\ arena' = [moved.m EXCEPT !.given = @ \cup {Gift(new.at, size)}]
         /\ pages' = moved.p
      \/ /\ ~fits /\ ~new.ok
         /\ arena' = [allocate(merged, g.at, oldsz) EXCEPT !.given = @ \cup {g}]
         /\ UNCHANGED pages

MallocNext ==
  /\ ~pages.halted
  /\ \/ \E bytes \in MallocWants : raw_malloc(bytes)
     \/ \E g \in arena.given : raw_free(g)
     \/ \E g \in arena.given, bytes \in MallocWants : raw_realloc(g, bytes)

-----------------------------------------------------------------------------

(* What chkalloc_test looks for in the area queue: pages from mark to mark,*)
(* areas in the order of their addresses, none too small.                  *)
chkalloc_test(m) ==
  \A i \in DOMAIN m.area :
    /\ m.area[i].top <=> i = 1 \/ m.area[i - 1].end
    /\ m.area[i].end =>  ~m.area[i].top
    /\ ~m.area[i].end =>
         /\ i < Len(m.area)
         /\ m.area[i + 1].at - m.area[i].at >= 3

(* The queues agree: free areas, and only they, are in the tier of their   *)
(* size, in use are those of the application, large enough, no two free    *)
(* areas of a page are neighbours, and no page is empty.                   *)
AreasExact ==
  LET areas == {arena.area[i] : i \in DOMAIN arena.area}
      queued == UNION {Range(arena.free[i]) : i \in DOMAIN arena.free}
  IN  /\ chkalloc_test(arena)
      /\ {a.at : a \in {b \in areas : FreeArea(b)}} = queued
      /\ \A i \in DOMAIN arena.free :
           /\ IsInjective(arena.free[i])
           /\ \A at \in Range(arena.free[i]) :
                AreaSize(arena, at) = TierSize(arena, arena.free[i])
           /\ i > 1 => TierSize(arena, arena.free[i - 1])
                         < TierSize(arena, arena.free[i])
      /\ {a.at : a \in {b \in areas : b.use}} = {g.at : g \in arena.given}
      /\ \A g \in arena.given : AreaSize(arena, g.at) >= g.size
      /\ \A i \in 2 .. Len(arena.area) :
           /\ FreeArea(arena.area[i - 1]) => ~FreeArea(arena.area[i])
           /\ arena.area[i - 1].top /\ arena.area[i].end => arena.area[i - 1].use

(* The pages that raw_malloc.c holds are those it was given.               *)
PagesHeld ==
  ~pages.halted =>
    {PageAddress(s.pn) : s \in pages.given}
      = {arena.area[i].at : i \in {j \in DOMAIN arena.area : arena.area[j].top}}

(* What the application has, by areas. *)
MallocPieces == {g.at + 1 .. g.at + AreaSize(arena, g.at) : g \in arena.given}

MallocPool == INSTANCE Allocator WITH Area <- Nat, given <- MallocPieces
=============================================================================
