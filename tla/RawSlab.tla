------------------------------ MODULE RawSlab ------------------------------
(***************************************************************************)
(* The slab allocator of extension/mm/slab/raw_slab.c over a frame         *)
(* allocator.  Sizes are words.  A slab is known by its frame, an object   *)
(* by its slab and its number in it.  Three caches call each other: the    *)
(* magazines of free objects and the descriptors of slabs are objects      *)
(* themselves.  One task uses the allocator, so a service is one action.   *)
(***************************************************************************)
EXTENDS Integers, Sequences, FiniteSetsExt, SequencesExt

CONSTANTS
  SlabFrames,      \* the frames of the frame allocator, all of order 0
  PAGE_SIZE_SLAB,  \* words of a frame
  SLAB_MAG_SIZE,   \* objects that a magazine holds
  MallocSize       \* size of the objects of the malloc cache

ASSUME SlabAssumption ==
  /\ SlabFrames \subseteq Nat /\ PAGE_SIZE_SLAB \in Nat
  /\ SLAB_MAG_SIZE \in Nat \ {0} /\ MallocSize \in Nat \ {0}

VARIABLE
  slab   \* frames: free frames; slabs: frame |-> what is in its slab_t;
         \* partial, mags: the lists of a cache; current, last: its
         \* magazines; nomag: SLAB_CACHE_NOMAGAZINE; held: magazine |-> its
         \* objects; given: objects of the application; enabled: the caches
         \* have magazines; locked: a refused free left the mutex behind

Caches == <<"magazine", "extern", "malloc">>   \* in the order of slab_cache_list
SizeofSlab == 6

-----------------------------------------------------------------------------
(* The geometry of a cache: the smallest order of 2^order frames that does *)
(* not waste more than a quarter, and how many objects it has then.        *)

CacheSize(c) ==
  CASE c = "magazine" -> 4 + SLAB_MAG_SIZE
    [] c = "extern"   -> SizeofSlab
    [] c = "malloc"   -> MallocSize

AskedInside(c) == c # "malloc" \/ CacheSize(c) < PAGE_SIZE_SLAB \div 8

comp_objects(c, order, inside) ==
  (PAGE_SIZE_SLAB * 2 ^ order - IF inside THEN SizeofSlab ELSE 0) \div CacheSize(c)

badness(c, order, inside) ==
  PAGE_SIZE_SLAB * 2 ^ order - (IF inside THEN SizeofSlab ELSE 0)
    - comp_objects(c, order, inside) * CacheSize(c)

_slab_cache_create(c) ==
  LET fits(order) ==
        /\ CacheSize(c) <= PAGE_SIZE_SLAB * 2 ^ order
        /\ badness(c, order, AskedInside(c)) <= (PAGE_SIZE_SLAB * 2 ^ order) \div 4
      order == CHOOSE k \in 0 .. 9 : fits(k) /\ \A j \in 0 .. k - 1 : ~fits(j)
  IN  [order   |-> order,
       objects |-> comp_objects(c, order, AskedInside(c)),
       inside  |-> AskedInside(c) \/ badness(c, order, AskedInside(c)) > SizeofSlab]

Objects == [c \in ToSet(Caches) |-> _slab_cache_create(c).objects]
Inside == [c \in ToSet(Caches) |-> _slab_cache_create(c).inside]

-----------------------------------------------------------------------------
(* The functions of the allocator, as functions of its state.  Those that  *)
(* return an object give [s, obj], those that count frames [s, freed].     *)

NoObject == <<>>

RECURSIVE slab_alloc(_, _, _)
RECURSIVE _slab_free(_, _, _)
RECURSIVE slab_reclaim(_, _)

(* A free frame; without one, memory is reclaimed, then all of it - but    *)
(* the zones are only searched again if frames were counted.               *)
Found(r) == [s |-> r.s, ok |-> r.freed > 0 /\ r.s.frames # {}]

SecondTry(r) == IF Found(r).ok THEN Found(r) ELSE Found(slab_reclaim(r.s, TRUE))

frame_alloc(s, reclaim) ==
  IF s.frames # {} \/ ~reclaim THEN [s |-> s, ok |-> s.frames # {}]
  ELSE SecondTry(slab_reclaim(s, FALSE))

NewSlab(desc, f, c) ==
  IF desc.obj = NoObject THEN [s |-> [desc.s EXCEPT !.frames = @ \cup {f}], slab |-> {}]
  ELSE [s |-> [desc.s EXCEPT !.slabs = (f :> [cache |-> c, desc |-> desc.obj,
                 free |-> [i \in 1 .. Objects[c] |-> i - 1]]) @@ @],
        slab |-> {f}]

WithDescriptor(s, f, c, reclaim) ==
  NewSlab(IF Inside[c] THEN [s |-> s, obj |-> <<f>>] ELSE slab_alloc(s, "extern", reclaim),
          f, c)

WithFrame(found, c, reclaim) ==
  LET f == Min(found.s.frames)
  IN  IF found.ok
      THEN WithDescriptor([found.s EXCEPT !.frames = @ \ {f}], f, c, reclaim)
      ELSE [s |-> found.s, slab |-> {}]

slab_space_alloc(s, c, reclaim) == WithFrame(frame_alloc(s, reclaim), c, reclaim)

slab_space_free(s, c, f) ==
  LET gone == [s EXCEPT !.slabs = [x \in DOMAIN @ \ {f} |-> @[x]],
                        !.frames = @ \cup {f}]
  IN  IF Inside[c] THEN gone ELSE _slab_free(gone, "extern", s.slabs[f].desc)


(* A slab without objects in use is freed, one that was full becomes the   *)
(* first of the partial ones.                                              *)
Relisted(s, c, f) ==
  IF Len(s.slabs[f].free) = Objects[c]
  THEN [s |-> slab_space_free([s EXCEPT !.partial[c] = SelectSeq(@, LAMBDA x : x # f)],
                              c, f),
        freed |-> 1]
  ELSE [s |-> IF Len(s.slabs[f].free) > 1 THEN s
              ELSE [s EXCEPT !.partial[c] = <<f>> \o @],
        freed |-> 0]

slab_obj_destroy(s, c, obj) ==
  Relisted([s EXCEPT !.slabs[obj[1]].free = <<obj[2]>> \o @], c, obj[1])

ObjectTaken(s, c, f) ==
  LET left == Tail(s.slabs[f].free)
      used == [s EXCEPT !.slabs[f].free = left]
  IN  [s |-> IF left = <<>> THEN used ELSE [used EXCEPT !.partial[c] = <<f>> \o @],
       obj |-> <<f, Head(s.slabs[f].free)>>]

FromSlab(room, c) ==
  IF room.slab = {} THEN [s |-> room.s, obj |-> NoObject]
  ELSE ObjectTaken(room.s, c, Max(room.slab))

slab_obj_create(s, c, reclaim) ==
  FromSlab(IF s.partial[c] = <<>> THEN slab_space_alloc(s, c, reclaim)
           ELSE [s |-> [s EXCEPT !.partial[c] = Tail(@)], slab |-> {Head(s.partial[c])}],
           c)

(* Its objects go back one by one, then the magazine itself.               *)
Added(freed, d) == [d EXCEPT !.freed = @ + freed]

WithoutMagazine(r, mag) ==
  [r EXCEPT !.s = _slab_free([@ EXCEPT !.held = [m \in DOMAIN @ \ {mag} |-> @[m]]],
                             "magazine", mag)]

magazine_destroy(s, c, mag) ==
  WithoutMagazine(FoldLeft(LAMBDA r, obj : Added(r.freed, slab_obj_destroy(r.s, c, obj)),
                           [s |-> s, freed |-> 0], s.held[mag]), mag)

Swapped(s, c) == [s EXCEPT !.current[c] = s.last[c], !.last[c] = s.current[c]]

(* An object of the current magazine, of the last one, or of a full one    *)
(* from the list.                                                          *)
Usable(s, m) == m # NoObject /\ s.held[m] # <<>>

Imported(s, c, mag) == [s EXCEPT !.last[c] = s.current[c], !.current[c] = mag]

get_full_current_mag(s, c) ==
  LET took == [s EXCEPT !.mags[c] = Tail(@)]
  IN  IF Usable(s, s.current[c]) THEN s
      ELSE IF s.current[c] # NoObject /\ Usable(s, s.last[c]) THEN Swapped(s, c)
      ELSE IF s.mags[c] = <<>> THEN s
      ELSE Imported(IF s.last[c] = NoObject THEN took
                    ELSE magazine_destroy(took, c, s.last[c]).s, c, Head(s.mags[c]))

FromMagazine(s, m) ==
  IF ~Usable(s, m) THEN [s |-> s, obj |-> NoObject]
  ELSE [s |-> [s EXCEPT !.held[m] = Front(@)], obj |-> Last(s.held[m])]

FromCurrent(s, c) == FromMagazine(s, s.current[c])

magazine_obj_get(s, c) == FromCurrent(get_full_current_mag(s, c), c)

(* A magazine with room: the current one, the last one, or a new one, and  *)
(* then the last one goes to the list.  Memory is not reclaimed for it.    *)
HasRoom(s, m) == m # NoObject /\ Len(s.held[m]) < SLAB_MAG_SIZE

NewCurrent(new, c) ==
  IF new.obj = NoObject THEN new.s
  ELSE Imported([new.s EXCEPT
                   !.mags[c] = IF new.s.last[c] = NoObject THEN @ ELSE <<new.s.last[c]>> \o @,
                   !.held = (new.obj :> <<>>) @@ @], c, new.obj)

make_empty_current_mag(s, c) ==
  IF HasRoom(s, s.current[c]) THEN s
  ELSE IF s.current[c] # NoObject /\ HasRoom(s, s.last[c]) THEN Swapped(s, c)
  ELSE NewCurrent(slab_alloc(s, "magazine", FALSE), c)

IntoCurrent(s, c, obj) ==
  IF HasRoom(s, s.current[c])
  THEN [s |-> [s EXCEPT !.held[s.current[c]] = Append(@, obj)], ok |-> TRUE]
  ELSE [s |-> s, ok |-> FALSE]

magazine_obj_put(s, c, obj) == IntoCurrent(make_empty_current_mag(s, c), c, obj)

OrCreated(kept, c, reclaim) ==
  IF kept.obj # NoObject THEN kept ELSE slab_obj_create(kept.s, c, reclaim)

slab_alloc(s, c, reclaim) ==
  OrCreated(IF s.nomag[c] THEN [s |-> s, obj |-> NoObject] ELSE magazine_obj_get(s, c),
            c, reclaim)

OrDestroyed(put, c, obj) == IF put.ok THEN put.s ELSE slab_obj_destroy(put.s, c, obj).s

_slab_free(s, c, obj) ==
  OrDestroyed(IF s.nomag[c] THEN [s |-> s, ok |-> FALSE] ELSE magazine_obj_put(s, c, obj),
              c, obj)

(* The full magazines, the last one first, until frames come free; with    *)
(* "all", every one of them and the two in use.                            *)
Destroyed(r, c, mag) == Added(r.freed, magazine_destroy(r.s, c, mag))

OneReclaimed(r, c, all) ==
  IF r.s.mags[c] = <<>> \/ (~all /\ r.freed > 0) THEN r
  ELSE Destroyed([r EXCEPT !.s.mags[c] = Front(@)], c, Last(r.s.mags[c]))

BoundReclaimed(r, c, which) ==
  [IF r.s[which][c] = NoObject THEN r ELSE Destroyed(r, c, r.s[which][c])
     EXCEPT !.s[which][c] = NoObject]

_slab_reclaim(s, c, all) ==
  IF s.nomag[c] THEN [s |-> s, freed |-> 0]
  ELSE FoldLeft(LAMBDA r, which : BoundReclaimed(r, c, which),
                FoldLeft(LAMBDA r, m : OneReclaimed(r, c, all),
                         [s |-> s, freed |-> 0], s.mags[c]),
                IF all THEN <<"current", "last">> ELSE <<>>)

slab_reclaim(s, all) ==
  FoldLeft(LAMBDA r, c : Added(r.freed, _slab_reclaim(r.s, c, all)),
           [s |-> s, freed |-> 0], Caches)

-----------------------------------------------------------------------------
(* The services.                                                           *)

slab_cache_init ==
  LET each(x) == [c \in ToSet(Caches) |-> x]
  IN  slab = [frames |-> SlabFrames, slabs |-> <<>>, partial |-> each(<<>>),
              mags |-> each(<<>>), current |-> each(NoObject), last |-> each(NoObject),
              nomag |-> each(TRUE), held |-> <<>>, given |-> {}, kept |-> {},
              enabled |-> FALSE, locked |-> FALSE]

(* The caches get their magazines, each with a block that malloc gives.    *)
slab_enable_cpucache ==
  LET one == slab_alloc(slab, "malloc", TRUE)
      two == slab_alloc([one.s EXCEPT !.nomag["extern"] = FALSE], "malloc", TRUE)
  IN  /\ ~slab.enabled
      /\ one.obj # NoObject /\ two.obj # NoObject
      /\ slab' = [two.s EXCEPT !.nomag["malloc"] = FALSE, !.enabled = TRUE,
                               !.kept = {one.obj, two.obj}]

raw_slab_malloc ==
  LET got == slab_alloc(slab, "malloc", TRUE)
  IN  slab' = [got.s EXCEPT !.given = @ \cup ({got.obj} \ {NoObject})]

raw_slab_free(obj) ==
  /\ obj \in slab.given
  /\ slab' = [_slab_free(slab, "malloc", obj) EXCEPT !.given = @ \ {obj}]

(* The new block first; the old one is freed even if there is none.        *)
raw_slab_realloc(obj) ==
  LET got == slab_alloc(slab, "malloc", TRUE)
  IN  /\ obj \in slab.given
      /\ slab' = [_slab_free(got.s, "malloc", obj) EXCEPT
                    !.given = (@ \ {obj}) \cup ({got.obj} \ {NoObject})]

(* The free objects of a slab that is there, and those in magazines.       *)
FreedObjects ==
  {o \in (DOMAIN slab.slabs) \X (0 .. Objects["malloc"] - 1) :
     slab.slabs[o[1]].cache = "malloc" /\ o \notin slab.given \cup slab.kept}

(* check_free_freed_obj_mag and check_free_freed_obj_slablist find that an *)
(* object is free already: nothing changes but that the mutex stays held.  *)
raw_slab_free_freed(obj) ==
  /\ obj \in FreedObjects /\ ~slab.locked
  /\ slab' = [slab EXCEPT !.locked = TRUE]

SlabNext ==
  \/ slab_enable_cpucache
  \/ raw_slab_malloc
  \/ \E obj \in slab.given : raw_slab_free(obj) \/ raw_slab_realloc(obj)
  \/ \E obj \in FreedObjects : raw_slab_free_freed(obj)

-----------------------------------------------------------------------------

Cached(c) ==
  UNION {ToSet(slab.held[m]) : m \in ToSet(slab.mags[c])
           \cup ({slab.current[c], slab.last[c]} \ {NoObject})}

(* Every object of a slab is in one place: with its user, in a magazine,   *)
(* or free in the slab; a slab is listed while it has both kinds, and      *)
(* given back when it has no object in use.                                *)
SlabsExact ==
  LET users(c) == CASE c = "malloc"   -> slab.given \cup slab.kept
                    [] c = "magazine" -> DOMAIN slab.held
                    [] c = "extern"   -> {slab.slabs[f].desc :
                         f \in {x \in DOMAIN slab.slabs : ~Inside[slab.slabs[x].cache]}}
  IN  /\ slab.frames \cup DOMAIN slab.slabs = SlabFrames
      /\ slab.frames \cap DOMAIN slab.slabs = {}
      /\ \A c \in ToSet(Caches) :
           /\ users(c) \cap Cached(c) = {}
           /\ \A f \in DOMAIN slab.slabs : slab.slabs[f].cache = c =>
                LET free == slab.slabs[f].free
                    used == {o \in users(c) \cup Cached(c) : o[1] = f}
                IN  /\ {o[2] : o \in used} \cup ToSet(free) = 0 .. Objects[c] - 1
                    /\ Cardinality(used) + Len(free) = Objects[c]
                    /\ used # {}
                    /\ (f \in ToSet(slab.partial[c])) = (free # <<>>)
           /\ \A o \in users(c) \cup Cached(c) : o[1] \in DOMAIN slab.slabs

(* When the application has nothing left, slab_cache_destroy finds every   *)
(* slab of its cache empty.                                                *)
CacheCanGo ==
  slab.given = {} =>
    LET left == _slab_reclaim(slab, "malloc", TRUE).s
    IN  \A f \in DOMAIN left.slabs : left.slabs[f].cache = "malloc" =>
          \E o \in slab.kept : o[1] = f

SlabMemory == INSTANCE Allocator WITH
  Area <- SlabFrames \X (0 .. PAGE_SIZE_SLAB), given <- {{o} : o \in slab.given}
=============================================================================
