------------------------------ MODULE RawPage ------------------------------
(***************************************************************************)
(* The page allocator, raw_page.c.  Each page has a descriptor; only the   *)
(* first two and the last one of a stretch of pages are kept up to date.   *)
(* Descriptor 0 heads the list of the free stretches, from the shortest to *)
(* the longest.  A service holds mem_lock, so it is one action.            *)
(***************************************************************************)
EXTENDS Integers, Sequences, FiniteSetsExt

CONSTANTS
  PAGE_SIZE,      \* bytes of a page
  DESCRIPTOR,     \* bytes of a page descriptor
  PageEnds,       \* where the memory given to raw_page_init may end
  PageRequests    \* how many pages the application asks for

ASSUME PageAssumption ==
  /\ PAGE_SIZE \in Nat \ {0} /\ DESCRIPTOR \in Nat \ {0}
  /\ PageEnds \subseteq Nat /\ PageRequests \subseteq Nat \ {0}

VARIABLE
  pages   \* maxpage, freepage; q: pageque; given: the stretches of the
          \* application, [pn, n]; halted: an assertion has failed

Descriptors == 0 .. pages.maxpage

-----------------------------------------------------------------------------
(* The list of free stretches, as operators on the descriptors q.          *)

PAGE_NUMBERS(q, pn) == IF q[pn].cont THEN q[pn + 1].next ELSE 1

set_page_attr(u, n) == [use |-> u, cont |-> TRUE, next |-> n, prev |-> 0]

insert_free_page(q, que, ent) ==
  [q EXCEPT ![ent].prev = q[que].prev, ![ent].next = que,
            ![q[que].prev].next = ent, ![que].prev = ent]

remove_free_page(q, ent) ==
  IF q[ent].next = ent THEN q
  ELSE [q EXCEPT ![q[ent].prev].next = q[ent].next,
                 ![q[ent].next].prev = q[ent].prev]

(* What a reader of the list meets, in this order. *)
FreePages(q) ==
  LET at[i \in Nat] == IF i = 0 THEN 0 ELSE q[at[i - 1]].next
      steps == {i \in 1 .. Cardinality(DOMAIN q) : \A j \in 1 .. i : at[j] > 0}
  IN  [i \in steps |-> at[i]]

search_free_page(q, n) ==
  LET list == FreePages(q)
      enough == {i \in DOMAIN list : PAGE_NUMBERS(q, list[i]) >= n}
  IN  IF enough = {} THEN 0 ELSE list[Min(enough)]

(* The first, the second and the last descriptor say what n pages are.     *)
Stretch(q, pn, n, u) ==
  [i \in DOMAIN q |->
     IF i = pn THEN [q[i] EXCEPT !.use = u, !.cont = n > 1]
     ELSE IF (n > 1 /\ i = pn + 1) \/ (n > 2 /\ i = pn + n - 1)
       THEN set_page_attr(u, n)
     ELSE q[i]]

add_page_to_pool(q, pn, n) ==
  LET marked == Stretch(q, pn, n, "FREE")
  IN  insert_free_page(marked, search_free_page(marked, n), pn)

set_page_used(q, pn, n) ==
  [Stretch(q, pn, n, "USE") EXCEPT ![pn].next = pn, ![pn].prev = pn]

-----------------------------------------------------------------------------

(* The table is placed at top = 0, and has one descriptor per page for a   *)
(* first estimate of their number; the first page is aligned behind it.    *)
TablePages(end) == (end - DESCRIPTOR) \div (PAGE_SIZE + DESCRIPTOR)
TopPage(end) ==
  (((TablePages(end) + 1) * DESCRIPTOR + PAGE_SIZE - 1) \div PAGE_SIZE) * PAGE_SIZE
MaxPage(end) == (end - TopPage(end)) \div PAGE_SIZE

Junk_descriptor == [use |-> "junk", cont |-> FALSE, next |-> 0, prev |-> 0]

(* raw_page_init: the descriptors are what is in memory, except the head.  *)
init_page_table(end) ==
  LET npage == MaxPage(end)
      q == [i \in 0 .. npage |->
              IF i = 0 THEN [Junk_descriptor EXCEPT !.use = "FREE"]
                       ELSE Junk_descriptor]
  IN  [maxpage |-> npage, freepage |-> npage, given |-> {}, halted |-> FALSE,
       q |-> add_page_to_pool(q, 1, npage)]

PageInit ==
  \E end \in PageEnds :
    /\ MaxPage(end) \in 1 .. TablePages(end)
    /\ pages = init_page_table(end)

(* raw_page_allocate: n pages from the shortest stretch that has so many;  *)
(* the answer is their first one, or 0.                                    *)
get_pages(p, n) ==
  LET pn == search_free_page(p.q, n)
      free == PAGE_NUMBERS(p.q, pn) - n
      used == set_page_used(remove_free_page(p.q, pn), pn, n)
  IN  [p EXCEPT !.q = IF free > 0 THEN add_page_to_pool(used, pn + n, free)
                                  ELSE used,
                !.freepage = @ - n,
                !.given = @ \cup {[pn |-> pn, n |-> n]}]

(* raw_page_free: the pages from pn on, merged with the free pages on both *)
(* sides.  The assertion asks that there is a page behind the last one.    *)
free_pages(p, pn) ==
  LET n == PAGE_NUMBERS(p.q, pn)
      right == pn + n
      merge_right == p.q[right].use = "FREE"
      q1 == IF merge_right THEN remove_free_page(p.q, right) ELSE p.q
      n1 == IF merge_right THEN n + PAGE_NUMBERS(p.q, right) ELSE n
      merge_left == pn > 1 /\ p.q[pn - 1].use = "FREE"
      left == IF p.q[pn - 1].cont THEN p.q[pn - 1].next ELSE 1
      q2 == IF merge_left
              THEN [remove_free_page(q1, pn - left) EXCEPT ![pn].use = "FREE"]
              ELSE q1
  IN  IF pn + n > p.maxpage THEN [p EXCEPT !.halted = TRUE]
      ELSE [p EXCEPT
              !.q = IF merge_left THEN add_page_to_pool(q2, pn - left, n1 + left)
                                  ELSE add_page_to_pool(q2, pn, n1),
              !.freepage = @ + n,
              !.given = {s \in @ : s.pn # pn}]

raw_page_allocate(n) ==
  /\ search_free_page(pages.q, n) > 0
  /\ pages' = get_pages(pages, n)

raw_page_free(pn) == pages' = free_pages(pages, pn)

PageNext ==
  /\ ~pages.halted
  /\ \/ \E n \in PageRequests : raw_page_allocate(n)
     \/ \E s \in pages.given : raw_page_free(s.pn)

-----------------------------------------------------------------------------

PagesOf(pn, n) == pn .. pn + n - 1

(* The list holds every page that nobody has, in stretches as long as      *)
(* possible and in the order of their lengths, and freepage counts them.   *)
PageListExact ==
  LET q == pages.q
      list == FreePages(q)
      length(i) == PAGE_NUMBERS(q, list[i])
      free == UNION {PagesOf(list[i], length(i)) : i \in DOMAIN list}
  IN  /\ free = (1 .. pages.maxpage) \ UNION {PagesOf(s.pn, s.n) : s \in pages.given}
      /\ Cardinality(free) = pages.freepage
      /\ MapThenSumSet(length, DOMAIN list) = pages.freepage
      /\ \A i \in DOMAIN list : list[i] + length(i) \notin free
      /\ \A i \in 2 .. Len(list) : length(i - 1) <= length(i)

(* Pages are refused only when no stretch is long enough.                  *)
PageRefusalIsTrue ==
  \A n \in PageRequests : search_free_page(pages.q, n) = 0 =>
    \A pn \in 1 .. pages.maxpage - n + 1 :
      \E s \in pages.given : PagesOf(pn, n) \cap PagesOf(s.pn, s.n) # {}

PagePool == INSTANCE Allocator WITH
  Area <- Nat \ {0}, given <- {PagesOf(s.pn, s.n) : s \in pages.given}
=============================================================================
