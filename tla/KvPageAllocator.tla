--------------------------- MODULE KvPageAllocator ---------------------------
(***************************************************************************)
(* The physical KV page allocator of src/cache/allocator.rs: a pool of     *)
(* pages with reference counts, a counter of logically reserved pages and  *)
(* a counter of pages pinned by the radix prefix cache.                    *)
(*                                                                         *)
(* The module gives the allocator's state and, for every method, the guard *)
(* its early returns amount to and the effect it has.  BatchModelCache     *)
(* composes them: several methods run in one handler there, and each of    *)
(* them touches different variables, so an effect here constrains only the *)
(* variables its method assigns.                                           *)
(*                                                                         *)
(* The stack of free pages is a set, because nothing depends on which free *)
(* page is handed out.  No page can be on the stack twice as long as a     *)
(* page with a positive count is never free (FreeIffUnreferenced), since a *)
(* page is pushed only when its count goes from one to zero.  The peak     *)
(* counter is reporting and is left out.                                   *)
(***************************************************************************)
EXTENDS Integers, FiniteSets

CONSTANTS
  Page,       \* the physical pages 0 .. total_pages - 1
  PageSize,   \* tokens per page (KvPageSize)
  NoPage      \* u32::MAX, the empty block-table entry

ASSUME PageAssumption == IsFiniteSet(Page) /\ Page # {} /\ NoPage \notin Page

ASSUME PageSizeAssumption == PageSize \in Nat \ {0}

VARIABLES
  free_pages,      \* pages on the free stack
  page_refs,       \* reference count of every page
  reserved_pages,  \* sum of the reservations handed out
  cached_pages     \* pages pinned by the radix cache

allocator_vars == <<free_pages, page_refs, reserved_pages, cached_pages>>

total_pages == Cardinality(Page)

\* tokens.div_ceil(page_size): pages needed for that many tokens.
DivCeil(n) == (n + PageSize - 1) \div PageSize

\* How often page p occurs at the positions of the set I in a row of pages.
Occurrences(row, I, p) == Cardinality({i \in I : row[i] = p})

AllocatorInit ==
  /\ free_pages = Page
  /\ page_refs = [p \in Page |-> 0]
  /\ reserved_pages = 0
  /\ cached_pages = 0

-----------------------------------------------------------------------------
(* try_reserve_pages: admitted only if every reservation and every cached  *)
(* page still fit the pool together.                                       *)

\* Mutant: the cached pages are forgotten.
CanReserveBesideCache(n) == reserved_pages + n <= total_pages

CanReserve(n) == reserved_pages + n + cached_pages <= total_pages

ReservedAfterReserve(n) == reserved_pages + n

\* release_reservation is a saturating subtraction.
ReservedAfterRelease(n) == IF n > reserved_pages THEN 0 ELSE reserved_pages - n

-----------------------------------------------------------------------------
(* retain_pages and pin_cached_pages: one more reference for every listed  *)
(* page, refused when a listed page is not in use.                         *)

AllInUse(row, I) == \A i \in I : row[i] \in Page /\ page_refs[row[i]] # 0

\* Mutant: shared pages are borrowed without a reference.
RefsNotRetained(row, I) == page_refs

RefsAfterRetain(row, I) == [p \in Page |-> page_refs[p] + Occurrences(row, I, p)]

CanPin(row, I) ==
  /\ cached_pages + Cardinality(I) <= total_pages
  /\ AllInUse(row, I)

CachedAfterPin(I) == cached_pages + Cardinality(I)

-----------------------------------------------------------------------------
(* grow_sequence: the positions after the pages already held are filled    *)
(* with free pages, each of which gets its first reference.                *)

CanGrow(I) == Cardinality(I) <= Cardinality(free_pages)

\* The ways to pop one free page for every position of I.
FreshRows(I) ==
  {fresh \in [I -> free_pages] : \A i, j \in I : fresh[i] = fresh[j] => i = j}

FreeAfterGrow(fresh) == {p \in free_pages : \A i \in DOMAIN fresh : fresh[i] # p}

RefsAfterGrow(fresh) ==
  [p \in Page |-> IF \E i \in DOMAIN fresh : fresh[i] = p THEN 1 ELSE page_refs[p]]

-----------------------------------------------------------------------------
(* release_sequence over the positions of I: every entry gives back one    *)
(* reference; a count that reaches zero returns its page to the free       *)
(* stack, and a count that is zero already stays (release_page returns).   *)

RefsAfterRelease(row, I) ==
  [p \in Page |->
     LET n == Occurrences(row, I, p)
     IN  IF n > page_refs[p] THEN 0 ELSE page_refs[p] - n]

Reclaimed(row, I) ==
  {p \in Page : page_refs[p] # 0 /\ RefsAfterRelease(row, I)[p] = 0}

\* Mutants: a page is freed by its first release; a page is never freed.
FreedAtOnce(row, I) == free_pages \cup {row[i] : i \in I}
FreedNever(row, I) == free_pages

FreeAfterRelease(row, I) == free_pages \cup Reclaimed(row, I)
=============================================================================
