---------------------------- MODULE BatchModelCache ----------------------------
(***************************************************************************)
(* The paged KV cache of the serving engine: BatchModelCache               *)
(* (src/model/lfm2_base.rs, src/model/lfm2.rs) over the page allocator,    *)
(* the block tables, the radix prefix cache and the pool of convolution    *)
(* checkpoints (src/model/prefix.rs), as the GPU-owner thread calls it on  *)
(* behalf of the requests in its slots.                                    *)
(*                                                                         *)
(* What the GPU computes is abstracted to what it was computed from: the   *)
(* K/V written for a position, a convolution state and a checkpoint are    *)
(* the token sequence they depend on, << >> when zeroed or never written.  *)
(* A page that becomes free is cleared in the model, so that reading it    *)
(* through a stale table entry shows as a wrong value.                     *)
(***************************************************************************)
EXTENDS PageRadixCache

CONSTANTS
  Slot,          \* request slots
  PagesPerSlot,  \* length of a block-table row
  Checkpoint,    \* slots of the ConvCheckpointPool
  Token,         \* token ids
  Prompt,        \* token sequences that requests may bring
  NewTokenLimit  \* values of maximum_new_tokens

ASSUME SlotAssumption == IsFiniteSet(Slot)

ASSUME CheckpointAssumption == NoCheckpoint \notin Checkpoint

\* The frontend never submits a limit of zero new tokens; an empty prompt it
\* may, and SequenceRequest::initialize refuses it.
ASSUME RequestAssumption ==
  /\ PagesPerSlot \in Nat
  /\ Prompt \subseteq Seq(Token)
  /\ NewTokenLimit \subseteq Nat \ {0}

VARIABLES
  block_table,       \* slot -> row of pages
  reservations,      \* slot -> private pages reserved
  allocated_tokens,  \* slot -> tokens that have a place in the cache
  tokens,            \* slot -> prompt and generated tokens of its request
  maximum_tokens,    \* slot -> length the request may reach, 0 when vacant
  free_checkpoints,  \* free slots of the checkpoint pool
  checkpoint_state,  \* checkpoint slot -> convolution state captured in it
  conv_state,        \* slot -> convolution state of the slot
  kv_page            \* page -> K/V stored at each of its offsets

table_vars == <<block_table, reservations, allocated_tokens>>
request_vars == <<tokens, maximum_tokens>>
data_vars == <<free_checkpoints, checkpoint_state, conv_state, kv_page>>
cache_vars == <<allocator_vars, radix_vars, table_vars, request_vars, data_vars>>

Positions == 1 .. PagesPerSlot
EmptyRow == [i \in Positions |-> NoPage]
EmptyPage == [o \in 1 .. PageSize |-> << >>]

CacheInit ==
  /\ AllocatorInit
  /\ RadixInit
  /\ block_table = [s \in Slot |-> EmptyRow]
  /\ reservations = [s \in Slot |-> 0]
  /\ allocated_tokens = [s \in Slot |-> 0]
  /\ tokens = [s \in Slot |-> << >>]
  /\ maximum_tokens = [s \in Slot |-> 0]
  /\ free_checkpoints = Checkpoint
  /\ checkpoint_state = [c \in Checkpoint |-> << >>]
  /\ conv_state = [s \in Slot |-> << >>]
  /\ kv_page = [p \in Page |-> EmptyPage]

Occupied(s) == tokens[s] # << >>

\* Pages of a slot that hold tokens, and those among them that were attached
\* from the radix cache when or after the request was admitted.
AllocatedPages(s) == DivCeil(allocated_tokens[s])
SharedPages(s) == DivCeil(maximum_tokens[s]) - reservations[s]

\* A prefix hit leaves at least one prompt token to compute (saturating_sub for
\* an empty prompt).
ReusablePages(seq) == IF seq = << >> THEN 0 ELSE (Len(seq) - 1) \div PageSize

-----------------------------------------------------------------------------
(* Admission: reserve_private_pages for everything the radix cache does    *)
(* not already hold, then attach_prefix with the pages and the checkpoint  *)
(* of the deepest hit (hit pages, 0 for a miss).                           *)

PrivatePages(total, hit) == DivCeil(total) - hit

CanAdmit(s, prompt, total, hit) ==
  /\ ~Occupied(s) /\ prompt # << >>
  /\ total > Len(prompt)
  /\ DivCeil(total) <= PagesPerSlot
  /\ IsDeepestCheckpoint(prompt, ReusablePages(prompt), hit)
  /\ CanReserve(PrivatePages(total, hit))

Admit(s, prompt, total, hit) ==
  LET path == PathPages(prompt, hit)
      I    == 1 .. hit
  IN  /\ CanAdmit(s, prompt, total, hit)
      /\ AllInUse(path, I)
      /\ reserved_pages' = ReservedAfterReserve(PrivatePages(total, hit))
      /\ page_refs' = RefsAfterRetain(path, I)
      /\ reservations' = [reservations EXCEPT ![s] = PrivatePages(total, hit)]
      /\ tokens' = [tokens EXCEPT ![s] = prompt]
      /\ maximum_tokens' = [maximum_tokens EXCEPT ![s] = total]
      /\ block_table' = [block_table EXCEPT ![s] =
                           [i \in Positions |-> IF i \in I THEN path[i] ELSE @[i]]]
      /\ allocated_tokens' = [allocated_tokens EXCEPT ![s] = hit * PageSize]
      /\ conv_state' = [conv_state EXCEPT ![s] =
                          IF hit = 0 THEN @
                          ELSE checkpoint_state[node_checkpoint[Prefix(prompt, hit)]]]
      /\ UNCHANGED <<free_pages, cached_pages, radix_vars, free_checkpoints,
                     checkpoint_state, kv_page>>

-----------------------------------------------------------------------------
(* extend_attached_prefix: a request nothing of which has run yet takes    *)
(* over a deeper prefix published meanwhile and gives back as many         *)
(* reserved pages.  The guards are the checks that end the owner with an   *)
(* error when they fail.                                                   *)

Untouched(s) == Occupied(s) /\ allocated_tokens[s] = SharedPages(s) * PageSize

CanExtend(s, hit) ==
  LET path    == PathPages(tokens[s], hit)
      current == AllocatedPages(s)
  IN  /\ reservations[s] >= hit - current
      /\ \A i \in 1 .. current : block_table[s][i] = path[i]
      /\ \A i \in current + 1 .. hit : block_table[s][i] = NoPage
      /\ AllInUse(path, current + 1 .. hit)

ExtendEffect(s, hit) ==
  LET path  == PathPages(tokens[s], hit)
      added == AllocatedPages(s) + 1 .. hit
      n     == hit - AllocatedPages(s)
  IN  /\ page_refs' = RefsAfterRetain(path, added)
      /\ reserved_pages' = ReservedAfterRelease(n)
      /\ reservations' = [reservations EXCEPT ![s] = @ - n]
      /\ block_table' = [block_table EXCEPT ![s] =
                           [i \in Positions |-> IF i \in added THEN path[i] ELSE @[i]]]
      /\ allocated_tokens' = [allocated_tokens EXCEPT ![s] = hit * PageSize]
      /\ conv_state' = [conv_state EXCEPT ![s] =
                          checkpoint_state[node_checkpoint[Prefix(tokens[s], hit)]]]
      /\ UNCHANGED <<free_pages, cached_pages, radix_vars, request_vars,
                     free_checkpoints, checkpoint_state, kv_page>>

\* probe_checkpoint finds more than the slot already has.
DeeperHit(s, hit) ==
  /\ IsDeepestCheckpoint(tokens[s], ReusablePages(tokens[s]), hit)
  /\ hit > AllocatedPages(s)

ExtendAttachedPrefix(s, hit) ==
  /\ Untouched(s)
  /\ DeeperHit(s, hit)
  /\ CanExtend(s, hit)
  /\ ExtendEffect(s, hit)

-----------------------------------------------------------------------------
(* prepare_tokens and the forward pass for the next n tokens of a slot:    *)
(* pages are taken when a token starts one, K/V is written at the slot and *)
(* offset of its position, and the convolution state absorbs the tokens.   *)

NewPositions(s, n) == AllocatedPages(s) + 1 .. DivCeil(allocated_tokens[s] + n)

\* The offset of token j, counted from 1, in its page.
Offset(j) == j - (DivCeil(j) - 1) * PageSize

CanPrepare(s, n) ==
  /\ reservations[s] > 0
  /\ DivCeil(allocated_tokens[s] + n) <= PagesPerSlot
  /\ CanGrow(NewPositions(s, n))

Written(row, from, upto, p, o) ==
  {j \in from .. upto : row[DivCeil(j)] = p /\ Offset(j) = o}

PrepareEffect(s, n, fresh) ==
  LET from == allocated_tokens[s] + 1
      upto == allocated_tokens[s] + n
      row  == [i \in Positions |->
                 IF i \in NewPositions(s, n) THEN fresh[i] ELSE block_table[s][i]]
  IN  /\ free_pages' = FreeAfterGrow(fresh)
      /\ page_refs' = RefsAfterGrow(fresh)
      /\ block_table' = [block_table EXCEPT ![s] = row]
      /\ allocated_tokens' = [allocated_tokens EXCEPT ![s] = upto]
      /\ kv_page' =
           [p \in Page |-> [o \in 1 .. PageSize |->
              LET writes == Written(row, from, upto, p, o)
              IN  IF writes = {} THEN kv_page[p][o]
                  ELSE SubSeq(tokens[s], 1, CHOOSE j \in writes : TRUE)]]
      /\ conv_state' = [conv_state EXCEPT ![s] = @ \o SubSeq(tokens[s], from, upto)]
      /\ UNCHANGED <<reserved_pages, cached_pages, radix_vars, reservations,
                     request_vars, free_checkpoints, checkpoint_state>>

PrepareTokens(s, n) ==
  /\ n > 0
  /\ allocated_tokens[s] + n <= Len(tokens[s])
  /\ CanPrepare(s, n)
  /\ \E fresh \in FreshRows(NewPositions(s, n)) : PrepareEffect(s, n, fresh)

\* push_token: the request's sequence gets the token sampled from a forward
\* pass over all the tokens it had.
CanPush(s) == Len(tokens[s]) < maximum_tokens[s]

PushEffect(s, token) ==
  /\ tokens' = [tokens EXCEPT ![s] = Append(@, token)]
  /\ UNCHANGED <<allocator_vars, radix_vars, table_vars, maximum_tokens, data_vars>>

PushToken(s, token) ==
  /\ Occupied(s)
  /\ allocated_tokens[s] = Len(tokens[s])
  /\ CanPush(s)
  /\ PushEffect(s, token)

-----------------------------------------------------------------------------
(* publish_prefix_checkpoint at the boundary just computed: a checkpoint   *)
(* slot captures the convolution state, the radix cache gets a node for    *)
(* every page it lacks and the allocator pins exactly those pages.         *)

\* Mutant: published although the last page is only partly computed.
WillPublishEarly(s) ==
  /\ CanPublish(tokens[s], AllocatedPages(s))
  /\ free_checkpoints # {}

WillPublish(s) ==
  /\ allocated_tokens[s] = AllocatedPages(s) * PageSize
  /\ CanPublish(tokens[s], AllocatedPages(s))
  /\ free_checkpoints # {}

\* The checks that end the owner with an error when they fail.
PublishSound(s) ==
  LET k == AllocatedPages(s)
  IN  /\ \A i \in 1 .. k : block_table[s][i] # NoPage
      /\ CanPin(block_table[s], MissingPages(tokens[s], k))

PublishEffect(s) ==
  LET k     == AllocatedPages(s)
      added == MissingPages(tokens[s], k)
  IN  \E checkpoint \in free_checkpoints :
        /\ free_checkpoints' = free_checkpoints \ {checkpoint}
        /\ checkpoint_state' = [checkpoint_state EXCEPT ![checkpoint] = conv_state[s]]
        /\ InsertCheckpoint(tokens[s], k, block_table[s], checkpoint)
        /\ page_refs' = RefsAfterRetain(block_table[s], added)
        /\ cached_pages' = CachedAfterPin(added)
        /\ UNCHANGED <<free_pages, reserved_pages, table_vars, request_vars,
                       conv_state, kv_page>>

PublishPrefix(s) ==
  /\ WillPublish(s)
  /\ PublishSound(s)
  /\ PublishEffect(s)

-----------------------------------------------------------------------------
(* release: every page of the slot gives back its reference, the           *)
(* reservation is returned and the convolution state is zeroed; with       *)
(* RequestSlots::release, which clears the request.                        *)

Release(s) ==
  LET I == 1 .. AllocatedPages(s)
  IN  /\ Occupied(s)
      /\ page_refs' = RefsAfterRelease(block_table[s], I)
      /\ free_pages' = FreeAfterRelease(block_table[s], I)
      /\ reserved_pages' = ReservedAfterRelease(reservations[s])
      /\ reservations' = [reservations EXCEPT ![s] = 0]
      /\ block_table' = [block_table EXCEPT ![s] =
                           [i \in Positions |-> IF i \in I THEN NoPage ELSE @[i]]]
      /\ allocated_tokens' = [allocated_tokens EXCEPT ![s] = 0]
      /\ tokens' = [tokens EXCEPT ![s] = << >>]
      /\ maximum_tokens' = [maximum_tokens EXCEPT ![s] = 0]
      /\ conv_state' = [conv_state EXCEPT ![s] = << >>]
      /\ kv_page' = [p \in Page |-> IF p \in Reclaimed(block_table[s], I)
                                    THEN EmptyPage ELSE kv_page[p]]
      /\ UNCHANGED <<cached_pages, radix_vars, free_checkpoints, checkpoint_state>>

-----------------------------------------------------------------------------
CacheNext ==
  \E s \in Slot :
    \/ \E prompt \in Prompt, new \in NewTokenLimit :
         \E hit \in 0 .. ReusablePages(prompt) :
           Admit(s, prompt, Len(prompt) + new, hit)
    \/ \E hit \in 1 .. ReusablePages(tokens[s]) : ExtendAttachedPrefix(s, hit)
    \/ \E n \in 1 .. Len(tokens[s]) - allocated_tokens[s] : PrepareTokens(s, n)
    \/ \E token \in Token : PushToken(s, token)
    \/ PublishPrefix(s)
    \/ Release(s)

CacheSpec == CacheInit /\ [][CacheNext]_cache_vars

-----------------------------------------------------------------------------
(* Properties.                                                             *)

\* Every variable has its type.
CacheTypeOK ==
  /\ free_pages \subseteq Page
  /\ page_refs \in [Page -> Nat]
  /\ reserved_pages \in Nat
  /\ cached_pages \in Nat
  /\ node_page \in [radix_nodes -> Page]
  /\ node_checkpoint \in [radix_nodes -> Checkpoint \cup {NoCheckpoint}]
  /\ radix_nodes \subseteq Seq(Token)
  /\ block_table \in [Slot -> [Positions -> Page \cup {NoPage}]]
  /\ reservations \in [Slot -> Nat]
  /\ allocated_tokens \in [Slot -> Nat]
  /\ tokens \in [Slot -> Seq(Token)]
  /\ maximum_tokens \in [Slot -> Nat]
  /\ free_checkpoints \subseteq Checkpoint
  /\ checkpoint_state \in [Checkpoint -> Seq(Token)]
  /\ conv_state \in [Slot -> Seq(Token)]
  /\ kv_page \in [Page -> [1 .. PageSize -> Seq(Token)]]

\* The places from which a page is referenced by a request, and the pages the
\* radix cache owns.
TableRefs(p) == {x \in Slot \X Positions : block_table[x[1]][x[2]] = p}
CachedPageSet == {node_page[n] : n \in radix_nodes}

\* Row positions reserved for private pages, those of them already filled,
\* and those of the latter whose page the radix cache has taken over.
ReservedPositions ==
  {x \in Slot \X Positions :
     SharedPages(x[1]) < x[2] /\ x[2] <= DivCeil(maximum_tokens[x[1]])}
PrivatePositions ==
  {x \in Slot \X Positions :
     SharedPages(x[1]) < x[2] /\ x[2] <= AllocatedPages(x[1])}
PublishedPositions ==
  {x \in PrivatePositions : block_table[x[1]][x[2]] \in CachedPageSet}

-----------------------------------------------------------------------------
\* A page's count is the number of table entries and radix nodes that refer to
\* it.  Admission, refresh, growth, publication and release each adjust counts
\* on their own (allocator.rs retain_pages, pin_cached_pages, grow_sequence,
\* release_page); a miscount frees a page in use or leaks one.
RefsExact ==
  \A p \in Page :
    page_refs[p] = Cardinality(TableRefs(p)) + (IF p \in CachedPageSet THEN 1 ELSE 0)

\* A page can be handed out exactly when nothing refers to it (allocator.rs
\* free_pages): none is lost and none in use is free.
FreeIffUnreferenced == \A p \in Page : p \in free_pages <=> page_refs[p] = 0

\* Everything the requests may still need fits the free pages, all of them at
\* once: growth of an admitted request cannot fail (allocator.rs
\* try_reserve_pages, whose check counts pages published by a live request
\* twice and still must not admit too much).
GrowthCovered ==
  Cardinality(ReservedPositions \ PrivatePositions) <= Cardinality(free_pages)

\* The counters of the allocator equal what the slots and the radix cache
\* hold (reserved_pages against reservations, cached_pages against nodes), and
\* every node owns a page of its own.
CountersExact ==
  /\ reserved_pages = Cardinality(ReservedPositions)
  /\ cached_pages = Cardinality(radix_nodes)
  /\ cached_pages = Cardinality(CachedPageSet)

\* The K/V a request attends to was computed from its own tokens, whichever
\* requests computed the pages it shares (lfm2.rs attach_prefix,
\* extend_attached_prefix; radix.rs insert_checkpoint keeps the page of an
\* existing node).
KvMatchesTokens ==
  \A s \in Slot : \A j \in 1 .. allocated_tokens[s] :
    kv_page[block_table[s][DivCeil(j)]][Offset(j)] = SubSeq(tokens[s], 1, j)

\* The convolution state of a slot has absorbed exactly the tokens whose K/V
\* the slot holds: checkpoints are restored at the boundary of the attached
\* pages (lfm2.rs l.34-200).
ConvMatchesTokens ==
  \A s \in Slot : conv_state[s] = SubSeq(tokens[s], 1, allocated_tokens[s])

\* The checks in extend_attached_prefix and publish_prefix_checkpoint, and the
\* check for free pages in grow_sequence, never fail for a request that gets
\* that far; each failure would end the owner thread.
ChecksHold ==
  \A s \in Slot :
    /\ \A hit \in 1 .. ReusablePages(tokens[s]) :
         Untouched(s) /\ DeeperHit(s, hit) => CanExtend(s, hit)
    /\ \A n \in 1 .. Len(tokens[s]) - allocated_tokens[s] : CanPrepare(s, n)
    /\ WillPublish(s) => PublishSound(s)

-----------------------------------------------------------------------------
(* The strengthening that makes the page accounting inductive.             *)

\* What a slot holds stays within what its request was admitted for.
SlotShape ==
  \A s \in Slot :
    /\ maximum_tokens[s] = 0 <=> ~Occupied(s)
    /\ allocated_tokens[s] <= Len(tokens[s])
    /\ Len(tokens[s]) <= maximum_tokens[s]
    /\ DivCeil(maximum_tokens[s]) <= PagesPerSlot
    /\ reservations[s] <= DivCeil(maximum_tokens[s])
    /\ SharedPages(s) * PageSize <= allocated_tokens[s]
    /\ \A i \in Positions : block_table[s][i] \in Page <=> i <= AllocatedPages(s)

\* A private page has one place, a shared one is in the radix cache, and no two
\* nodes own the same page.
PrivateUnique ==
  \A x, y \in PrivatePositions :
    block_table[x[1]][x[2]] = block_table[y[1]][y[2]] => x = y
SharedCached ==
  \A s \in Slot : \A i \in 1 .. SharedPages(s) : block_table[s][i] \in CachedPageSet
NodesDistinct == \A m, n \in radix_nodes : node_page[m] = node_page[n] => m = n

\* A page in a row that the radix cache owns is completely written, and is
\* owned by the node of the row's own prefix.
NodeMatch ==
  \A s \in Slot : \A i \in 1 .. AllocatedPages(s) : \A n \in radix_nodes :
    node_page[n] = block_table[s][i] =>
      i * PageSize <= allocated_tokens[s] /\ n = Prefix(tokens[s], i)

\* Reservations, less the pages that were published out of them, and cached
\* pages fit the pool together.
Budget == Cardinality(ReservedPositions \ PublishedPositions) + cached_pages <= total_pages

PageInv ==
  /\ IsFiniteSet(radix_nodes)
  /\ SlotShape
  /\ PrivateUnique
  /\ SharedCached
  /\ NodesDistinct
  /\ NodeMatch
  /\ RefsExact
  /\ FreeIffUnreferenced
  /\ CountersExact
  /\ Budget

-----------------------------------------------------------------------------
(* The strengthening that makes the contents inductive.                    *)

\* The tree has no gap: every page-sized prefix of a node is a node.
PathClosed ==
  \A n \in radix_nodes : \A j \in 1 .. Len(n) \div PageSize : Prefix(n, j) \in radix_nodes

\* The page of a node holds the K/V of the last page of the node's prefix.
NodeContent ==
  \A n \in radix_nodes : \A o \in 1 .. PageSize :
    /\ PageSize <= Len(n)
    /\ kv_page[node_page[n]][o] = SubSeq(n, 1, Len(n) - PageSize + o)

\* A checkpoint a node refers to is in use and holds the state after exactly
\* the node's prefix.
CheckpointContent ==
  \A n \in radix_nodes : node_checkpoint[n] # NoCheckpoint =>
    /\ node_checkpoint[n] \notin free_checkpoints
    /\ checkpoint_state[node_checkpoint[n]] = n

ContentInv ==
  /\ KvMatchesTokens
  /\ ConvMatchesTokens
  /\ PathClosed
  /\ NodeContent
  /\ CheckpointContent

CacheInv == PageInv /\ ContentInv

-----------------------------------------------------------------------------
(* What a step may never do.                                               *)

WritesOwnPagesOnly ==
  \A p \in Page :
    kv_page'[p] # kv_page[p] =>
      \/ p \in free_pages'
      \/ p \notin CachedPageSet' /\ Cardinality(TableRefs(p)') = 1

KeepsRadix ==
  /\ radix_nodes \subseteq radix_nodes'
  /\ \A n \in radix_nodes :
       /\ node_page'[n] = node_page[n]
       /\ node_checkpoint[n] # NoCheckpoint =>
            /\ node_checkpoint'[n] = node_checkpoint[n]
            /\ checkpoint_state'[node_checkpoint[n]] = checkpoint_state[node_checkpoint[n]]

\* K/V is written only to pages that a single request refers to and the radix
\* cache does not own: an attached page is immutable (lfm2.rs "Immutable
\* prefix pages").  Clearing a page that becomes free is the model's.
SharedPagesImmutable == [][WritesOwnPagesOnly]_cache_vars

\* What the radix cache has learnt it keeps: a node never changes its page, a
\* checkpoint is never replaced and its state never overwritten (radix.rs has
\* no eviction; attached rows rely on it).
RadixIsStable == [][KeepsRadix]_cache_vars
=============================================================================
