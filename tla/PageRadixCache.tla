---------------------------- MODULE PageRadixCache ----------------------------
(***************************************************************************)
(* The radix prefix cache of src/cache/radix.rs, a tree over page-sized    *)
(* token blocks.  A node is named by the token prefix that leads to it, so *)
(* the tree is two functions on the set of its nodes: the page a node owns *)
(* and the convolution checkpoint it refers to.  The children of a node    *)
(* are the nodes one block longer.  Statistics and access times are left   *)
(* out: nothing reads them, the cache has no eviction.                     *)
(***************************************************************************)
EXTENDS KvPageAllocator, Sequences

CONSTANTS
  RadixBudget,   \* max_cached_pages
  NoCheckpoint   \* checkpoint_slot: None

ASSUME RadixBudgetAssumption == RadixBudget \in Nat \ {0}

VARIABLES
  node_page,       \* prefix -> physical page owned by that node
  node_checkpoint  \* prefix -> checkpoint slot of that node, or NoCheckpoint

radix_vars == <<node_page, node_checkpoint>>

radix_nodes == DOMAIN node_page

\* Mutant: a page is identified by its own tokens alone.
BlockOnly(seq, k) == SubSeq(seq, (k - 1) * PageSize + 1, k * PageSize)

\* The first k pages of a token sequence.
Prefix(seq, k) == SubSeq(seq, 1, k * PageSize)

\* The walk from the root reaches the node of the first k pages.
HasPath(seq, k) == \A j \in 1 .. k : Prefix(seq, j) \in radix_nodes

\* That node refers to a checkpoint.
HasCheckpoint(seq, k) ==
  /\ k > 0
  /\ HasPath(seq, k)
  /\ node_checkpoint[Prefix(seq, k)] # NoCheckpoint

RadixInit ==
  /\ node_page = << >>
  /\ node_checkpoint = << >>

(* lookup_checkpoint: k pages is the deepest prefix of at most m pages     *)
(* that has a checkpoint; no hit is k = 0.                                 *)
IsDeepestCheckpoint(seq, m, k) ==
  /\ k \in 0 .. m
  /\ k # 0 => HasCheckpoint(seq, k)
  /\ \A j \in k + 1 .. m : ~HasCheckpoint(seq, j)

\* The pages lookup_checkpoint returns for a hit of k pages.
PathPages(seq, k) == [j \in 1 .. k |-> node_page[Prefix(seq, j)]]

\* The pages of the prefix that have no node yet.
MissingPages(seq, k) == {j \in 1 .. k : Prefix(seq, j) \notin radix_nodes}

\* Mutant: a prefix that has a checkpoint may get another one.
CanPublishAgain(seq, k) ==
  /\ k > 0
  /\ k * PageSize <= Len(seq)
  /\ Cardinality(radix_nodes) + Cardinality(MissingPages(seq, k)) <= RadixBudget

(* can_publish for a prefix of k whole pages.                              *)
CanPublish(seq, k) ==
  /\ k > 0
  /\ k * PageSize <= Len(seq)
  /\ ~HasCheckpoint(seq, k)
  /\ Cardinality(radix_nodes) + Cardinality(MissingPages(seq, k)) <= RadixBudget

\* Mutant: nodes that exist take over the pages of the publishing request.
InsertReplacingPages(seq, k, row, checkpoint) ==
  LET path == {Prefix(seq, j) : j \in 1 .. k}
  IN  /\ node_page' =
           [n \in radix_nodes \cup path |->
              IF n \in path THEN row[CHOOSE j \in 1 .. k : n = Prefix(seq, j)] ELSE node_page[n]]
      /\ node_checkpoint' =
           [n \in radix_nodes \cup path |->
              IF n = Prefix(seq, k) THEN checkpoint
              ELSE IF n \in radix_nodes THEN node_checkpoint[n]
              ELSE NoCheckpoint]

(* insert_checkpoint: a node per missing page, owning the page the request *)
(* computed; nodes that exist keep theirs.  The checkpoint goes to the     *)
(* last node.                                                              *)
InsertCheckpoint(seq, k, row, checkpoint) ==
  LET missing == MissingPages(seq, k)
      added   == {Prefix(seq, j) : j \in missing}
      all     == radix_nodes \cup added
  IN  /\ node_page' =
           [n \in all |->
              IF n \in radix_nodes
              THEN node_page[n]
              ELSE row[CHOOSE j \in missing : n = Prefix(seq, j)]]
      /\ node_checkpoint' =
           [n \in all |->
              IF n = Prefix(seq, k) THEN checkpoint
              ELSE IF n \in radix_nodes THEN node_checkpoint[n]
              ELSE NoCheckpoint]
=============================================================================
