--------------------------- MODULE AttentionDispatch ---------------------------
(***************************************************************************)
(* How one attention layer computes a step: which kernels the forward      *)
(* passes of src/model/lfm2_base.rs and src/model/decode_executor.rs       *)
(* choose, and which keys every row of those kernels (src/kernels) reads.  *)
(*                                                                         *)
(* A row is a token of the step: its cache slot, its position, and the     *)
(* first row of its segment.  A part of an answer is the set of keys one   *)
(* block attends to; keys whose K/V has not been stored yet are not in it. *)
(* Kernels of one stream run one after the other, and the rows of a kernel *)
(* that only reads the cache do not disturb each other, so such a kernel   *)
(* is one step.  The fused kernel stores its row's K/V between reads, with *)
(* nothing ordering its blocks: each of its rows takes three steps.        *)
(***************************************************************************)
EXTENDS Integers, Sequences, SequencesExt, FiniteSets, FiniteSetsExt, Functions, AttentionPolicy,
        StepLayout

CONSTANTS
  Slots,        \* request slots of the paged cache
  Starts,       \* lengths a cached sequence may have when a run begins
  Lengths,      \* rows a segment may bring to a step
  PageSizes,    \* page sizes of the cache
  Callers,      \* the forward passes a run takes
  MaxAppended,  \* bound on the rows of the caller "append"
  Passes        \* bound on the steps of a run

ASSUME DispatchAssumption ==
  /\ Slots # {} /\ Slots \subseteq Nat /\ IsFiniteSet(Slots)
  /\ Starts \subseteq Nat /\ Lengths \subseteq Nat \ {0}
  /\ PageSizes \subseteq {16, 32} /\ Passes \in Nat /\ MaxAppended \in Nat
  /\ Callers \subseteq {"single", "verify", "append", "batch", "executor"}

VARIABLES
  page_size,  \* tokens of a page
  flash,      \* flash_prefill_enabled()
  length,     \* slot -> tokens of its sequence
  unwritten,  \* keys <<slot, position>> of the step that are not in the cache yet
  caller,     \* the forward pass under way, "none" between steps
  rows,       \* the rows of the step
  kernels,    \* kernels still to run, the running one first
  block,      \* row -> how far its block of the fused kernel is
  attended,   \* row -> the parts it attended to
  passes      \* steps begun

attention_vars == <<page_size, flash, length, unwritten, caller, rows, kernels, block, attended, passes>>

Kernel(kind, splits) == [kind |-> kind, splits |-> splits]
Kinds == {"write", "fused", "paged", "splitk", "prefill", "flash", "segmented", "hybrid"}
Write == Kernel("write", 1)
Idle == caller = "none"
Done == ~Idle /\ kernels = << >>
Running(kind) == kernels # << >> /\ Head(kernels).kind = kind
Key(row) == <<row.slot, row.position>>

AttentionInit ==
  /\ page_size \in PageSizes /\ flash \in BOOLEAN
  /\ length \in [Slots -> Starts]
  /\ unwritten = {} /\ rows = << >> /\ kernels = << >>
  /\ caller = "none" /\ block = << >> /\ attended = << >> /\ passes = 0
--------------------------------------------------------------------------------
(* Choosing the kernels *)

\* The rows of segments brought by slots, in slot order.
RowsOf(count) ==
  LET layout == Layout(count)
  IN [i \in DOMAIN layout |->
       [slot |-> layout[i][1], position |-> length[layout[i][1]] + (layout[i][2] - 1),
        begin |-> i - (layout[i][2] - 1)]]

ContextTokens(sequence) == Max({row.position : row \in Range(sequence)}) + 1
Segments(sequence) == Cardinality({row.begin : row \in Range(sequence)})
Prefill == Kernel(IF flash THEN "flash" ELSE "prefill", 1)

\* A sequence of its own cache, from its start or one token at a time.
SingleRoute(sequence) ==
  IF sequence[1].position = 0 /\ Len(sequence) > 1 THEN <<Write, Prefill>>
  ELSE IF should_use_mok_one_kernel(page_size, ContextTokens(sequence), 1)
  THEN <<Kernel("fused", 1)>>
  ELSE <<Write, Kernel("paged", 1)>>

VerifyRoute(sequence) == <<Write, Kernel("paged", 1)>>

BatchRoute(sequence) ==
  IF Segments(sequence) = Len(sequence)
  THEN IF should_use_mok_one_kernel(page_size, ContextTokens(sequence), Len(sequence))
       THEN <<Kernel("fused", 1)>> ELSE <<Write, Kernel("paged", 1)>>
  ELSE IF Segments(sequence) = 1 /\ sequence[1].position = 0 THEN <<Write, Prefill>>
  ELSE IF Segments(sequence) > 1 /\ flash
          /\ \A row \in Range(sequence) : sequence[row.begin].position = 0
  THEN <<Write, Kernel("segmented", 1)>>
  ELSE <<Write, Kernel("hybrid", 1)>>

ExecutorRoute(sequence) ==
  LET splits == splitk_decode_splits(Len(sequence), ContextTokens(sequence), page_size)
  IN IF should_use_mok_one_kernel(page_size, ContextTokens(sequence), Len(sequence))
     THEN <<Kernel("fused", 1)>>
     ELSE <<Write, Kernel(IF splits > 1 THEN "splitk" ELSE "paged", splits)>>

Route(who, sequence) ==
  CASE who \in {"single", "append"} -> SingleRoute(sequence)
    [] who = "verify" -> VerifyRoute(sequence)
    [] who = "batch" -> BatchRoute(sequence)
    [] who = "executor" -> ExecutorRoute(sequence)

\* What each caller brings: a prompt or one token; drafted tokens; the next
\* tokens of a recorded text; any mix of segments; one token of each request.
Brings(who, count) ==
  CASE who = "single" -> \E s \in Slots : /\ DOMAIN count = {s}
                                          /\ length[s] = 0 \/ count[s] = 1
    [] who \in {"verify", "append"} -> \E s \in Slots : /\ DOMAIN count = {s}
                                                        /\ length[s] > 0 /\ count[s] > 1
                                                        /\ who = "append" => count[s] <= MaxAppended
    [] who = "batch" -> TRUE
    [] who = "executor" -> Range(count) = {1}

Launch(who, count) ==
  /\ Idle /\ passes < Passes /\ Brings(who, count)
  /\ \E sequence \in {RowsOf(count)} :
       /\ rows' = sequence
       /\ kernels' = Route(who, sequence)
       /\ unwritten' = {Key(row) : row \in Range(sequence)}
       /\ block' = [i \in DOMAIN sequence |-> "waiting"]
       /\ attended' = [i \in DOMAIN sequence |-> << >>]
  /\ caller' = who /\ passes' = passes + 1
  /\ UNCHANGED <<page_size, flash, length>>
--------------------------------------------------------------------------------
(* Running them *)

\* Keys of positions from .. to - 1 of a slot that are in the cache.
Cached(slot, from, to) == ({slot} \X (from .. to - 1)) \ unwritten

PagesOf(row) == row.position \div page_size + 1
PageRange(row, first, end) ==
  Cached(row.slot, first * page_size, Min({end * page_size, row.position + 1}))

\* mutant: the page between two splits belongs to both
SplitOverlapping(row, splits) ==
  [s \in 1 .. splits |-> PageRange(row, (PagesOf(row) * (s - 1)) \div splits,
                                   Min({(PagesOf(row) * s) \div splits + 1, PagesOf(row)}))]

SplitParts(row, splits) ==
  [s \in 1 .. splits |-> PageRange(row, (PagesOf(row) * (s - 1)) \div splits,
                                   (PagesOf(row) * s) \div splits)]

\* Rows of the segment that the tile of row i reads, rows counted from begin.
TiledRows(i, begin, count, query_tile, key_tile) ==
  LET row == i - begin
      bound == Min({(row \div query_tile) * query_tile + query_tile, count})
      tiles == CeilDiv(bound, key_tile)
  IN {begin + k : k \in {k \in 0 .. tiles * key_tile - 1 : k <= row /\ k < count}}

SegmentLength(begin) == Cardinality({j \in DOMAIN rows : rows[j].begin = begin})
LongestSegment == Max({SegmentLength(row.begin) : row \in Range(rows)})
KeysOf(indices) == {Key(rows[j]) : j \in indices}

SegmentedParts(i) ==
  IF (i - rows[i].begin) \div 16 < CeilDiv(LongestSegment, 16)
  THEN <<KeysOf(TiledRows(i, rows[i].begin, SegmentLength(rows[i].begin), 16, 16))>> ELSE << >>

\* The cached prefix of the segment, then its own rows.
HybridParts(i) ==
  LET offset == i - rows[i].begin
  IN IF rows[i].position < offset THEN << >>
     ELSE <<Cached(rows[i].slot, 0, rows[i].position - offset), KeysOf(rows[i].begin .. i)>>

Parts(kernel, i) ==
  CASE kernel.kind = "paged" -> <<PageRange(rows[i], 0, PagesOf(rows[i]))>>
    [] kernel.kind = "splitk" -> SplitParts(rows[i], kernel.splits)
    [] kernel.kind = "prefill" -> <<KeysOf(TiledRows(i, 1, Len(rows), 2, 32))>>
    [] kernel.kind = "flash" -> <<KeysOf(TiledRows(i, 1, Len(rows), 16, 16))>>
    [] kernel.kind = "segmented" -> SegmentedParts(i)
    [] kernel.kind = "hybrid" -> HybridParts(i)

StoreAll ==
  /\ Running("write")
  /\ unwritten' = unwritten \ {Key(row) : row \in Range(rows)}
  /\ kernels' = Tail(kernels)
  /\ UNCHANGED <<page_size, flash, length, caller, rows, block, attended, passes>>

AttendAll ==
  /\ kernels # << >> /\ ~Running("write") /\ ~Running("fused")
  /\ attended' = [i \in DOMAIN rows |-> Parts(Head(kernels), i)]
  /\ kernels' = Tail(kernels)
  /\ UNCHANGED <<page_size, flash, length, unwritten, caller, rows, block, passes>>

\* A block of the fused kernel copies the first page of its row ...
StageFirstPage(i) ==
  /\ Running("fused") /\ block[i] = "waiting"
  /\ block' = [block EXCEPT ![i] = "staged"]
  /\ attended' = [attended EXCEPT ![i] = <<PageRange(rows[i], 0, 1) \ {Key(rows[i])}>>]
  /\ UNCHANGED <<page_size, flash, length, unwritten, caller, rows, kernels, passes>>

\* ... stores the K/V of the row, and keeps a copy ...
StoreOwn(i) ==
  /\ Running("fused") /\ block[i] = "staged"
  /\ block' = [block EXCEPT ![i] = "stored"]
  /\ unwritten' = unwritten \ {Key(rows[i])}
  /\ UNCHANGED <<page_size, flash, length, caller, rows, kernels, attended, passes>>

\* ... which replaces what was staged of a single page, or reads the other pages.
RestOf(i) ==
  IF PagesOf(rows[i]) = 1 THEN {Key(rows[i])} ELSE PageRange(rows[i], 1, PagesOf(rows[i]))

AttendRest(i) ==
  /\ Running("fused") /\ block[i] = "stored"
  /\ block' = [block EXCEPT ![i] = "finished"]
  /\ attended' = [attended EXCEPT ![i] = Append(@, RestOf(i))]
  /\ kernels' = IF \A j \in DOMAIN rows \ {i} : block[j] = "finished" THEN Tail(kernels) ELSE kernels
  /\ UNCHANGED <<page_size, flash, length, unwritten, caller, rows, passes>>

\* The step is over: the sequences are longer by their rows.
FinishStep ==
  /\ Done
  /\ length' = [s \in Slots |-> length[s] + Cardinality({i \in DOMAIN rows : rows[i].slot = s})]
  /\ caller' = "none" /\ rows' = << >> /\ unwritten' = {}
  /\ block' = << >> /\ attended' = << >>
  /\ UNCHANGED <<page_size, flash, kernels, passes>>

AttentionNext ==
  \/ \E who \in Callers, S \in (SUBSET Slots) \ {{}} :
       \E count \in [S -> Lengths] : Launch(who, count)
  \/ StoreAll \/ AttendAll \/ FinishStep
  \/ \E i \in DOMAIN rows : StageFirstPage(i) \/ StoreOwn(i) \/ AttendRest(i)

--------------------------------------------------------------------------------
(* Properties *)

\* Types; keys that are not in the cache are keys of the step.
AttentionTypeOK ==
  /\ page_size \in PageSizes /\ flash \in BOOLEAN /\ length \in [Slots -> Nat]
  /\ caller \in Callers \cup {"none"} /\ passes \in 0 .. Passes
  /\ rows \in Seq([slot : Slots, position : Nat, begin : Nat])
  /\ unwritten \subseteq {Key(row) : row \in Range(rows)}
  /\ kernels \in Seq([kind : Kinds, splits : 1 .. SPLITK_MAX_SPLITS])
  /\ DOMAIN attended = DOMAIN rows /\ DOMAIN block = DOMAIN rows

\* Whatever kernels a step takes, every row attends to each position of its
\* own sequence up to its own exactly once, and to nothing else: no key that a
\* row of the same launch has yet to store, none of another request, none
\* twice where two splits or a prefix and a segment meet.  Excepted are rows
\* appended to a short sequence of a single-request cache, as calibration does
\* (runner.rs:1409): they take the fused kernel of a single row and race.
RacingRows(who, sequence) ==
  who = "append" /\ should_use_mok_one_kernel(page_size, ContextTokens(sequence), 1)

Racing == RacingRows(caller, rows)

AttendsToWholePastOnce ==
  Done /\ ~Racing => \A i \in DOMAIN rows :
    LET parts == attended[i]
    IN /\ UNION Range(parts) = {rows[i].slot} \X (0 .. rows[i].position)
       /\ \A j, k \in DOMAIN parts : j # k => parts[j] \cap parts[k] = {}

\* A step leaves the K/V of every one of its rows in the cache, whichever
\* kernel was to store it: the next step reads them from there.
LeavesCacheComplete == Done => unwritten = {}

\* The partial results of a split launch fit the workspace that was sized for
\* the request slots before the first step (splitk_workspace_elements).
PartialsFit ==
  \A kernel \in Range(kernels) : kernel.kind = "splitk" =>
    Len(rows) * 32 * kernel.splits * SPLITK_PARTIAL_STRIDE
      <= splitk_workspace_elements(Cardinality(Slots))

\* The rows of a step are the next tokens of their slots, each segment in one
\* piece and each slot with one segment (prepare_ragged, lfm2_base.rs).
LaidOut(sequence) ==
  \A i \in DOMAIN sequence :
    /\ sequence[i].begin \in 1 .. i
    /\ \A j \in sequence[i].begin .. i : sequence[j].slot = sequence[i].slot
    /\ \A j \in DOMAIN sequence :
         sequence[j].slot = sequence[i].slot <=> sequence[j].begin = sequence[i].begin
    /\ sequence[i].position = length[sequence[i].slot] + (i - sequence[i].begin)

\* Each kernel is launched on rows it is made for: prompts from their start for
\* those that read no cache, lone rows for the fused one.
FromStart(sequence) == \A i \in DOMAIN sequence : sequence[sequence[i].begin].position = 0

LoneRows(sequence) == \A i \in DOMAIN sequence : sequence[i].begin = i

Suits(kernel, who, sequence) ==
  /\ kernel.splits \in (IF kernel.kind = "splitk" THEN 2 .. SPLITK_MAX_SPLITS ELSE {1})
  /\ kernel.kind = "splitk" => LoneRows(sequence)
  /\ kernel.kind = "fused" /\ ~RacingRows(who, sequence) => LoneRows(sequence)
  /\ kernel.kind \in {"prefill", "flash", "segmented"} => FromStart(sequence)
  /\ kernel.kind \in {"prefill", "flash"} => \A i \in DOMAIN sequence : sequence[i].begin = 1

\* How far a block of the fused kernel is shows in its parts and in the cache.
FirstPart(row) == ({row.slot} \X {p \in 0 .. row.position : p < page_size}) \ {Key(row)}

RestPart(row) ==
  IF PagesOf(row) = 1 THEN {Key(row)} ELSE {row.slot} \X (page_size .. row.position)

BlockParts(stage, row) ==
  CASE stage = "waiting" -> << >>
    [] stage \in {"staged", "stored"} -> <<FirstPart(row)>>
    [] stage = "finished" -> <<FirstPart(row), RestPart(row)>>

FusedInProgress ==
  /\ kernels = <<Kernel("fused", 1)>>
  /\ \A i \in DOMAIN rows : block[i] \in {"waiting", "staged", "stored", "finished"}
  /\ \E i \in DOMAIN rows : block[i] # "finished"
  /\ unwritten = {Key(rows[i]) : i \in {i \in DOMAIN rows : block[i] \in {"waiting", "staged"}}}
  /\ ~Racing => \A i \in DOMAIN rows : attended[i] = BlockParts(block[i], rows[i])

\* The K/V of a step is stored before any other kernel reads it.
StoredFirst ==
  kernels # << >> /\ ~Running("fused") =>
    \/ /\ Len(kernels) = 2 /\ kernels[1] = Write /\ kernels[2].kind \notin {"write", "fused"}
    \/ Len(kernels) = 1 /\ kernels[1].kind # "write" /\ unwritten = {}

StepInProgress ==
  /\ LaidOut(rows)
  /\ rows # << >> <=> ~Idle
  /\ Idle => kernels = << >>
  /\ \A kernel \in Range(kernels) : Suits(kernel, caller, rows)
  /\ StoredFirst
  /\ Running("fused") => FusedInProgress

\* The attention of a step is that of its tokens' whole past, and leaves what the
\* next step needs (the routes of lfm2_base.rs and decode_executor.rs with the
\* kernels they launch).
AttentionSound ==
  /\ AttentionTypeOK /\ StepInProgress
  /\ AttendsToWholePastOnce /\ LeavesCacheComplete /\ PartialsFit
================================================================================
