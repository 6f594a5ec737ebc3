-------------------------------- MODULE GpuBatch --------------------------------
(***************************************************************************)
(* What a model step tells the GPU: the metadata of GpuBatch               *)
(* (src/scheduler/batch.rs), packed into one upload, scattered by the      *)
(* kernel behind MetadataKernels (src/cuda/kernels/metadata.rs), and the   *)
(* device copy of the block tables, as BatchModelCache fills them          *)
(* (src/model/lfm2_base.rs, src/model/lfm2.rs).                            *)
(*                                                                         *)
(* Memory is a sequence of 4-byte words <<part, value>>; an i64 takes two. *)
(* Pages are numbers, since a K/V slot is computed from one.  Uploads and  *)
(* kernels of one stream run in order, so a step is prepared in one step   *)
(* of the model; a failure inside one ends the thread that owns the batch. *)
(* The arrays are read by the forward pass that follows at once; what they *)
(* hold after it, or past the words last written, reads as Stale.          *)
(***************************************************************************)
EXTENDS Integers, Sequences, FiniteSets, SequencesExt, FiniteSetsExt, StepLayout

CONSTANTS
  RequestSlots,      \* number of request slots
  MaximumTokens,     \* token capacity of a step
  BlockTableStride,  \* pages of a block-table row
  PageSize,          \* tokens of a page
  PhysicalPages      \* pages of the pool

ASSUME BatchAssumption ==
  /\ {RequestSlots, MaximumTokens, BlockTableStride, PageSize, PhysicalPages} \subseteq Nat \ {0}
  /\ RequestSlots <= MaximumTokens

VARIABLES
  table,           \* host block tables: slot -> row of pages, NoPage past its end
  allocated,       \* allocated_tokens: slot -> tokens that have a place
  published,       \* pages the prefix cache keeps
  block_tables,    \* device block tables, rows one after the other
  device,          \* array -> words scattered into it by the last step
  shape,           \* array -> its logical length
  step,            \* the step being run, << >> between steps
  prefill          \* flags that choose the attention kernel

row_vars == <<table, allocated, published, block_tables>>
batch_vars == <<device, shape, step, prefill>>
vars == <<row_vars, batch_vars>>

Slots == 0 .. RequestSlots - 1
Pages == 0 .. PhysicalPages - 1
NoPage == -1
DivCeil(n) == (n + PageSize - 1) \div PageSize

U32(n) == <<"u32", n>>
I64(n) == <<<<"low", n>>, <<"high", n>>>>
Padding == <<"pad", 0>>
Stale == <<"stale", 0>>
Words(seq) == [i \in DOMAIN seq |-> U32(seq[i])]
LongWords(seq) == [i \in 1 .. 2 * Len(seq) |-> I64(seq[(i + 1) \div 2])[2 - (i % 2)]]

PerToken == {"token_ids", "positions", "request_slots", "physical_slots"}
PerSegment == {"segment_slots", "output_rows"}
Arrays == PerToken \cup PerSegment \cup {"segment_offsets"}

Nothing == [a \in Arrays |-> << >>]

Capacity(a) == CASE a \in PerToken -> MaximumTokens
                 [] a \in PerSegment -> RequestSlots
                 [] OTHER -> RequestSlots + 1

NoPrefill == [contiguous |-> FALSE, segmented |-> FALSE, longest |-> 0]

Init ==
  /\ table = [s \in Slots |-> [i \in 1 .. BlockTableStride |-> NoPage]]
  /\ allocated = [s \in Slots |-> 0]
  /\ published = {}
  /\ block_tables = [i \in 1 .. RequestSlots * BlockTableStride |-> 0]
  /\ device = Nothing
  /\ shape = [a \in Arrays |-> Capacity(a)]
  /\ step = << >>
  /\ prefill = NoPrefill

\* Between steps nothing is left of the last one but the shapes.
StepOver ==
  /\ device' = Nothing
  /\ step' = << >>
  /\ prefill' = NoPrefill
  /\ UNCHANGED shape

Held == published \cup UNION {Range(table[s]) : s \in Slots}
Free == Pages \ Held

\* update_block_table_range: entries replace the pages after the first `from`
\* of a row.
UploadRange(tables, s, from, entries) ==
  [i \in DOMAIN tables |->
     LET at == i - s * BlockTableStride - from
     IN  IF at \in 1 .. Len(entries) THEN entries[at] ELSE tables[i]]

-----------------------------------------------------------------------------
(* The rows between steps.                                                 *)

\* attach_prefix and extend_attached_prefix: the row takes over the cached
\* pages beyond those it has, which are all full.
AttachPrefix(s, pages) ==
  LET have == allocated[s] \div PageSize
      row  == [i \in 1 .. BlockTableStride |->
                 IF i \in have + 1 .. Len(pages) THEN pages[i] ELSE table[s][i]]
  IN  /\ allocated[s] = have * PageSize
      /\ have < Len(pages)
      /\ SubSeq(pages, 1, have) = SubSeq(table[s], 1, have)
      /\ table' = [table EXCEPT ![s] = row]
      /\ allocated' = [allocated EXCEPT ![s] = Len(pages) * PageSize]
      /\ block_tables' = UploadRange(block_tables, s, have, SubSeq(row, have + 1, Len(pages)))
      /\ StepOver
      /\ UNCHANGED published

\* publish_prefix_checkpoint at a full page: the prefix cache keeps the pages.
Publish(s) ==
  /\ allocated[s] > 0
  /\ allocated[s] % PageSize = 0
  /\ published' = published \cup (Range(table[s]) \ {NoPage})
  /\ StepOver
  /\ UNCHANGED <<table, allocated, block_tables>>

\* release: the host row is emptied; the device row keeps what it had.
Release(s) ==
  /\ allocated[s] > 0
  /\ table' = [table EXCEPT ![s] = [i \in 1 .. BlockTableStride |-> NoPage]]
  /\ allocated' = [allocated EXCEPT ![s] = 0]
  /\ StepOver
  /\ UNCHANGED <<published, block_tables>>

\* prime_context, which a benchmark uses on empty slots.
PrimeContext(s, tokens, fresh) ==
  LET row == [i \in 1 .. BlockTableStride |->
                IF i <= DivCeil(tokens) THEN fresh[i] ELSE table[s][i]]
  IN  /\ allocated[s] = 0
      /\ table' = [table EXCEPT ![s] = row]
      /\ allocated' = [allocated EXCEPT ![s] = tokens]
      /\ block_tables' = UploadRange(block_tables, s, 0, SubSeq(row, 1, DivCeil(tokens)))
      /\ StepOver
      /\ UNCHANGED published

-----------------------------------------------------------------------------
(* A step: a sequence of segments [slot, tokens] of different slots, whose *)
(* tokens are the next ones of their slot.                                 *)

Brought(segments) == [k \in DOMAIN segments |-> segments[k].tokens]

\* The rows of a step as <<slot, position>>, the tokens' identity.
RowsOf(segments) ==
  LET layout == Layout(Brought(segments))
  IN  [i \in DOMAIN layout |->
        LET s == segments[layout[i][1]].slot IN <<s, allocated[s] + (layout[i][2] - 1)>>]

Offsets(segments) ==
  [k \in 1 .. Len(segments) + 1 |-> RowsBefore(Brought(segments), k)]

TokensOfStep(segments) == Offsets(segments)[Len(segments) + 1]

AlignUp8(words) == 2 * ((words + 1) \div 2)

\* update_step: the words of the tokens; the i64 part starts 8-byte aligned.
PackTokens(token_ids, positions, request_slots, physical_slots) ==
  LET words == Words(token_ids) \o Words(positions) \o Words(request_slots)
  IN  words \o [i \in 1 .. AlignUp8(Len(words)) - Len(words) |-> Padding]
            \o LongWords(physical_slots)

\* Segments that need pages and the positions of the row they need.
NewPages(segments) ==
  {at \in Slots \X (1 .. BlockTableStride) : \E k \in DOMAIN segments :
     /\ segments[k].slot = at[1]
     /\ at[2] \in DivCeil(allocated[at[1]]) + 1 .. DivCeil(allocated[at[1]] + segments[k].tokens)}

\* The attention layers may use the prefill kernels, which read no cache, only
\* when every segment starts its sequence.
PrefillFlags(segments) ==
  LET first     == \A k \in DOMAIN segments : allocated[segments[k].slot] = 0
      tokens    == TokensOfStep(segments)
      segmented == Len(segments) > 1 /\ first /\ tokens > 1
  IN  [contiguous |-> Len(segments) = 1 /\ first /\ tokens > 1,
       segmented  |-> segmented,
       longest    |-> IF segmented THEN Max({segments[k].tokens : k \in DOMAIN segments}) ELSE 0]

PackedWords(tokens, segments) == AlignUp8(3 * tokens) + 2 * tokens + 3 * segments + 1

\* mutant: the kernel does not skip the padding.
ScatterUnaligned(packed, tokens, segments) ==
  LET physical == 3 * tokens
      offsets  == physical + 2 * tokens
      slots    == offsets + segments + 1
      word(base, n) == SubSeq(packed, base + 1, base + n)
  IN  [token_ids |-> word(0, tokens), positions |-> word(tokens, tokens),
       request_slots |-> word(2 * tokens, tokens),
       physical_slots |-> [i \in 1 .. tokens |-> word(physical + 2 * (i - 1), 2)],
       segment_offsets |-> word(offsets, segments + 1),
       segment_slots |-> word(slots, segments),
       output_rows |-> word(slots + segments, segments)]

\* scatter_batch_metadata: where the kernel finds each array in the words.
Scattered(packed, tokens, segments) ==
  LET physical == AlignUp8(3 * tokens)
      offsets  == physical + 2 * tokens
      slots    == offsets + segments + 1
      word(base, n) == SubSeq(packed, base + 1, base + n)
  IN  [token_ids |-> word(0, tokens), positions |-> word(tokens, tokens),
       request_slots |-> word(2 * tokens, tokens),
       physical_slots |-> [i \in 1 .. tokens |-> word(physical + 2 * (i - 1), 2)],
       segment_offsets |-> word(offsets, segments + 1),
       segment_slots |-> word(slots, segments),
       output_rows |-> word(slots + segments, segments)]

\* mutant: the page is looked up once for all the tokens of a segment.
SlotInFirstPage(rows, token) ==
  rows[token[1]][allocated[token[1]] \div PageSize + 1] * PageSize + (token[2] % PageSize)

\* The K/V slot of a token <<slot, position>>.
PhysicalSlot(rows, token) ==
  rows[token[1]][token[2] \div PageSize + 1] * PageSize + (token[2] % PageSize)

\* The step of some segments over given rows.
StepOf(segments, rows) ==
  LET steps     == RowsOf(segments)
      column(c) == [i \in DOMAIN steps |-> steps[i][c]]
  IN  [token_ids |-> steps, positions |-> column(2), request_slots |-> column(1),
       physical_slots |-> [i \in DOMAIN steps |-> PhysicalSlot(rows, steps[i])],
       segment_offsets |-> Offsets(segments),
       segment_slots |-> [i \in DOMAIN segments |-> segments[i].slot],
       output_rows |-> [i \in DOMAIN segments |-> Offsets(segments)[i + 1] - 1]]

\* prepare_tokens: pages are taken and sent as the tokens need them.
RowsAfter(fresh) ==
  [s \in Slots |-> [i \in 1 .. BlockTableStride |->
     IF <<s, i>> \in DOMAIN fresh THEN fresh[<<s, i>>] ELSE table[s][i]]]

NewTokens(segments, s) ==
  IF \E k \in DOMAIN segments : segments[k].slot = s
  THEN segments[CHOOSE k \in DOMAIN segments : segments[k].slot = s].tokens
  ELSE 0

TablesAfter(segments, rows) ==
  [i \in DOMAIN block_tables |->
     LET s  == (i - 1) \div BlockTableStride
         at == ((i - 1) % BlockTableStride) + 1
     IN  IF <<s, at>> \in NewPages(segments) THEN rows[s][at] ELSE block_tables[i]]

PrepareTokens(segments, fresh) ==
  \E rows \in {RowsAfter(fresh)} :
    /\ table' = rows
    /\ allocated' = [s \in Slots |->
         allocated[s] + NewTokens(segments, s)]
    /\ block_tables' = TablesAfter(segments, rows)
    /\ step' = StepOf(segments, rows)
    /\ UNCHANGED published

\* The logical shape of every array follows the step.
ShapesOf(tokens, segments) ==
  [a \in Arrays |-> CASE a \in PerToken -> tokens
                      [] a \in PerSegment -> segments
                      [] OTHER -> segments + 1]

\* update_step and update_segments: one upload of all the words, and the
\* shapes of this step.
Upload(new) ==
  LET tokens   == Len(new.token_ids)
      segments == Len(new.segment_slots)
  IN  \E packed \in {PackTokens(new.token_ids, new.positions, new.request_slots,
                                new.physical_slots)
                     \o Words(new.segment_offsets) \o Words(new.segment_slots)
                     \o Words(new.output_rows)} :
        /\ tokens <= MaximumTokens
        /\ Len(packed) = PackedWords(tokens, segments)
        /\ Len(packed) <= PackedWords(MaximumTokens, RequestSlots)
        /\ device' = Scattered(packed, tokens, segments)
        /\ shape' = ShapesOf(tokens, segments)

\* prepare_decode (one token a segment, never prefill kernels) and
\* prepare_ragged.
Prepare(segments, decode, fresh) ==
  /\ decode => \A k \in DOMAIN segments : segments[k].tokens = 1
  /\ PrepareTokens(segments, fresh)
  /\ Upload(step')
  /\ prefill' = IF decode THEN NoPrefill ELSE PrefillFlags(segments)

-----------------------------------------------------------------------------
Fits(segments) ==
  /\ segments # << >>
  /\ TokensOfStep(segments) <= MaximumTokens
  /\ \A i, j \in DOMAIN segments : segments[i].slot = segments[j].slot => i = j
  /\ \A i \in DOMAIN segments :
       DivCeil(allocated[segments[i].slot] + segments[i].tokens) <= BlockTableStride

Steps ==
  {segments \in SeqOf([slot : Slots, tokens : 1 .. MaximumTokens], RequestSlots) : Fits(segments)}

\* Which free page an allocation gets.  The free list is a stack; the order
\* in which pages come back to it does not matter here.
Taken(needed) ==
  {fresh \in [needed -> Free] : \A x, y \in needed : fresh[x] = fresh[y] => x = y}

PrepareStep ==
  \E segments \in Steps : \E decode \in BOOLEAN, fresh \in Taken(NewPages(segments)) :
    Prepare(segments, decode, fresh)

Next ==
  \/ \E s \in Slots :
       \/ \E pages \in SeqOf(published, BlockTableStride) :
            IsInjective(pages) /\ AttachPrefix(s, pages)
       \/ Publish(s)
       \/ Release(s)
       \/ \E tokens \in 1 .. BlockTableStride * PageSize :
            \E fresh \in Taken(1 .. DivCeil(tokens)) : PrimeContext(s, tokens, fresh)
  \/ PrepareStep

Spec == Init /\ [][Next]_vars

-----------------------------------------------------------------------------
Logical(a) == [i \in 1 .. shape[a] |-> IF i \in DOMAIN device[a] THEN device[a][i] ELSE Stale]

\* Arrays stay within their capacity.
BatchTypeOK ==
  /\ table \in [Slots -> [1 .. BlockTableStride -> Pages \cup {NoPage}]]
  /\ allocated \in [Slots -> 0 .. BlockTableStride * PageSize]
  /\ published \subseteq Pages
  /\ block_tables \in [1 .. RequestSlots * BlockTableStride -> Pages]
  /\ \A a \in Arrays : shape[a] <= Capacity(a) /\ Len(device[a]) <= Capacity(a)

\* What the kernels read is the step that was handed over, no more and no
\* less, for every number of tokens and segments (batch.rs update_step and
\* update_segments pack what kernels/metadata.cu unpacks, each computing the
\* offsets for itself).
StepDelivered ==
  step # << >> =>
    /\ \A a \in Arrays \ {"physical_slots"} : Logical(a) = Words(step[a])
    /\ Logical("physical_slots") = [i \in DOMAIN step.physical_slots |-> I64(step.physical_slots[i])]

\* Every page of a live sequence is in the device row of its slot, whatever
\* requests used the slot before and however the page came to the row.
DeviceRowsMatch ==
  \A s \in Slots : \A i \in 1 .. DivCeil(allocated[s]) :
    block_tables[s * BlockTableStride + i] = table[s][i]

\* Where a step stores the K/V of a token is where attention will look for it
\* through the device row; no two tokens of a step are stored in one place, and
\* none in a page that another sequence or the prefix cache can read.
StoredWhereRead ==
  [][step' # << >> =>
       /\ \A i \in DOMAIN step'.token_ids :
            LET position == step'.positions[i]
                slot     == step'.request_slots[i]
                page     == block_tables'[slot * BlockTableStride + position \div PageSize + 1]
            IN  /\ step'.physical_slots[i] = page * PageSize + (position % PageSize)
                /\ page \notin published
                /\ \A s \in Slots \ {slot} : page \notin Range(table'[s])
       /\ IsInjective(step'.physical_slots)]_vars

\* The prefill kernels see all the keys of every segment: each one starts at
\* position 0 and none is longer than the launch is sized for.
PrefillSeesWholeSequence ==
  step # << >> /\ (prefill.contiguous \/ prefill.segmented) =>
    \A k \in DOMAIN step.segment_slots :
      LET first == step.segment_offsets[k]
      IN  /\ step.positions[first + 1] = 0
          /\ prefill.contiguous => Len(step.segment_slots) = 1
          /\ prefill.segmented => step.segment_offsets[k + 1] - first <= prefill.longest

\* A row has a page for every token that has a place, each page once.
RowsFilled ==
  \A s \in Slots : \A i \in 1 .. BlockTableStride :
    /\ table[s][i] # NoPage <=> i <= DivCeil(allocated[s])
    /\ \A j \in 1 .. DivCeil(allocated[s]) : table[s][i] = table[s][j] => i = j

\* The page that the next token of a row goes to is the row's own: neither the
\* prefix cache nor another row has it.
OpenPagePrivate ==
  \A s \in Slots : allocated[s] % PageSize # 0 =>
    LET page == table[s][DivCeil(allocated[s])]
    IN  /\ page \notin published
        /\ \A r \in Slots \ {s} : page \notin Range(table[r])

\* The kernels of a step see the step the owner prepared, in full, and the rows
\* of its requests (BatchMetadata::update_step, update_segments and the table
\* updates of Lfm2BatchModelCache).
StepSound ==
  /\ BatchTypeOK /\ RowsFilled /\ OpenPagePrivate
  /\ StepDelivered /\ DeviceRowsMatch /\ PrefillSeesWholeSequence
=============================================================================
