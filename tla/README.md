# TLA+ models of the LFM2.5 inference engine

This directory models the inference engine in `src/`: the HTTP frontend, the
thread that owns the GPU with its scheduler, the paged KV cache with its radix
prefix cache, and what a step does on the device beneath them; and the
speculative decoding of the single-request engine. The models are checked with
TLC on small instances. For every value of the constants, TLAPS proves the cache,
the owner's loop and what it promises the tasks, the planner, speculative decoding,
the reuse of device memory and the convolution correct (section 4).

Paths below are relative to `src/src/`, unless they begin with `kernels/`,
`docs/` or `scripts/`, which are relative to `src/`.

## 1. Inventory

### Components, their state and their operations

| component | state | operations |
|---|---|---|
| KV page allocator, `cache/allocator.rs` | free stack, reference counts, reserved and cached counters | reserve, release reservation, retain, pin, grow, release |
| Radix prefix cache, `cache/radix.rs` | tree over page-sized token blocks; a page and perhaps a checkpoint per node | longest/probe lookup, `can_publish`, `insert_checkpoint`; no eviction |
| Batch cache, `model/lfm2_base.rs`, `model/lfm2.rs`, with `cache/block_table.rs` and `model/prefix.rs` | block-table rows, reservations, allocated tokens, K/V arena, convolution states, checkpoint pool | reserve, attach prefix, extend prefix, prepare tokens, publish prefix, release |
| Slots and requests, `scheduler/slots.rs`, `scheduler/request.rs` | free slots, phase, prefilled count, token sequence per slot | acquire, initialize, push token, release |
| Planner, `scheduler/planner.rs`, and cost curves, `scheduler/cost_model.rs` | the plan of a step | schedule within the step budget; tail-pressure mode |
| GPU-owner loop, `engine/serving/radix_owner.rs`, `engine/serving_base.rs` | admission channel, response states, everything above | admit, refresh, plan, forward, publish, sample, finish, stop |
| HTTP frontend, `server/mod.rs`, `server/routes.rs` | one task per connection | submit, stream, hold back text that may become a stop word, answer |
| Single-request engine, `engine/runner.rs` with `generation/*` and `cache/kv_cache.rs` | contiguous cache, history, drafter | generate, draft, verify, roll back |
| GPU batch, `scheduler/batch.rs` | packed step metadata, pending count | update step, update segments |
| Decode executor, `model/decode_executor.rs` | captured graphs per bucket | dispatch, capture, replay |
| Runtime, kernels, operators, `cuda/`, `ops/`, `tensor/` | device memory, buffer pools | launches and copies |
| Offline tools, `benchmark/`, `model/calibration.rs`, `evaluation.rs`, ... | reports | load generation, calibration |

### How they interact

Tasks of the frontend (or of the benchmark driver) call
`ServingHandle::try_submit`, which puts a `PreparedRequest` into a bounded
channel together with a one-shot sender for the answer and, for a streamed
answer, an unbounded sender for tokens. A single thread owns the GPU and every
cache structure. It drains the channel, lets requests that have not run take
over prefixes published since they were admitted, asks the planner for a step,
runs it as one ragged batch, publishes prefix boundaries, samples, streams, and
finishes requests. There are no locks: concurrency is between this thread and
the tasks; the difficulty inside the thread is that one request's state is
spread over five structures which are updated one after the other, and that
requests share pages and checkpoints.

### What is hard, and what makes each component correct

* Allocator: four methods change reference counts independently. Correct if a
  page's count is the number of its references, a page is free exactly when
  nothing refers to it, and a reservation is a promise: growth, long after
  admission, never fails.
* Radix cache: two requests may compute the same prefix at the same time and
  both publish it. Correct if a node keeps its page and checkpoint for ever and
  owns a page of its own.
* Batch cache: attention reads K/V through a row that another request filled,
  and continues from a convolution state another request produced. Correct if
  both are those of the reader's own tokens.
* Owner: every `?` in its loop ends the thread and with it all requests.
  Correct if a request can make a check fail at its own admission at most, if the
  ledgers agree between steps, if every accepted request gets exactly one answer consistent
  with what was streamed, and if the thread ends cleanly.
* Planner: chunks are fitted one after the other into what the decodes leave of a
  time budget, as predicted by curves measured at a few points. Correct if it
  plans only work that exists and fits, predicts without cliffs, and starves no one.
* Frontend: the text of a prefix of the tokens is not a prefix of the text, stop
  words span tokens, and the client may stop reading or leave at any time. Correct if
  the text
  streamed is the text an unstreamed answer has, no stop word is sent, JSON is
  recovered, and a connection stays open only for a client that stalls.
* GPU batch: host and kernel compute the layout of one buffer separately, and a
  device row outlives the request that filled it. Correct if the kernels read the
  step that was prepared and store K/V where they will look for it.
* Attention: a dozen kernels are chosen by measured thresholds; each divides the
  keys of a row in its own way. Correct if every key is attended to once.
* Convolution: a state of two values is carried over every cut of a text.
  Correct if it is what decoding token by token would have left.
* Decode executor: recorded launches are replayed later, over reused buffers.
  Correct if a replay is what a direct pass would do.
* Buffer pools: storages are handed on before the device is done with them.
  Correct because there is one stream, and only while that order holds.
* Single-request engine: correct if speculative decoding yields what greedy
  decoding does.

PROJECT.json lists the hazards at their lines, with the properties that cover
them.

## 2. Modules

```
KvPageAllocator  <-  PageRadixCache  <-  BatchModelCache  <-  RadixOwner
                                                                 |
                                                           ServingContract (refined)

CostModel  <-  Planner      } <-  MCPlanner
           <-  CostCurves   }

StopWords, HttpRequests, StructuredOutput  <-  Frontend  <-  MCFrontend
                                                  |
                                           ServingContract (instantiated)

AttentionPolicy, StepLayout  <-  AttentionDispatch  }
                                 ShortConv          } <-  DeviceKernels
                                 BufferPool         }
AttentionPolicy  <-  DecodeExecutor  <-  MCDecodeExecutor
StepLayout       <-  GpuBatch
NgramDrafter     <-  SpeculativeDecode  <-  MCSpeculativeDecode

BatchModelCache    <-  BatchModelCache_proofs  }
RadixOwner                                     } <-  RadixOwner_proofs
StepLayout         <-  Extrema_proofs
Extrema_proofs     <-  Speculative_proofs      (with SpeculativeDecode)
Extrema_proofs     <-  Planner_proofs          (with Planner)
Extrema_proofs     <-  DeviceKernels_proofs    (with DeviceKernels)
Extrema_proofs     <-  GpuBatch_proofs         (with GpuBatch)
Extrema_proofs     <-  DecodeExecutor_proofs   (with DecodeExecutor)
```

An arrow reads "is extended by". The modules called `MC...` give the instances
TLC explores. A definition marked `mutant` is a plausible mistake in the
definition that follows it; nothing uses it, and replacing the one by the other
breaks a property (PROJECT.json, "mutants").

The parts meet at their promises. `Frontend` runs against any engine that keeps
`ServingContract`, which `RadixOwner` is shown to refine; `RadixOwner` leaves the
choice of a step open, and `PlanSound`, proved for the planner, says that what it
assumes of a plan is what the planner gives; `BatchModelCache` says which tokens the K/V of a page
belong to, and `GpuBatch`, `AttentionDispatch` and `ShortConv` that the device
stores and reads them so.

### KvPageAllocator, PageRadixCache

Each gives the state of one data structure and, per method, its guard (what the
early returns amount to) and its effect. They have no next-state relation of
their own, because in the code several methods always run inside one operation
of `BatchModelCache`, with nothing in between. The free stack is a set, as the
order pages are handed out in is irrelevant; a radix node is named by the token
prefix that leads to it, so the tree is a pair of functions.

### BatchModelCache

One action per operation on behalf of a slot:

| action | code |
|---|---|
| `Admit` | `reserve_private_pages`, `SequenceRequest::initialize`, `attach_prefix` |
| `ExtendAttachedPrefix` | `extend_attached_prefix` |
| `PrepareTokens` | `prepare_tokens` and the layers' writes in `forward_prepared_batch` |
| `PushToken` | `SequenceRequest::push_token` |
| `PublishPrefix` | `publish_prefix_checkpoint` |
| `Release` | `BatchModelCache::release`, `RequestSlots::release` |

Numbers are abstracted to what they were computed from. The K/V at a place of a
page, a slot's convolution state and a captured checkpoint are each the token
sequence they depend on. Attention over the wrong page, or a state restored at
the wrong boundary, is then a sequence that is not the request's own. Pages that
become free are cleared in the model (the GPU leaves them), so a stale table
entry shows up as a wrong value rather than as a lucky one.

### RadixOwner

The owner's loop with `pc` for the stage of a turn, composed with the cache by
calling its operations (`EXTENDS`), and with the tasks. `Fail(why)` stands for
an error leaving the loop. What depends on time is a choice: `Plan` may pick any
set of waiting prefills with any chunk the planner tries, `EmptyPlan` is the sleep
when nothing fits the budget. Sampled tokens are arbitrary.

| action | code |
|---|---|
| `RejectHead` | `admit_request_radix` answers with an error: sampling not greedy, predicted latency, sequence too long, no slot, a failed attachment |
| `OverflowHead` | `checked_add` of prompt and limit fails, and `?` leaves the loop |
| `AdmitHead` | the slot, the reservation and `initialize`; a refused reservation and an empty prompt leave the loop |
| `Drained` | the end of the drain: a turn, `blocking_recv`, or the end of the thread |
| `Refresh`, `Refreshed` | `refresh_unscheduled_prefixes` |
| `Plan`, `EmptyPlan` | `Scheduler::schedule`, `split_prefill_at_reusable_boundary` |
| `Forward` | the forward pass, segment by segment |
| `TakePrefill`, `Sample` | publication of the boundary; a sampled token, its stream, the end of a generation |
| `Answer`, `Vacate` | `finish_request`: first the answer, then cache and slot |
| `GpuError` | a CUDA error at any GPU call, also where a failed attachment clears its slot |
| `Submit`, `DropStream`, `CloseChannel` | the tasks, between any two steps |

### ServingContract

What the tasks are promised: one answer per request; a completion whose tokens
are those streamed (one more if the reader had gone away), which respects the
limit and contains no end-of-sequence token; a rejection only before anything
was streamed; answers lost only all at once, when the owner fails. `RadixOwner`
refines it through the mapping `Contract`.

### NgramDrafter, SpeculativeDecode

`NgramDrafter` is the drafter as a function of the history: the deepest suffix
that occurred before, and among what followed it the most frequent continuation,
the latest among equals. `SpeculativeDecode` is the loop of `generate_impl`, one
action for each way a turn can go:

| action | code |
|---|---|
| `StopAtEos`, `FinishAtLimit` | the two `break`s before a draft is asked for |
| `DecodeOne` | no draft: `forward_logits_profiled` over one token, `Sampler::sample` |
| `Verify` | `forward_logits_speculative`, acceptance, cooldown, `rollback_speculative`, emission of the accepted tokens |

A token that went through the model is an entry: the token and the precision it
was computed in. The K/V of a position and the convolution state are the entries
they depend on, the K/V of rejected drafts staying in memory. The language model
is any function of the last `Depth` entries (`model`, chosen once); a pass that
sees K/V or a state not belonging to one history may predict anything, so a wrong
roll back shows up in the output. Sampling is the argmax: temperature zero and
no repetition penalty. Kernels are taken to give the same numbers for one token
as for several of the same precision.

### CostModel, CostCurves, Planner

`CostModel` is the prediction as a function of a list of measured points:
dominating points, interpolation between contexts and between batches,
extrapolation. Milliseconds are fractions, so that nothing depends on rounding.
`CostCurves` states what a prediction must satisfy over all loads of a bounded
size and all monotone profiles over a two-by-two grid.

`Planner` is `Scheduler::schedule` in the loop that uses it. `Turn` computes the
plan, runs it and lets time pass; `Arrive` puts a request in a free slot. A plan
is a sequence of prefill chunks beside all decodes. `TailPlan` is the mode for
long contexts under load, `PackedPlan` the normal one. The loop that packs chunks is
described by its result: `Grants` is the set of assignments in which each of the
order has the greatest chunk that fits after those before it, which is one
assignment. Sums of tokens are cardinalities. Arrival and deadlines are
kept as the age of a request, which saturates where the planner stops telling
ages apart.

### HttpRequests, StopWords, StructuredOutput, Frontend

`HttpRequests` is what the parsers make of a request: route, limit, stop words,
whether to stream, whether JSON was asked for, whom the instruction is given to.
`StopWords` is text in bytes: characters of one and two bytes, broken characters,
matching, hold-back, the delta of a text to what has been emitted, and the cut of
an unstreamed answer. `StructuredOutput` is `clean_structured_output` over
brackets, fences and words.

`Frontend` is one connection with its task, its client and the engine:

| action | code |
|---|---|
| `Unreadable`, `AnswerAtOnce` | `read_request` fails; the route needs no engine or the body is refused |
| `Submit` | `try_submit`, and the headers of a stream |
| `ReceiveToken`, `ChannelEnds` | a turn of the loop over `token_receiver.recv()`; its end |
| `FinishStream` | the answer, the final flush, usage, `[DONE]` |
| `AnswerWhole` | `execute_generation_task` with its response formats |
| `ClientLeaves` | any time; a write may still succeed for a while |
| `ClientStalls`, `ClientReturns` | any time; `read_request` and `write_all` wait meanwhile, as they have no timeout |
| `StreamToken`, `CompleteRequest`, `RejectRequest`, `LoseEngine` | the engine, as `ServingContract` allows |

A panic (a slice inside a character) ends the task: the connection closes and the
receiver is dropped.

### StepLayout, GpuBatch

`StepLayout` is the order of the rows of a step: the tokens of a segment come after
those of the segments before it. Row and offset are given by counting the tokens in
front, which is what the code's running sums come to.

The rows of `FixedBlockTables`, their copy on the device, and the packed buffer:
`PrepareStep` builds the arrays of a step, `PackTokens` and `Upload` lay them out
as 32-bit words, and `Scattered` unpacks the words with the offsets the kernel
computes. Rows are attached, published, primed and released between steps. In the
code the two updates of a step are separate calls; a failure between them ends
the owner, so they are one action. `PhysicalSlot` is the one place where a token's
K/V slot is computed from the host row; attention computes it again from the device
row.

### AttentionPolicy, AttentionDispatch

The policies with their thresholds, and the route a forward pass takes through
them. A part of an answer is the set of keys one block reads; kernels that only
read the cache take one step, the fused kernel three for each of its rows, in any
order, because nothing orders its blocks. `flash` stands for
`flash_prefill_enabled`, to which `should_use_flash_prefill` adds only that there
are tokens. With `LFM25_SPLITK_ATTENTION=off` one token takes the paged kernel, which
the contexts below the split-K threshold exercise.

### ShortConv, BufferPool, DeviceKernels

`ShortConv` follows the state through segmented passes, single passes,
verification with its recorded history, roll back and release; a gated value is
the text it was computed from, in f32 or rounded. `BufferPool` has the host's
`Operate` and `Drop` against the device's `RunKernel`, which runs later. The
size class of a storage is the exponent of the least power of two that is large
enough; `MaxClass` is the greatest (`usize::BITS - 1` in the code). `Holds` says
that when a waiting kernel gets its turn, a storage will contain what a tensor's
own kernel put there.
`DeviceKernels` puts the three parts of a step on the device in one
specification: they share no data, so a behaviour follows one of them while the
others are at rest.

### DecodeExecutor

A pass is a list of operations with the buffers they read and write. The host
(`Issue`) goes through them, checks and sets logical shapes and issues launches;
the device (`Execute`) computes a value only if its operands hold the values the
network wants. `ForwardOps`, `Issued` and `Run` are recursive functions over the layers, the
operations and the launches, so that they can be proved about. `Direct`, `Capture` and `Replay` are the three ways a step is run.

## 3. Runs

| run | instance | checks |
|---|---|---|
| `batch_model_cache` | 5 pages of 2 tokens, 2 slots with rows of 4, 2 radix nodes, 2 checkpoints, three prompts that share two, one or no pages | page accounting, K/V and state soundness, no failing check, stability of the radix cache, immutability of shared pages |
| `radix_owner` | any 3 of 5 requests, among them one whose length overflows and one without a prompt; 2 slots with rows of 3, queue of 2, 4 pages of 2 tokens, 1 radix node, 1 checkpoint; one stream, one request that ignores end-of-sequence | ledgers, faults, cleanliness, publication of the boundary, graceful stop, refinement of `CacheSpec` and of `ServingContract` |
| `radix_owner_live` | 3 requests, two of them of two chunks, one of two tokens, for 2 slots and a queue of 1; 4 pages, no symmetry | every accepted request is answered; the thread ends |
| `kv_refusal` | as `radix_owner` | a violation: see Findings |
| `speculative_decode` | all 256 models of two tokens with a context of 3, all prompts of 3 or 4 tokens, with and without `ignore_eos`, 7 new tokens, n-grams of 2 or 3, drafts of up to 3 | the result is that of greedy decoding; caches hold nothing of a rejected draft; the cache never overflows |
| `planner` | 3 slots, pages of 2 tokens, chunks of 1, 2, 4, a step budget of 6 ms, prompts of up to 6 tokens, some cached; for the curves all monotone profiles of 1, 2 or 5 ms over batches 1, 3 and contexts 2, 6, at the load of the state and up to 4 and 8 | plans fit budget and batch and are what the owner assumes; predictions; order; no starvation |
| `frontend` | over 400 requests: streams of up to 4 tokens with stop words of 2 and 3 bytes, one with a two-byte character, requests of every other kind, a JSON answer of up to 5 symbols; 7 tokens, among them halves of a character and a tag | text never early, past a stop word or lost; what the last chunk reports; JSON; the connection closes unless its client stalls |
| `frontend_done` | as `frontend` | a violation: see Findings |
| `gpu_batch` | 2 slots with rows of 2 pages of 2 tokens, 3 pages, steps of up to 3 tokens | the device sees the step and the rows; K/V is stored where it is read, never in a shared page |
| `device_kernels` | attention: 2 slots, sequences of 0 to 1023 tokens on either side of every threshold, segments of 1, 2 and 17 rows, pages of 16 and 32; convolution: 2 slots and the single cache, texts of up to 3 tokens; pool: sizes 1 to 3, 4 tensors, 3 kernels waiting | every key once, K/V stored, workspace large enough; taps and states; no operand overwritten |
| `decode_executor` | attention, convolution, attention; FP8 copies of 6 weights; 1 to 3 tokens; 14 contexts around the thresholds | a step computes the network, advances each state once, allocates nothing while recording; a replay is what a direct pass would issue |
| `speculative_fp8` | as `speculative_decode` with a context of 1, 6 new tokens and an FP8 policy | a violation: see Findings |

**Why these bounds.** Two slots are what it takes for requests to share a page,
to compute the same prefix side by side and for one to be refreshed by the other;
a third request reuses a slot. Two tokens a page give pages that are partly
filled, full, and crossed by a chunk. Rows of 4 and limits of 1 and 2 put growth
both before and after a page boundary. The radix budget and the checkpoint pool
are small enough to run out in every instance. In `batch_model_cache` five pages
are fewer than two full rows need, so admission is refused in some states. In
`radix_owner` the request of one prompt token and four new ones takes three of the four
pages: beside one that takes two it is refused, which ends the thread (`kv_refusal`),
while two that take two each fit together. `MaxUsize` is 6, so that 3 prompt tokens and a limit of 4 overflow, and
1 and 4 do not. `ThreeSubmitted` bounds the requests of one behaviour: two in the slots
and one that waits or reuses a slot. The counters have no bound of their own: limits on
requests bound them. In `radix_owner_live` three requests wait for two slots and
for one place in the queue, a prompt is computed in chunks and waits between two of
them, and a request decodes beside the prefill of another.

In `speculative_decode` the context of a model is longer than the shortest
n-gram, so that what followed an n-gram once need not follow it again: drafts
are accepted, accepted in part and rejected, also after others were accepted, the
cooldown is entered and left, and an accepted draft ends the generation. The
engine's n-grams are 3 to 5 tokens long; with those, a context of at least 4
would be needed for the same cases.

In `planner` three slots are a decode beside two prefills that compete; the budget
is reached by decodes alone, by one chunk and by two. Of the grid of batches 1 and 3,
two lies strictly between and four beyond, and of the contexts 2 and 6 three to five
and seven and eight, so that predictions are measured, interpolated in either direction
and in both, and extrapolated. In `frontend` four tokens
are a stop word spread over tokens, held back, then contradicted; five symbols are
a value in a code fence. In `gpu_batch` three tokens make the packed arrays odd,
even and padded. `device_kernels` takes one step per run (`Passes`), from every
start, because a step leaves only lengths and a complete cache behind
(`LeavesCacheComplete`); the sequence lengths are one below a page or threshold,
so that a segment of 1, 2 or 17 ends at it, just past it or well past it;
`MaxAppended` bounds the rows of a racing kernel. A text of three tokens in
segments of up to two has every tap filled from a state, from a register and from
the zeros before it.

**Symmetry.** Slots, pages and checkpoint slots are interchangeable in the safety
runs: no definition orders them, and `CHOOSE` is applied only to sets with one
element or to indices.

**Deadlock** is not checked for `RadixOwner`: the owner legitimately waits in
`blocking_recv` and stops. `OwnerStops` and `EveryRequestAnswered` say what
waiting is not allowed. `batch_model_cache` checks it. A run of
`SpeculativeDecode` ends with its request. A connection ends, the device parts
reach their bounds, and are not checked for deadlock either; `GpuBatch`,
`DecodeExecutor` and `MCPlanner` are.

**Fairness.** `FairOwnerSpec` assumes `WF(OwnerStep)`, the owner being a thread of
its own that runs whenever it can, and `SF(Plan)`: a plan is not empty for ever.
The latter is the statement that a one-token prefill fits the step budget, which
the code does not check for a given hardware profile; the hazard list has the
case that it does not. Nothing is assumed of the tasks, nor of CUDA errors.
`PlannerSpec` assumes that the owner takes its next turn, `FrontendSpec` that the
runtime runs a task that can go on and that the engine answers, the latter being
what `EveryRequestAnswered` and `OwnerStops` show of the owner. Nothing is assumed
of the client: a task whose client stalls can neither read a request nor write, and
`EveryConnectionCloses` leaves out just the clients that stall for ever or over and
over. `EveryPromptComputed` replaces the assumption `SF(Plan)` for
profiles under which one token fits the budget, with one proviso: under tail
pressure a request whose prompt is cached but for a page is a tail at once and
goes before a long prefill however long that has waited, so an unlimited stream of
such requests starves it; `CachedArrivals` bounds them.

## 4. Proofs

Everything here holds for all constants that satisfy the named assumptions of the
modules: finite sets of pages and slots, a positive page size and radix budget,
prompts and limits that are each a `usize` (a prompt may be empty, and their sum may be
none), positive limits, a drafter's n-grams of at least one token, and
so on. TLC evaluates the assumptions in every run.

| module | theorem | states |
|---|---|---|
| `BatchModelCache_proofs` | `TypeCorrect`, `PageInvariant` | the types of all variables; `PageInv` |
| | `ReferenceCountsExact` | a page's count is the number of places that name it (`RefsExact`) |
| | `NoLeakNoDoubleUse` | a page is free exactly if nothing names it (`FreeIffUnreferenced`) |
| | `AdmissionIsSufficient` | an admitted request can always grow (`GrowthCovered`) |
| | `CacheInvariant` | `CacheInv` |
| | `AttendsToOwnTokens` | every row reads the K/V of its own tokens (`KvMatchesTokens`) |
| | `ConvolutionFollowsKv` | a slot's convolution state is at the place of its K/V (`ConvMatchesTokens`) |
| | `OwnerNeverRefused` | no check inside the cache's operations fails (`ChecksHold`) |
| | `AttachedPagesImmutable` | no step writes a page that somebody else reads (`SharedPagesImmutable`) |
| | `RadixOnlyGrows` | a node keeps its page and its checkpoint (`RadixIsStable`) |
| `RadixOwner_proofs` | `OwnerInvariant` | `OwnerInv`, with the cache's invariant |
| | `OwnerUsesCacheCorrectly` | `OwnerSpec` implements `CacheSpec` (`UsesCacheCorrectly`) |
| | `OnlyTheseFaults` | the owner ends with an error only for a CUDA error or at the admission of a request whose length overflows, whose prompt is empty or whose reservation is refused; a check in the refresh, the step or the publication never fails (`OnlyKnownFaults`) |
| | `LedgersAlwaysAgree` | slots, responses and cache rows agree (`LedgersAgree`) |
| | `BoundaryIsPublished` | a prompt's reusable pages are published or a limit is reached (`BoundaryPublished`) |
| | `StopsGracefully`, `IdleEngineIsClean` | the owner stops only after every answer; at rest it holds nothing but the radix cache (`GracefulStop`, `IdleIsClean`) |
| | `OwnerImplementsContract` | `OwnerSpec` implements the safety of `ServingContract` (`ImplementsContract`) |
| `Speculative_proofs` | `SpeculativeInvariant`, `RollBackIsExact`, `CapacitySuffices` | `SpeculativeInv`; after a roll back the caches hold the accepted tokens only (`StateExact`); the capacity check never fails (`FitsCapacity`) |
| | `OutputIsGreedy` | with `UniformPrecision`, the output is that of decoding one by one (`GreedyOutput`) |
| `Planner_proofs` | `PlansAreSound` | for any profile, chunks, slots and requests, a plan keeps its prefill within the step budget, fits the metadata of the device batch and asks only for work that exists (`PlanSound`) |
| | `PrefillsOldestFirst` | without tail pressure no prefill is passed over for a younger one that is not overdue (`OldestFirst`) |
| `DeviceKernels_proofs` | `PoolIsSound` | every kernel reads what its operands' own kernels wrote, although storages are handed on while kernels wait (`PoolSound`) |
| | `ConvolutionIsSound` | a text cut into any passes is convolved as in one: each output weighs the values of its own position and the taps before it, and the states, live and recorded, are those of decoding token by token (`ConvolutionSound`) |
| | `AttentionIsSound` | whichever kernels the dispatch chooses, every row attends to each key of its past once, K/V is stored before another row needs it, and partial results fit the workspace (`AttentionSound`) |
| `GpuBatch_proofs` | `StepIsSound` | the kernels read the step that was prepared and the rows of its requests, for any number of tokens, segments and pages (`StepSound`) |
| | `StoredIsRead` | the K/V of a token is stored where attention looks for it, alone, and in no page that others read (`StoredWhereRead`) |
| `DecodeExecutor_proofs` | `ExecutorIsSound` | for any number and kinds of layers, any set of FP8 copies and any sequence of steps, each step computes the network for its tokens and advances each layer once, no shape check fails, and no graph is ever out of date (`ExecutorSound`) |
| | `ReplaysAreDirect` | what a replay launches is what a direct pass would launch now (`ReplayIsDirect`) |

`Extrema_proofs` has the lemmas about least and greatest elements of sets of
numbers, products, and the layout of the rows of a step, that the last ones rest on. The library's induction theorems take an
operator as a parameter and cannot be used with the installed provers; where an
induction is needed (the result of decoding one by one, a text that equals
another up to its first difference, a class that is large enough, a pass of as many
operations as there are layers to make them), the set of counterexamples has a least
element, and that element is refuted.

### The cache: PageInv, then ContentInv

`RefsExact` by itself is not inductive: releasing a
row is only right if the row names pages that are in use, and publishing only if
the page being pinned is not in the tree yet. `PageInv` therefore adds the shape
of a slot (`SlotShape`: rows are filled exactly up to the allocated tokens), that
a private page has a single place (`PrivateUnique`), that the others come from
the radix cache (`SharedCached`), that nodes own distinct pages
(`NodesDistinct`), and that a cached page in a row sits at the node of that row's
own prefix (`NodeMatch`). The last is what excludes publishing a page twice
when two requests race for the same prefix.

*Why growth cannot fail.* `try_reserve_pages` compares reservations plus cached
pages with the pool. A page published by a live request is counted on both sides,
so the sum the code keeps can exceed the pool although it compares it only at
admission. What is invariant is `Budget`: reservations *less the positions whose
page the radix cache has taken over*, plus cached pages, fit the pool. The
comment in `allocator.rs` that shared pages are charged once is thus true of
attached pages and not of published ones until their publisher finishes; the
check errs on the side of refusing. `GrowthCovered` follows from `Budget` by
counting: used pages are private positions and cached pages, disjointly.

The contents need three facts beyond the properties the runs name: the tree has no
gap (`PathClosed`), the page of a node holds the K/V of the end of the node's
prefix (`NodeContent`), and a checkpoint holds the state after that prefix and is
not free (`CheckpointContent`). With them a step that attaches or extends a prefix
hands a slot exactly its own tokens. `PageInv` and `ContentInv` together are
`CacheInv`, which the run `batch_model_cache` checks.

### The owner

`OwnerInv` relates the stage of a turn, the work lists, the phase of each slot,
what has been sampled and what has been sent. Three relations carry the
argument. Between steps a decoding slot is exactly one token ahead of its cache
(`DecodeOK`), so that its next pass has one token and ends before its limit. A
waiting request is in exactly one of three places, queue, slot or answer
(`RequestOK`), so that no failure short of the thread's end can lose one. And no
chunk of a prefill crosses the last reusable boundary (`BoundaryOK`), so that
there is a moment to publish it. With `CacheInv` they supply the guard of every
cache operation at the point where the owner calls it: each of the owner's steps
is one step of the cache or leaves it alone, which gives `UsesCacheCorrectly`,
and of the owner's own error exits only those at admission are taken. `OnlyKnownFaults`
names them with the request: it is still unanswered, and its length, its prompt or the
pool as the thread left it are the reason.

The refinement of `ServingContract` follows step by step from `OwnerInv`: a step
changes the answer of at most one request, or is the end of the owner.

### Speculative decoding

Of a running request `SpeculativeInv` says that its convolution state is that of
decoding the history one by one, if precision is uniform. Roll back takes the
state recorded after the last accepted token; the proof is that accepted entries are those that decoding
one by one would have produced, token by token up to the first difference.
`OutputIsGreedy` has the hypothesis `UniformPrecision`: drafts are verified in the
precision single tokens are decoded in. It is true of every policy without FP8
and false of the FP8 one, for which the run `speculative_fp8` shows the output to
differ. The proof also shows that the reason `length` cannot arise inside a
verification: the draft is cut so that the limit is found at the top of the
loop.

### The planner

`PlannerTypeOK` is the inductive invariant; the rest is a property of the plans of any
state in which it holds. Three facts carry it. A prediction is always a
fraction with a positive denominator, inside the measured grid and outside it: there
is a nearest measured point because fractions are ordered, and every lookup is of a load the
slots and the longest request can make up. Grants are given to the first of the
order without a gap, each after those before it, so that the last chunk that was
compared with the budget is the whole prefill of the plan. And tails and decodes
are different slots, so that a step of tails, whose number no limit bounds, still has
room in a batch sized for all slots. That the younger of two is never served
alone is the same fact about gaps, with `OlderIsMoreUrgent`: urgency orders two
requests by age as long as the younger one's is not cut off at zero.
`PlansAsOwnerAssumes` is what `RadixOwner`'s `Plan` chooses from; that the two match is
read off the definitions and is not itself a theorem, as the modules share no state.

### The buffer pool

A storage goes back to the pool when the host drops its tensor, while kernels that
read it still wait on the stream. `KernelsReadTheirOperands` alone says nothing
about the kernels that wait. `PoolSound` includes that a storage has one owner,
a tensor or one place in the pool (`StoragesExclusive`), and that for each waiting
kernel, and for one issued now, the last to write an operand's storage before it is
the operand's own kernel (`ResultsInPlace`). A new kernel is behind all that wait,
so it can only overwrite what nothing in front of it will read again.
`PoolTypeOK` also says that `available_elements` counts exactly the elements the
pool holds, by which its limit is kept.

### The convolution

A pass is a window of two that moves over the values of the state followed by its
own (`Values`). What it leaves, and what it records after each token, are the last
two of a prefix of the text, whatever the length of the pass. A roll back makes
a recorded state the live one, so the recorded states belong to the invariant too
(`HistoryAsDecoded`).

### Attention

`AttentionSound` is inductive with three parts that say how a pass is under way. The
rows of a step are laid out in whole segments that continue their slots (`LaidOut`);
that the row list built from counts of tokens has this form is the lemma
`RowsOfLaidOut`. Each kernel of the queue suits these rows (`Suits`): a kernel that
reads no cache is launched only on texts from their start, a split or fused one only
on rows that are alone in their segment, which is shown route by route
(`RouteGood`). And K/V is stored before anything else reads it (`StoredFirst`),
or, while a fused kernel runs, each of its blocks shows in its parts and in the
cache how far it is (`FusedInProgress`). Given these, a row's parts are shown to
cover its past without overlap, once per way of dividing it: pages, splits, tiles,
a prompt's rows, a block's two halves (`PartsCover`, `FusedCovers`). Splits are the
one that needs arithmetic: cuts at multiples of pages ascend to the last page for
any number of splits. The exception `Racing` (section 5) is as wide in the theorem
as in the property.

### The batch metadata

`StepSound` has an inductive part about rows (`RowsSound` in the proofs: types,
`RowsFilled`, `OpenPagePrivate`, `DeviceRowsMatch`) and a part about the step just
prepared. That device rows match host rows is not inductive alone: a row that is
attached, primed or extended is sent from the first page that changes, so that one
must know where a row ends (`RowsFilled`). That a token is never written into a
page that another reads needs that the page a row is in the middle of is its own
(`OpenPagePrivate`): rows are attached and published at full pages only.

The packed buffer is followed part by part: appending keeps the parts that are there
(`PartsKept`), the kernel's offsets are those of the parts (`Unpacked`), with the
padding in front of the 8-byte words as the only case distinction, and a part read
back is the array that was packed (`UploadDelivers`). For `StoredWhereRead`, two
tokens of a step are either in one segment, at different positions of a row, or in
different slots, whose written pages differ (`StepStores`).

### The decode executor

A pass is a concatenation over the layers, followed by two folds over its
operations: the host's over shapes, the device's over contents. Both are followed
side by side, operation by operation. Of every part of a layer it is stated what it
must find and what it leaves: it starts with the residual and its normalisation,
of this layer and of the step's rows, in `hidden` and `normalized`, and ends so for
the next layer, whichever of the weights have an FP8 copy and whichever kernels
attend. Nothing is assumed of the other buffers, neither of what they hold nor of their
logical shapes: an operation that reads one has seen it written, in the same
pass. That is why buffers left behind by a larger or a replayed step do no
harm, and why the checks of shapes hold.

`ReplayIsDirect` is not inductive, as it speaks of the step just run only. The invariant says
of every graph that exists that a direct pass for any step of its bucket would issue
these launches now (`GraphsCurrent`), whatever the logical shapes are at the time: launches are
the same from any starting shapes, and all steps of a bucket have one token and
the same kernels and splits. `ReplaysRecorded` supplies that a replay had a graph.

### What only TLC checks

* Liveness (`EveryRequestAnswered`, `OwnerStops`, `EveryPromptComputed`,
  `EveryConnectionCloses`): fairness and `ENABLED` are beyond the prover.
* `TextSound`, `SameAsWhole`, `AnswerSound`, `JsonRecovered`: the frontend's texts are
  computed by recursion over their characters (decoding, matching, hold-back, nested
  brackets), and what a recursion computes for every text is an induction over data.
* `CurvesSound`: it quantifies over all profiles of a small grid of latencies, so
  that it is a statement about an instance. What the proofs about the planner need
  of predictions (that they are fractions at all, `PlansAreSound`) is proved.

## 5. Findings

`kv_refusal`: a reservation that is refused for want of pages
(`radix_owner.rs:664-670`) is meant to be answered with "KV admission rejected".
The slot acquired for it has not been initialized yet, so it is still `Free`, and
`RequestSlots::release` refuses to release a free slot; `?` carries the error out
of the loop and the owner thread ends with every pending request. It needs a pool
smaller than all slots may reserve, or one whose pages the radix cache holds.

`speculative_fp8`: the release report explains the differing output of
speculative decoding by state drift when rejected drafts are rolled back. The
roll back is exact (`StateExact`). What does differ, with an FP8 policy, is the
precision: one token is decoded in FP8, a draft is verified in BF16, because it
has more tokens than `maximum_fp8_batch`. The run shows a first draft accepted in
full whose tokens are not those of decoding one by one. (That kernels for one and
for several tokens round differently is another possible cause, which the model
leaves out.)

`frontend_done`: a streamed request gets its 200 headers right after `try_submit`.
If the owner turns it down when it comes to admit it (no free slot, a predicted
latency, a prompt too long), or is lost (`server/mod.rs:622`), the stream
ends without an error and without `[DONE]`: to the client, an empty answer.
`EndsWithDone`, part of `AnswerSound`, shows that this and the panic below are the
only ways to a stream without `[DONE]`.

Observed at the owner's and the tasks' boundary, and named in `OnlyKnownFaults` and
`EveryConnectionCloses`:

* The frontend does not bound `max_tokens` (`server/routes.rs:1316`); a limit
  whose sum with the prompt's length is no `usize` is an error of the owner's loop
  (`radix_owner.rs:586`) and ends every request, not only that one.
* A completion whose `prompt` is empty encodes to no tokens; `initialize` refuses
  it (`scheduler/request.rs:73`) and the owner's loop ends with that error
  (`radix_owner.rs:672`).
* No request waits for a slot: with none free the head of the queue is rejected
  (`RejectHead`); it waits only while the owner is in a step.
* Reading a request and writing an answer have no timeout (`server/mod.rs:849`, `402`):
  the connection of a client that stalls stays open.

Observed while modelling, and kept as an exception in the property that states
the rule, so that each exception is exactly as wide as the code makes it:

* A stop word with a character of several bytes makes `longest_stop_prefix_len`
  slice inside that character (`server/routes.rs:1305`) and panic as soon as a text
  is long enough and does not match: the stream breaks off (`EndsWithDone`).
* Of prose around an array of one object, `x [{}]`, only the object is sent:
  objects are looked for first (`server/routes.rs:1417`; `ArrayRecovered`).
* `} {` panics: the slice is taken before the order of the brackets is compared
  (`server/routes.rs:1419`), although line 1430 means to fall back to the text
  (`JsonRecovered`).
* The final flush of a stream whose text ended inside a character is not searched
  for stop words (`server/mod.rs:629`; `NoStopWordSent`).
* Several tokens appended to a sequence of up to 64 tokens in a single-request
  cache take the fused kernel of one token (`model/lfm2_base.rs:2243`), whose
  blocks race for each other's K/V (`Racing`). Only calibration and the FP8
  evaluation do so (`engine/runner.rs:1409`, `1702`); `docs/mok_benchmark.md:5` says
  that multi-token passes keep the old path.
* The convolution state is rounded between segments and not within
  (`kernels/short_conv.cu:184`), so that activations depend, in the last bits, on
  where the planner cuts a prompt; `docs/final_release_report.md:117` speaks of
  bitwise reproducible execution. `ConvolutionSound` compares states and the texts
  of the weighed values, and leaves their precision in the window open.

## 6. Not modelled, and what is left

Not modelled: the arithmetic of kernels and operators, quantization, calibration
and evaluation (their results are numbers), file formats, reading the bytes of an
HTTP request and the wording of answers, tokenization, metrics, the command line.
Random sampling is a random number and the repetition penalty arithmetic on
logits. Warm-up runs before the first request and gives back all it reserves. The
benchmark driver is a load generator, and a client of `RadixOwner` like any other.

Left to do, should the project go on: from the frontend `NoStopWordSent`, from lemmas
about hold-back stated for recursive functions instead of operators; and in the loop of the single-request
engine the repetition penalty, which the verification of drafts does not apply
(hazard at `engine/runner.rs:2111`) and which the model leaves out with the sampler's
arithmetic.
