------------------------------ MODULE RadixOwner ------------------------------
(***************************************************************************)
(* The GPU-owner thread of src/engine/serving/radix_owner.rs and the tasks *)
(* that submit requests to it.  One turn of its loop drains the admission  *)
(* channel, lets requests that have not run yet take over deeper cached    *)
(* prefixes, plans a step, runs it, hands out the sampled tokens and       *)
(* finishes requests; pc says how far the turn has got.  Submitting tasks  *)
(* and readers of token streams act between any two of its actions.        *)
(*                                                                         *)
(* Every call into the cache is the operation of BatchModelCache of that   *)
(* name.  A failing check in the code returns an error out of the loop and *)
(* ends the thread: Fail.  Timing is left out: the planner's choice is any *)
(* one its budget could produce, and a rejection for predicted latency may *)
(* happen to any request.                                                  *)
(***************************************************************************)
EXTENDS BatchModelCache

CONSTANTS
  Request,        \* requests, each submitted at most once
  PromptOf,       \* request -> its token_ids
  LimitOf,        \* request -> its maximum_new_tokens
  Streaming,      \* requests with a token stream
  IgnoreEos,      \* requests with stop_on_eos = false
  EosToken,       \* eos_token_id of the model
  Greedy,         \* requests whose sampling the continuous path accepts
  MaxUsize,       \* usize::MAX
  QueueCapacity,  \* queue_capacity of the admission channel
  Chunk,          \* prefill chunk sizes the planner tries
  NoRequest       \* response: None, and no item in hand

ASSUME OwnerAssumption ==
  /\ PromptOf \in [Request -> Prompt]
  /\ LimitOf \in [Request -> NewTokenLimit]
  /\ Streaming \subseteq Request /\ IgnoreEos \subseteq Request /\ Greedy \subseteq Request
  /\ EosToken \in Token
  /\ QueueCapacity \in Nat \ {0}
  /\ MaxUsize \in Nat
  /\ \A r \in Request : Len(PromptOf[r]) <= MaxUsize /\ LimitOf[r] <= MaxUsize
  /\ 1 \in Chunk /\ Chunk \subseteq Nat \ {0}
  /\ NoRequest \notin Request \cup Slot

VARIABLES
  pc,           \* how far the loop's turn has got, "stopped" or "failed"
  fault,        \* the check that ended the thread, "none" otherwise
  channel,      \* requests in the admission channel
  closed,       \* every ServingHandle has been dropped
  client,       \* request -> "idle", "waiting" or "refused"
  oneshot,      \* request -> what its response channel has carried
  stream_open,  \* requests whose stream still has a reader
  sent,         \* request -> tokens its stream has carried
  response,     \* slot -> request whose response sender it holds, or NoRequest
  phase,        \* slot -> "Free", "QueuedPrefill" or "Decoding"
  prefilled,    \* slot -> prompt tokens computed or attached
  scheduled,    \* slot -> first_scheduled.is_some()
  generated,    \* slot -> generated_tokens
  free_slots,   \* slots on the free stack
  work,         \* slot -> tokens of its segment in the current step
  forwarded,    \* slots whose segment is already in the cache
  current,      \* slot whose finished prefill is about to be sampled, or whose
                \* answered request is about to be released
  finished      \* slot -> finish reason decided in this step

client_vars == <<channel, closed, client, stream_open>>
answer_vars == <<oneshot, sent>>
slot_vars == <<response, phase, prefilled, scheduled, generated, free_slots>>
step_vars == <<work, forwarded, current, finished>>
owner_vars == <<pc, fault, client_vars, answer_vars, slot_vars, step_vars>>
vars == <<cache_vars, owner_vars>>

Empty == [kind |-> "empty", tokens |-> << >>, reason |-> "none"]
Rejected == [Empty EXCEPT !.kind = "rejected"]
Nothing == [s \in {} |-> 0]

\* work without the item of slot s.
Without(f, s) == [t \in DOMAIN f \ {s} |-> f[t]]

\* finished with the reason of slot s.
WithReason(f, s, why) == [t \in DOMAIN f \cup {s} |-> IF t = s THEN why ELSE f[t]]

OwnerInit ==
  /\ CacheInit
  /\ pc = "drain" /\ fault = "none"
  /\ channel = << >> /\ closed = FALSE
  /\ client = [r \in Request |-> "idle"]
  /\ oneshot = [r \in Request |-> Empty]
  /\ stream_open = Streaming
  /\ sent = [r \in Request |-> << >>]
  /\ response = [s \in Slot |-> NoRequest]
  /\ phase = [s \in Slot |-> "Free"]
  /\ prefilled = [s \in Slot |-> 0]
  /\ scheduled = [s \in Slot |-> FALSE]
  /\ generated = [s \in Slot |-> 0]
  /\ free_slots = Slot
  /\ work = Nothing /\ forwarded = {} /\ current = NoRequest /\ finished = Nothing

Running == pc \notin {"stopped", "failed"}
\* Mutant: the last prompt token is forgotten.
PromptLenMinusOne(s) == Len(PromptOf[response[s]]) - 1

PromptLen(s) == Len(PromptOf[response[s]])

\* An error returned out of the loop: the receiver and the response states are
\* dropped, and with them every response sender.
Fail(why) ==
  /\ pc' = "failed"
  /\ fault' = why
  /\ channel' = << >>
  /\ response' = [s \in Slot |-> NoRequest]
  /\ UNCHANGED <<cache_vars, closed, client, stream_open, answer_vars, phase, prefilled,
                 scheduled, generated, free_slots, step_vars>>

-----------------------------------------------------------------------------
(* The submitting tasks.                                                   *)

\* try_submit: refused when the channel is full or the receiver is gone.
Accepts == Running /\ Len(channel) < QueueCapacity

Submit(r) ==
  /\ client[r] = "idle" /\ ~closed
  /\ client' = [client EXCEPT ![r] = IF Accepts THEN "waiting" ELSE "refused"]
  /\ channel' = IF Accepts THEN Append(channel, r) ELSE channel
  /\ UNCHANGED <<cache_vars, pc, fault, closed, stream_open, answer_vars, slot_vars, step_vars>>

\* The connection task stops reading: a write failed or a stop word matched.
DropStream(r) ==
  /\ client[r] = "waiting" /\ r \in stream_open
  /\ stream_open' = stream_open \ {r}
  /\ UNCHANGED <<cache_vars, pc, fault, channel, closed, client, answer_vars, slot_vars,
                 step_vars>>

\* The frontend or the benchmark driver is done submitting.
CloseChannel ==
  /\ ~closed
  /\ closed' = TRUE
  /\ UNCHANGED <<cache_vars, pc, fault, channel, client, stream_open, answer_vars, slot_vars,
                 step_vars>>

-----------------------------------------------------------------------------
(* admit_request_radix for the request at the head of the channel.         *)

\* The code adds with checked_add and leaves the loop when the sum is no usize.
Total(r) == Len(PromptOf[r]) + LimitOf[r]
Overflows(r) == Total(r) > MaxUsize
Fits(r) == DivCeil(Total(r)) <= PagesPerSlot

\* The sampling is not greedy, a prediction exceeds a latency budget, the
\* sequence is too long, no slot is free or the prefix could not be attached
\* on the GPU: an error is the answer and nothing has changed.
RejectHead ==
  /\ pc = "drain" /\ channel # << >>
  /\ Head(channel) \in Greedy => ~Overflows(Head(channel))
  /\ oneshot' = [oneshot EXCEPT ![Head(channel)] = Rejected]
  /\ channel' = Tail(channel)
  /\ UNCHANGED <<cache_vars, pc, fault, closed, client, stream_open, sent, slot_vars, step_vars>>

\* "request length overflow" is an error of the loop, not of the request.
OverflowHead ==
  /\ pc = "drain" /\ channel # << >>
  /\ Head(channel) \in Greedy /\ Overflows(Head(channel))
  /\ Fail("length_overflow")

\* The head has come as far as its reservation, in slot s and with a hit.
Acquires(s, hit) ==
  /\ pc = "drain" /\ channel # << >>
  /\ s \in free_slots
  /\ LET r == Head(channel)
     IN  /\ r \in Greedy /\ ~Overflows(r) /\ Fits(r)
         /\ IsDeepestCheckpoint(PromptOf[r], ReusablePages(PromptOf[r]), hit)

\* Mutant: generated_tokens keeps what the slot's last request left there.
GeneratedKept(s) == generated

GeneratedReset(s) == [generated EXCEPT ![s] = 0]

\* The reservation and SequenceRequest::initialize.  A refused reservation
\* gives the slot just acquired back; it is still Free and
\* RequestSlots::release refuses that.
AdmitHead(s, hit) ==
  LET r == Head(channel)
  IN  /\ Acquires(s, hit)
      /\ IF CanReserve(PrivatePages(Total(r), hit)) /\ phase[s] = "Free" /\ PromptOf[r] # << >>
         THEN /\ Admit(s, PromptOf[r], Total(r), hit)
              /\ channel' = Tail(channel)
              /\ free_slots' = free_slots \ {s}
              /\ response' = [response EXCEPT ![s] = r]
              /\ phase' = [phase EXCEPT ![s] = "QueuedPrefill"]
              /\ prefilled' = [prefilled EXCEPT ![s] = hit * PageSize]
              /\ scheduled' = [scheduled EXCEPT ![s] = FALSE]
              /\ generated' = GeneratedReset(s)
              /\ UNCHANGED <<pc, fault, closed, client, stream_open, answer_vars, step_vars>>
         ELSE Fail(CASE phase[s] # "Free" -> "slot_not_free"
                     [] ~CanReserve(PrivatePages(Total(r), hit)) -> "slot_already_free"
                     [] OTHER -> "empty_prompt")

\* Mutant: a free slot is taken for an idle engine.
SomeSlotFree == free_slots # {}

Idle == free_slots = Slot

\* The channel is empty: a turn if a request is active, the end if there is
\* none and no handle is left; otherwise blocking_recv waits.
Drained ==
  /\ pc = "drain" /\ channel = << >>
  /\ \/ ~Idle /\ pc' = "refresh"
     \/ Idle /\ closed /\ pc' = "stopped"
  /\ UNCHANGED <<cache_vars, fault, client_vars, answer_vars, slot_vars, step_vars>>

-----------------------------------------------------------------------------
(* refresh_unscheduled_prefixes.                                           *)

Refreshable(s, hit) ==
  /\ ~scheduled[s] /\ phase[s] = "QueuedPrefill"
  /\ IsDeepestCheckpoint(tokens[s], ReusablePages(tokens[s]), hit)
  /\ hit * PageSize > prefilled[s]

\* Mutant: the request's own count is not brought up to date.
RefreshCacheOnly(s, hit) ==
  /\ pc = "refresh"
  /\ Refreshable(s, hit)
  /\ allocated_tokens[s] = prefilled[s] /\ CanExtend(s, hit)
  /\ ExtendEffect(s, hit)
  /\ UNCHANGED owner_vars

Refresh(s, hit) ==
  /\ pc = "refresh"
  /\ Refreshable(s, hit)
  /\ IF allocated_tokens[s] = prefilled[s] /\ CanExtend(s, hit)
     THEN /\ ExtendEffect(s, hit)
          /\ prefilled' = [prefilled EXCEPT ![s] = hit * PageSize]
          /\ UNCHANGED <<pc, fault, client_vars, answer_vars, response, phase, scheduled,
                         generated, free_slots, step_vars>>
     ELSE Fail("refresh")

Refreshed ==
  /\ pc = "refresh"
  /\ \A s \in Slot : \A hit \in 1 .. ReusablePages(tokens[s]) : ~Refreshable(s, hit)
  /\ pc' = "plan"
  /\ UNCHANGED <<cache_vars, fault, client_vars, answer_vars, slot_vars, step_vars>>

-----------------------------------------------------------------------------
(* Scheduler::schedule and split_prefill_at_reusable_boundary.  Every       *)
(* decoding slot takes part with one token; which waiting prefills do, and  *)
(* with which chunk, is up to the budget.                                   *)

Decoders == {s \in Slot : phase[s] = "Decoding"}
\* Mutant: only prefills already begun are continued.
PrefillsBegun == {s \in Slot : phase[s] = "QueuedPrefill" /\ prefilled[s] > 0}

Prefills == {s \in Slot : phase[s] = "QueuedPrefill" /\ prefilled[s] < PromptLen(s)}

\* Mutant: chunks stay as the planner chose them.
NotSplit(s, n) == n

\* A segment that would run past the last reusable page boundary stops there,
\* so that the checkpoint of that boundary can be captured.
SplitAtBoundary(s, n) ==
  LET limit == ReusablePages(PromptOf[response[s]]) * PageSize
  IN  IF prefilled[s] < limit /\ prefilled[s] + n > limit THEN limit - prefilled[s] ELSE n

PrefillChunks(s) ==
  {SplitAtBoundary(s, n) : n \in {c \in Chunk : c <= PromptLen(s) - prefilled[s]}}

Plan ==
  /\ pc = "plan"
  /\ \E chosen \in SUBSET Prefills :
       /\ Decoders \cup chosen # {}
       /\ \E chunk \in [chosen -> UNION {PrefillChunks(s) : s \in chosen}] :
            /\ \A s \in chosen : chunk[s] \in PrefillChunks(s)
            /\ work' = [s \in Decoders \cup chosen |-> IF s \in chosen THEN chunk[s] ELSE 1]
            /\ scheduled' = [s \in Slot |-> scheduled[s] \/ s \in Decoders \cup chosen]
  /\ pc' = "forward"
  /\ forwarded' = {}
  /\ UNCHANGED <<cache_vars, fault, client_vars, answer_vars, response, phase, prefilled,
                 generated, free_slots, current, finished>>

\* Not even one token of prefill fits the budget and nothing is decoding: the
\* owner sleeps and starts another turn.
EmptyPlan ==
  /\ pc = "plan"
  /\ Decoders = {}
  /\ pc' = "drain"
  /\ UNCHANGED <<cache_vars, fault, client_vars, answer_vars, slot_vars, step_vars>>

-----------------------------------------------------------------------------
(* The forward pass, segment after segment.                                *)

StartPosition(s) == IF phase[s] = "Decoding" THEN Len(tokens[s]) - 1 ELSE prefilled[s]

Forward(s) ==
  /\ pc = "forward"
  /\ s \in DOMAIN work \ forwarded
  /\ IF /\ StartPosition(s) = allocated_tokens[s]
        /\ StartPosition(s) + work[s] <= Len(tokens[s])
        /\ CanPrepare(s, work[s])
     THEN /\ PrepareTokens(s, work[s])
          /\ forwarded' = forwarded \cup {s}
          /\ pc' = IF forwarded' = DOMAIN work THEN "sample" ELSE "forward"
          /\ UNCHANGED <<fault, client_vars, answer_vars, slot_vars, work, current, finished>>
     ELSE Fail("prepare")

\* A CUDA call of the step returns an error: in the refresh, the forward pass,
\* the copy of the sampled tokens, or where a slot's convolution states are
\* zeroed, after an answer or when a prefix could not be attached.
GpuError ==
  /\ \/ pc \in {"refresh", "forward", "sample", "release"}
     \/ \E s \in Slot, hit \in 1 .. PagesPerSlot :
          Acquires(s, hit) /\ CanReserve(PrivatePages(Total(Head(channel)), hit))
  /\ Fail("gpu")

-----------------------------------------------------------------------------
(* The sampled tokens, decodes before prefills as they are in the plan.    *)

DecodeItem(s) == s \in DOMAIN work /\ phase[s] = "Decoding"

\* Mutant: the finished requests are looked at in a later step.
AfterItemFinishLater(rest, done) == IF rest # Nothing THEN "sample" ELSE "drain"

AfterItem(rest, done) ==
  IF rest # Nothing THEN "sample" ELSE IF done # Nothing THEN "finish" ELSE "drain"

\* A prefill segment: its boundary is published if that adds something, and a
\* prompt that is not done yet yields no token.
TakePrefill(s) ==
  LET upto == prefilled[s] + work[s]
      rest == Without(work, s)
  IN  /\ pc = "sample" /\ current = NoRequest
      /\ s \in DOMAIN work /\ \A t \in DOMAIN work : ~DecodeItem(t)
      /\ IF WillPublish(s) /\ ~PublishSound(s)
         THEN Fail("publish")
         ELSE /\ IF WillPublish(s) THEN PublishEffect(s) ELSE UNCHANGED cache_vars
              /\ prefilled' = [prefilled EXCEPT ![s] = upto]
              /\ IF upto < PromptLen(s)
                 THEN work' = rest /\ pc' = AfterItem(rest, finished) /\ UNCHANGED current
                 ELSE current' = s /\ UNCHANGED <<work, pc>>
              /\ UNCHANGED <<fault, client_vars, answer_vars, response, phase, scheduled,
                             generated, free_slots, forwarded, finished>>

\* Mutant: the end-of-sequence token is streamed too.
StreamsAll(r, eos) == r \in Streaming

Streams(r, eos) == r \in Streaming /\ ~eos

\* A token is sampled.  It is streamed and appended to the sequence unless it
\* ends the generation; a stream without reader ends it as well.
Sample(s, token) ==
  LET r       == response[s]
      count   == generated[s] + 1
      eos     == r \notin IgnoreEos /\ token = EosToken
      streams == Streams(r, eos)
      dropped == streams /\ r \notin stream_open
      ended   == eos \/ dropped \/ count >= LimitOf[r]
      reason  == IF dropped THEN "abort" ELSE IF eos THEN "stop" ELSE "length"
      rest    == Without(work, s)
  IN  /\ pc = "sample"
      /\ IF current = NoRequest THEN DecodeItem(s) ELSE s = current
      /\ IF ~eos /\ ~CanPush(s)
         THEN Fail("push")
         ELSE /\ generated' = [generated EXCEPT ![s] = count]
              /\ sent' = IF streams /\ ~dropped
                         THEN [sent EXCEPT ![r] = Append(@, token)] ELSE sent
              /\ IF eos
                 THEN UNCHANGED <<cache_vars, phase>>
                 ELSE PushEffect(s, token) /\ phase' = [phase EXCEPT ![s] = "Decoding"]
              /\ finished' = IF ended THEN WithReason(finished, s, reason) ELSE finished
              /\ work' = rest
              /\ current' = NoRequest
              /\ pc' = AfterItem(rest, finished')
              /\ UNCHANGED <<fault, client_vars, oneshot, response, prefilled, scheduled,
                             free_slots, forwarded>>

-----------------------------------------------------------------------------
(* finish_request: the completion is sent before the stream's sender is    *)
(* dropped and before the slot's pages are given back.                     *)

Answer(s) ==
  /\ pc = "finish"
  /\ s \in DOMAIN finished
  /\ oneshot' = [oneshot EXCEPT ![response[s]] =
                   [kind |-> "completed", reason |-> finished[s],
                    tokens |-> SubSeq(tokens[s], PromptLen(s) + 1, Len(tokens[s]))]]
  /\ response' = [response EXCEPT ![s] = NoRequest]
  /\ finished' = Without(finished, s)
  /\ current' = s
  /\ pc' = "release"
  /\ UNCHANGED <<cache_vars, fault, client_vars, sent, phase, prefilled, scheduled, generated,
                 free_slots, work, forwarded>>

\* Mutant: the slot is not pushed back.
SlotLost(s) == free_slots

SlotReturned(s) == free_slots \cup {s}

Vacate(s) ==
  /\ pc = "release" /\ s = current
  /\ Release(s)
  /\ phase' = [phase EXCEPT ![s] = "Free"]
  /\ prefilled' = [prefilled EXCEPT ![s] = 0]
  /\ free_slots' = SlotReturned(s)
  /\ current' = NoRequest
  /\ pc' = IF finished = Nothing THEN "drain" ELSE "finish"
  /\ UNCHANGED <<fault, client_vars, answer_vars, response, scheduled, generated, work,
                 forwarded, finished>>

-----------------------------------------------------------------------------
ClientNext ==
  \/ \E r \in Request : Submit(r) \/ DropStream(r)
  \/ CloseChannel

\* One iteration's worth of the owner thread's own steps, without CUDA errors.
OwnerStep ==
  \/ RejectHead
  \/ OverflowHead
  \/ \E s \in Slot :
       \/ \E hit \in 0 .. PagesPerSlot : AdmitHead(s, hit) \/ Refresh(s, hit)
       \/ Forward(s)
       \/ TakePrefill(s)
       \/ \E token \in Token : Sample(s, token)
       \/ Answer(s)
       \/ Vacate(s)
  \/ Drained
  \/ Refreshed
  \/ Plan
  \/ EmptyPlan

OwnerNext == ClientNext \/ OwnerStep \/ GpuError

OwnerSpec == OwnerInit /\ [][OwnerNext]_vars

\* The owner is a thread of its own: it runs whenever it can, and the smallest
\* prefill fits a step's budget, so that its plans are not empty for ever.
\* Nothing is assumed of the tasks.
FairOwnerSpec == OwnerSpec /\ WF_vars(OwnerStep) /\ SF_vars(Plan)

-----------------------------------------------------------------------------
(* Properties.                                                             *)

ClientTypeOK ==
  /\ channel \in Seq(Request) /\ Len(channel) <= QueueCapacity
  /\ closed \in BOOLEAN
  /\ client \in [Request -> {"idle", "waiting", "refused"}]
  /\ stream_open \subseteq Streaming

AnswerTypeOK ==
  /\ oneshot \in [Request -> [kind : {"empty", "rejected", "completed"},
                             tokens : Seq(Token),
                             reason : {"none", "stop", "length", "abort"}]]
  /\ sent \in [Request -> Seq(Token)]

SlotTypeOK ==
  /\ response \in [Slot -> Request \cup {NoRequest}]
  /\ phase \in [Slot -> {"Free", "QueuedPrefill", "Decoding"}]
  /\ prefilled \in [Slot -> Nat] /\ scheduled \in [Slot -> BOOLEAN]
  /\ generated \in [Slot -> Nat]
  /\ free_slots \subseteq Slot

StepTypeOK ==
  /\ DOMAIN work \subseteq Slot /\ \A s \in DOMAIN work : work[s] \in Nat \ {0}
  /\ forwarded \subseteq Slot
  /\ current \in Slot \cup {NoRequest}
  /\ DOMAIN finished \subseteq Slot
  /\ \A s \in DOMAIN finished : finished[s] \in {"stop", "length", "abort"}

\* Every variable has its type.
OwnerTypeOK ==
  /\ pc \in {"drain", "refresh", "plan", "forward", "sample", "finish", "release",
            "stopped", "failed"}
  /\ fault \in {"none", "gpu", "length_overflow", "empty_prompt", "slot_already_free",
                "slot_not_free", "refresh", "prepare", "publish", "push"}
  /\ ClientTypeOK /\ AnswerTypeOK /\ SlotTypeOK /\ StepTypeOK

\* The five ledgers of a slot tell one story: the free stack, the phase, the
\* response sender, the request's sequence and the cache (slots.rs, request.rs,
\* ResponseState and BatchModelCache are updated separately, by admission,
\* refresh, the step and finish_request), and every request waiting for an
\* answer is in exactly one place.
LedgersAgree ==
  Running =>
    /\ \A s \in Slot :
         /\ phase[s] = "Free" <=> s \in free_slots
         /\ phase[s] = "Free" <=> ~Occupied(s)
         /\ response[s] = NoRequest <=> phase[s] = "Free" \/ (pc = "release" /\ s = current)
         /\ response[s] # NoRequest =>
              SubSeq(tokens[s], 1, PromptLen(s)) = PromptOf[response[s]]
         /\ s \notin DOMAIN work \cup DOMAIN finished \cup {current} =>
              /\ phase[s] = "QueuedPrefill" => prefilled[s] = allocated_tokens[s]
              /\ phase[s] = "Decoding" =>
                   /\ Len(tokens[s]) = PromptLen(s) + generated[s]
                   /\ Len(tokens[s]) = allocated_tokens[s] + 1
    /\ \A r \in Request :
         LET homes == {i \in DOMAIN channel : channel[i] = r}
                        \cup {s \in Slot : response[s] = r}
                        \cup (IF oneshot[r] = Empty THEN {} ELSE {NoRequest})
         IN  Cardinality(homes) = IF client[r] = "waiting" THEN 1 ELSE 0

\* Request r, unanswered, is why its admission ended the thread.
EndedBy(r, why) ==
  /\ client[r] = "waiting" /\ oneshot[r] = Empty
  /\ \/ why = "length_overflow" /\ Overflows(r)
     \/ why = "empty_prompt" /\ PromptOf[r] = << >> /\ Fits(r)
     \/ /\ why = "slot_already_free" /\ Fits(r)
        /\ \E hit \in 0 .. PagesPerSlot :
             /\ IsDeepestCheckpoint(PromptOf[r], ReusablePages(PromptOf[r]), hit)
             /\ ~CanReserve(PrivatePages(Total(r), hit))

\* The owner thread ends with an error only for a CUDA error or for one request
\* it was about to admit, and which request that was can still be told: one of
\* greedy sampling whose length overflows, or whose prompt is empty, or that
\* fits its row while the pool cannot reserve what it needs.  The checks of the
\* step, of the refresh and of the publication, each a `?` in the loop of
\* run_owner_radix, never fail, whatever the requests and the order of their
\* steps.
OnlyKnownFaults ==
  pc = "failed" => fault = "gpu" \/ \E r \in Greedy : EndedBy(r, fault)

\* When no request is active, all that is left of the past ones is in the radix
\* cache: no reservation, no row entry, no page outside the cache in use
\* (finish_request and the release of both ledgers).
IdleIsClean ==
  Running /\ free_slots = Slot =>
    /\ reserved_pages = 0
    /\ free_pages = Page \ CachedPageSet
    /\ \A s \in Slot : block_table[s] = EmptyRow /\ conv_state[s] = << >>

\* A prompt that has been computed leaves its longest reusable prefix in the
\* radix cache unless the cache is at one of its two limits, whatever chunks
\* the planner chose (split_prefill_at_reusable_boundary is there for it).
BoundaryPublished ==
  \A s \in Slot :
    Running /\ phase[s] = "Decoding" /\ response[s] # NoRequest =>
      LET prompt == PromptOf[response[s]]
          k      == ReusablePages(prompt)
      IN  k > 0 => free_checkpoints = {} \/ ~CanPublish(prompt, k)

\* When the thread ends because all handles are gone, every accepted request
\* has its answer (the loop leaves only by blocking_recv returning None).
GracefulStop ==
  pc = "stopped" => \A r \in Request : client[r] = "waiting" => oneshot[r] # Empty

\* A reservation refused for want of pages is answered with "KV admission
\* rejected" (radix_owner.rs) and does not run into the assertion of
\* RequestSlots::release on a slot that is still free.
ReleaseAssertionHolds == fault # "slot_already_free"

-----------------------------------------------------------------------------
(* The strengthening that makes these inductive.                           *)

Queued(r) == \E i \in DOMAIN channel : channel[i] = r
Served(r) == \E s \in Slot : response[s] = r
Answered(r) == oneshot[r] # Empty

\* Which parts of a step exist at which point of the turn.
TurnShape ==
  /\ pc \notin {"forward", "sample"} => DOMAIN work = {}
  /\ pc \notin {"sample", "finish", "release"} => DOMAIN finished = {}
  /\ pc = "forward" => forwarded \subseteq DOMAIN work
  /\ pc = "sample" => DOMAIN work \subseteq forwarded
  /\ pc = "stopped" => channel = << >> /\ free_slots = Slot
  /\ current # NoRequest =>
       \/ pc = "sample" /\ current \in DOMAIN work /\ phase[current] = "QueuedPrefill"
       \/ pc = "release" /\ phase[current] # "Free"
  /\ pc = "release" => current # NoRequest
  /\ \A s \in Slot : response[s] = NoRequest <=>
                      phase[s] = "Free" \/ (pc = "release" /\ s = current)
  /\ DOMAIN work \cap DOMAIN finished = {}
  /\ \A s \in DOMAIN work \cup DOMAIN finished : response[s] # NoRequest

\* A slot in prefill: the planned segment is in the cache once it is forwarded,
\* and a request no step has taken yet has only what it attached.
PrefillOK(s) ==
  /\ tokens[s] = PromptOf[response[s]]
  /\ s \in DOMAIN work /\ s # current =>
       /\ prefilled[s] + work[s] <= PromptLen(s)
       /\ allocated_tokens[s] = prefilled[s] + (IF s \in forwarded THEN work[s] ELSE 0)
  /\ s \notin DOMAIN work \/ s = current => allocated_tokens[s] = prefilled[s]
  /\ s \in DOMAIN finished \/ s = current => prefilled[s] = PromptLen(s)
  /\ s \notin DOMAIN finished => generated[s] = 0
  /\ ~scheduled[s] =>
       /\ s \notin DOMAIN work \cup DOMAIN finished
       /\ allocated_tokens[s] = SharedPages(s) * PageSize

\* A decoding slot: one token ahead of its cache between steps.
DecodeOK(s) ==
  /\ PromptLen(s) < Len(tokens[s])
  /\ SubSeq(tokens[s], 1, PromptLen(s)) = PromptOf[response[s]]
  /\ s \in DOMAIN work => work[s] = 1
  /\ s \notin DOMAIN finished =>
       /\ Len(tokens[s]) = PromptLen(s) + generated[s]
       /\ Len(tokens[s]) < Total(response[s])
       /\ allocated_tokens[s] =
            Len(tokens[s]) - (IF s \in DOMAIN work \cap forwarded THEN 0 ELSE 1)

\* Once its request is answered a slot has only its pages to give back.
SlotOK(s) ==
  /\ s \in free_slots <=> phase[s] = "Free"
  /\ Occupied(s) <=> phase[s] # "Free"
  /\ response[s] # NoRequest =>
       PromptOf[response[s]] # << >> /\ maximum_tokens[s] = Total(response[s])
  /\ response[s] # NoRequest /\ phase[s] = "QueuedPrefill" => PrefillOK(s)
  /\ response[s] # NoRequest /\ phase[s] = "Decoding" => DecodeOK(s)

\* What a slot has sent is what it has generated, and its reason fits.
ReasonOK(s) ==
  LET r == response[s]
  IN  \/ finished[s] = "stop" /\ r \notin IgnoreEos /\ Len(tokens[s]) < Total(r)
      \/ finished[s] = "length" /\ Len(tokens[s]) = Total(r)
      \/ finished[s] = "abort" /\ r \in Streaming /\ PromptLen(s) < Len(tokens[s])

Unsent(s) == IF s \in DOMAIN finished /\ finished[s] = "abort" THEN 1 ELSE 0

AnswerOK(s) ==
  response[s] # NoRequest =>
    /\ \A i \in PromptLen(s) + 1 .. Len(tokens[s]) :
         tokens[s][i] # EosToken \/ response[s] \in IgnoreEos
    /\ response[s] \in Streaming =>
         sent[response[s]] = SubSeq(tokens[s], PromptLen(s) + 1, Len(tokens[s]) - Unsent(s))
    /\ s \in DOMAIN finished => ReasonOK(s)

\* A slot whose prefill has reached the last reusable boundary found it
\* published or the radix cache at a limit, and no segment runs past it.
AtLimit(r) == free_checkpoints = {} \/ ~CanPublish(PromptOf[r], ReusablePages(PromptOf[r]))

Boundary(r) == ReusablePages(PromptOf[r]) * PageSize

BoundaryOK(s) ==
  \A r \in Request : response[s] = r =>
    /\ \/ Boundary(r) = 0
       \/ phase[s] = "QueuedPrefill" /\ prefilled[s] < Boundary(r)
       \/ AtLimit(r)
    /\ phase[s] = "QueuedPrefill" /\ s \in DOMAIN work /\ s # current =>
         Boundary(r) <= prefilled[s] \/ prefilled[s] + work[s] <= Boundary(r)

\* A request that waits for its answer is in one place.
RequestOK(r) ==
  /\ client[r] = "waiting" <=> Queued(r) \/ Served(r) \/ Answered(r)
  /\ ~(Queued(r) /\ Served(r)) /\ ~(Queued(r) /\ Answered(r)) /\ ~(Served(r) /\ Answered(r))
  /\ Queued(r) => sent[r] = << >>

PlacesDistinct ==
  /\ \A i, j \in DOMAIN channel : channel[i] = channel[j] => i = j
  /\ \A s, t \in Slot : response[s] = response[t] /\ response[s] # NoRequest => s = t

\* A request that is not accepted gets nothing, one without a stream no tokens.
ClientOK(r) ==
  /\ client[r] # "waiting" => oneshot[r] = Empty /\ sent[r] = << >>
  /\ r \notin Streaming => sent[r] = << >>

Alive ==
  /\ TurnShape
  /\ PlacesDistinct
  /\ \A r \in Request : RequestOK(r)
  /\ \A s \in Slot : SlotOK(s) /\ AnswerOK(s) /\ BoundaryOK(s)

OwnerInv ==
  /\ OwnerTypeOK
  /\ OnlyKnownFaults
  /\ \A r \in Request : ClientOK(r)
  /\ pc # "failed" => Alive

-----------------------------------------------------------------------------
(* Refinement.                                                             *)

\* Whatever the requests do, the owner calls the cache as BatchModelCache
\* allows: its guards hold at every call.
UsesCacheCorrectly == CacheSpec

InEngine(r) ==
  \/ \E i \in DOMAIN channel : channel[i] = r
  \/ \E s \in Slot : response[s] = r

StatusOf(r) ==
  IF client[r] # "waiting" THEN client[r]
  ELSE IF oneshot[r] # Empty THEN oneshot[r].kind
  ELSE IF InEngine(r) THEN "pending" ELSE "lost"

Contract == INSTANCE ServingContract WITH
  status <- [r \in Request |-> StatusOf(r)],
  streamed <- sent,
  reply <- [r \in Request |-> [tokens |-> oneshot[r].tokens, reason |-> oneshot[r].reason]]

\* The owner keeps the promise of ServingContract: one answer per request, a
\* completion whose tokens are those streamed, nothing lost unless the thread
\* fails.
ImplementsContract == Contract!ContractSpec

-----------------------------------------------------------------------------
(* Liveness.                                                               *)

\* Every accepted request is answered, or the owner thread fails: no request
\* waits for ever behind the others, in the channel, for its prefill or between
\* two tokens.  (None waits for a slot: without a free one it is rejected.)
EveryRequestAnswered ==
  \A r \in Request :
    client[r] = "waiting" ~> (oneshot[r] # Empty \/ pc = "failed")

\* Once all handles are dropped the thread ends.
OwnerStops == closed ~> pc \in {"stopped", "failed"}
=============================================================================
