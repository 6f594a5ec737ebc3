--------------------------------- MODULE Planner ---------------------------------
(***************************************************************************)
(* Scheduler::schedule of src/scheduler/planner.rs with the cost curves of *)
(* CostModel, in the loop that uses it: requests arrive in free slots, a   *)
(* turn plans a step, runs it, and time passes.  RadixOwner leaves the     *)
(* choice of a step open; here it is the planner's, and what RadixOwner    *)
(* assumes of it is a property.                                            *)
(*                                                                         *)
(* Arrival and deadlines are kept as the age of a request: the planner     *)
(* only uses differences from now, and every request has the same          *)
(* objectives.  The order of decodes in a plan has no effect on what is    *)
(* planned and is left out.                                                *)
(***************************************************************************)
EXTENDS CostModel, SequencesExt

CONSTANTS
  Slot,               \* request slots
  PageSize,           \* page_size of the profile
  StepBudget,         \* step_budget_ms
  TtftSlo,            \* ttft_slo_us
  TpotSlo,            \* tpot_slo_us / 1000
  MaxPrefillTokens,   \* maximum_prefill_tokens
  MaxBatchTokens,     \* maximum_batch_tokens of the device batch
  Chunk,              \* prefill chunks tried
  TailContext,        \* DECODE_TAIL_CONTEXT_THRESHOLD
  TailQueue,          \* DECODE_TAIL_QUEUE_THRESHOLD
  DecodeCurve,        \* decode_fp8 or decode_bf16
  PrefillCurve,       \* prefill_bf16
  Shape,              \* arriving requests: [prompt, cached, limit]
  CachedArrivals      \* bound on arrivals with a cached prefix

ASSUME PlannerAssumption ==
  /\ IsFiniteSet(Slot) /\ PageSize \in Nat \ {0}
  /\ StepBudget \in Nat \ {0} /\ TtftSlo \in Nat /\ TpotSlo \in Nat
  /\ MaxPrefillTokens \in Nat /\ MaxBatchTokens \in Nat
  /\ Chunk \subseteq Nat \ {0} /\ 1 \in Chunk
  /\ Cardinality(Slot) + MaxPrefillTokens <= MaxBatchTokens
  /\ ValidCurve(DecodeCurve) /\ ValidCurve(PrefillCurve)
  /\ IsFiniteSet(Shape) /\ Shape \subseteq [prompt : Nat, cached : Nat, limit : Nat \ {0}]
  /\ \A shape \in Shape : shape.cached < shape.prompt
  /\ CachedArrivals \in Nat

VARIABLES
  requests,      \* slot -> its request
  cached_left,   \* arrivals with a cached prefix still to come
  turn           \* turns of the owner, modulo two

vars == <<requests, cached_left, turn>>

Vacant ==
  [phase |-> "Free", prompt_len |-> 0, prefilled |-> 0, generated |-> 0, limit |-> 0, age |-> 0]

PlannerInit ==
  /\ requests = [s \in Slot |-> Vacant]
  /\ cached_left = CachedArrivals
  /\ turn = 0

-----------------------------------------------------------------------------
(* What the planner sees.                                                  *)

Decoding == {s \in Slot : requests[s].phase = "Decoding"}
Waiting ==
  {s \in Slot : requests[s].phase = "QueuedPrefill"
                /\ requests[s].prefilled < requests[s].prompt_len}
Remaining(s) == requests[s].prompt_len - requests[s].prefilled

\* tokens().len() of a decoding request.
ContextOf(s) == requests[s].prompt_len + requests[s].generated
MaximumContext == Greatest({1} \cup {ContextOf(s) : s \in Decoding})

\* The predictions that can come up, tabulated.
LongestContext == Greatest({shape.prompt + shape.limit : shape \in Shape})
DecodeTable ==
  [n \in 1 .. Cardinality(Slot) |->
     [c \in 1 .. LongestContext |-> PredictDecode(DecodeCurve, n, c)]]
PrefillTable == [n \in 1 .. MaxPrefillTokens |-> PredictPrefill(PrefillCurve, n)]

DecodeMs(count, context) == IF count = 0 THEN Whole(0) ELSE DecodeTable[count][context]

\* Mutant: younger requests are the more urgent ones.
YoungestFirst(a) == a

\* saturating_sub of the two: overdue requests are all equally urgent.
Urgency(a) == Larger(Larger(TtftSlo - a, 0) - a \div 4, 0)

\* An unstable sort may put equally urgent requests in any order.
OrdersOf(slots) ==
  {order \in SetToSeqs(slots) :
     \A i, j \in 1 .. Len(order) :
       i < j => Urgency(requests[order[i]].age) <= Urgency(requests[order[j]].age)}

-----------------------------------------------------------------------------
(* Tail pressure: only the last tokens of prompts, one each.               *)

\* Mutant: a tail is shorter than a page.
IsShortTail(s) == requests[s].prefilled > 0 /\ Remaining(s) < PageSize

IsTail(s) == requests[s].prefilled > 0 /\ Remaining(s) <= PageSize

TailPressure ==
  /\ Cardinality(Waiting) >= TailQueue
  /\ \E s \in Waiting : requests[s].prefilled >= TailContext /\ Remaining(s) <= PageSize

\* The decodes with the first n of the tails besides.
SingletonMs(tails, n) ==
  DecodeMs(Cardinality(Decoding) + n,
           Greatest({MaximumContext} \cup {requests[tails[i]].prefilled + 1 : i \in 1 .. n}))

SingletonFits(tails, n) ==
  /\ Under(SingletonMs(tails, n), Whole(StepBudget))
  /\ Under(SingletonMs(tails, n), Whole(TpotSlo))

TailPlan(tails) ==
  LET n == Greatest({k \in 0 .. Len(tails) : \A i \in 1 .. k : SingletonFits(tails, i)})
  IN  [work |-> [i \in 1 .. n |-> [slot |-> tails[i], tokens |-> 1]],
       decodes |-> Decoding,
       predicted |-> SingletonMs(tails, n)]

-----------------------------------------------------------------------------
(* Otherwise: chunks in the order of urgency, as far as the budget goes.   *)

\* Mutant: each chunk is compared with the budget by itself.
ChunkFitsAlone(total, chunk, budget) == AtMost(PrefillTable[chunk], budget)

ChunkFits(total, chunk, budget) == AtMost(PrefillTable[total + chunk], budget)

\* The tokens of the first n, each a pair of a place and a number.
TokensOf(given, n) == UNION {{i} \X (1 .. given[i]) : i \in 1 .. n}
Total(given, n) == Cardinality(TokensOf(given, n))

\* The chunks tried for the n-th of the order after those before it.
Fitting(order, given, n, budget) ==
  {c \in Chunk : /\ c <= Remaining(order[n])
                 /\ Total(given, n - 1) + c <= MaxPrefillTokens
                 /\ ChunkFits(Total(given, n - 1), c, budget)}

\* What each of the order is given: the greatest chunk that fits, until one
\* gets nothing; nobody behind it gets anything.
Grants(order, budget) ==
  {given \in [1 .. Len(order) -> Chunk \cup {0}] :
     \A n \in 1 .. Len(order) :
       LET fits == Fitting(order, given, n, budget)
       IN  given[n] = IF (\E m \in 1 .. n - 1 : given[m] = 0) \/ fits = {}
                      THEN 0 ELSE Greatest(fits)}

PackedPlan(order, given, decode_ms) ==
  LET n     == Cardinality({i \in DOMAIN given : given[i] > 0})
      total == Total(given, n)
  IN  [work |-> [i \in 1 .. n |-> [slot |-> order[i], tokens |-> given[i]]],
       decodes |-> Decoding,
       predicted |-> IF total = 0 THEN decode_ms
                     ELSE Sum2(decode_ms, PrefillTable[total])]

\* What the decodes leave of the step budget.
Left(decode_ms) == Frac(StepBudget * decode_ms.den - decode_ms.num, decode_ms.den)

\* The plans of this turn, one unless requests are equally urgent.
Plans ==
  LET decode_ms == DecodeMs(Cardinality(Decoding), MaximumContext)
  IN  IF Left(decode_ms).num <= 0 \/ MaxPrefillTokens = 0
      THEN {[work |-> << >>, decodes |-> Decoding, predicted |-> decode_ms]}
      ELSE IF TailPressure THEN {TailPlan(tails) : tails \in OrdersOf({s \in Waiting : IsTail(s)})}
      ELSE UNION {{PackedPlan(order, given, decode_ms) : given \in Grants(order, Left(decode_ms))} :
                    order \in OrdersOf(Waiting)}

-----------------------------------------------------------------------------
(* The loop around the planner.                                            *)

\* A request is admitted; a cached prefix leaves less than a page to compute.
Arrive(s, shape) ==
  /\ requests[s].phase = "Free"
  /\ shape.cached > 0 => cached_left > 0
  /\ cached_left' = IF shape.cached > 0 THEN cached_left - 1 ELSE cached_left
  /\ requests' = [requests EXCEPT ![s] =
                    [Vacant EXCEPT !.phase = "QueuedPrefill", !.prompt_len = shape.prompt,
                                   !.prefilled = shape.cached, !.limit = shape.limit]]
  /\ UNCHANGED turn

\* split_prefill_at_reusable_boundary.
SplitAtBoundary(s, n) ==
  LET boundary == ((requests[s].prompt_len - 1) \div PageSize) * PageSize
  IN  IF requests[s].prefilled < boundary /\ requests[s].prefilled + n > boundary
      THEN boundary - requests[s].prefilled ELSE n

\* What a plan has a slot compute of its prompt.
ChunkOf(p, s) ==
  LET n == {p.work[i].tokens : i \in {j \in DOMAIN p.work : p.work[j].slot = s}}
  IN  IF n = {} THEN 0 ELSE SplitAtBoundary(s, Greatest(n))

\* A prompt that is done yields the first token, a decoding request the next,
\* and a request that has all its tokens leaves.
After(s, chunk) ==
  LET r       == requests[s]
      samples == \/ r.phase = "Decoding"
                 \/ r.phase = "QueuedPrefill" /\ r.prefilled + chunk = r.prompt_len
  IN  IF samples
      THEN IF r.generated + 1 >= r.limit
           THEN Vacant
           ELSE [r EXCEPT !.phase = "Decoding", !.prefilled = r.prompt_len,
                          !.generated = r.generated + 1, !.age = 0]
      ELSE IF r.phase = "Free" THEN r
      ELSE [r EXCEPT !.prefilled = r.prefilled + chunk, !.age = Smaller(r.age + 1, TtftSlo)]

TakesTurn ==
  /\ \E s \in Slot : requests[s].phase # "Free"
  /\ turn' = 1 - turn

\* A turn of the owner runs the plan; time passes.
Turn ==
  /\ TakesTurn
  /\ \E p \in Plans : requests' = [s \in Slot |-> After(s, ChunkOf(p, s))]
  /\ UNCHANGED cached_left

PlannerNext == Turn \/ \E s \in Slot : \E shape \in Shape : Arrive(s, shape)

\* The owner thread always takes its next turn (only Turn changes turn); nobody
\* has to submit requests.
PlannerSpec == PlannerInit /\ [][PlannerNext]_vars /\ WF_turn(TakesTurn)

-----------------------------------------------------------------------------
(* Properties.                                                             *)

Request ==
  [phase : {"Free", "QueuedPrefill", "Decoding"}, prompt_len : Nat, prefilled : Nat,
   generated : Nat, limit : Nat, age : 0 .. TtftSlo]

\* Types; a decoding request has its prompt computed and tokens to go.
PlannerTypeOK ==
  /\ requests \in [Slot -> Request]
  /\ \A s \in Slot :
       LET r == requests[s]
       IN  /\ r.prefilled <= r.prompt_len
           /\ r.phase # "Free" =>
                \E shape \in Shape : r.prompt_len = shape.prompt /\ r.limit = shape.limit
           /\ r.phase = "QueuedPrefill" => r.generated = 0
           /\ r.phase = "Decoding" => r.prefilled = r.prompt_len /\ r.generated < r.limit
  /\ cached_left \in 0 .. CachedArrivals /\ turn \in {0, 1}

PlannedSlots(p) == {p.work[i].slot : i \in DOMAIN p.work}
PlannedTokens(p) == Total([i \in DOMAIN p.work |-> p.work[i].tokens], Len(p.work))

\* Prefill never takes a step over its budget: decodes alone may exceed it, but
\* whatever is added to them, chunk after chunk or tail after tail, keeps the
\* prediction for the whole step within step_budget_ms.
WithinBudget ==
  \A p \in Plans : p.work # << >> => AtMost(p.predicted, Whole(StepBudget))

\* Every plan fits the metadata of the device batch (GpuBatch::update_step
\* refuses more), whose capacity was sized for decodes and one prefill chunk
\* and not for tail pressure; and no request is in a step twice.
PlanFitsBatch ==
  \A p \in Plans :
    /\ Cardinality(p.decodes) + PlannedTokens(p) <= MaxBatchTokens
    /\ Cardinality(p.decodes \cup PlannedSlots(p)) = Cardinality(p.decodes) + Len(p.work)

\* What RadixOwner assumes of a plan (its action Plan): all decodes, waiting
\* prefills only, and none of them beyond its prompt.
PlansAsOwnerAssumes ==
  \A p \in Plans :
    /\ p.decodes = Decoding
    /\ \A i \in DOMAIN p.work :
         p.work[i].slot \in Waiting /\ p.work[i].tokens <= Remaining(p.work[i].slot)

\* What the owner and the device batch rely on of every plan, in every reachable
\* state: it stays within the step budget, fits the batch, and asks only for
\* work that exists.
PlanSound == PlannerTypeOK /\ WithinBudget /\ PlanFitsBatch /\ PlansAsOwnerAssumes

Served(s) ==
  requests'[s].phase # "QueuedPrefill" \/ requests'[s].prefilled > requests[s].prefilled

\* Without tail pressure a prefill is never passed over for one that has waited
\* less and is not overdue yet: chunks go to the oldest first, however much of
\* the budget the decodes leave.
OldestFirst ==
  [][\A s, t \in Waiting :
       /\ ~TailPressure
       /\ requests[s].age > requests[t].age /\ 5 * requests[t].age < 4 * TtftSlo
       /\ Served(t)
       => Served(s)]_vars

\* Every admitted request is prefilled in the end: neither decodes that use up
\* the budget, nor tail pressure, nor requests that keep arriving starve it, as
\* long as a single token fits the budget and no more than CachedArrivals of
\* the arrivals are cached prompts, which are tails from the start.
EveryPromptComputed ==
  \A s \in Slot :
    requests[s].phase = "QueuedPrefill" ~> requests[s].phase # "QueuedPrefill"
=============================================================================
