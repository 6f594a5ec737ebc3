-------------------------- MODULE RadixOwner_proofs --------------------------
(***************************************************************************)
(* Proofs about RadixOwner, for any number of requests, slots, pages and   *)
(* tokens.  OwnerInv is inductive together with the invariant of the cache *)
(* and every step of the owner is a step of the cache or leaves it alone:  *)
(* the owner's own bookkeeping supplies the guards of the cache's          *)
(* operations, and the cache's invariant the checks the owner would fail   *)
(* on.  From both it follows that the owner implements ServingContract.    *)
(***************************************************************************)
EXTENDS RadixOwner, BatchModelCache_proofs

-----------------------------------------------------------------------------
(* Requests, and what a step that leaves them alone keeps.                 *)

\* More pages hold more tokens.
LEMMA MulStrict == \A m, n \in Nat : m < n => m * PageSize < n * PageSize
  BY PageSizeAssumption

\* What the constants say of a request.
LEMMA RequestFacts ==
  ASSUME NEW r \in Request
  PROVE  /\ PromptOf[r] \in Prompt /\ PromptOf[r] \in Seq(Token) /\ Len(PromptOf[r]) \in Nat
         /\ LimitOf[r] \in NewTokenLimit /\ LimitOf[r] \in Nat /\ LimitOf[r] > 0
         /\ Total(r) = Len(PromptOf[r]) + LimitOf[r] /\ Total(r) \in Nat
         /\ ReusablePages(PromptOf[r]) \in Nat
         /\ Boundary(r) \in Nat /\ Boundary(r) <= Len(PromptOf[r])
         /\ PromptOf[r] # << >> => Boundary(r) < Len(PromptOf[r])
         /\ r # NoRequest
<1>1. /\ PromptOf[r] \in Prompt /\ PromptOf[r] \in Seq(Token)
      /\ LimitOf[r] \in NewTokenLimit /\ LimitOf[r] \in Nat /\ LimitOf[r] > 0
      /\ r # NoRequest
  <2>1. PromptOf[r] \in Prompt /\ LimitOf[r] \in NewTokenLimit /\ r # NoRequest
    BY OwnerAssumption
  <2>2. PromptOf[r] \in Seq(Token)
    BY <2>1, RequestAssumption
  <2>3. LimitOf[r] \in Nat /\ LimitOf[r] > 0
    <3>1. ASSUME NEW n \in NewTokenLimit PROVE n \in Nat /\ n > 0
      BY RequestAssumption
    <3>. QED
      BY <2>1, <3>1
  <2>. QED
    BY <2>1, <2>2, <2>3
<1>2. Len(PromptOf[r]) \in Nat
  BY <1>1
<1>3. /\ ReusablePages(PromptOf[r]) \in Nat /\ Boundary(r) \in Nat
      /\ Boundary(r) <= Len(PromptOf[r])
      /\ PromptOf[r] # << >> => Boundary(r) < Len(PromptOf[r])
  <2> DEFINE k == ReusablePages(PromptOf[r])
  <2>1. CASE PromptOf[r] # << >>
    <3>1. k \in Nat /\ \A j \in Nat : j <= k => j * PageSize < Len(PromptOf[r])
      BY <1>1, <2>1, ReusableBound
    <3> HIDE DEF k
    <3>2. k * PageSize \in Nat
      BY <3>1, DivMulType
    <3>3. k <= k
      BY <3>1
    <3>4. k * PageSize < Len(PromptOf[r])
      BY <3>1, <3>3, Zenon
    <3>. QED
      BY <1>2, <3>1, <3>2, <3>4 DEF Boundary, k
  <2>2. CASE PromptOf[r] = << >>
    <3>1. k = 0
      BY <2>2 DEF ReusablePages
    <3>2. Boundary(r) = 0
      BY <3>1, PageSizeAssumption DEF Boundary
    <3>. QED
      BY <1>2, <2>2, <3>1, <3>2
  <2>. QED
    BY <2>1, <2>2
<1>. QED
  BY <1>1, <1>2, <1>3 DEF Total

\* The ledgers of a slot agree as long as none of them is touched.
LEMMA SlotFrame ==
  ASSUME NEW s \in Slot, SlotOK(s),
         tokens'[s] = tokens[s], maximum_tokens'[s] = maximum_tokens[s],
         allocated_tokens'[s] = allocated_tokens[s], reservations'[s] = reservations[s],
         response'[s] = response[s], phase'[s] = phase[s], prefilled'[s] = prefilled[s],
         scheduled'[s] = scheduled[s], generated'[s] = generated[s],
         s \in free_slots' <=> s \in free_slots,
         s \in DOMAIN work' <=> s \in DOMAIN work, s \in DOMAIN work => work'[s] = work[s],
         s \in DOMAIN work => (s \in forwarded' <=> s \in forwarded),
         s = current' <=> s = current,
         s \in DOMAIN finished' <=> s \in DOMAIN finished
  PROVE  SlotOK(s)'
<1>1. PrefillOK(s) => PrefillOK(s)'
  BY DEF PrefillOK, PromptLen, SharedPages, DivCeil
<1>2. DecodeOK(s) => DecodeOK(s)'
  BY DEF DecodeOK, PromptLen, Total
<1>. QED
  BY <1>1, <1>2 DEF SlotOK, Occupied, Total

\* A step that leaves a slot's tokens and answer alone leaves its answer
\* right.
LEMMA AnswerFrame ==
  ASSUME NEW s \in Slot, AnswerOK(s),
         tokens'[s] = tokens[s], response'[s] = response[s],
         response[s] # NoRequest => sent'[response[s]] = sent[response[s]],
         s \in DOMAIN finished' <=> s \in DOMAIN finished,
         s \in DOMAIN finished => finished'[s] = finished[s]
  PROVE  AnswerOK(s)'
<1>1. s \in DOMAIN finished => (ReasonOK(s) => ReasonOK(s)')
  BY DEF ReasonOK, PromptLen, Total
<1>2. Unsent(s)' = Unsent(s)
  BY DEF Unsent
<1>. QED
  BY <1>1, <1>2 DEF AnswerOK, PromptLen

\* A path adds to a tree as many nodes as it misses.
LEMMA NodesOfPath ==
  ASSUME NEW N, IsFiniteSet(N), NEW seq \in Seq(Token), NEW k \in Nat, k * PageSize <= Len(seq)
  PROVE  LET path == {Prefix(seq, j) : j \in 1 .. k}
             missing == {j \in 1 .. k : Prefix(seq, j) \notin N}
         IN  /\ IsFiniteSet(N \cup path)
             /\ Cardinality(N) \in Nat /\ Cardinality(missing) \in Nat
             /\ Cardinality(N \cup path) = Cardinality(N) + Cardinality(missing)
<1> DEFINE path == {Prefix(seq, j) : j \in 1 .. k}
           missing == {j \in 1 .. k : Prefix(seq, j) \notin N}
           added == {Prefix(seq, j) : j \in missing}
           g == [j \in missing |-> Prefix(seq, j)]
<1>1. missing \subseteq 1 .. k /\ IsFiniteSet(missing)
  <2>1. IsFiniteSet(1 .. k)
    BY FS_Interval
  <2>. QED
    BY <2>1, FS_Subset
<1>2. ASSUME NEW j \in 1 .. k PROVE j \in Nat /\ j * PageSize <= Len(seq)
  <2>1. j \in Nat /\ j <= k /\ j * PageSize <= k * PageSize
    BY MulMono
  <2>2. j * PageSize \in Nat /\ k * PageSize \in Nat /\ Len(seq) \in Nat
    BY <2>1, DivMulType
  <2>. QED
    BY <2>1, <2>2
<1>3. \A i, j \in missing : g[i] = g[j] => i = j
  <2> SUFFICES ASSUME NEW i \in missing, NEW j \in missing, Prefix(seq, i) = Prefix(seq, j)
               PROVE  i = j
    OBVIOUS
  <2>. QED
    BY <1>1, <1>2, PrefixInjective
<1>4. added = {g[j] : j \in missing}
  OBVIOUS
<1> HIDE DEF g
<1>5. IsFiniteSet(added) /\ Cardinality(added) = Cardinality(missing)
  BY <1>1, <1>3, <1>4, ImageCardinality
<1>6. N \cap added = {} /\ N \cup path = N \cup added
  OBVIOUS
<1>. QED
  BY <1>5, <1>6, DisjointUnion

\* The radix cache only fills up: what keeps a prefix from being published
\* stays in its way.
LEMMA LimitStays ==
  ASSUME CacheTypeOK, PageInv, PageInv', KeepsRadix,
         free_checkpoints' \subseteq free_checkpoints, NEW r \in Request, AtLimit(r)
  PROVE  AtLimit(r)'
<1> DEFINE prompt == PromptOf[r]
           k == ReusablePages(PromptOf[r])
           path == {Prefix(PromptOf[r], j) : j \in 1 .. k}
<1>1. prompt \in Seq(Token) /\ k \in Nat /\ k * PageSize <= Len(prompt) /\ Len(prompt) \in Nat
  <2>1. prompt \in Seq(Token) /\ k \in Nat /\ Boundary(r) <= Len(prompt) /\ Boundary(r) \in Nat
        /\ Len(prompt) \in Nat
    BY RequestFacts
  <2>. QED
    BY <2>1 DEF Boundary
<1>2. CASE free_checkpoints = {}
  BY <1>2 DEF AtLimit
<1>3. CASE ~(k > 0)
  BY <1>3 DEF AtLimit, CanPublish
<1>4. CASE HasCheckpoint(prompt, k)
  <2>1. /\ radix_nodes \subseteq radix_nodes'
        /\ \A n \in radix_nodes : node_checkpoint[n] # NoCheckpoint =>
                                    node_checkpoint'[n] = node_checkpoint[n]
    BY DEF KeepsRadix
  <2>2. /\ k > 0 /\ Prefix(prompt, k) \in radix_nodes
        /\ \A j \in 1 .. k : Prefix(prompt, j) \in radix_nodes
        /\ node_checkpoint[Prefix(prompt, k)] # NoCheckpoint
    BY <1>1, <1>4 DEF HasCheckpoint, HasPath
  <2>3. HasCheckpoint(PromptOf[r], ReusablePages(PromptOf[r]))'
    BY <2>1, <2>2 DEF HasCheckpoint, HasPath
  <2>. QED
    BY <2>3 DEF AtLimit, CanPublish
<1>5. CASE ~(Cardinality(radix_nodes) + Cardinality(MissingPages(prompt, k)) <= RadixBudget)
  <2> DEFINE before == {j \in 1 .. k : Prefix(PromptOf[r], j) \notin radix_nodes}
             after == {j \in 1 .. k : Prefix(PromptOf[r], j) \notin radix_nodes'}
  <2>1. IsFiniteSet(radix_nodes) /\ IsFiniteSet(radix_nodes') /\ radix_nodes \subseteq radix_nodes'
    BY DEF PageInv, KeepsRadix
  <2>2. /\ Cardinality(radix_nodes) \in Nat /\ Cardinality(before) \in Nat
        /\ Cardinality(radix_nodes \cup path) = Cardinality(radix_nodes) + Cardinality(before)
    BY <1>1, <2>1, NodesOfPath
  <2>3. /\ Cardinality(radix_nodes') \in Nat /\ Cardinality(after) \in Nat
        /\ Cardinality(radix_nodes' \cup path) = Cardinality(radix_nodes') + Cardinality(after)
        /\ IsFiniteSet(radix_nodes' \cup path)
    BY <1>1, <2>1, NodesOfPath
  <2>4. Cardinality(radix_nodes \cup path) <= Cardinality(radix_nodes' \cup path)
    BY <2>1, <2>3, FS_Subset
  <2>5. before = MissingPages(prompt, k) /\ after = MissingPages(PromptOf[r], ReusablePages(PromptOf[r]))'
    BY DEF MissingPages
  <2> HIDE DEF before, after
  <2>6. ~(Cardinality(radix_nodes') + Cardinality(after) <= RadixBudget)
    BY <1>5, <2>2, <2>3, <2>4, <2>5, RadixBudgetAssumption
  <2>. QED
    BY <2>5, <2>6 DEF AtLimit, CanPublish
<1>. QED
  BY <1>1, <1>2, <1>3, <1>4, <1>5 DEF AtLimit, CanPublish

LimitsStay == \A r \in Request : AtLimit(r) => AtLimit(r)'

\* No step of the cache forgets that a request has reached a limit of the
\* radix cache.
LEMMA NextLimits ==
  CacheTypeOK /\ CacheInv /\ [CacheNext]_cache_vars => LimitsStay
<1> SUFFICES ASSUME CacheTypeOK, CacheInv, [CacheNext]_cache_vars PROVE LimitsStay
  OBVIOUS
<1>1. PageInv' /\ KeepsRadix /\ PageInv
  BY NextInv, NextKeeps DEF CacheInv
<1>2. free_checkpoints' \subseteq free_checkpoints
  BY DEF CacheNext, cache_vars, data_vars, Admit, ExtendAttachedPrefix, ExtendEffect,
         PrepareTokens, PrepareEffect, PushToken, PushEffect, PublishPrefix, PublishEffect,
         Release
<1>. QED
  BY <1>1, <1>2, LimitStays DEF LimitsStay

\* A step that leaves a slot's prefill alone leaves its boundary right.
LEMMA BoundaryFrame ==
  ASSUME NEW s \in Slot, BoundaryOK(s), LimitsStay,
         response'[s] = response[s], phase'[s] = phase[s], prefilled'[s] = prefilled[s],
         s \in DOMAIN work' <=> s \in DOMAIN work, s \in DOMAIN work => work'[s] = work[s],
         s = current' <=> s = current
  PROVE  BoundaryOK(s)'
<1> SUFFICES ASSUME NEW r \in Request, response'[s] = r
             PROVE  /\ \/ Boundary(r) = 0
                       \/ phase'[s] = "QueuedPrefill" /\ prefilled'[s] < Boundary(r)
                       \/ AtLimit(r)'
                    /\ phase'[s] = "QueuedPrefill" /\ s \in DOMAIN work' /\ s # current' =>
                         Boundary(r) <= prefilled'[s] \/ prefilled'[s] + work'[s] <= Boundary(r)
  BY DEF BoundaryOK, Boundary, ReusablePages
<1>. QED
  BY DEF BoundaryOK, LimitsStay

\* All three while no slot is touched.
LEMMA SlotsFrame ==
  ASSUME NEW s \in Slot, SlotOK(s), AnswerOK(s), BoundaryOK(s), LimitsStay,
         UNCHANGED <<request_vars, allocated_tokens, reservations, sent, slot_vars, step_vars>>
  PROVE  SlotOK(s)' /\ AnswerOK(s)' /\ BoundaryOK(s)'
<1>1. UNCHANGED <<tokens, maximum_tokens, response, phase, prefilled, scheduled, generated,
                  free_slots, work, forwarded, current, finished>>
  BY DEF request_vars, slot_vars, step_vars
<1>2. SlotOK(s)'
  BY <1>1, SlotFrame
<1>3. AnswerOK(s)'
  BY <1>1, AnswerFrame
<1>. QED
  BY <1>1, <1>2, <1>3, BoundaryFrame

\* Every request stays where it is.
LEMMA RequestsFrame ==
  ASSUME PlacesDistinct, \A r \in Request : RequestOK(r) /\ ClientOK(r),
         UNCHANGED <<channel, client, oneshot, response, sent>>
  PROVE  PlacesDistinct' /\ \A r \in Request : RequestOK(r)' /\ ClientOK(r)'
<1>1. PlacesDistinct'
  BY DEF PlacesDistinct
<1>2. ASSUME NEW r \in Request PROVE RequestOK(r)' /\ ClientOK(r)'
  BY DEF RequestOK, ClientOK, Queued, Served, Answered
<1>. QED
  BY <1>1, <1>2

\* What ended the thread can be told as long as the cache and the request stay
\* as they were.
LEMMA CauseStays ==
  ASSUME NEW r, NEW why, EndedBy(r, why), UNCHANGED cache_vars,
         client'[r] = client[r], oneshot'[r] = oneshot[r]
  PROVE  EndedBy(r, why)'
<1>1. Overflows(r)' = Overflows(r) /\ Fits(r)' = Fits(r)
  BY DEF Overflows, Fits, Total, DivCeil
<1>2. ASSUME NEW hit \in 0 .. PagesPerSlot,
             IsDeepestCheckpoint(PromptOf[r], ReusablePages(PromptOf[r]), hit),
             ~CanReserve(PrivatePages(Total(r), hit))
      PROVE  /\ IsDeepestCheckpoint(PromptOf[r], ReusablePages(PromptOf[r]), hit)'
             /\ ~CanReserve(PrivatePages(Total(r), hit))'
  <2>1. UNCHANGED <<radix_nodes, node_checkpoint, reserved_pages, cached_pages>>
    BY DEF cache_vars, allocator_vars, radix_vars, radix_nodes
  <2>2. IsDeepestCheckpoint(PromptOf[r], ReusablePages(PromptOf[r]), hit)'
    BY <1>2, <2>1 DEF IsDeepestCheckpoint, HasCheckpoint, HasPath, ReusablePages, Prefix
  <2>3. ~CanReserve(PrivatePages(Total(r), hit))'
    BY <1>2, <2>1 DEF CanReserve, PrivatePages, Total, DivCeil, total_pages
  <2>. QED
    BY <2>2, <2>3
<1>. QED
  BY <1>1, <1>2 DEF EndedBy

\* The end of the owner thread keeps the invariant,
LEMMA FailKeeps ==
  ASSUME OwnerInv, NEW why, why = "gpu" \/ \E r \in Greedy : EndedBy(r, why), Fail(why)
  PROVE  OwnerInv'
<1>1. OwnerTypeOK'
  <2>1. ClientTypeOK' /\ AnswerTypeOK'
    <3>1. << >> \in Seq(Request) /\ Len(<< >>) = 0
      BY EmptySeq
    <3>2. QueueCapacity \in Nat
      BY OwnerAssumption
    <3>3. AnswerTypeOK'
      BY DEF OwnerInv, OwnerTypeOK, Fail, AnswerTypeOK, answer_vars
    <3>4. channel' = << >> /\ UNCHANGED <<closed, client, stream_open>>
      BY DEF Fail
    <3>5. channel' \in Seq(Request) /\ Len(channel') <= QueueCapacity
      <4>1. channel' \in Seq(Request) /\ Len(channel') = 0
        BY <3>1, <3>4, Zenon
      <4>. QED
        BY <3>2, <4>1
    <3>6. ClientTypeOK'
      BY <3>4, <3>5 DEF OwnerInv, OwnerTypeOK, ClientTypeOK
    <3>. QED
      BY <3>3, <3>6
  <2>2. SlotTypeOK' /\ StepTypeOK'
    BY DEF OwnerInv, OwnerTypeOK, Fail, SlotTypeOK, StepTypeOK, step_vars
  <2>3. why \in {"gpu", "length_overflow", "empty_prompt", "slot_already_free"}
    BY DEF EndedBy
  <2>. QED
    BY <2>1, <2>2, <2>3 DEF Fail, OwnerTypeOK
<1>2. OnlyKnownFaults'
  <2>1. ASSUME NEW r \in Greedy, EndedBy(r, why) PROVE EndedBy(r, why)'
    BY <2>1, CauseStays DEF Fail, client_vars, answer_vars
  <2>2. why = "gpu" \/ \E r \in Greedy : EndedBy(r, why)'
    BY <2>1
  <2>3. fault' = why
    BY DEF Fail
  <2>. QED
    BY <2>2, <2>3 DEF OnlyKnownFaults, EndedBy
<1>3. \A r \in Request : ClientOK(r)'
  BY DEF OwnerInv, ClientOK, Fail, client_vars, answer_vars
<1>. QED
  BY <1>1, <1>2, <1>3 DEF OwnerInv, Fail

\* also when the GPU is what fails.
LEMMA ErrorKeeps ==
  ASSUME OwnerInv, GpuError
  PROVE  OwnerInv'
  BY FailKeeps DEF GpuError

\* A request about to be admitted still waits for its answer.
LEMMA HeadWaits ==
  ASSUME OwnerTypeOK, Alive, channel # << >>
  PROVE  /\ Head(channel) \in Request
         /\ client[Head(channel)] = "waiting" /\ oneshot[Head(channel)] = Empty
<1>1. channel \in Seq(Request)
  BY DEF OwnerTypeOK, ClientTypeOK
<1>2. Head(channel) = channel[1] /\ 1 \in DOMAIN channel /\ Head(channel) \in Request
  BY <1>1, HeadTailProperties
<1>3. Queued(Head(channel))
  BY <1>2 DEF Queued
<1>. QED
  BY <1>2, <1>3 DEF Alive, RequestOK, Answered

\* A request whose length overflows ends the thread.
LEMMA OverflowKeeps ==
  ASSUME OwnerInv, OverflowHead
  PROVE  OwnerInv'
<1>1. /\ OwnerTypeOK /\ Alive /\ channel # << >> /\ Fail("length_overflow")
      /\ Head(channel) \in Greedy /\ Overflows(Head(channel))
  BY DEF OverflowHead, OwnerInv
<1>2. EndedBy(Head(channel), "length_overflow")
  BY <1>1, HeadWaits DEF EndedBy
<1>. QED
  BY <1>1, <1>2, FailKeeps

-----------------------------------------------------------------------------
(* The tasks, and the owner's steps between the phases of its turn.        *)

\* Submitting a request keeps it.
LEMMA SubmitKeeps ==
  ASSUME OwnerInv, LimitsStay, NEW r \in Request, Submit(r)
  PROVE  OwnerInv'
<1>1. /\ UNCHANGED <<request_vars, allocated_tokens, reservations, oneshot, sent, slot_vars,
                     step_vars, pc, fault, closed, stream_open>>
      /\ client' = [client EXCEPT ![r] = IF Accepts THEN "waiting" ELSE "refused"]
      /\ channel' = IF Accepts THEN Append(channel, r) ELSE channel
      /\ client[r] = "idle"
  BY DEF Submit, cache_vars, table_vars, answer_vars
<1>2. /\ client \in [Request -> {"idle", "waiting", "refused"}]
      /\ channel \in Seq(Request) /\ Len(channel) \in Nat /\ QueueCapacity \in Nat
      /\ Len(channel) <= QueueCapacity
  <2>1. channel \in Seq(Request) /\ Len(channel) <= QueueCapacity
    BY DEF OwnerInv, OwnerTypeOK, ClientTypeOK
  <2>2. Len(channel) \in Nat
    BY <2>1
  <2>3. client \in [Request -> {"idle", "waiting", "refused"}]
    BY DEF OwnerInv, OwnerTypeOK, ClientTypeOK
  <2>4. QueueCapacity \in Nat
    BY OwnerAssumption
  <2>. QED
    BY <2>1, <2>2, <2>3, <2>4
<1>3. OwnerTypeOK'
  <2>1. AnswerTypeOK' /\ SlotTypeOK' /\ StepTypeOK'
    BY <1>1 DEF OwnerInv, OwnerTypeOK, AnswerTypeOK, SlotTypeOK, StepTypeOK, slot_vars, step_vars
  <2>2. channel' \in Seq(Request) /\ Len(channel') <= QueueCapacity
    <3>1. CASE ~Accepts
      BY <1>1, <1>2, <3>1
    <3>2. CASE Accepts
      <4>1. channel' \in Seq(Request) /\ Len(channel') = Len(channel) + 1
        BY <1>1, <1>2, <3>2, AppendProperties
      <4>. QED
        BY <1>2, <3>2, <4>1 DEF Accepts
    <3>. QED
      BY <3>1, <3>2
  <2>3. ClientTypeOK'
    BY <1>1, <2>2 DEF OwnerInv, OwnerTypeOK, ClientTypeOK
  <2>. QED
    BY <1>1, <2>1, <2>3 DEF OwnerInv, OwnerTypeOK
<1>4. OnlyKnownFaults'
  <2> SUFFICES ASSUME pc = "failed", fault # "gpu" PROVE \E q \in Greedy : EndedBy(q, fault)'
    BY <1>1 DEF OnlyKnownFaults, EndedBy
  <2>1. PICK q \in Greedy : EndedBy(q, fault)
    BY DEF OwnerInv, OnlyKnownFaults
  <2>2. PICK why : why = fault
    OBVIOUS
  <2>3. client'[q] = client[q] /\ oneshot'[q] = oneshot[q]
    BY <1>1, <1>2, <2>1, OwnerAssumption DEF EndedBy
  <2>4. EndedBy(q, why)'
    BY <2>1, <2>2, <2>3, CauseStays DEF Submit
  <2>. QED
    BY <1>1, <2>2, <2>4
<1>5. \A q \in Request : ClientOK(q)'
  BY <1>1, <1>2 DEF OwnerInv, ClientOK
<1>6. ASSUME pc' # "failed" PROVE Alive'
  <2>1. Alive
    BY <1>1, <1>6 DEF OwnerInv
  <2>2. TurnShape'
    BY <1>1, <2>1 DEF Alive, TurnShape, slot_vars, step_vars, Submit, Accepts, Running
  <2>3. \A s \in Slot : SlotOK(s)' /\ AnswerOK(s)' /\ BoundaryOK(s)'
    BY <1>1, <2>1, SlotsFrame DEF Alive
  <2>4. response' = response
    BY <1>1 DEF slot_vars
  <2>5. CASE ~Accepts
    <3>1. ~Queued(r) /\ ~Served(r) /\ ~Answered(r)
      BY <1>1, <2>1 DEF Alive, RequestOK
    <3>2. \A q \in Request : RequestOK(q)'
      BY <1>1, <1>2, <2>1, <2>4, <2>5, <3>1
      DEF Alive, RequestOK, Queued, Served, Answered
    <3>3. PlacesDistinct'
      BY <1>1, <2>1, <2>4, <2>5 DEF Alive, PlacesDistinct
    <3>. QED
      BY <2>2, <2>3, <3>2, <3>3 DEF Alive
  <2>6. CASE Accepts
    <3>1. ~Queued(r) /\ ~Served(r) /\ ~Answered(r) /\ sent[r] = << >>
      BY <1>1, <2>1 DEF Alive, RequestOK, OwnerInv, ClientOK
    <3>2. /\ DOMAIN channel' = DOMAIN channel \cup {Len(channel) + 1}
          /\ channel'[Len(channel) + 1] = r /\ Len(channel) + 1 \notin DOMAIN channel
          /\ \A i \in DOMAIN channel : channel'[i] = channel[i]
      BY <1>1, <1>2, <2>6, AppendProperties
    <3>3. \A q \in Request : Queued(q)' <=> Queued(q) \/ q = r
      BY <3>2 DEF Queued
    <3>4. \A q \in Request : (Served(q)' <=> Served(q)) /\ (Answered(q)' <=> Answered(q))
      BY <1>1, <2>4 DEF Served, Answered
    <3>5. ASSUME NEW q \in Request PROVE RequestOK(q)'
      <4>1. Queued(q)' <=> Queued(q) \/ q = r
        BY <3>3
      <4>2. (Served(q)' <=> Served(q)) /\ (Answered(q)' <=> Answered(q))
        BY <3>4
      <4>3. client'[q] = "waiting" <=> client[q] = "waiting" \/ q = r
        BY <1>1, <1>2, <2>6
      <4>. QED
        BY <1>1, <2>1, <3>1, <4>1, <4>2, <4>3 DEF Alive, RequestOK
    <3>6. PlacesDistinct'
      <4>1. \A i \in DOMAIN channel : channel[i] # r
        BY <3>1 DEF Queued
      <4>. QED
        BY <2>1, <2>4, <3>2, <4>1 DEF Alive, PlacesDistinct
    <3>. QED
      BY <2>2, <2>3, <3>5, <3>6 DEF Alive
  <2>. QED
    BY <2>5, <2>6
<1>. QED
  BY <1>3, <1>4, <1>5, <1>6 DEF OwnerInv

\* Nothing the invariant speaks of is touched.
LEMMA QuietKeeps ==
  ASSUME OwnerInv, LimitsStay, OwnerTypeOK',
         UNCHANGED <<cache_vars, request_vars, allocated_tokens, reservations, oneshot, sent,
                     slot_vars, step_vars, pc, fault, channel, client, response>>
  PROVE  OwnerInv'
<1>1. OnlyKnownFaults'
  <2> SUFFICES ASSUME pc = "failed", fault # "gpu" PROVE \E q \in Greedy : EndedBy(q, fault)'
    BY DEF OnlyKnownFaults, EndedBy
  <2>1. PICK q \in Greedy : EndedBy(q, fault)
    BY DEF OwnerInv, OnlyKnownFaults
  <2>2. PICK why : why = fault
    OBVIOUS
  <2>3. EndedBy(q, why)'
    BY <2>1, <2>2, CauseStays
  <2>. QED
    BY <2>2, <2>3
<1>2. \A r \in Request : ClientOK(r)'
  BY DEF OwnerInv, ClientOK
<1>3. ASSUME pc' # "failed" PROVE Alive'
  <2>1. Alive
    BY <1>3 DEF OwnerInv
  <2>2. TurnShape'
    BY <2>1 DEF Alive, TurnShape, slot_vars, step_vars
  <2>3. \A s \in Slot : SlotOK(s)' /\ AnswerOK(s)' /\ BoundaryOK(s)'
    BY <2>1, SlotsFrame DEF Alive
  <2>4. PlacesDistinct' /\ \A r \in Request : RequestOK(r)'
    BY <2>1, RequestsFrame DEF Alive, OwnerInv
  <2>. QED
    BY <2>2, <2>3, <2>4 DEF Alive
<1>. QED
  BY <1>1, <1>2, <1>3 DEF OwnerInv

\* A reader that goes away keeps it.
LEMMA DropStreamKeeps ==
  ASSUME OwnerInv, LimitsStay, NEW r \in Request, DropStream(r)
  PROVE  OwnerInv'
<1>1. /\ UNCHANGED <<cache_vars, request_vars, allocated_tokens, reservations, oneshot, sent,
                     slot_vars, step_vars, pc, fault, closed, channel, client, response>>
      /\ stream_open' \subseteq stream_open
  BY DEF DropStream, cache_vars, table_vars, answer_vars, slot_vars
<1>2. OwnerTypeOK'
  <2>1. AnswerTypeOK' /\ SlotTypeOK' /\ StepTypeOK' /\ ClientTypeOK'
    BY <1>1 DEF OwnerInv, OwnerTypeOK, AnswerTypeOK, SlotTypeOK, StepTypeOK, ClientTypeOK,
                slot_vars, step_vars
  <2>. QED
    BY <1>1, <2>1 DEF OwnerInv, OwnerTypeOK
<1>. QED
  BY <1>1, <1>2, QuietKeeps

\* The last handle dropped keeps it.
LEMMA CloseKeeps ==
  ASSUME OwnerInv, LimitsStay, CloseChannel
  PROVE  OwnerInv'
<1>1. /\ UNCHANGED <<cache_vars, request_vars, allocated_tokens, reservations, oneshot, sent,
                     slot_vars, step_vars, pc, fault, stream_open, channel, client, response>>
      /\ closed' = TRUE
  BY DEF CloseChannel, cache_vars, table_vars, answer_vars, slot_vars
<1>2. OwnerTypeOK'
  <2>1. AnswerTypeOK' /\ SlotTypeOK' /\ StepTypeOK' /\ ClientTypeOK'
    BY <1>1 DEF OwnerInv, OwnerTypeOK, AnswerTypeOK, SlotTypeOK, StepTypeOK, ClientTypeOK,
                slot_vars, step_vars
  <2>. QED
    BY <1>1, <2>1 DEF OwnerInv, OwnerTypeOK
<1>. QED
  BY <1>1, <1>2, QuietKeeps

\* The steps of the loop between its phases keep it.
LEMMA TurnKeeps ==
  ASSUME OwnerInv, LimitsStay, Drained \/ Refreshed \/ EmptyPlan
  PROVE  OwnerInv'
<1>1. /\ UNCHANGED <<request_vars, allocated_tokens, reservations, oneshot, sent, slot_vars,
                     step_vars, fault, closed, stream_open, channel, client, response>>
      /\ pc \in {"drain", "refresh", "plan"} /\ pc' \in {"drain", "refresh", "plan", "stopped"}
      /\ pc' = "stopped" => channel = << >> /\ free_slots = Slot
  BY DEF Drained, Refreshed, EmptyPlan, cache_vars, table_vars, answer_vars, slot_vars, Idle,
         client_vars
<1>2. OwnerTypeOK'
  <2>1. AnswerTypeOK' /\ SlotTypeOK' /\ StepTypeOK' /\ ClientTypeOK'
    BY <1>1 DEF OwnerInv, OwnerTypeOK, AnswerTypeOK, SlotTypeOK, StepTypeOK, ClientTypeOK,
                slot_vars, step_vars
  <2>. QED
    BY <1>1, <2>1 DEF OwnerInv, OwnerTypeOK
<1>3. OnlyKnownFaults'
  BY <1>1 DEF OnlyKnownFaults
<1>4. Alive
  BY <1>1 DEF OwnerInv
<1>5. TurnShape'
  BY <1>1, <1>4 DEF Alive, TurnShape, slot_vars, step_vars
<1>6. \A s \in Slot : SlotOK(s)' /\ AnswerOK(s)' /\ BoundaryOK(s)'
  BY <1>1, <1>4, SlotsFrame DEF Alive
<1>7. PlacesDistinct' /\ \A r \in Request : RequestOK(r)' /\ ClientOK(r)'
  BY <1>1, <1>4, RequestsFrame DEF Alive, OwnerInv
<1>. QED
  BY <1>2, <1>3, <1>5, <1>6, <1>7 DEF OwnerInv, Alive

-----------------------------------------------------------------------------
(* Taking the request at the head of the channel.                          *)

\* The channel without its head, and who is waiting then.
LEMMA HeadTaken ==
  ASSUME ClientTypeOK, PlacesDistinct, channel # << >>, channel' = Tail(channel)
  PROVE  /\ Head(channel) \in Request /\ Queued(Head(channel))
         /\ channel' \in Seq(Request) /\ Len(channel') <= QueueCapacity
         /\ \A q \in Request : Queued(q)' <=> Queued(q) /\ q # Head(channel)
         /\ \A i, j \in DOMAIN channel' : channel'[i] = channel'[j] => i = j
<1>1. channel \in Seq(Request) /\ Len(channel) <= QueueCapacity /\ QueueCapacity \in Nat
  BY OwnerAssumption DEF ClientTypeOK
<1>2. Len(channel) \in Nat /\ Len(channel) > 0 /\ DOMAIN channel = 1 .. Len(channel)
  BY <1>1
<1>3. Head(channel) = channel[1] /\ 1 \in DOMAIN channel /\ Head(channel) \in Request
  BY <1>1, <1>2, HeadTailProperties
<1>4. /\ channel' \in Seq(Request) /\ Len(channel') = Len(channel) - 1
      /\ DOMAIN channel' = 1 .. Len(channel) - 1
      /\ \A i \in 1 .. Len(channel) - 1 : channel'[i] = channel[i + 1]
  BY <1>1, <1>2, HeadTailProperties
<1>5. ASSUME NEW q \in Request PROVE Queued(q)' <=> Queued(q) /\ q # Head(channel)
  <2>1. ASSUME NEW i \in DOMAIN channel', channel'[i] = q
        PROVE  Queued(q) /\ q # Head(channel)
    <3>1. i + 1 \in DOMAIN channel /\ channel[i + 1] = q /\ i + 1 # 1
      BY <1>2, <1>4, <2>1
    <3>. QED
      BY <1>3, <3>1 DEF PlacesDistinct, Queued
  <2>2. ASSUME NEW i \in DOMAIN channel, channel[i] = q, q # Head(channel)
        PROVE  Queued(q)'
    <3>1. i # 1
      BY <1>3, <2>2
    <3>2. i - 1 \in DOMAIN channel' /\ channel'[i - 1] = q
      BY <1>2, <1>4, <2>2, <3>1
    <3>. QED
      BY <3>2 DEF Queued
  <2>. QED
    BY <2>1, <2>2 DEF Queued
<1>6. ASSUME NEW i \in DOMAIN channel', NEW j \in DOMAIN channel', channel'[i] = channel'[j]
      PROVE  i = j
  <2>1. /\ i + 1 \in DOMAIN channel /\ j + 1 \in DOMAIN channel
        /\ channel[i + 1] = channel[j + 1]
    BY <1>2, <1>4, <1>6
  <2>2. i + 1 = j + 1
    BY <2>1 DEF PlacesDistinct
  <2>. QED
    BY <1>2, <1>4, <2>2
<1>. QED
  BY <1>1, <1>2, <1>3, <1>4, <1>5, <1>6 DEF Queued

\* Rejecting a request keeps the invariant.
LEMMA RejectKeeps ==
  ASSUME OwnerInv, LimitsStay, RejectHead
  PROVE  OwnerInv'
<1> DEFINE r == Head(channel)
<1>1. /\ UNCHANGED <<request_vars, allocated_tokens, reservations, sent, slot_vars, step_vars,
                     pc, fault, closed, client, stream_open, response>>
      /\ oneshot' = [oneshot EXCEPT ![r] = Rejected]
      /\ channel' = Tail(channel) /\ channel # << >> /\ pc = "drain"
  BY DEF RejectHead, cache_vars, table_vars, slot_vars
<1>2. Alive /\ OwnerTypeOK
  BY <1>1 DEF OwnerInv
<1>3. /\ r \in Request /\ Queued(r)
      /\ channel' \in Seq(Request) /\ Len(channel') <= QueueCapacity
      /\ \A q \in Request : Queued(q)' <=> Queued(q) /\ q # r
      /\ \A i, j \in DOMAIN channel' : channel'[i] = channel'[j] => i = j
  BY <1>1, <1>2, HeadTaken DEF Alive, OwnerTypeOK
<1>4. /\ ~Served(r) /\ ~Answered(r) /\ client[r] = "waiting" /\ sent[r] = << >>
      /\ \A q \in Request : oneshot'[q] = IF q = r THEN Rejected ELSE oneshot[q]
  BY <1>1, <1>2, <1>3 DEF Alive, RequestOK, OwnerTypeOK, AnswerTypeOK
<1> HIDE DEF r
<1>5. Rejected # Empty /\ Rejected.kind = "rejected" /\ Rejected.reason = "none"
      /\ Rejected.tokens = << >>
      /\ Rejected \in [kind : {"empty", "rejected", "completed"}, tokens : Seq(Token),
                       reason : {"none", "stop", "length", "abort"}]
  BY EmptySeq DEF Rejected, Empty
<1>6. OwnerTypeOK'
  <2>1. AnswerTypeOK'
    BY <1>1, <1>2, <1>3, <1>5 DEF OwnerTypeOK, AnswerTypeOK
  <2>2. SlotTypeOK' /\ StepTypeOK' /\ ClientTypeOK'
    BY <1>1, <1>2, <1>3 DEF OwnerTypeOK, SlotTypeOK, StepTypeOK, ClientTypeOK,
                            slot_vars, step_vars
  <2>. QED
    BY <1>1, <1>2, <2>1, <2>2 DEF OwnerTypeOK
<1>7. OnlyKnownFaults'
  BY <1>1 DEF OnlyKnownFaults
<1>8. \A q \in Request : ClientOK(q)'
  BY <1>1, <1>3, <1>4 DEF OwnerInv, ClientOK
<1>9. TurnShape'
  BY <1>1, <1>2 DEF Alive, TurnShape, slot_vars, step_vars
<1>10. \A s \in Slot : SlotOK(s)' /\ AnswerOK(s)' /\ BoundaryOK(s)'
  BY <1>1, <1>2, SlotsFrame DEF Alive
<1>11. PlacesDistinct'
  BY <1>1, <1>2, <1>3 DEF Alive, PlacesDistinct
<1>12. ASSUME NEW q \in Request PROVE RequestOK(q)'
  <2>1. Queued(q)' <=> Queued(q) /\ q # r
    BY <1>3
  <2>2. (Served(q)' <=> Served(q)) /\ (Answered(q)' <=> Answered(q) \/ q = r)
    BY <1>1, <1>4, <1>5 DEF Served, Answered
  <2>. QED
    BY <1>1, <1>2, <1>3, <1>4, <2>1, <2>2 DEF Alive, RequestOK
<1>. QED
  BY <1>1, <1>6, <1>7, <1>8, <1>9, <1>10, <1>11, <1>12 DEF OwnerInv, Alive

-----------------------------------------------------------------------------
(* Admission.                                                              *)

\* What is attached falls short of the last reusable boundary unless that is
\* published already.
LEMMA HitBoundary ==
  ASSUME NEW r \in Request, NEW hit,
         IsDeepestCheckpoint(PromptOf[r], ReusablePages(PromptOf[r]), hit)
  PROVE  hit * PageSize < Boundary(r) \/ Boundary(r) = 0 \/ AtLimit(r)
<1>1. /\ ReusablePages(PromptOf[r]) \in Nat /\ hit \in 0 .. ReusablePages(PromptOf[r])
      /\ hit \in Nat
  BY RequestFacts DEF IsDeepestCheckpoint
<1>2. CASE hit = ReusablePages(PromptOf[r])
  <2>1. hit # 0 => AtLimit(r)
    BY <1>2 DEF AtLimit, CanPublish, IsDeepestCheckpoint
  <2>2. hit = 0 => Boundary(r) = 0
    BY <1>2, PageSizeAssumption DEF Boundary
  <2>. QED
    BY <2>1, <2>2
<1>3. CASE hit < ReusablePages(PromptOf[r])
  BY <1>1, <1>3, MulStrict DEF Boundary
<1>. QED
  BY <1>1, <1>2, <1>3

\* Admitting one is a step of the cache and keeps the invariant.
LEMMA AdmitHeadStep ==
  ASSUME CacheTypeOK, CacheInv, OwnerInv, NEW s \in Slot, NEW hit \in 0 .. PagesPerSlot,
         AdmitHead(s, hit)
  PROVE  [CacheNext]_cache_vars /\ OwnerInv'
<1>1. /\ Alive /\ OwnerTypeOK /\ pc = "drain" /\ channel # << >> /\ s \in free_slots
      /\ ClientTypeOK /\ PlacesDistinct
  BY DEF AdmitHead, Acquires, OwnerInv, Alive, OwnerTypeOK
<1>2. phase[s] = "Free"
  BY <1>1 DEF Alive, SlotOK
<1>3. PICK r \in Request :
        /\ r = Head(channel) /\ r \in Greedy /\ Fits(r)
        /\ client[r] = "waiting" /\ oneshot[r] = Empty
        /\ IsDeepestCheckpoint(PromptOf[r], ReusablePages(PromptOf[r]), hit)
  BY <1>1, HeadWaits DEF AdmitHead, Acquires
<1>4. CASE ~CanReserve(PrivatePages(Total(r), hit))
  <2>1. Fail("slot_already_free")
    BY <1>2, <1>3, <1>4 DEF AdmitHead
  <2>2. EndedBy(r, "slot_already_free")
    BY <1>3, <1>4 DEF EndedBy
  <2>. QED
    BY <1>3, <2>1, <2>2, FailKeeps DEF Fail
<1>5. CASE CanReserve(PrivatePages(Total(r), hit)) /\ PromptOf[r] = << >>
  <2>1. Fail("empty_prompt")
    BY <1>2, <1>3, <1>5 DEF AdmitHead
  <2>2. EndedBy(r, "empty_prompt")
    BY <1>3, <1>5 DEF EndedBy
  <2>. QED
    BY <1>3, <2>1, <2>2, FailKeeps DEF Fail
<1>6. CASE CanReserve(PrivatePages(Total(r), hit)) /\ PromptOf[r] # << >>
  <2>1. /\ Admit(s, PromptOf[r], Total(r), hit)
        /\ channel' = Tail(channel)
        /\ free_slots' = free_slots \ {s}
        /\ response' = [response EXCEPT ![s] = r]
        /\ phase' = [phase EXCEPT ![s] = "QueuedPrefill"]
        /\ prefilled' = [prefilled EXCEPT ![s] = hit * PageSize]
        /\ scheduled' = [scheduled EXCEPT ![s] = FALSE]
        /\ generated' = [generated EXCEPT ![s] = 0]
        /\ UNCHANGED <<pc, fault, closed, client, stream_open, answer_vars, step_vars>>
    BY <1>2, <1>3, <1>6 DEF AdmitHead, GeneratedReset
  <2>2. UNCHANGED <<oneshot, sent, work, forwarded, current, finished>>
    BY <2>1 DEF answer_vars, step_vars
  <2>3. /\ PromptOf[r] \in Prompt /\ PromptOf[r] \in Seq(Token) /\ PromptOf[r] # << >>
        /\ LimitOf[r] \in NewTokenLimit /\ Total(r) = Len(PromptOf[r]) + LimitOf[r]
        /\ Len(PromptOf[r]) \in Nat /\ Total(r) \in Nat /\ r # NoRequest
    BY <1>3, <1>6, RequestFacts
  <2>4. /\ IsDeepestCheckpoint(PromptOf[r], ReusablePages(PromptOf[r]), hit)
        /\ hit \in 0 .. ReusablePages(PromptOf[r]) /\ hit \in Nat
    BY <1>3 DEF IsDeepestCheckpoint
  <2>5. CacheNext
    BY <2>1, <2>3, <2>4 DEF CacheNext
  <2>6. LimitsStay /\ CacheTypeOK'
    BY <2>5, NextLimits, NextType
  <2>7. /\ tokens' = [tokens EXCEPT ![s] = PromptOf[r]]
        /\ maximum_tokens' = [maximum_tokens EXCEPT ![s] = Total(r)]
        /\ allocated_tokens' = [allocated_tokens EXCEPT ![s] = hit * PageSize]
        /\ reservations' = [reservations EXCEPT ![s] = PrivatePages(Total(r), hit)]
        /\ UNCHANGED <<free_checkpoints, node_page, node_checkpoint>>
    BY <2>1 DEF Admit, radix_vars
  <2>8. /\ Queued(r)
        /\ channel' \in Seq(Request) /\ Len(channel') <= QueueCapacity
        /\ \A q \in Request : Queued(q)' <=> Queued(q) /\ q # r
        /\ \A i, j \in DOMAIN channel' : channel'[i] = channel'[j] => i = j
    BY <1>1, <1>3, <2>1, HeadTaken
  <2>9. /\ DOMAIN work = {} /\ DOMAIN finished = {} /\ current = NoRequest
        /\ response[s] = NoRequest /\ s # NoRequest
        /\ ~Served(r) /\ ~Answered(r) /\ client[r] = "waiting" /\ sent[r] = << >>
    BY <1>1, <1>2, <1>3, <2>8, OwnerAssumption DEF Alive, TurnShape, SlotOK, RequestOK
  <2>10. OwnerTypeOK'
    <3>1. hit * PageSize \in Nat
      BY <2>4, DivMulType
    <3>2. SlotTypeOK'
      BY <1>1, <1>3, <2>1, <3>1 DEF OwnerTypeOK, SlotTypeOK
    <3>3. AnswerTypeOK' /\ StepTypeOK' /\ ClientTypeOK'
      BY <1>1, <2>1, <2>2, <2>8 DEF OwnerTypeOK, AnswerTypeOK, StepTypeOK, ClientTypeOK
    <3>. QED
      BY <1>1, <2>1, <3>2, <3>3 DEF OwnerTypeOK
  <2>11. \A t \in Slot \ {s} : SlotOK(t)' /\ AnswerOK(t)' /\ BoundaryOK(t)'
    <3> SUFFICES ASSUME NEW t \in Slot, t # s PROVE SlotOK(t)' /\ AnswerOK(t)' /\ BoundaryOK(t)'
      OBVIOUS
    <3>1. /\ tokens'[t] = tokens[t] /\ maximum_tokens'[t] = maximum_tokens[t]
          /\ allocated_tokens'[t] = allocated_tokens[t] /\ reservations'[t] = reservations[t]
      BY <2>7 DEF CacheTypeOK
    <3>2. /\ response'[t] = response[t] /\ phase'[t] = phase[t] /\ prefilled'[t] = prefilled[t]
          /\ scheduled'[t] = scheduled[t] /\ generated'[t] = generated[t]
          /\ (t \in free_slots' <=> t \in free_slots)
      BY <1>1, <2>1 DEF OwnerTypeOK, SlotTypeOK
    <3>3. SlotOK(t) /\ AnswerOK(t) /\ BoundaryOK(t)
      BY <1>1 DEF Alive
    <3>4. SlotOK(t)'
      BY <2>2, <3>1, <3>2, <3>3, SlotFrame
    <3>5. AnswerOK(t)'
      BY <2>2, <3>1, <3>2, <3>3, AnswerFrame
    <3>. QED
      BY <2>2, <2>6, <3>2, <3>3, <3>4, <3>5, BoundaryFrame
  <2>12. /\ tokens'[s] = PromptOf[r] /\ maximum_tokens'[s] = Total(r)
         /\ allocated_tokens'[s] = hit * PageSize
         /\ reservations'[s] = PrivatePages(Total(r), hit)
         /\ response'[s] = r /\ phase'[s] = "QueuedPrefill" /\ prefilled'[s] = hit * PageSize
         /\ scheduled'[s] = FALSE /\ generated'[s] = 0 /\ s \notin free_slots'
    BY <1>1, <2>1, <2>7 DEF CacheTypeOK, OwnerTypeOK, SlotTypeOK
  <2>13. SlotOK(s)'
    <3>1. SharedPages(s)' = hit
      <4>1. DivCeil(Total(r)) \in Nat
        BY <2>3, DivCeilType
      <4>2. SharedPages(s)' = DivCeil(Total(r)) - (DivCeil(Total(r)) - hit)
        BY <2>12 DEF SharedPages, PrivatePages, DivCeil
      <4>. QED
        BY <2>4, <4>1, <4>2
    <3>2. PrefillOK(s)'
      BY <2>2, <2>9, <2>12, <3>1 DEF PrefillOK, PromptLen
    <3>. QED
      BY <2>3, <2>12, <3>2 DEF SlotOK, Occupied, Total
  <2>14. AnswerOK(s)'
    <3>1. SubSeq(PromptOf[r], Len(PromptOf[r]) + 1, Len(PromptOf[r])) = << >>
      BY <2>3, SubSeqEmpty
    <3>2. Unsent(s)' = 0 /\ Len(PromptOf[r]) - 0 = Len(PromptOf[r])
      BY <2>2, <2>3, <2>9 DEF Unsent
    <3>3. Len(PromptOf[r]) + 1 .. Len(PromptOf[r]) = {}
      BY <2>3
    <3>. QED
      BY <2>2, <2>9, <2>12, <3>1, <3>2, <3>3 DEF AnswerOK, PromptLen
  <2>15. BoundaryOK(s)'
    <3>1. hit * PageSize < Boundary(r) \/ Boundary(r) = 0 \/ AtLimit(r)'
      BY <1>3, <2>4, <2>6, HitBoundary DEF LimitsStay
    <3>. QED
      BY <2>2, <2>9, <2>12, <3>1 DEF BoundaryOK, Boundary, ReusablePages
  <2>16. PlacesDistinct'
    <3>1. \A t \in Slot : response[t] # r
      BY <2>9 DEF Served
    <3>2. \A t \in Slot : response'[t] = IF t = s THEN r ELSE response[t]
      BY <1>1, <2>1 DEF OwnerTypeOK, SlotTypeOK
    <3>. QED
      BY <1>1, <2>8, <3>1, <3>2 DEF PlacesDistinct
  <2>17. ASSUME NEW q \in Request PROVE RequestOK(q)' /\ ClientOK(q)'
    <3>1. Queued(q)' <=> Queued(q) /\ q # r
      BY <2>8
    <3>2. Answered(q)' <=> Answered(q)
      BY <2>2 DEF Answered
    <3>3. Served(q)' <=> Served(q) \/ q = r
      <4>1. \A t \in Slot : response'[t] = IF t = s THEN r ELSE response[t]
        BY <1>1, <2>1 DEF OwnerTypeOK, SlotTypeOK
      <4>2. q # NoRequest
        BY RequestFacts
      <4>. QED
        BY <2>9, <4>1, <4>2 DEF Served
    <3>4. RequestOK(q) /\ ClientOK(q)
      BY <1>1 DEF Alive, OwnerInv
    <3>. QED
      BY <2>1, <2>2, <2>9, <3>1, <3>2, <3>3, <3>4 DEF RequestOK, ClientOK
  <2>18. TurnShape'
    <3>1. \A t \in Slot : /\ response'[t] = IF t = s THEN r ELSE response[t]
                          /\ phase'[t] = IF t = s THEN "QueuedPrefill" ELSE phase[t]
      BY <1>1, <2>1 DEF OwnerTypeOK, SlotTypeOK
    <3>. QED
      BY <1>1, <2>1, <2>2, <2>3, <2>9, <3>1 DEF Alive, TurnShape
  <2>19. Alive'
    BY <2>11, <2>13, <2>14, <2>15, <2>16, <2>17, <2>18 DEF Alive
  <2>20. OnlyKnownFaults'
    BY <1>1, <2>1 DEF OnlyKnownFaults
  <2>. QED
    BY <2>5, <2>10, <2>17, <2>19, <2>20 DEF OwnerInv
<1>. QED
  BY <1>4, <1>5, <1>6

-----------------------------------------------------------------------------
(* A slot and the rest: the other slots keep what the invariant says of    *)
(* them.                                                                   *)

\* A slot in use has a request unless that has just been answered.
LEMMA HasRequest ==
  ASSUME OwnerTypeOK, Alive, NEW s \in Slot, phase[s] # "Free", pc # "release" \/ s # current
  PROVE  response[s] \in Request /\ response[s] # NoRequest
  BY DEF OwnerTypeOK, SlotTypeOK, Alive, TurnShape

\* What the invariant says of one slot is not disturbed by a step of another.
LEMMA OtherSlot ==
  ASSUME NEW s \in Slot, NEW t \in Slot, t # s, SlotOK(t), AnswerOK(t), BoundaryOK(t), LimitsStay,
         tokens'[t] = tokens[t], maximum_tokens'[t] = maximum_tokens[t],
         allocated_tokens'[t] = allocated_tokens[t], reservations'[t] = reservations[t],
         response'[t] = response[t], phase'[t] = phase[t], prefilled'[t] = prefilled[t],
         scheduled'[t] = scheduled[t], generated'[t] = generated[t],
         t \in free_slots' <=> t \in free_slots,
         response[t] # NoRequest => sent'[response[t]] = sent[response[t]],
         t \in DOMAIN work' <=> t \in DOMAIN work, t \in DOMAIN work => work'[t] = work[t],
         t \in DOMAIN work => (t \in forwarded' <=> t \in forwarded),
         t = current' <=> t = current,
         t \in DOMAIN finished' <=> t \in DOMAIN finished,
         t \in DOMAIN finished => finished'[t] = finished[t]
  PROVE  SlotOK(t)' /\ AnswerOK(t)' /\ BoundaryOK(t)'
<1>1. SlotOK(t)'
  BY SlotFrame
<1>2. AnswerOK(t)'
  BY AnswerFrame
<1>. QED
  BY <1>1, <1>2, BoundaryFrame

-----------------------------------------------------------------------------
(* The refresh of an attached prefix.                                      *)

\* A refresh is a step of the cache and keeps the invariant.
LEMMA RefreshStep ==
  ASSUME CacheTypeOK, CacheInv, OwnerInv, NEW s \in Slot, NEW hit \in 0 .. PagesPerSlot,
         Refresh(s, hit)
  PROVE  [CacheNext]_cache_vars /\ OwnerInv'
<1>1. /\ Alive /\ OwnerTypeOK /\ PageInv /\ pc = "refresh" /\ SlotOK(s)
      /\ ~scheduled[s] /\ phase[s] = "QueuedPrefill"
      /\ IsDeepestCheckpoint(tokens[s], ReusablePages(tokens[s]), hit)
      /\ hit * PageSize > prefilled[s]
  BY DEF Refresh, Refreshable, OwnerInv, Alive, CacheInv
<1>2. PICK r \in Request : response[s] = r
  BY <1>1, HasRequest
<1>3. r # NoRequest /\ PromptOf[r] # << >>
  BY <1>1, <1>2, RequestFacts DEF SlotOK
<1>4. /\ DOMAIN work = {} /\ DOMAIN finished = {} /\ current = NoRequest /\ s # NoRequest
  BY <1>1, OwnerAssumption DEF Alive, TurnShape
<1>5. /\ tokens[s] = PromptOf[r] /\ Occupied(s) /\ generated[s] = 0
      /\ allocated_tokens[s] = prefilled[s]
      /\ allocated_tokens[s] = SharedPages(s) * PageSize
      /\ maximum_tokens[s] = Total(r) /\ s \notin free_slots
  BY <1>1, <1>2, <1>3, <1>4 DEF SlotOK, PrefillOK
<1>6. /\ SharedPages(s) \in Nat /\ hit \in Nat /\ reservations[s] \in Nat
      /\ AllocatedPages(s) = SharedPages(s) /\ hit > SharedPages(s)
  <2>1. SharedPages(s) \in Nat /\ reservations[s] \in Nat
    BY <1>1, SlotFacts DEF PageInv
  <2>2. AllocatedPages(s) = SharedPages(s)
    BY <1>5, <2>1, DivCeilExact DEF AllocatedPages
  <2>3. hit <= SharedPages(s) => hit * PageSize <= SharedPages(s) * PageSize
    BY <2>1, MulMono
  <2>4. hit * PageSize \in Nat /\ SharedPages(s) * PageSize \in Nat
    BY <2>1, DivMulType
  <2>. QED
    BY <1>1, <1>5, <2>1, <2>2, <2>3, <2>4
<1>7. Untouched(s) /\ DeeperHit(s, hit)
  BY <1>1, <1>5, <1>6 DEF Untouched, DeeperHit
<1>8. CanExtend(s, hit)
  BY <1>1, <1>7, RefreshChecked
<1>9. /\ ExtendEffect(s, hit)
      /\ prefilled' = [prefilled EXCEPT ![s] = hit * PageSize]
      /\ UNCHANGED <<pc, fault, client_vars, answer_vars, response, phase, scheduled,
                     generated, free_slots, step_vars>>
  BY <1>5, <1>8 DEF Refresh
<1>10. CacheNext
  <2>1. hit \in 1 .. ReusablePages(tokens[s])
    BY <1>1, <1>6 DEF IsDeepestCheckpoint
  <2>2. ExtendAttachedPrefix(s, hit)
    BY <1>7, <1>8, <1>9 DEF ExtendAttachedPrefix
  <2>. QED
    BY <2>1, <2>2 DEF CacheNext
<1>11. LimitsStay
  BY <1>10, NextLimits
<1>12. /\ UNCHANGED <<channel, closed, client, stream_open, oneshot, sent, work, forwarded,
                      current, finished, tokens, maximum_tokens>>
       /\ allocated_tokens' = [allocated_tokens EXCEPT ![s] = hit * PageSize]
       /\ reservations' = [reservations EXCEPT ![s] = @ - (hit - AllocatedPages(s))]
  BY <1>9 DEF client_vars, answer_vars, step_vars, ExtendEffect, request_vars
<1>13. /\ allocated_tokens'[s] = hit * PageSize /\ prefilled'[s] = hit * PageSize
       /\ reservations'[s] = reservations[s] - (hit - SharedPages(s))
  BY <1>1, <1>6, <1>9, <1>12 DEF CacheTypeOK, OwnerTypeOK, SlotTypeOK
<1>14. OwnerTypeOK'
  <2>1. hit * PageSize \in Nat
    BY <1>6, DivMulType
  <2>2. SlotTypeOK'
    BY <1>1, <1>9, <2>1 DEF OwnerTypeOK, SlotTypeOK
  <2>3. AnswerTypeOK' /\ StepTypeOK' /\ ClientTypeOK'
    BY <1>1, <1>12 DEF OwnerTypeOK, AnswerTypeOK, StepTypeOK, ClientTypeOK
  <2>. QED
    BY <1>1, <1>9, <2>2, <2>3 DEF OwnerTypeOK
<1>15. ASSUME NEW t \in Slot, t # s
       PROVE  SlotOK(t)' /\ AnswerOK(t)' /\ BoundaryOK(t)'
  <2>1. /\ allocated_tokens'[t] = allocated_tokens[t] /\ reservations'[t] = reservations[t]
        /\ prefilled'[t] = prefilled[t]
    BY <1>1, <1>9, <1>12, <1>15 DEF CacheTypeOK, OwnerTypeOK, SlotTypeOK
  <2>2. SlotOK(t) /\ AnswerOK(t) /\ BoundaryOK(t)
    BY <1>1 DEF Alive
  <2>. QED
    BY <1>9, <1>11, <1>12, <1>15, <2>1, <2>2, OtherSlot
<1>16. SlotOK(s)'
  <2>1. SharedPages(s)' = hit
    <3>1. /\ SharedPages(s)' = DivCeil(maximum_tokens[s]) - reservations'[s]
          /\ SharedPages(s) = DivCeil(maximum_tokens[s]) - reservations[s]
      BY <1>12 DEF SharedPages, DivCeil
    <3>2. DivCeil(maximum_tokens[s]) \in Nat
      BY <1>1, SlotFacts DEF PageInv
    <3>. QED
      BY <1>6, <1>13, <3>1, <3>2
  <2>2. PrefillOK(s)'
    BY <1>2, <1>4, <1>5, <1>9, <1>12, <1>13, <2>1 DEF PrefillOK, PromptLen
  <2>. QED
    BY <1>1, <1>2, <1>3, <1>5, <1>9, <1>12, <2>2 DEF SlotOK, Occupied, Total
<1>17. AnswerOK(s)'
  BY <1>1, <1>9, <1>12, AnswerFrame DEF Alive
<1>18. BoundaryOK(s)'
  <2>1. hit * PageSize < Boundary(r) \/ Boundary(r) = 0 \/ AtLimit(r)'
    BY <1>1, <1>5, <1>11, HitBoundary DEF LimitsStay
  <2>. QED
    BY <1>1, <1>2, <1>4, <1>9, <1>12, <1>13, <2>1 DEF BoundaryOK, Boundary, ReusablePages
<1>19. PlacesDistinct' /\ \A q \in Request : RequestOK(q)' /\ ClientOK(q)'
  BY <1>1, <1>9, <1>12, RequestsFrame DEF Alive, OwnerInv
<1>20. TurnShape'
  BY <1>1, <1>4, <1>9, <1>12 DEF Alive, TurnShape
<1>21. OnlyKnownFaults'
  BY <1>1, <1>9 DEF OnlyKnownFaults
<1>. QED
  BY <1>10, <1>14, <1>15, <1>16, <1>17, <1>18, <1>19, <1>20, <1>21 DEF OwnerInv, Alive

-----------------------------------------------------------------------------
(* The plan of a step.                                                     *)

\* A chunk is not empty, stays within the prompt and does not run past the
\* last reusable boundary.
LEMMA ChunkFacts ==
  ASSUME NEW s \in Slot, NEW r \in Request, response[s] = r, prefilled[s] \in Nat,
         NEW chunk \in PrefillChunks(s)
  PROVE  /\ chunk \in Nat \ {0} /\ prefilled[s] + chunk <= Len(PromptOf[r])
         /\ Boundary(r) <= prefilled[s] \/ prefilled[s] + chunk <= Boundary(r)
<1>1. PICK n \in Chunk : n <= Len(PromptOf[r]) - prefilled[s] /\ chunk = SplitAtBoundary(s, n)
  BY DEF PrefillChunks, PromptLen
<1>2. n \in Nat /\ n > 0
  <2>1. Chunk \subseteq Nat \ {0}
    BY OwnerAssumption
  <2>. QED
    BY <1>1, <2>1
<1>3. chunk = IF prefilled[s] < Boundary(r) /\ prefilled[s] + n > Boundary(r)
              THEN Boundary(r) - prefilled[s] ELSE n
  BY <1>1 DEF SplitAtBoundary, Boundary
<1>4. Boundary(r) \in Nat /\ Boundary(r) <= Len(PromptOf[r]) /\ Len(PromptOf[r]) \in Nat
  BY RequestFacts
<1>. QED
  BY <1>1, <1>2, <1>3, <1>4

\* A plan leaves the cache alone and gives every slot work it can do.
LEMMA PlanStep ==
  ASSUME CacheTypeOK, CacheInv, OwnerInv, Plan
  PROVE  [CacheNext]_cache_vars /\ OwnerInv'
<1>1. Alive /\ OwnerTypeOK /\ pc = "plan" /\ ~(pc = "failed")
  BY DEF Plan, OwnerInv
<1>2. DOMAIN work = {} /\ DOMAIN finished = {} /\ current = NoRequest
  BY <1>1 DEF Alive, TurnShape
<1>3. PICK chosen \in SUBSET Prefills :
        \E chunk \in [chosen -> UNION {PrefillChunks(s) : s \in chosen}] :
          /\ \A s \in chosen : chunk[s] \in PrefillChunks(s)
          /\ work' = [s \in Decoders \cup chosen |-> IF s \in chosen THEN chunk[s] ELSE 1]
          /\ scheduled' = [s \in Slot |-> scheduled[s] \/ s \in Decoders \cup chosen]
  BY DEF Plan
<1>4. PICK chunk \in [chosen -> UNION {PrefillChunks(s) : s \in chosen}] :
        /\ \A s \in chosen : chunk[s] \in PrefillChunks(s)
        /\ work' = [s \in Decoders \cup chosen |-> IF s \in chosen THEN chunk[s] ELSE 1]
        /\ scheduled' = [s \in Slot |-> scheduled[s] \/ s \in Decoders \cup chosen]
  BY <1>3
<1> DEFINE planned == Decoders \cup chosen
<1>5. /\ UNCHANGED <<cache_vars, tokens, maximum_tokens, allocated_tokens, reservations,
                     channel, closed, client, stream_open, oneshot, sent, fault, response, phase,
                     prefilled, generated, free_slots, current, finished>>
      /\ pc' = "forward" /\ forwarded' = {}
  BY DEF Plan, cache_vars, request_vars, table_vars, client_vars, answer_vars
<1>6. LimitsStay
  BY <1>5, NextLimits
<1>7. /\ DOMAIN work' = planned /\ planned \subseteq Slot
      /\ \A s \in planned : work'[s] = IF s \in chosen THEN chunk[s] ELSE 1
      /\ \A s \in Slot : scheduled'[s] = (scheduled[s] \/ s \in planned)
  BY <1>4 DEF Decoders, Prefills
<1>8. ASSUME NEW s \in planned
      PROVE  \/ phase[s] = "Decoding" /\ work'[s] = 1
             \/ phase[s] = "QueuedPrefill" /\ s \in chosen /\ work'[s] = chunk[s]
                /\ chunk[s] \in PrefillChunks(s)
  BY <1>4, <1>7 DEF Decoders, Prefills
<1>9. ASSUME NEW s \in chosen, NEW r \in Request, response[s] = r
      PROVE  /\ chunk[s] \in Nat \ {0} /\ prefilled[s] + chunk[s] <= Len(PromptOf[r])
             /\ Boundary(r) <= prefilled[s] \/ prefilled[s] + chunk[s] <= Boundary(r)
  <2>1. s \in Slot /\ chunk[s] \in PrefillChunks(s) /\ prefilled[s] \in Nat
    BY <1>1, <1>4 DEF Prefills, OwnerTypeOK, SlotTypeOK
  <2>. QED
    BY <1>9, <2>1, ChunkFacts
<1>10. ASSUME NEW s \in Slot, phase[s] # "Free"
      PROVE  response[s] # NoRequest /\ \E r \in Request : response[s] = r
  BY <1>1, <1>10, HasRequest
<1> HIDE DEF planned
<1>11. OwnerTypeOK'
  <2>1. \A s \in Slot : scheduled'[s] \in BOOLEAN
    BY <1>7
  <2>2. scheduled' \in [Slot -> BOOLEAN]
    BY <1>4, <2>1
  <2>3. SlotTypeOK'
    BY <1>1, <1>5, <2>2 DEF OwnerTypeOK, SlotTypeOK
  <2>4. ASSUME NEW s \in planned PROVE work'[s] \in Nat \ {0}
    BY <1>7, <1>8, <1>9, <1>10
  <2>5. StepTypeOK'
    BY <1>1, <1>5, <1>7, <2>4 DEF OwnerTypeOK, StepTypeOK
  <2>6. AnswerTypeOK' /\ ClientTypeOK'
    BY <1>1, <1>5 DEF OwnerTypeOK, AnswerTypeOK, ClientTypeOK
  <2>. QED
    BY <1>1, <1>5, <2>3, <2>5, <2>6 DEF OwnerTypeOK
<1>12. TurnShape'
  <2>1. \A s \in planned : response[s] # NoRequest
    BY <1>7, <1>8, <1>10
  <2>. QED
    BY <1>1, <1>2, <1>5, <1>7, <2>1 DEF Alive, TurnShape
<1>13. ASSUME NEW s \in Slot PROVE SlotOK(s)' /\ AnswerOK(s)' /\ BoundaryOK(s)'
  <2>1. SlotOK(s) /\ AnswerOK(s) /\ BoundaryOK(s)
    BY <1>1 DEF Alive
  <2>2. s # NoRequest
    BY OwnerAssumption
  <2>3. AnswerOK(s)'
    BY <1>5, <2>1, AnswerFrame
  <2>4. SharedPages(s)' = SharedPages(s)
    BY <1>5 DEF SharedPages, DivCeil
  <2>5. CASE phase[s] = "Free"
    <3>1. SlotOK(s)'
      BY <1>5, <2>1, <2>5 DEF SlotOK, Occupied, Total
    <3>2. response[s] = NoRequest
      BY <1>1, <2>5 DEF Alive, TurnShape
    <3>3. BoundaryOK(s)'
      BY <1>5, <3>2, RequestFacts DEF BoundaryOK
    <3>. QED
      BY <2>3, <3>1, <3>3
  <2>6. CASE phase[s] = "Decoding"
    <3>1. DecodeOK(s)'
      BY <1>2, <1>5, <1>7, <1>8, <1>10, <2>1, <2>6 DEF SlotOK, DecodeOK, PromptLen, Total
    <3>2. SlotOK(s)'
      BY <1>5, <2>1, <2>6, <3>1 DEF SlotOK, Occupied, Total
    <3>3. BoundaryOK(s)'
      BY <1>5, <1>6, <2>1, <2>6 DEF LimitsStay, BoundaryOK, Boundary, ReusablePages
    <3>. QED
      BY <2>3, <3>2, <3>3
  <2>7. CASE phase[s] = "QueuedPrefill"
    <3>1. PICK r \in Request : response[s] = r
      BY <1>10, <2>7
    <3>2. /\ tokens[s] = PromptOf[r] /\ allocated_tokens[s] = prefilled[s] /\ generated[s] = 0
          /\ ~scheduled[s] => allocated_tokens[s] = SharedPages(s) * PageSize
          /\ prefilled[s] \in Nat
      BY <1>1, <1>2, <1>10, <2>1, <2>7, <3>1 DEF SlotOK, PrefillOK, OwnerTypeOK, SlotTypeOK
    <3>3. s \in planned => /\ work'[s] \in Nat /\ prefilled[s] + work'[s] <= Len(PromptOf[r])
                           /\ Boundary(r) <= prefilled[s]
                                \/ prefilled[s] + work'[s] <= Boundary(r)
      BY <1>8, <1>9, <2>7, <3>1
    <3>4. ~scheduled'[s] => ~scheduled[s] /\ s \notin planned
      BY <1>7
    <3>5. PrefillOK(s)'
      BY <1>2, <1>5, <1>7, <2>2, <2>4, <3>1, <3>2, <3>3, <3>4 DEF PrefillOK, PromptLen
    <3>6. SlotOK(s)'
      BY <1>5, <2>1, <2>7, <3>5 DEF SlotOK, Occupied, Total
    <3>7. BoundaryOK(s)'
      BY <1>5, <1>6, <1>7, <2>1, <2>7, <3>1, <3>3
      DEF LimitsStay, BoundaryOK, Boundary, ReusablePages
    <3>. QED
      BY <2>3, <3>6, <3>7
  <2>. QED
    BY <1>1, <2>5, <2>6, <2>7 DEF OwnerTypeOK, SlotTypeOK
<1>14. PlacesDistinct' /\ \A q \in Request : RequestOK(q)' /\ ClientOK(q)'
  BY <1>1, <1>5, RequestsFrame DEF Alive, OwnerInv
<1>15. OnlyKnownFaults'
  BY <1>5 DEF OnlyKnownFaults
<1>. QED
  BY <1>5, <1>11, <1>12, <1>13, <1>14, <1>15 DEF OwnerInv, Alive

-----------------------------------------------------------------------------
(* The forward pass.                                                       *)

\* A slot's part of the forward pass is a step of the cache and keeps the
\* invariant.
LEMMA ForwardStep ==
  ASSUME CacheTypeOK, CacheInv, OwnerInv, NEW s \in Slot, Forward(s)
  PROVE  [CacheNext]_cache_vars /\ OwnerInv'
<1>1. /\ Alive /\ OwnerTypeOK /\ PageInv /\ pc = "forward" /\ SlotOK(s)
      /\ s \in DOMAIN work /\ s \notin forwarded
  BY DEF Forward, OwnerInv, Alive, CacheInv
<1>2. /\ DOMAIN finished = {} /\ current = NoRequest /\ s # NoRequest
      /\ forwarded \subseteq DOMAIN work /\ phase[s] # "Free"
  BY <1>1, OwnerAssumption DEF Alive, TurnShape
<1>3. PICK r \in Request : response[s] = r /\ r # NoRequest
  BY <1>1, <1>2, HasRequest
<1>4. /\ tokens[s] \in Seq(Token) /\ Len(tokens[s]) \in Nat /\ allocated_tokens[s] \in Nat
      /\ work[s] \in Nat \ {0} /\ prefilled[s] \in Nat
      /\ phase[s] = "QueuedPrefill" \/ phase[s] = "Decoding"
  <2>1. tokens[s] \in Seq(Token) /\ allocated_tokens[s] \in Nat
    BY DEF CacheTypeOK
  <2>2. /\ work[s] \in Nat \ {0} /\ prefilled[s] \in Nat
        /\ phase[s] = "QueuedPrefill" \/ phase[s] = "Decoding"
    BY <1>1, <1>2 DEF OwnerTypeOK, StepTypeOK, SlotTypeOK
  <2>. QED
    BY <2>1, <2>2
<1>5. /\ StartPosition(s) = allocated_tokens[s]
      /\ allocated_tokens[s] + work[s] <= Len(tokens[s])
  <2>1. CASE phase[s] = "QueuedPrefill"
    <3>1. /\ tokens[s] = PromptOf[r] /\ prefilled[s] + work[s] <= Len(PromptOf[r])
          /\ allocated_tokens[s] = prefilled[s] + 0
      BY <1>1, <1>2, <1>3, <2>1 DEF SlotOK, PrefillOK, PromptLen
    <3>. QED
      BY <1>4, <2>1, <3>1 DEF StartPosition
  <2>2. CASE phase[s] = "Decoding"
    <3>1. work[s] = 1 /\ allocated_tokens[s] = Len(tokens[s]) - 1
      BY <1>1, <1>2, <1>3, <2>2 DEF SlotOK, DecodeOK
    <3>. QED
      BY <1>4, <2>2, <3>1 DEF StartPosition
  <2>. QED
    BY <1>4, <2>1, <2>2
<1>6. work[s] \in 1 .. Len(tokens[s]) - allocated_tokens[s]
  BY <1>4, <1>5
<1>7. CanPrepare(s, work[s])
  BY <1>1, <1>6, GrowthChecked
<1>8. /\ PrepareTokens(s, work[s])
      /\ forwarded' = forwarded \cup {s}
      /\ pc' = IF forwarded' = DOMAIN work THEN "sample" ELSE "forward"
      /\ UNCHANGED <<fault, client_vars, answer_vars, slot_vars, work, current, finished>>
  BY <1>5, <1>7 DEF Forward
<1>9. CacheNext
  BY <1>6, <1>8 DEF CacheNext
<1>10. LimitsStay
  BY <1>9, NextLimits
<1>11. /\ UNCHANGED <<channel, closed, client, stream_open, oneshot, sent, response, phase,
                      prefilled, scheduled, generated, free_slots, work, current, finished,
                      tokens, maximum_tokens, reservations>>
       /\ allocated_tokens' = [allocated_tokens EXCEPT ![s] = allocated_tokens[s] + work[s]]
  BY <1>8 DEF client_vars, answer_vars, slot_vars, PrepareTokens, PrepareEffect, request_vars
<1>12. allocated_tokens'[s] = allocated_tokens[s] + work[s]
  BY <1>11 DEF CacheTypeOK
<1>13. OwnerTypeOK'
  <2>1. SlotTypeOK' /\ AnswerTypeOK' /\ ClientTypeOK'
    BY <1>1, <1>11 DEF OwnerTypeOK, SlotTypeOK, AnswerTypeOK, ClientTypeOK
  <2>2. StepTypeOK'
    BY <1>1, <1>8, <1>11 DEF OwnerTypeOK, StepTypeOK
  <2>. QED
    BY <1>1, <1>8, <2>1, <2>2 DEF OwnerTypeOK
<1>14. ASSUME NEW t \in Slot, t # s
       PROVE  SlotOK(t)' /\ AnswerOK(t)' /\ BoundaryOK(t)'
  <2>1. /\ allocated_tokens'[t] = allocated_tokens[t]
        /\ (t \in forwarded' <=> t \in forwarded)
    BY <1>8, <1>11, <1>14 DEF CacheTypeOK
  <2>2. SlotOK(t) /\ AnswerOK(t) /\ BoundaryOK(t)
    BY <1>1 DEF Alive
  <2>. QED
    BY <1>10, <1>11, <1>14, <2>1, <2>2, OtherSlot
<1>15. SlotOK(s)'
  <2>1. CASE phase[s] = "QueuedPrefill"
    <3>1. PrefillOK(s) /\ scheduled[s]
      BY <1>1, <1>3, <2>1 DEF SlotOK, PrefillOK
    <3>2. PrefillOK(s)'
      BY <1>1, <1>2, <1>4, <1>8, <1>11, <1>12, <3>1 DEF PrefillOK, PromptLen
    <3>. QED
      BY <1>1, <1>11, <2>1, <3>2 DEF SlotOK, Occupied, Total
  <2>2. CASE phase[s] = "Decoding"
    <3>1. DecodeOK(s)
      BY <1>1, <1>3, <2>2 DEF SlotOK
    <3>2. DecodeOK(s)'
      BY <1>1, <1>2, <1>4, <1>8, <1>11, <1>12, <3>1 DEF DecodeOK, PromptLen, Total
    <3>. QED
      BY <1>1, <1>11, <2>2, <3>2 DEF SlotOK, Occupied, Total
  <2>. QED
    BY <1>4, <2>1, <2>2
<1>16. AnswerOK(s)' /\ BoundaryOK(s)'
  <2>1. AnswerOK(s) /\ BoundaryOK(s)
    BY <1>1 DEF Alive
  <2>2. AnswerOK(s)'
    BY <1>11, <2>1, AnswerFrame
  <2>. QED
    BY <1>10, <1>11, <2>1, <2>2, BoundaryFrame
<1>17. PlacesDistinct' /\ \A q \in Request : RequestOK(q)' /\ ClientOK(q)'
  BY <1>1, <1>11, RequestsFrame DEF Alive, OwnerInv
<1>18. TurnShape'
  BY <1>1, <1>2, <1>8, <1>11 DEF Alive, TurnShape
<1>19. OnlyKnownFaults'
  BY <1>8 DEF OnlyKnownFaults
<1>. QED
  BY <1>9, <1>13, <1>14, <1>15, <1>16, <1>17, <1>18, <1>19 DEF OwnerInv, Alive

-----------------------------------------------------------------------------
(* The end of a prefill segment.                                           *)

\* Where the loop goes after an item of the plan.
LEMMA AfterItemShape ==
  ASSUME NEW rest, NEW done
  PROVE  /\ AfterItem(rest, done) \in {"sample", "finish", "drain"}
         /\ AfterItem(rest, done) # "sample" => DOMAIN rest = {}
         /\ AfterItem(rest, done) = "drain" => DOMAIN done = {}
<1>1. DOMAIN Nothing = {}
  BY DEF Nothing
<1>. QED
  BY <1>1 DEF AfterItem

\* A segment that ends at the last reusable boundary is published, or the
\* radix cache is at a limit.
LEMMA BoundaryTaken ==
  ASSUME CacheTypeOK, PageInv, LimitsStay, NEW s \in Slot, NEW r \in Request,
         tokens[s] = PromptOf[r], allocated_tokens[s] = Boundary(r), Boundary(r) # 0,
         (WillPublish(s) /\ PublishEffect(s)) \/ ~WillPublish(s)
  PROVE  AtLimit(r)'
<1> DEFINE k == ReusablePages(PromptOf[r])
<1>1. /\ PromptOf[r] \in Seq(Token) /\ k \in Nat /\ Boundary(r) \in Nat
      /\ Boundary(r) <= Len(PromptOf[r]) /\ Len(PromptOf[r]) \in Nat
  BY RequestFacts
<1>2. AllocatedPages(s) = k /\ allocated_tokens[s] = AllocatedPages(s) * PageSize
  <2>1. Boundary(r) = k * PageSize
    BY DEF Boundary
  <2>. QED
    BY <1>1, <2>1, DivCeilExact DEF AllocatedPages
<1>3. CASE ~WillPublish(s)
  <2>1. AtLimit(r)
    BY <1>2, <1>3 DEF WillPublish, AtLimit
  <2>. QED
    BY <2>1 DEF LimitsStay
<1>4. CASE WillPublish(s) /\ PublishEffect(s)
  <2>1. PICK checkpoint \in free_checkpoints :
          InsertCheckpoint(PromptOf[r], k, block_table[s], checkpoint)
    BY <1>2, <1>4 DEF PublishEffect
  <2>2. checkpoint \in Checkpoint /\ checkpoint # NoCheckpoint
    BY CheckpointAssumption DEF CacheTypeOK
  <2>3. k \in Nat \ {0} /\ k * PageSize <= Len(PromptOf[r])
    BY <1>1, <1>2, <1>4 DEF WillPublish, CanPublish, Boundary
  <2>4. /\ \A j \in 1 .. k : Prefix(PromptOf[r], j) \in radix_nodes'
        /\ node_checkpoint'[Prefix(PromptOf[r], k)] = checkpoint
    BY <1>1, <2>1, <2>2, <2>3, InsertedPath
  <2>5. HasCheckpoint(PromptOf[r], ReusablePages(PromptOf[r]))'
    BY <2>2, <2>3, <2>4 DEF HasCheckpoint, HasPath
  <2>. QED
    BY <2>5 DEF AtLimit, CanPublish
<1>. QED
  BY <1>3, <1>4

\* The end of a prefill segment, with or without publication, does so too.
LEMMA TakePrefillStep ==
  ASSUME CacheTypeOK, CacheInv, OwnerInv, NEW s \in Slot, TakePrefill(s)
  PROVE  [CacheNext]_cache_vars /\ OwnerInv'
<1> DEFINE upto == prefilled[s] + work[s]
<1>1. /\ Alive /\ OwnerTypeOK /\ PageInv /\ pc = "sample" /\ SlotOK(s)
      /\ s \in DOMAIN work /\ current = NoRequest
      /\ \A t \in DOMAIN work : ~DecodeItem(t)
  BY DEF TakePrefill, OwnerInv, Alive, CacheInv
<1>2. /\ s \notin DOMAIN finished /\ s # NoRequest /\ s \in forwarded
      /\ phase[s] = "QueuedPrefill"
  BY <1>1, OwnerAssumption DEF Alive, TurnShape, DecodeItem, OwnerTypeOK, SlotTypeOK
<1>3. PICK r \in Request : response[s] = r /\ r # NoRequest
  BY <1>1, <1>2, HasRequest
<1>4. /\ prefilled[s] \in Nat /\ work[s] \in Nat /\ upto \in Nat
      /\ Len(PromptOf[r]) \in Nat /\ Boundary(r) \in Nat
  BY <1>1, RequestFacts DEF OwnerTypeOK, StepTypeOK, SlotTypeOK
<1>5. /\ tokens[s] = PromptOf[r] /\ allocated_tokens[s] = upto /\ upto <= Len(PromptOf[r])
      /\ generated[s] = 0 /\ scheduled[s] /\ PromptLen(s) = Len(PromptOf[r])
  BY <1>1, <1>2, <1>3 DEF SlotOK, PrefillOK, PromptLen
<1>6. WillPublish(s) => PublishSound(s)
  BY <1>1, PublicationChecked
<1>7. /\ IF WillPublish(s) THEN PublishEffect(s) ELSE UNCHANGED cache_vars
      /\ prefilled' = [prefilled EXCEPT ![s] = upto]
      /\ \/ /\ upto < Len(PromptOf[r])
            /\ work' = Without(work, s) /\ pc' = AfterItem(Without(work, s), finished)
            /\ current' = current
         \/ /\ ~(upto < Len(PromptOf[r]))
            /\ current' = s /\ work' = work /\ pc' = pc
      /\ UNCHANGED <<fault, client_vars, answer_vars, response, phase, scheduled,
                     generated, free_slots, forwarded, finished>>
  BY <1>5, <1>6 DEF TakePrefill
<1> HIDE DEF upto
<1>8. CacheNext \/ UNCHANGED cache_vars
  BY <1>6, <1>7 DEF CacheNext, PublishPrefix
<1>9. LimitsStay
  BY <1>8, NextLimits
<1>10. UNCHANGED <<channel, closed, client, stream_open, oneshot, sent,
                   tokens, maximum_tokens, allocated_tokens, reservations>>
  BY <1>7 DEF client_vars, answer_vars, PublishEffect, cache_vars, table_vars, request_vars
<1>11. prefilled'[s] = upto
  BY <1>1, <1>7 DEF OwnerTypeOK, SlotTypeOK
<1>12. /\ DOMAIN work' \subseteq DOMAIN work
       /\ \A t \in DOMAIN work' : work'[t] = work[t]
       /\ \A t \in DOMAIN work : t # s => t \in DOMAIN work'
       /\ s \in DOMAIN work' => current' = s /\ upto = Len(PromptOf[r])
       /\ current' = s => upto = Len(PromptOf[r])
       /\ current' = s \/ current' = NoRequest
  BY <1>1, <1>2, <1>4, <1>5, <1>7 DEF Without
<1>13. OwnerTypeOK'
  <2>1. SlotTypeOK'
    BY <1>1, <1>4, <1>7 DEF OwnerTypeOK, SlotTypeOK
  <2>2. StepTypeOK'
    BY <1>1, <1>7, <1>12 DEF OwnerTypeOK, StepTypeOK
  <2>3. AnswerTypeOK' /\ ClientTypeOK'
    BY <1>1, <1>10 DEF OwnerTypeOK, AnswerTypeOK, ClientTypeOK
  <2>4. pc' \in {"sample", "finish", "drain"}
    BY <1>1, <1>7, AfterItemShape
  <2>. QED
    BY <1>1, <1>7, <2>1, <2>2, <2>3, <2>4 DEF OwnerTypeOK
<1>14. ASSUME NEW t \in Slot, t # s
       PROVE  SlotOK(t)' /\ AnswerOK(t)' /\ BoundaryOK(t)'
  <2>1. /\ prefilled'[t] = prefilled[t] /\ t # NoRequest
        /\ (t \in DOMAIN work' <=> t \in DOMAIN work)
        /\ (t \in DOMAIN work => work'[t] = work[t])
        /\ (t = current' <=> t = current)
    BY <1>1, <1>7, <1>12, <1>14, OwnerAssumption DEF OwnerTypeOK, SlotTypeOK
  <2>2. SlotOK(t) /\ AnswerOK(t) /\ BoundaryOK(t)
    BY <1>1 DEF Alive
  <2>. QED
    BY <1>7, <1>9, <1>10, <1>14, <2>1, <2>2, OtherSlot
<1>15. SlotOK(s)'
  <2>1. PrefillOK(s)'
    BY <1>2, <1>3, <1>5, <1>7, <1>10, <1>11, <1>12 DEF PrefillOK, PromptLen
  <2>. QED
    BY <1>1, <1>2, <1>7, <1>10, <2>1 DEF SlotOK, Occupied, Total
<1>16. AnswerOK(s)'
  BY <1>1, <1>7, <1>10, AnswerFrame DEF Alive
<1>17. BoundaryOK(s)'
  <2>1. /\ Boundary(r) = 0 \/ prefilled[s] < Boundary(r) \/ AtLimit(r)
        /\ Boundary(r) <= prefilled[s] \/ upto <= Boundary(r)
    BY <1>1, <1>2, <1>3 DEF Alive, BoundaryOK, upto
  <2>2. Boundary(r) = 0 \/ upto < Boundary(r) \/ AtLimit(r)'
    <3>1. CASE upto = Boundary(r) /\ Boundary(r) # 0
      BY <1>1, <1>5, <1>7, <1>9, <3>1, BoundaryTaken
    <3>2. CASE Boundary(r) <= prefilled[s]
      BY <1>4, <1>9, <2>1, <3>2 DEF LimitsStay
    <3>. QED
      BY <1>4, <2>1, <3>1, <3>2
  <2>. QED
    BY <1>2, <1>3, <1>7, <1>11, <1>12, <2>2 DEF BoundaryOK, Boundary, ReusablePages
<1>18. PlacesDistinct' /\ \A q \in Request : RequestOK(q)' /\ ClientOK(q)'
  BY <1>1, <1>7, <1>10, RequestsFrame DEF Alive, OwnerInv
<1>19. TurnShape'
  <2>1. CASE current' = s
    BY <1>1, <1>2, <1>7, <1>12, <2>1 DEF Alive, TurnShape
  <2>2. CASE current' # s
    <3>1. /\ current' = NoRequest /\ work' = Without(work, s)
          /\ pc' = AfterItem(work', finished')
      BY <1>1, <1>7, <2>2
    <3>2. /\ pc' \in {"sample", "finish", "drain"}
          /\ pc' # "sample" => DOMAIN work' = {}
          /\ pc' = "drain" => DOMAIN finished' = {}
      BY <3>1, AfterItemShape
    <3>. QED
      BY <1>1, <1>7, <1>12, <3>1, <3>2 DEF Alive, TurnShape
  <2>. QED
    BY <2>1, <2>2
<1>20. OnlyKnownFaults'
  BY <1>13, <1>1, <1>7, AfterItemShape DEF OnlyKnownFaults
<1>. QED
  BY <1>8, <1>13, <1>14, <1>15, <1>16, <1>17, <1>18, <1>19, <1>20 DEF OwnerInv, Alive

-----------------------------------------------------------------------------
(* A sampled token.                                                        *)

\* Appending to a sequence appends to its segment that ends with it and leaves
\* the segments before alone.
LEMMA AppendSegment ==
  ASSUME NEW seq \in Seq(Token), NEW token \in Token, NEW p \in Nat, p <= Len(seq)
  PROVE  /\ SubSeq(Append(seq, token), p + 1, Len(seq) + 1)
              = Append(SubSeq(seq, p + 1, Len(seq)), token)
         /\ SubSeq(Append(seq, token), p + 1, Len(seq)) = SubSeq(seq, p + 1, Len(seq))
<1> DEFINE longer == Append(seq, token)
           n == Len(seq)
           end == SubSeq(seq, p + 1, n)
           longend == SubSeq(longer, p + 1, n + 1)
           kept == SubSeq(longer, p + 1, n)
<1>1. /\ longer \in Seq(Token) /\ Len(longer) = n + 1 /\ n \in Nat
      /\ \A i \in 1 .. n : longer[i] = seq[i]
      /\ longer[n + 1] = token
  BY AppendProperties
<1>2. \A i \in p + 1 .. n : seq[i] \in Token /\ longer[i] \in Token /\ longer[i] = seq[i]
  BY <1>1, ElementOfSeq
<1>3. \A i \in p + 1 .. n + 1 : longer[i] \in Token
  BY <1>1, ElementOfSeq
<1> HIDE DEF longer, n
<1>4. p + 1 \in Int /\ n \in Int /\ n + 1 \in Int /\ p <= n
  BY <1>1 DEF n
<1>5. /\ end \in Seq(Token) /\ Len(end) = n - p
      /\ \A i \in 1 .. n - p : end[i] = seq[p + i]
  <2>1. /\ end \in Seq(Token)
        /\ Len(end) = IF p + 1 <= n THEN n - (p + 1) + 1 ELSE 0
        /\ \A i \in 1 .. n - (p + 1) + 1 : end[i] = seq[p + 1 + i - 1]
    BY <1>2, <1>4, SubSeqProperties
  <2>. QED
    BY <1>1, <1>4, <2>1
<1>6. /\ longend \in Seq(Token) /\ Len(longend) = n + 1 - p
      /\ \A i \in 1 .. n + 1 - p : longend[i] = longer[p + i]
  <2>1. /\ longend \in Seq(Token)
        /\ Len(longend) = IF p + 1 <= n + 1 THEN n + 1 - (p + 1) + 1 ELSE 0
        /\ \A i \in 1 .. n + 1 - (p + 1) + 1 : longend[i] = longer[p + 1 + i - 1]
    BY <1>3, <1>4, SubSeqProperties
  <2>. QED
    BY <1>1, <1>4, <2>1
<1>7. /\ kept \in Seq(Token) /\ Len(kept) = n - p
      /\ \A i \in 1 .. n - p : kept[i] = longer[p + i]
  <2>1. /\ kept \in Seq(Token)
        /\ Len(kept) = IF p + 1 <= n THEN n - (p + 1) + 1 ELSE 0
        /\ \A i \in 1 .. n - (p + 1) + 1 : kept[i] = longer[p + 1 + i - 1]
    BY <1>2, <1>4, SubSeqProperties
  <2>. QED
    BY <1>1, <1>4, <2>1
<1> HIDE DEF end, longend, kept
<1>8. /\ Append(end, token) \in Seq(Token) /\ Len(Append(end, token)) = n - p + 1
      /\ \A i \in 1 .. n - p : Append(end, token)[i] = end[i]
      /\ Append(end, token)[n - p + 1] = token
  BY <1>5, AppendProperties
<1>9. longend = Append(end, token)
  <2>1. ASSUME NEW i \in 1 .. n + 1 - p PROVE longend[i] = Append(end, token)[i]
    <3>1. CASE i = n - p + 1
      <4>1. p + i = n + 1
        BY <1>1, <1>4, <3>1
      <4>. QED
        BY <1>1, <1>6, <1>8, <3>1, <4>1
    <3>2. CASE i # n - p + 1
      <4>1. i \in 1 .. n - p /\ p + i \in p + 1 .. n
        BY <1>1, <1>4, <3>2
      <4>. QED
        BY <1>2, <1>5, <1>6, <1>8, <4>1
    <3>. QED
      BY <3>1, <3>2
  <2>2. n + 1 - p = n - p + 1
    BY <1>1, <1>4
  <2>. QED
    BY <1>6, <1>8, <2>1, <2>2, SeqEqual
<1>10. kept = end
  <2>1. ASSUME NEW i \in 1 .. n - p PROVE kept[i] = end[i]
    <3>1. p + i \in p + 1 .. n
      BY <1>1, <1>4
    <3>. QED
      BY <1>2, <1>5, <1>7, <3>1
  <2>. QED
    BY <1>5, <1>7, <2>1, SeqEqual
<1>. QED
  BY <1>9, <1>10 DEF longer, n, end, longend, kept

\* What a slot is like when a token is sampled for it.
LEMMA SampledSlot ==
  ASSUME CacheTypeOK, OwnerTypeOK, Alive, pc = "sample", NEW s \in Slot,
         IF current = NoRequest THEN DecodeItem(s) ELSE s = current
  PROVE  /\ s \in DOMAIN work /\ s \notin DOMAIN finished /\ s \in forwarded
         /\ phase[s] # "Free" /\ s # NoRequest /\ generated[s] \in Nat
         /\ current = NoRequest \/ current = s
         /\ \E r \in Request :
              /\ response[s] = r
              /\ Len(tokens[s]) \in Nat /\ Len(tokens[s]) = Len(PromptOf[r]) + generated[s]
              /\ Len(tokens[s]) < Total(r) /\ maximum_tokens[s] = Total(r)
              /\ allocated_tokens[s] = Len(tokens[s])
              /\ SubSeq(tokens[s], 1, Len(PromptOf[r])) = PromptOf[r]
              /\ Boundary(r) = 0 \/ AtLimit(r)
<1>1. /\ s \in DOMAIN work /\ s \notin DOMAIN finished /\ s \in forwarded
      /\ phase[s] # "Free" /\ s # NoRequest /\ SlotOK(s) /\ BoundaryOK(s)
      /\ current = NoRequest \/ current = s
      /\ phase[s] = IF current = s THEN "QueuedPrefill" ELSE "Decoding"
  BY OwnerAssumption DEF Alive, TurnShape, DecodeItem
<1>2. PICK r \in Request : response[s] = r /\ r # NoRequest
  BY <1>1, HasRequest
<1>3. /\ PromptOf[r] \in Seq(Token) /\ Len(PromptOf[r]) \in Nat /\ Boundary(r) < Len(PromptOf[r])
      /\ Total(r) = Len(PromptOf[r]) + LimitOf[r] /\ LimitOf[r] > 0 /\ LimitOf[r] \in Nat
      /\ Boundary(r) \in Nat
  BY <1>1, <1>2, RequestFacts DEF SlotOK
<1>4. /\ tokens[s] \in Seq(Token) /\ Len(tokens[s]) \in Nat /\ generated[s] \in Nat
      /\ maximum_tokens[s] = Total(r)
  <2>1. tokens[s] \in Seq(Token)
    BY DEF CacheTypeOK
  <2>. QED
    BY <1>1, <1>2, <2>1 DEF SlotOK, OwnerTypeOK, SlotTypeOK
<1>5. CASE current = s
  <2>1. /\ tokens[s] = PromptOf[r] /\ allocated_tokens[s] = prefilled[s]
        /\ prefilled[s] = Len(PromptOf[r]) /\ generated[s] = 0
    BY <1>1, <1>2, <1>5 DEF SlotOK, PrefillOK, PromptLen
  <2>2. SubSeq(tokens[s], 1, Len(PromptOf[r])) = PromptOf[r]
    BY <1>3, <2>1, SubSeqFull
  <2>3. Boundary(r) = 0 \/ AtLimit(r)
    BY <1>1, <1>2, <1>3, <2>1 DEF BoundaryOK
  <2>. QED
    BY <1>1, <1>2, <1>3, <1>4, <2>1, <2>2, <2>3
<1>6. CASE current # s
  <2>1. /\ Len(tokens[s]) = Len(PromptOf[r]) + generated[s] /\ Len(tokens[s]) < Total(r)
        /\ allocated_tokens[s] = Len(tokens[s]) - 0
        /\ SubSeq(tokens[s], 1, Len(PromptOf[r])) = PromptOf[r]
    BY <1>1, <1>2, <1>6 DEF SlotOK, DecodeOK, PromptLen
  <2>2. Boundary(r) = 0 \/ AtLimit(r)
    BY <1>1, <1>2, <1>6 DEF BoundaryOK
  <2>. QED
    BY <1>1, <1>2, <1>4, <2>1, <2>2
<1>. QED
  BY <1>5, <1>6

\* Sampling a token, ending the request or going on, does so too.
LEMMA SampleStep ==
  ASSUME CacheTypeOK, CacheInv, OwnerInv, NEW s \in Slot, NEW token \in Token, Sample(s, token)
  PROVE  [CacheNext]_cache_vars /\ OwnerInv'
<1>1. Alive /\ OwnerTypeOK /\ pc = "sample" /\ SlotOK(s)
  BY DEF Sample, OwnerInv, Alive
<1>2. IF current = NoRequest THEN DecodeItem(s) ELSE s = current
  BY DEF Sample
<1>3. /\ s \in DOMAIN work /\ s \notin DOMAIN finished /\ s \in forwarded
      /\ phase[s] # "Free" /\ s # NoRequest /\ generated[s] \in Nat
      /\ current = NoRequest \/ current = s
  BY <1>1, <1>2, SampledSlot
<1>4. PICK r \in Request :
        /\ response[s] = r
        /\ Len(tokens[s]) \in Nat /\ Len(tokens[s]) = Len(PromptOf[r]) + generated[s]
        /\ Len(tokens[s]) < Total(r) /\ maximum_tokens[s] = Total(r)
        /\ allocated_tokens[s] = Len(tokens[s])
        /\ SubSeq(tokens[s], 1, Len(PromptOf[r])) = PromptOf[r]
        /\ Boundary(r) = 0 \/ AtLimit(r)
  BY <1>1, <1>2, SampledSlot
<1> DEFINE eos == r \notin IgnoreEos /\ token = EosToken
           streams == r \in Streaming /\ ~eos
           dropped == streams /\ r \notin stream_open
           count == generated[s] + 1
           ended == eos \/ dropped \/ count >= LimitOf[r]
           reason == IF dropped THEN "abort" ELSE IF eos THEN "stop" ELSE "length"
<1>5. /\ PromptOf[r] \in Seq(Token) /\ Len(PromptOf[r]) \in Nat /\ Total(r) \in Nat
      /\ Total(r) = Len(PromptOf[r]) + LimitOf[r] /\ LimitOf[r] \in Nat
      /\ tokens[s] \in Seq(Token) /\ Occupied(s)
  BY <1>1, <1>3, RequestFacts DEF CacheTypeOK, SlotOK
<1>6. CanPush(s)
  BY <1>4 DEF CanPush
<1>7. /\ generated' = [generated EXCEPT ![s] = count]
      /\ sent' = IF streams /\ ~dropped THEN [sent EXCEPT ![r] = Append(@, token)] ELSE sent
      /\ IF eos THEN UNCHANGED <<cache_vars, phase>>
         ELSE PushEffect(s, token) /\ phase' = [phase EXCEPT ![s] = "Decoding"]
      /\ finished' = IF ended THEN WithReason(finished, s, reason) ELSE finished
      /\ work' = Without(work, s)
      /\ current' = NoRequest
      /\ pc' = AfterItem(work', finished')
      /\ UNCHANGED <<fault, client_vars, oneshot, response, prefilled, scheduled,
                     free_slots, forwarded>>
  BY <1>4, <1>6 DEF Sample, Streams
<1> HIDE DEF eos
<1>8. CacheNext \/ UNCHANGED cache_vars
  BY <1>4, <1>5, <1>6, <1>7 DEF CacheNext, PushToken
<1>9. LimitsStay
  BY <1>8, NextLimits
<1>10. /\ UNCHANGED <<channel, closed, client, stream_open, maximum_tokens, allocated_tokens,
                      reservations>>
       /\ tokens' = IF eos THEN tokens ELSE [tokens EXCEPT ![s] = Append(tokens[s], token)]
       /\ phase' = IF eos THEN phase ELSE [phase EXCEPT ![s] = "Decoding"]
  BY <1>7 DEF client_vars, PushEffect, cache_vars, table_vars, request_vars
<1>11. /\ DOMAIN work' = DOMAIN work \ {s}
       /\ \A t \in DOMAIN work' : work'[t] = work[t]
  BY <1>7 DEF Without
<1>12. /\ DOMAIN finished' = DOMAIN finished \cup (IF ended THEN {s} ELSE {})
       /\ \A t \in DOMAIN finished : finished'[t] = finished[t]
       /\ ended => finished'[s] = reason
  <2> HIDE DEF ended, reason
  <2>. QED
    BY <1>3, <1>7 DEF WithReason
<1>13. /\ reason \in {"abort", "stop", "length"}
       /\ \A q \in Request : q # r => sent'[q] = sent[q]
       /\ sent'[r] = IF streams /\ ~dropped THEN Append(sent[r], token) ELSE sent[r]
       /\ generated'[s] = count
  BY <1>1, <1>7 DEF OwnerTypeOK, AnswerTypeOK, SlotTypeOK
<1>14. OwnerTypeOK'
  <2>1. SlotTypeOK'
    BY <1>1, <1>3, <1>7, <1>10 DEF OwnerTypeOK, SlotTypeOK
  <2>2. StepTypeOK'
    <3> HIDE DEF ended, reason
    <3>. QED
      BY <1>1, <1>7, <1>11, <1>12, <1>13 DEF OwnerTypeOK, StepTypeOK
  <2>3. ClientTypeOK'
    BY <1>1, <1>10 DEF OwnerTypeOK, ClientTypeOK
  <2>4. AnswerTypeOK'
    <3>1. Append(sent[r], token) \in Seq(Token)
      BY <1>1, AppendProperties DEF OwnerTypeOK, AnswerTypeOK
    <3>2. sent' \in [Request -> Seq(Token)]
      BY <1>1, <1>7, <3>1 DEF OwnerTypeOK, AnswerTypeOK
    <3>. QED
      BY <1>1, <1>7, <3>2 DEF OwnerTypeOK, AnswerTypeOK
  <2>5. pc' \in {"sample", "finish", "drain"}
    BY <1>7, AfterItemShape
  <2>. QED
    BY <1>1, <1>7, <2>1, <2>2, <2>3, <2>4, <2>5 DEF OwnerTypeOK
<1>15. ASSUME NEW t \in Slot, t # s
       PROVE  SlotOK(t)' /\ AnswerOK(t)' /\ BoundaryOK(t)'
  <2>1. /\ tokens'[t] = tokens[t] /\ phase'[t] = phase[t] /\ generated'[t] = generated[t]
        /\ t # NoRequest
    BY <1>1, <1>7, <1>10, <1>15, OwnerAssumption DEF CacheTypeOK, OwnerTypeOK, SlotTypeOK
  <2>2. SlotOK(t) /\ AnswerOK(t) /\ BoundaryOK(t) /\ PlacesDistinct
    BY <1>1 DEF Alive
  <2>3. response[t] # NoRequest => sent'[response[t]] = sent[response[t]]
    <3> SUFFICES ASSUME response[t] # NoRequest PROVE sent'[response[t]] = sent[response[t]]
      OBVIOUS
    <3>1. PICK q \in Request : response[t] = q
      BY <1>1 DEF OwnerTypeOK, SlotTypeOK
    <3>2. q # r
      BY <1>4, <1>15, <2>2, <3>1, RequestFacts DEF PlacesDistinct
    <3>. QED
      BY <1>13, <3>1, <3>2
  <2>4. /\ (t = current' <=> t = current)
        /\ (t \in DOMAIN finished' <=> t \in DOMAIN finished)
    BY <1>3, <1>7, <1>12, <1>15, <2>1
  <2>. QED
    BY <1>7, <1>9, <1>10, <1>11, <1>12, <1>15, <2>1, <2>2, <2>3, <2>4, OtherSlot
<1>16. s \notin DOMAIN work' /\ current' = NoRequest /\ (s \in DOMAIN finished' <=> ended)
  BY <1>3, <1>7, <1>11, <1>12
<1>17. ASSUME eos PROVE SlotOK(s)' /\ AnswerOK(s)'
  <2>1. /\ tokens' = tokens /\ phase' = phase /\ sent' = sent /\ ended /\ reason = "stop"
        /\ finished'[s] = "stop"
    BY <1>7, <1>10, <1>12, <1>17
  <2>2. SlotOK(s)'
    <3>1. ASSUME phase[s] = "QueuedPrefill" PROVE PrefillOK(s)'
      <4>1. PrefillOK(s) /\ scheduled[s] /\ current = s
        BY <1>1, <1>2, <1>3, <1>4, <3>1, RequestFacts DEF SlotOK, PrefillOK, DecodeItem
      <4>. QED
        BY <1>3, <1>7, <1>10, <1>16, <2>1, <4>1 DEF PrefillOK, PromptLen
    <3>2. ASSUME phase[s] = "Decoding" PROVE DecodeOK(s)'
      <4>1. DecodeOK(s)
        BY <1>1, <1>4, <3>2, RequestFacts DEF SlotOK
      <4>. QED
        BY <1>7, <1>16, <2>1, <4>1 DEF DecodeOK, PromptLen, Total
    <3>. QED
      BY <1>1, <1>3, <1>7, <1>10, <2>1, <3>1, <3>2 DEF SlotOK, Occupied, Total
  <2>3. AnswerOK(s)'
    <3>1. AnswerOK(s)
      BY <1>1 DEF Alive
    <3>2. Unsent(s) = 0 /\ Unsent(s)' = 0
      BY <1>3, <2>1 DEF Unsent
    <3>3. ReasonOK(s)'
      BY <1>4, <1>7, <1>17, <2>1 DEF ReasonOK, Total, eos
    <3>. QED
      BY <1>3, <1>7, <2>1, <3>1, <3>2, <3>3 DEF AnswerOK, PromptLen
  <2>. QED
    BY <2>2, <2>3
<1>18. ASSUME ~eos PROVE SlotOK(s)' /\ AnswerOK(s)'
  <2> DEFINE P == Len(PromptOf[r])
             n == Len(tokens[s])
             longer == Append(tokens[s], token)
  <2>1. /\ tokens'[s] = longer /\ phase'[s] = "Decoding"
        /\ longer \in Seq(Token) /\ Len(longer) = n + 1
        /\ \A i \in 1 .. n : longer[i] = tokens[s][i]
        /\ longer[n + 1] = token
    BY <1>1, <1>5, <1>10, <1>18, AppendProperties DEF CacheTypeOK, OwnerTypeOK, SlotTypeOK
  <2>2. /\ P \in Nat /\ n \in Nat /\ P <= n /\ n = P + generated[s] /\ n < P + LimitOf[r]
        /\ LimitOf[r] \in Nat /\ Total(r) = P + LimitOf[r]
    BY <1>3, <1>4, <1>5
  <2>3. SlotOK(s)'
    <3>1. SubSeq(longer, 1, P) = PromptOf[r]
      BY <1>4, <1>5, <2>2, BeginningOfAppend
    <3>2. ~ended => n + 1 = P + count /\ n + 1 < Total(r) /\ allocated_tokens[s] = n + 1 - 1
      <4>1. ~ended => ~(count >= LimitOf[r])
        OBVIOUS
      <4>2. count \in Nat /\ count = generated[s] + 1 /\ allocated_tokens[s] = n
        BY <1>3, <1>4
      <4> HIDE DEF ended, count, P, n, longer
      <4>. QED
        BY <1>3, <2>2, <4>1, <4>2
    <3> HIDE DEF ended, count, P, n, longer
    <3>3. P < n + 1
      BY <2>2
    <3>4. DecodeOK(s)'
      BY <1>4, <1>7, <1>10, <1>13, <1>16, <2>1, <3>1, <3>2, <3>3
      DEF DecodeOK, PromptLen, Total, P, n
    <3>5. longer # << >>
      BY <2>1, <2>2, EmptySeq
    <3>. QED
      BY <1>1, <1>3, <1>4, <1>7, <1>10, <2>1, <3>4, <3>5, RequestFacts DEF SlotOK, Occupied, Total
  <2>4. AnswerOK(s)'
    <3>1. /\ \A i \in P + 1 .. n : tokens[s][i] # EosToken \/ r \in IgnoreEos
          /\ r \in Streaming => sent[r] = SubSeq(tokens[s], P + 1, n)
      <4>1. Unsent(s) = 0 /\ n - 0 = n
        BY <1>3, <2>2 DEF Unsent
      <4>. QED
        BY <1>1, <1>3, <1>4, <4>1, RequestFacts DEF Alive, AnswerOK, PromptLen
    <3>2. \A i \in P + 1 .. n + 1 : longer[i] # EosToken \/ r \in IgnoreEos
      <4>1. token # EosToken \/ r \in IgnoreEos
        BY <1>18 DEF eos
      <4>. QED
        BY <2>1, <2>2, <3>1, <4>1
    <3>3. /\ SubSeq(longer, P + 1, n + 1) = Append(SubSeq(tokens[s], P + 1, n), token)
          /\ SubSeq(longer, P + 1, n) = SubSeq(tokens[s], P + 1, n)
      BY <1>5, <2>2, AppendSegment
    <3>4. Unsent(s)' = IF dropped THEN 1 ELSE 0
      BY <1>12, <1>16 DEF Unsent
    <3>5. r \in Streaming => sent'[r] = SubSeq(longer, P + 1, n + 1 - (IF dropped THEN 1 ELSE 0))
      <4>1. n + 1 - 1 = n /\ n + 1 - 0 = n + 1
        BY <2>2
      <4>2. CASE dropped
        BY <1>13, <3>1, <3>3, <4>1, <4>2
      <4>3. CASE ~dropped
        BY <1>13, <1>18, <3>1, <3>3, <4>1, <4>3
      <4>. QED
        BY <4>2, <4>3
    <3>6. ended => ReasonOK(s)'
      <4>1. CASE dropped
        <5>1. finished'[s] = "abort" \/ ~ended
          BY <1>12, <4>1
        <5>. QED
          BY <1>4, <1>7, <2>1, <2>2, <4>1, <5>1 DEF ReasonOK, PromptLen
      <4>2. CASE ~dropped
        <5>1. ended => finished'[s] = "length" /\ n + 1 = Total(r)
          BY <1>12, <1>18, <1>3, <2>2, <4>2
        <5>. QED
          BY <1>4, <1>7, <2>1, <5>1 DEF ReasonOK, Total
      <4>. QED
        BY <4>1, <4>2
    <3>7. /\ PromptLen(s)' = P /\ Len(tokens'[s]) = n + 1 /\ response'[s] = r
          /\ tokens'[s] = longer
      BY <1>4, <1>7, <2>1 DEF PromptLen
    <3> DEFINE u == IF dropped THEN 1 ELSE 0
    <3>8. Unsent(s)' = u /\ u \in Nat
      BY <3>4
    <3>9. r \in Streaming => sent'[r] = SubSeq(longer, P + 1, n + 1 - u)
      BY <3>5
    <3> HIDE DEF u, dropped, ended, P, n, longer
    <3>10. r \in Streaming => sent'[r] = SubSeq(tokens'[s], P + 1, Len(tokens'[s]) - Unsent(s)')
      <4>1. Len(tokens'[s]) - Unsent(s)' = n + 1 - u
        BY <2>2, <3>7, <3>8
      <4>2. SubSeq(tokens'[s], P + 1, Len(tokens'[s]) - Unsent(s)')
              = SubSeq(longer, P + 1, n + 1 - u)
        BY <3>7, <4>1
      <4>. QED
        BY <3>9, <4>2
    <3>11. s \in DOMAIN finished' => ReasonOK(s)'
      BY <1>16, <3>6
    <3>. QED
      BY <3>2, <3>7, <3>10, <3>11 DEF AnswerOK
  <2>. QED
    BY <2>3, <2>4
<1>19. BoundaryOK(s)'
  BY <1>4, <1>7, <1>9, <1>16 DEF LimitsStay, BoundaryOK, Boundary, ReusablePages
<1>20. PlacesDistinct'
  BY <1>1, <1>7, <1>10 DEF Alive, PlacesDistinct
<1>21. ASSUME NEW q \in Request PROVE RequestOK(q)' /\ ClientOK(q)'
  <2>1. RequestOK(q) /\ ClientOK(q)
    BY <1>1 DEF Alive, OwnerInv
  <2>2. Served(r)
    BY <1>4 DEF Served
  <2>3. /\ (Queued(q)' <=> Queued(q)) /\ (Served(q)' <=> Served(q))
        /\ (Answered(q)' <=> Answered(q))
    BY <1>7, <1>10 DEF Queued, Served, Answered
  <2>4. sent'[q] = sent[q] \/ (q = r /\ r \in Streaming)
    BY <1>13
  <2>. QED
    BY <1>7, <1>10, <2>1, <2>2, <2>3, <2>4 DEF RequestOK, ClientOK
<1>22. TurnShape'
  <2>1. /\ pc' \in {"sample", "finish", "drain"}
        /\ pc' # "sample" => DOMAIN work' = {}
        /\ pc' = "drain" => DOMAIN finished' = {}
    BY <1>7, AfterItemShape
  <2>2. \A t \in DOMAIN work' \cup DOMAIN finished' : response'[t] # NoRequest
    <3>1. \A t \in DOMAIN work \cup DOMAIN finished : response[t] # NoRequest
      BY <1>1 DEF Alive, TurnShape
    <3>2. \A t \in DOMAIN work' \cup DOMAIN finished' :
            t \in DOMAIN work \cup DOMAIN finished \/ t = s
      BY <1>11, <1>12
    <3>. QED
      BY <1>4, <1>7, <3>1, <3>2, RequestFacts
  <2>3. DOMAIN work' \subseteq forwarded' /\ DOMAIN work' \cap DOMAIN finished' = {}
    <3> HIDE DEF ended
    <3>. QED
      BY <1>1, <1>7, <1>11, <1>12 DEF Alive, TurnShape
  <2>4. \A t \in Slot : response'[t] = NoRequest <=> phase'[t] = "Free"
    <3>1. \A t \in Slot : response[t] = NoRequest <=> phase[t] = "Free"
      BY <1>1 DEF Alive, TurnShape
    <3>2. \A t \in Slot : phase'[t] = "Free" <=> phase[t] = "Free"
      BY <1>1, <1>3, <1>10 DEF OwnerTypeOK, SlotTypeOK
    <3>. QED
      BY <1>7, <3>1, <3>2
  <2>. QED
    BY <1>7, <2>1, <2>2, <2>3, <2>4 DEF TurnShape
<1>23. OnlyKnownFaults'
  BY <1>7, AfterItemShape DEF OnlyKnownFaults
<1>24. SlotOK(s)' /\ AnswerOK(s)'
  BY <1>17, <1>18
<1>. QED
  BY <1>8, <1>14, <1>15, <1>19, <1>20, <1>21, <1>22, <1>23, <1>24 DEF OwnerInv, Alive

-----------------------------------------------------------------------------
(* The completion.                                                         *)

\* A finished request gets its one answer and leaves its slot,
LEMMA AnswerStep ==
  ASSUME CacheTypeOK, CacheInv, OwnerInv, NEW s \in Slot, Answer(s)
  PROVE  [CacheNext]_cache_vars /\ OwnerInv'
<1>1. /\ Alive /\ OwnerTypeOK /\ pc = "finish" /\ s \in DOMAIN finished
      /\ DOMAIN work = {} /\ current = NoRequest /\ response[s] # NoRequest
      /\ SlotOK(s) /\ phase[s] # "Free" /\ PlacesDistinct /\ s # NoRequest
  BY OwnerAssumption DEF Answer, OwnerInv, Alive, TurnShape
<1>2. LimitsStay /\ UNCHANGED cache_vars
  BY NextLimits DEF Answer
<1>3. UNCHANGED <<tokens, maximum_tokens, allocated_tokens, reservations>>
  BY <1>2 DEF cache_vars, request_vars, table_vars
<1>5. PICK r \in Request : response[s] = r
  BY <1>1 DEF OwnerTypeOK, SlotTypeOK
<1> DEFINE answer == [kind |-> "completed", reason |-> finished[s],
                      tokens |-> SubSeq(tokens[s], Len(PromptOf[r]) + 1, Len(tokens[s]))]
<1>6. /\ oneshot' = [oneshot EXCEPT ![r] = answer]
      /\ response' = [response EXCEPT ![s] = NoRequest]
      /\ finished' = Without(finished, s)
      /\ current' = s
      /\ pc' = "release"
      /\ UNCHANGED <<fault, channel, closed, client, stream_open, sent, phase, prefilled,
                     scheduled, generated, free_slots, work, forwarded>>
  BY <1>5 DEF Answer, PromptLen, client_vars
<1>7. /\ DOMAIN finished' = DOMAIN finished \ {s}
      /\ \A t \in DOMAIN finished' : finished'[t] = finished[t]
  BY <1>6 DEF Without
<1>8. /\ finished[s] \in {"stop", "length", "abort"}
      /\ answer.kind = "completed" /\ Empty.kind = "empty"
      /\ answer \in [kind : {"empty", "rejected", "completed"}, tokens : Seq(Token),
                     reason : {"none", "stop", "length", "abort"}]
  <2>1. Len(PromptOf[r]) + 1 \in Int /\ tokens[s] \in Seq(Token) /\ Len(PromptOf[r]) \in Nat
    BY RequestFacts DEF CacheTypeOK
  <2>2. SubSeq(tokens[s], Len(PromptOf[r]) + 1, Len(tokens[s])) \in Seq(Token)
    BY <2>1, SubSeqProperties
  <2>. QED
    BY <1>1, <2>2 DEF OwnerTypeOK, StepTypeOK, Empty
<1> HIDE DEF answer
<1>10. /\ \A t \in Slot : response'[t] = IF t = s THEN NoRequest ELSE response[t]
       /\ \A q \in Request : oneshot'[q] = IF q = r THEN answer ELSE oneshot[q]
  BY <1>1, <1>6 DEF OwnerTypeOK, SlotTypeOK, AnswerTypeOK
<1>11. OwnerTypeOK'
  <2>1. SlotTypeOK' /\ ClientTypeOK'
    BY <1>1, <1>6 DEF OwnerTypeOK, SlotTypeOK, ClientTypeOK
  <2>2. StepTypeOK'
    BY <1>1, <1>6, <1>7 DEF OwnerTypeOK, StepTypeOK
  <2>3. AnswerTypeOK'
    BY <1>1, <1>6, <1>8 DEF OwnerTypeOK, AnswerTypeOK
  <2>. QED
    BY <1>1, <1>6, <2>1, <2>2, <2>3 DEF OwnerTypeOK
<1>12. ASSUME NEW t \in Slot PROVE SlotOK(t)' /\ AnswerOK(t)' /\ BoundaryOK(t)'
  <2>1. CASE t = s
    <3>1. SlotOK(s)'
      BY <1>1, <1>3, <1>6, <1>10 DEF SlotOK, Occupied
    <3>2. AnswerOK(s)' /\ BoundaryOK(s)'
      BY <1>10, OwnerAssumption DEF AnswerOK, BoundaryOK
    <3>. QED
      BY <2>1, <3>1, <3>2
  <2>2. CASE t # s
    <3>1. t # NoRequest
      BY OwnerAssumption
    <3>. QED
      BY <1>1, <1>2, <1>3, <1>6, <1>7, <1>10, <2>2, <3>1, OtherSlot DEF Alive
  <2>. QED
    BY <2>1, <2>2
<1>13. PlacesDistinct'
  BY <1>1, <1>6, <1>10 DEF PlacesDistinct
<1>14. Served(r) /\ client[r] = "waiting" /\ ~Queued(r) /\ ~Answered(r)
  BY <1>1, <1>5 DEF Served, Alive, RequestOK
<1>15. ASSUME NEW q \in Request PROVE RequestOK(q)' /\ ClientOK(q)'
  <2>1. (Queued(q)' <=> Queued(q)) /\ (Answered(q)' <=> Answered(q) \/ q = r)
    BY <1>6, <1>8, <1>10 DEF Queued, Answered
  <2>2. Served(q)' <=> Served(q) /\ q # r
    BY <1>1, <1>5, <1>10, OwnerAssumption DEF Served, PlacesDistinct
  <2>3. RequestOK(q) /\ ClientOK(q)
    BY <1>1 DEF Alive, OwnerInv
  <2>. QED
    BY <1>6, <1>10, <1>14, <2>1, <2>2, <2>3 DEF RequestOK, ClientOK
<1>16. TurnShape'
  BY <1>1, <1>6, <1>7, <1>10 DEF Alive, TurnShape, OwnerTypeOK, StepTypeOK
<1>17. OnlyKnownFaults'
  BY <1>6 DEF OnlyKnownFaults
<1>. QED
  BY <1>2, <1>11, <1>12, <1>13, <1>15, <1>16, <1>17 DEF OwnerInv, Alive

\* and the slot is cleared together with its pages.
LEMMA VacateStep ==
  ASSUME CacheTypeOK, CacheInv, OwnerInv, NEW s \in Slot, Vacate(s)
  PROVE  [CacheNext]_cache_vars /\ OwnerInv'
<1>1. /\ Alive /\ OwnerTypeOK /\ pc = "release" /\ s = current /\ Release(s)
      /\ DOMAIN work = {} /\ response[s] = NoRequest /\ s # NoRequest
      /\ s \notin DOMAIN finished
  BY OwnerAssumption DEF Vacate, OwnerInv, Alive, TurnShape
<1>2. CacheNext
  BY <1>1 DEF CacheNext
<1>3. LimitsStay
  BY <1>2, NextLimits
<1>4. /\ phase' = [phase EXCEPT ![s] = "Free"]
      /\ prefilled' = [prefilled EXCEPT ![s] = 0]
      /\ free_slots' = free_slots \cup {s}
      /\ current' = NoRequest
      /\ pc' = IF finished = Nothing THEN "drain" ELSE "finish"
      /\ UNCHANGED <<fault, channel, closed, client, stream_open, oneshot, sent, response,
                     scheduled, generated, work, forwarded, finished>>
  BY DEF Vacate, SlotReturned, client_vars, answer_vars
<1>5. pc' \in {"drain", "finish"} /\ (pc' = "drain" => DOMAIN finished' = {})
  BY <1>4 DEF Nothing
<1>6. /\ \A t \in Slot \ {s} :
           /\ tokens'[t] = tokens[t] /\ maximum_tokens'[t] = maximum_tokens[t]
           /\ allocated_tokens'[t] = allocated_tokens[t] /\ reservations'[t] = reservations[t]
      /\ tokens'[s] = << >>
  BY <1>1 DEF Release, CacheTypeOK
<1>7. /\ \A t \in Slot \ {s} : phase'[t] = phase[t] /\ prefilled'[t] = prefilled[t]
      /\ phase'[s] = "Free"
  BY <1>1, <1>4 DEF OwnerTypeOK, SlotTypeOK
<1>8. OwnerTypeOK'
  <2>1. SlotTypeOK' /\ ClientTypeOK' /\ StepTypeOK' /\ AnswerTypeOK'
    BY <1>1, <1>4 DEF OwnerTypeOK, SlotTypeOK, ClientTypeOK, StepTypeOK, AnswerTypeOK
  <2>. QED
    BY <1>1, <1>4, <1>5, <2>1 DEF OwnerTypeOK
<1>9. ASSUME NEW t \in Slot PROVE SlotOK(t)' /\ AnswerOK(t)' /\ BoundaryOK(t)'
  <2>1. CASE t = s
    <3>1. SlotOK(s)'
      BY <1>1, <1>4, <1>6, <1>7 DEF SlotOK, Occupied
    <3>2. AnswerOK(s)' /\ BoundaryOK(s)'
      BY <1>1, <1>4, OwnerAssumption DEF AnswerOK, BoundaryOK
    <3>. QED
      BY <2>1, <3>1, <3>2
  <2>2. CASE t # s
    <3>1. t # NoRequest
      BY OwnerAssumption
    <3>. QED
      BY <1>1, <1>3, <1>4, <1>6, <1>7, <2>2, <3>1, OtherSlot DEF Alive
  <2>. QED
    BY <2>1, <2>2
<1>10. PlacesDistinct' /\ \A q \in Request : RequestOK(q)' /\ ClientOK(q)'
  BY <1>1, <1>4, RequestsFrame DEF Alive, OwnerInv
<1>11. TurnShape'
  BY <1>1, <1>4, <1>5, <1>7 DEF Alive, TurnShape
<1>12. OnlyKnownFaults'
  BY <1>5 DEF OnlyKnownFaults
<1>. QED
  BY <1>2, <1>8, <1>9, <1>10, <1>11, <1>12 DEF OwnerInv, Alive

-----------------------------------------------------------------------------
(* The invariant.                                                          *)

\* An idle owner satisfies the invariant.
LEMMA InitOwner == OwnerInit => CacheInit /\ OwnerInv
<1> SUFFICES ASSUME OwnerInit PROVE CacheInit /\ OwnerInv
  OBVIOUS
<1>1. /\ pc = "drain" /\ fault = "none" /\ channel = << >> /\ closed = FALSE
      /\ client = [r \in Request |-> "idle"] /\ oneshot = [r \in Request |-> Empty]
      /\ stream_open = Streaming /\ sent = [r \in Request |-> << >>]
      /\ response = [s \in Slot |-> NoRequest] /\ phase = [s \in Slot |-> "Free"]
      /\ prefilled = [s \in Slot |-> 0] /\ scheduled = [s \in Slot |-> FALSE]
      /\ generated = [s \in Slot |-> 0] /\ free_slots = Slot
      /\ work = Nothing /\ forwarded = {} /\ current = NoRequest /\ finished = Nothing
      /\ tokens = [s \in Slot |-> << >>]
  BY DEF OwnerInit, CacheInit
<1>2. /\ << >> \in Seq(Request) /\ << >> \in Seq(Token) /\ Len(<< >>) = 0
      /\ DOMAIN Nothing = {} /\ QueueCapacity \in Nat
  BY EmptySeq, OwnerAssumption DEF Nothing
<1>3. DOMAIN channel = {}
  BY <1>1, <1>2, LenProperties
<1>4. OwnerTypeOK
  <2>1. ClientTypeOK
    <3>1. channel \in Seq(Request) /\ Len(channel) <= QueueCapacity
      <4>1. Len(channel) = 0
        BY <1>1, <1>2
      <4>. QED
        BY <1>1, <1>2, <4>1
    <3>2. closed \in BOOLEAN /\ stream_open \subseteq Streaming
      BY <1>1
    <3>3. client \in [Request -> {"idle", "waiting", "refused"}]
      BY <1>1
    <3>. QED
      BY <3>1, <3>2, <3>3 DEF ClientTypeOK
  <2>2. AnswerTypeOK /\ SlotTypeOK /\ StepTypeOK
    BY <1>1, <1>2 DEF AnswerTypeOK, SlotTypeOK, StepTypeOK, Empty
  <2>. QED
    BY <1>1, <2>1, <2>2 DEF OwnerTypeOK
<1>5. OnlyKnownFaults /\ TurnShape /\ PlacesDistinct
  BY <1>1, <1>2, <1>3 DEF OnlyKnownFaults, TurnShape, PlacesDistinct
<1>6. \A r \in Request : RequestOK(r) /\ ClientOK(r)
  BY <1>1, <1>3, OwnerAssumption DEF RequestOK, ClientOK, Queued, Served, Answered
<1>7. \A s \in Slot : SlotOK(s) /\ AnswerOK(s) /\ BoundaryOK(s)
  BY <1>1, OwnerAssumption DEF SlotOK, AnswerOK, BoundaryOK, Occupied
<1>. QED
  BY <1>4, <1>5, <1>6, <1>7 DEF OwnerInit, OwnerInv, Alive

\* Every step of the owner and of the tasks calls the cache as it may be called
\* and keeps the ledgers in agreement.
LEMMA NextOwner ==
  ASSUME CacheTypeOK, CacheInv, OwnerInv, [OwnerNext]_vars
  PROVE  [CacheNext]_cache_vars /\ OwnerInv'
<1>1. ASSUME UNCHANGED cache_vars PROVE LimitsStay
  BY <1>1, NextLimits
<1>2. CASE ClientNext
  <2>1. UNCHANGED cache_vars
    BY <1>2 DEF ClientNext, Submit, DropStream, CloseChannel
  <2>. QED
    BY <1>1, <1>2, <2>1, SubmitKeeps, DropStreamKeeps, CloseKeeps DEF ClientNext
<1>3. CASE RejectHead \/ Drained \/ Refreshed \/ EmptyPlan
  <2>1. UNCHANGED cache_vars
    BY <1>3 DEF RejectHead, Drained, Refreshed, EmptyPlan
  <2>. QED
    BY <1>1, <1>3, <2>1, RejectKeeps, TurnKeeps
<1>4. CASE Plan
  BY <1>4, PlanStep
<1>5. CASE GpuError \/ OverflowHead
  <2>1. UNCHANGED cache_vars
    BY <1>5 DEF GpuError, OverflowHead, Fail
  <2>. QED
    BY <1>5, <2>1, ErrorKeeps, OverflowKeeps
<1>6. CASE UNCHANGED vars
  <2>1. UNCHANGED <<cache_vars, owner_vars>>
    BY <1>6 DEF vars
  <2>2. UNCHANGED <<request_vars, allocated_tokens, reservations, oneshot, sent, slot_vars,
                    step_vars, pc, fault, channel, client, response, closed, stream_open>>
    BY <2>1 DEF cache_vars, table_vars, owner_vars, client_vars, answer_vars, slot_vars
  <2>3. OwnerTypeOK'
    BY <2>2 DEF OwnerInv, OwnerTypeOK, ClientTypeOK, AnswerTypeOK, SlotTypeOK, StepTypeOK,
                slot_vars, step_vars
  <2>. QED
    BY <1>1, <2>1, <2>2, <2>3, QuietKeeps
<1>7. ASSUME NEW s \in Slot,
             \/ \E hit \in 0 .. PagesPerSlot : AdmitHead(s, hit) \/ Refresh(s, hit)
             \/ Forward(s) \/ TakePrefill(s)
             \/ \E token \in Token : Sample(s, token)
             \/ Answer(s) \/ Vacate(s)
      PROVE  [CacheNext]_cache_vars /\ OwnerInv'
  BY <1>7, AdmitHeadStep, RefreshStep, ForwardStep, TakePrefillStep, SampleStep, AnswerStep,
     VacateStep
<1>. QED
  BY <1>2, <1>3, <1>4, <1>5, <1>6, <1>7 DEF OwnerNext, OwnerStep

\* The type of every variable and the agreement of the ledgers, for any
\* requests, channel and chunk sizes: the inductive invariant of the engine, on
\* top of that of its cache.
THEOREM OwnerInvariant == OwnerSpec => [](CacheTypeOK /\ CacheInv /\ OwnerInv)
<1>1. OwnerInit => CacheTypeOK /\ CacheInv /\ OwnerInv
  BY InitOwner, InitType, InitInv, InitContent DEF CacheInv
<1>2. (CacheTypeOK /\ CacheInv /\ OwnerInv) /\ [OwnerNext]_vars
        => (CacheTypeOK /\ CacheInv /\ OwnerInv)'
  BY NextOwner, NextType, NextInv, NextContent DEF CacheInv
<1>. QED
  BY <1>1, <1>2, PTL DEF OwnerSpec

\* The owner thread never calls the cache where BatchModelCache does not allow
\* it: what is proved of the cache under its own specification holds in the
\* running engine (the calls of run_owner_radix into BatchModelCache).
THEOREM OwnerUsesCacheCorrectly == OwnerSpec => UsesCacheCorrectly
<1>1. OwnerInit => CacheInit
  BY DEF OwnerInit
<1>2. (CacheTypeOK /\ CacheInv /\ OwnerInv) /\ [OwnerNext]_vars => [CacheNext]_cache_vars
  BY NextOwner
<1>. QED
  BY <1>1, <1>2, OwnerInvariant, PTL DEF OwnerSpec, UsesCacheCorrectly, CacheSpec

\* Nothing but a CUDA error, or the admission of a request whose length
\* overflows, whose prompt is empty or whose reservation is refused, ends the
\* owner thread; every other `?` of its loop is a check that cannot fail, and
\* the request that ended it can be told from the state.
THEOREM OnlyTheseFaults == OwnerSpec => []OnlyKnownFaults
<1>1. OwnerInv => OnlyKnownFaults
  BY DEF OwnerInv
<1>. QED
  BY <1>1, OwnerInvariant, PTL

\* When the thread ends because every handle is gone, no accepted request is
\* left without its answer.
THEOREM StopsGracefully == OwnerSpec => []GracefulStop
<1>1. OwnerInv => GracefulStop
  <2> SUFFICES ASSUME OwnerInv, pc = "stopped", NEW r \in Request, client[r] = "waiting"
               PROVE  oneshot[r] # Empty
    BY DEF GracefulStop
  <2>1. Alive /\ OwnerTypeOK
    BY DEF OwnerInv
  <2>2. ~Queued(r)
    <3>1. DOMAIN channel = {}
      BY <2>1, EmptySeq, LenProperties DEF Alive, TurnShape, OwnerTypeOK, ClientTypeOK
    <3>. QED
      BY <3>1 DEF Queued
  <2>3. ~Served(r)
    <3>1. \A s \in Slot : phase[s] = "Free"
      BY <2>1 DEF Alive, TurnShape, SlotOK
    <3>. QED
      BY <2>1, <3>1, OwnerAssumption DEF Served, Alive, TurnShape
  <2>. QED
    BY <2>1, <2>2, <2>3 DEF Alive, RequestOK, Answered
<1>. QED
  BY <1>1, OwnerInvariant, PTL

\* A computed prompt has left its longest reusable prefix in the radix cache
\* unless the cache was at one of its limits, however the planner cut it into
\* chunks (split_prefill_at_reusable_boundary, publish_prefix).
THEOREM BoundaryIsPublished == OwnerSpec => []BoundaryPublished
<1>1. OwnerInv => BoundaryPublished
  <2> SUFFICES ASSUME OwnerInv, NEW s \in Slot, pc # "failed", phase[s] = "Decoding",
                      response[s] # NoRequest, ReusablePages(PromptOf[response[s]]) > 0
               PROVE  \/ free_checkpoints = {}
                      \/ ~CanPublish(PromptOf[response[s]], ReusablePages(PromptOf[response[s]]))
    BY DEF BoundaryPublished, Running
  <2>1. BoundaryOK(s) /\ OwnerTypeOK
    BY DEF OwnerInv, Alive
  <2>2. PICK r \in Request : response[s] = r
    BY <2>1 DEF OwnerTypeOK, SlotTypeOK
  <2>3. Boundary(r) # 0
    <3>1. ReusablePages(PromptOf[r]) \in Nat /\ ReusablePages(PromptOf[r]) > 0
      BY <2>2, RequestFacts
    <3>. QED
      BY <3>1, PageSizeAssumption DEF Boundary
  <2>. QED
    BY <2>1, <2>2, <2>3 DEF BoundaryOK, AtLimit
<1>. QED
  BY <1>1, OwnerInvariant, PTL

\* A request is in the channel, in one slot or answered, and in only one of
\* them, as its client waits; nowhere otherwise.
LEMMA OneHome ==
  ASSUME OwnerInv, pc # "failed", NEW r \in Request
  PROVE  LET homes == {i \in DOMAIN channel : channel[i] = r}
                        \cup {s \in Slot : response[s] = r}
                        \cup (IF oneshot[r] = Empty THEN {} ELSE {NoRequest})
         IN  Cardinality(homes) = IF client[r] = "waiting" THEN 1 ELSE 0
<1> DEFINE queued == {i \in DOMAIN channel : channel[i] = r}
           served == {s \in Slot : response[s] = r}
           answered == IF oneshot[r] = Empty THEN {} ELSE {NoRequest}
           homes == queued \cup served \cup answered
<1>1. /\ RequestOK(r) /\ PlacesDistinct /\ r # NoRequest
      /\ OwnerTypeOK
  BY OwnerAssumption DEF OwnerInv, Alive
<1>2. /\ (queued # {} <=> Queued(r)) /\ (served # {} <=> Served(r))
      /\ (answered # {} <=> Answered(r))
  BY DEF Queued, Served, Answered
<1>3. /\ \A i, j \in queued : i = j
      /\ \A s, t \in served : s = t
      /\ \A x, y \in answered : x = y
  <2>1. \A i, j \in queued : i = j
    BY <1>1 DEF PlacesDistinct
  <2>2. \A s, t \in served : s = t
    BY <1>1 DEF PlacesDistinct
  <2>. QED
    BY <2>1, <2>2
<1> HIDE DEF queued, served, answered
<1>4. CASE client[r] = "waiting"
  <2>1. homes = queued \/ homes = served \/ homes = answered
    BY <1>1, <1>2, <1>4 DEF RequestOK
  <2>2. homes # {} /\ \A x, y \in homes : x = y
    BY <1>1, <1>2, <1>3, <1>4, <2>1 DEF RequestOK
  <2>3. PICK x : homes = {x}
    BY <2>2
  <2>. QED
    BY <1>4, <2>3, FS_Singleton DEF queued, served, answered
<1>5. CASE client[r] # "waiting"
  <2>1. homes = {}
    BY <1>1, <1>2, <1>5 DEF RequestOK
  <2>. QED
    BY <1>5, <2>1, FS_EmptySet DEF queued, served, answered
<1>. QED
  BY <1>4, <1>5

\* Free stack, phase, response sender, sequence and cache of a slot agree, and
\* no request is in two places or in none (slots.rs, request.rs, the response
\* states and BatchModelCache, which the owner updates one by one).
THEOREM LedgersAlwaysAgree == OwnerSpec => []LedgersAgree
<1>1. OwnerInv => LedgersAgree
  <2> SUFFICES ASSUME OwnerInv, pc # "failed" PROVE LedgersAgree
    BY DEF LedgersAgree, Running
  <2>1. Alive /\ OwnerTypeOK
    BY DEF OwnerInv
  <2>2. ASSUME NEW s \in Slot
        PROVE  /\ phase[s] = "Free" <=> s \in free_slots
               /\ phase[s] = "Free" <=> ~Occupied(s)
               /\ response[s] = NoRequest <=>
                    phase[s] = "Free" \/ (pc = "release" /\ s = current)
               /\ response[s] # NoRequest =>
                    SubSeq(tokens[s], 1, PromptLen(s)) = PromptOf[response[s]]
               /\ s \notin DOMAIN work \cup DOMAIN finished \cup {current} =>
                    /\ phase[s] = "QueuedPrefill" => prefilled[s] = allocated_tokens[s]
                    /\ phase[s] = "Decoding" =>
                         /\ Len(tokens[s]) = PromptLen(s) + generated[s]
                         /\ Len(tokens[s]) = allocated_tokens[s] + 1
    <3>1. SlotOK(s)
      BY <2>1 DEF Alive
    <3>2. /\ response[s] = NoRequest <=>
               phase[s] = "Free" \/ (pc = "release" /\ s = current)
          /\ response[s] # NoRequest => response[s] \in Request
      BY <2>1 DEF Alive, TurnShape, OwnerTypeOK, SlotTypeOK
    <3>3. ASSUME response[s] # NoRequest
          PROVE  SubSeq(tokens[s], 1, PromptLen(s)) = PromptOf[response[s]]
      <4>1. PICK r \in Request : response[s] = r
        BY <3>2, <3>3
      <4>2. CASE phase[s] = "QueuedPrefill"
        <5>1. tokens[s] = PromptOf[r] /\ PromptLen(s) = Len(PromptOf[r])
          BY <3>1, <3>3, <4>1, <4>2 DEF SlotOK, PrefillOK, PromptLen
        <5>. QED
          BY <4>1, <5>1, RequestFacts, SubSeqFull
      <4>3. CASE phase[s] = "Decoding"
        BY <3>1, <3>3, <4>3 DEF SlotOK, DecodeOK
      <4>. QED
        BY <2>1, <3>2, <3>3, <4>2, <4>3 DEF OwnerTypeOK, SlotTypeOK
    <3>4. ASSUME s \notin DOMAIN work \cup DOMAIN finished \cup {current}
          PROVE  /\ phase[s] = "QueuedPrefill" => prefilled[s] = allocated_tokens[s]
                 /\ phase[s] = "Decoding" =>
                      /\ Len(tokens[s]) = PromptLen(s) + generated[s]
                      /\ Len(tokens[s]) = allocated_tokens[s] + 1
      <4>1. phase[s] = "QueuedPrefill" => prefilled[s] = allocated_tokens[s]
        BY <3>1, <3>2, <3>4 DEF SlotOK, PrefillOK
      <4>2. ASSUME phase[s] = "Decoding"
            PROVE  /\ Len(tokens[s]) = PromptLen(s) + generated[s]
                   /\ Len(tokens[s]) = allocated_tokens[s] + 1
        <5>1. /\ Len(tokens[s]) = PromptLen(s) + generated[s]
              /\ allocated_tokens[s] = Len(tokens[s]) - 1
          BY <3>1, <3>2, <3>4, <4>2 DEF SlotOK, DecodeOK
        <5>2. PICK r \in Request : response[s] = r
          BY <3>2, <3>4, <4>2
        <5>3. PromptLen(s) \in Nat /\ generated[s] \in Nat
          BY <2>1, <5>2, RequestFacts DEF PromptLen, OwnerTypeOK, SlotTypeOK
        <5>. QED
          BY <5>1, <5>3
      <4>. QED
        BY <4>1, <4>2
    <3>. QED
      BY <3>1, <3>2, <3>3, <3>4 DEF SlotOK
  <2>. QED
    BY <2>2, OneHome DEF LedgersAgree
<1>. QED
  BY <1>1, OwnerInvariant, PTL

\* With every slot free nothing is reserved, every row is empty and every page
\* outside the radix cache is free (finish_request, BatchModelCache::release).
THEOREM IdleEngineIsClean == OwnerSpec => []IdleIsClean
<1>1. CacheTypeOK /\ CacheInv /\ OwnerInv => IdleIsClean
  <2> SUFFICES ASSUME CacheTypeOK, PageInv, ContentInv, OwnerInv, pc # "failed", free_slots = Slot
               PROVE  /\ reserved_pages = 0
                      /\ free_pages = Page \ CachedPageSet
                      /\ \A s \in Slot : block_table[s] = EmptyRow /\ conv_state[s] = << >>
    BY DEF IdleIsClean, Running, CacheInv
  <2>1. ASSUME NEW s \in Slot PROVE ~Occupied(s)
    BY DEF OwnerInv, Alive, SlotOK
  <2>2. ASSUME NEW s \in Slot
        PROVE  /\ AllocatedPages(s) = 0 /\ SharedPages(s) = 0 /\ DivCeil(maximum_tokens[s]) = 0
               /\ allocated_tokens[s] = 0 /\ tokens[s] = << >>
               /\ \A i \in Positions : block_table[s][i] = NoPage
    <3>1. /\ AllocatedPages(s) = 0 /\ SharedPages(s) = 0 /\ maximum_tokens[s] = 0
          /\ DivCeil(maximum_tokens[s]) = 0
          /\ \A i \in Positions : i > 0 => block_table[s][i] = NoPage
      BY <2>1, SlotFacts DEF PageInv
    <3>2. tokens[s] = << >> /\ allocated_tokens[s] = 0
      BY <2>1, EmptySeq DEF Occupied, PageInv, SlotShape, CacheTypeOK
    <3>. QED
      BY <3>1, <3>2 DEF Positions
  <2>3. reserved_pages = 0
    <3>1. ReservedPositions = {}
      BY <2>2 DEF ReservedPositions, Positions
    <3>. QED
      BY <3>1, FS_EmptySet DEF PageInv, CountersExact
  <2>4. free_pages = Page \ CachedPageSet
    <3>1. ASSUME NEW p \in Page PROVE TableRefs(p) = {}
      <4>1. \A x \in Slot \X Positions : block_table[x[1]][x[2]] = NoPage
        BY <2>2
      <4>. QED
        BY <4>1, PageAssumption DEF TableRefs
    <3>2. \A p \in Page : p \in free_pages <=> p \notin CachedPageSet
      BY <3>1, FreeMeansUnused DEF PageInv
    <3>. QED
      BY <3>2 DEF CacheTypeOK
  <2>5. ASSUME NEW s \in Slot PROVE block_table[s] = EmptyRow /\ conv_state[s] = << >>
    <3>1. block_table[s] = EmptyRow
      BY <2>2 DEF CacheTypeOK, EmptyRow
    <3>2. conv_state[s] = SubSeq(<< >>, 1, 0)
      BY <2>2 DEF ContentInv, ConvMatchesTokens
    <3>3. SubSeq(<< >>, 1, 0) = << >>
      BY EmptySeq
    <3>. QED
      BY <3>1, <3>2, <3>3
  <2>. QED
    BY <2>3, <2>4, <2>5
<1>. QED
  BY <1>1, OwnerInvariant, PTL

-----------------------------------------------------------------------------
(* The owner thread implements ServingContract: seen through the status of *)
(* every request, what its stream has carried and its completion, every    *)
(* step of the engine is a step of the contract or changes none of them.   *)

\* The contract's variables as the engine's state shows them.
Status == [r \in Request |-> StatusOf(r)]
Reply == [r \in Request |-> [tokens |-> oneshot[r].tokens, reason |-> oneshot[r].reason]]

\* What decides a request's status.
LEMMA StatusCases ==
  ASSUME OwnerInv, NEW r \in Request
  PROVE  /\ InEngine(r) <=> Queued(r) \/ Served(r)
         /\ client[r] = "idle" => StatusOf(r) = "idle"
         /\ StatusOf(r) = "pending" <=> client[r] = "waiting" /\ ~Answered(r) /\ InEngine(r)
         /\ pc # "failed" => StatusOf(r) # "lost"
<1>1. /\ client[r] \in {"idle", "waiting", "refused"}
      /\ oneshot[r].kind \in {"empty", "rejected", "completed"}
  BY DEF OwnerInv, OwnerTypeOK, ClientTypeOK, AnswerTypeOK
<1>2. InEngine(r) <=> Queued(r) \/ Served(r)
  BY DEF InEngine, Queued, Served
<1>3. StatusOf(r) = "pending" <=> client[r] = "waiting" /\ ~Answered(r) /\ InEngine(r)
  BY <1>1 DEF StatusOf, Answered
<1>4. pc # "failed" => StatusOf(r) # "lost"
  BY <1>1, <1>2 DEF StatusOf, Answered, OwnerInv, Alive, RequestOK
<1>. QED
  BY <1>2, <1>3, <1>4 DEF StatusOf

\* A step that neither submits nor answers nor streams is invisible.
LEMMA Invisible ==
  ASSUME UNCHANGED <<client, oneshot, sent>>,
         \A r \in Request : InEngine(r)' <=> InEngine(r)
  PROVE  UNCHANGED Contract!contract_vars
<1>1. ASSUME NEW r \in Request PROVE StatusOf(r)' = StatusOf(r)
  BY DEF StatusOf
<1>2. Status' = Status
  BY <1>1 DEF Status
<1>. QED
  BY <1>2 DEF Contract!contract_vars, Status

\* An accepted request becomes pending, one that is turned away refused.
LEMMA SubmitSimulated ==
  ASSUME OwnerInv, NEW r \in Request, Submit(r)
  PROVE  Contract!Submit(r)
<1> DEFINE verdict == IF Accepts THEN "pending" ELSE "refused"
<1>1. /\ client[r] = "idle" /\ UNCHANGED <<oneshot, sent, response>>
      /\ client' = [client EXCEPT ![r] = IF Accepts THEN "waiting" ELSE "refused"]
      /\ channel' = IF Accepts THEN Append(channel, r) ELSE channel
  BY DEF Submit, answer_vars, slot_vars
<1>2. /\ client \in [Request -> {"idle", "waiting", "refused"}] /\ channel \in Seq(Request)
      /\ oneshot[r] = Empty
  BY <1>1 DEF OwnerInv, OwnerTypeOK, ClientTypeOK, ClientOK
<1>3. /\ \A q \in Request : Served(q)' <=> Served(q)
      /\ \A q \in Request : q # r => (Queued(q)' <=> Queued(q))
      /\ Accepts => Queued(r)'
  <2>1. CASE Accepts
    <3>1. /\ Len(channel) \in Nat /\ DOMAIN channel = 1 .. Len(channel)
          /\ DOMAIN channel' = 1 .. Len(channel) + 1
          /\ \A i \in 1 .. Len(channel) : channel'[i] = channel[i]
          /\ channel'[Len(channel) + 1] = r
      BY <1>1, <1>2, <2>1, AppendProperties, LenProperties
    <3>. QED
      BY <1>1, <3>1 DEF Served, Queued
  <2>2. CASE ~Accepts
    BY <1>1, <2>2 DEF Served, Queued
  <2>. QED
    BY <2>1, <2>2
<1>4. ASSUME NEW q \in Request
      PROVE  StatusOf(q)' = IF q = r THEN verdict ELSE StatusOf(q)
  <2>1. CASE q = r
    BY <1>1, <1>2, <1>3, <2>1 DEF StatusOf, InEngine, Queued
  <2>2. CASE q # r
    <3>1. InEngine(q)' <=> InEngine(q)
      BY <1>3, <2>2 DEF InEngine, Queued, Served
    <3>2. client'[q] = client[q] /\ oneshot'[q] = oneshot[q]
      BY <1>1, <1>2, <2>2
    <3>. QED
      BY <2>2, <3>1, <3>2 DEF StatusOf
  <2>. QED
    BY <2>1, <2>2
<1>5. Status' = [Status EXCEPT ![r] = verdict]
  BY <1>4 DEF Status
<1>6. Status[r] = "idle"
  BY <1>1, StatusCases DEF Status
<1>7. verdict = "pending" => ~\E q \in Request : Status[q] = "lost"
  BY StatusCases DEF Accepts, Running, Status
<1>. QED
  BY <1>1, <1>5, <1>6, <1>7 DEF Contract!Submit, Contract!OwnerLost, Status

\* The owner fails and every pending answer is lost.
LEMMA FailSimulated ==
  ASSUME OwnerInv, NEW why, Fail(why), pc # "failed"
  PROVE  Contract!Lose \/ UNCHANGED Contract!contract_vars
<1>1. /\ UNCHANGED <<client, oneshot, sent>>
      /\ channel' = << >> /\ response' = [s \in Slot |-> NoRequest]
  BY DEF Fail, answer_vars
<1>2. \A r \in Request : ~InEngine(r)'
  <2>1. DOMAIN channel' = {}
    BY <1>1, EmptySeq, LenProperties
  <2>. QED
    BY <1>1, <2>1, OwnerAssumption DEF InEngine
<1>3. ASSUME NEW q \in Request
      PROVE  StatusOf(q)' = IF StatusOf(q) = "pending" THEN "lost" ELSE StatusOf(q)
  <2>1. /\ StatusOf(q) = "pending" <=> client[q] = "waiting" /\ ~Answered(q) /\ InEngine(q)
        /\ StatusOf(q) # "lost"
    BY StatusCases
  <2>. QED
    BY <1>1, <1>2, <2>1 DEF StatusOf, Answered
<1>4. Status' = [r \in Request |-> IF Status[r] = "pending" THEN "lost" ELSE Status[r]]
  BY <1>3 DEF Status
<1>5. Reply' = Reply /\ sent' = sent
  BY <1>1 DEF Reply
<1>6. CASE \E r \in Request : Status[r] = "pending"
  BY <1>4, <1>5, <1>6 DEF Contract!Lose, Status, Reply
<1>7. CASE ~\E r \in Request : Status[r] = "pending"
  <2>1. Status' = Status
    BY <1>4, <1>7 DEF Status
  <2>. QED
    BY <1>5, <2>1 DEF Contract!contract_vars, Status, Reply
<1>. QED
  BY <1>6, <1>7

\* The head of the channel is turned away with nothing streamed.
LEMMA RejectSimulated ==
  ASSUME OwnerInv, RejectHead
  PROVE  \E r \in Request : Contract!Reject(r)
<1> DEFINE r == Head(channel)
<1>1. /\ UNCHANGED <<client, sent, response>> /\ channel # << >> /\ pc = "drain"
      /\ oneshot' = [oneshot EXCEPT ![r] = Rejected] /\ channel' = Tail(channel)
  BY DEF RejectHead, slot_vars
<1>2. Alive /\ OwnerTypeOK
  BY <1>1 DEF OwnerInv
<1>3. /\ r \in Request /\ Queued(r)
      /\ \A q \in Request : Queued(q)' <=> Queued(q) /\ q # r
  BY <1>1, <1>2, HeadTaken DEF Alive, OwnerTypeOK
<1>4. /\ ~Served(r) /\ ~Answered(r) /\ client[r] = "waiting" /\ sent[r] = << >>
      /\ \A q \in Request : oneshot'[q] = IF q = r THEN Rejected ELSE oneshot[q]
  BY <1>1, <1>2, <1>3 DEF Alive, RequestOK, OwnerTypeOK, AnswerTypeOK
<1> HIDE DEF r
<1>5. /\ Rejected # Empty /\ Rejected.kind = "rejected"
      /\ Rejected.tokens = Empty.tokens /\ Rejected.reason = Empty.reason
  BY DEF Rejected, Empty
<1>6. Status[r] = "pending"
  BY <1>3, <1>4, StatusCases DEF Status
<1>7. ASSUME NEW q \in Request PROVE StatusOf(q)' = IF q = r THEN "rejected" ELSE StatusOf(q)
  <2>1. CASE q = r
    BY <1>1, <1>4, <1>5, <2>1 DEF StatusOf
  <2>2. CASE q # r
    <3>1. InEngine(q)' <=> InEngine(q)
      BY <1>1, <1>3, <2>2 DEF InEngine, Queued
    <3>. QED
      BY <1>1, <1>4, <2>2, <3>1 DEF StatusOf
  <2>. QED
    BY <2>1, <2>2
<1>8. Status' = [Status EXCEPT ![r] = "rejected"]
  BY <1>7 DEF Status
<1>9. Reply' = Reply
  <2>1. ASSUME NEW q \in Request
        PROVE  oneshot'[q].tokens = oneshot[q].tokens /\ oneshot'[q].reason = oneshot[q].reason
    BY <1>3, <1>4, <1>5 DEF Answered
  <2>. QED
    BY <2>1 DEF Reply
<1>10. Contract!Reject(r)
  BY <1>1, <1>4, <1>6, <1>8, <1>9 DEF Contract!Reject, Status, Reply
<1>. QED
  BY <1>3, <1>10

\* Admission moves the head of the channel into a slot: it stays pending.
LEMMA AdmitSimulated ==
  ASSUME OwnerInv, NEW s \in Slot, NEW hit, AdmitHead(s, hit)
  PROVE  Contract!Lose \/ UNCHANGED Contract!contract_vars
<1> DEFINE r == Head(channel)
<1>1. /\ pc = "drain" /\ channel # << >> /\ s \in free_slots
      /\ \/ /\ channel' = Tail(channel) /\ response' = [response EXCEPT ![s] = r]
            /\ UNCHANGED <<client, oneshot, sent>>
         \/ \E why \in {"slot_already_free", "slot_not_free", "empty_prompt"} : Fail(why)
  BY DEF AdmitHead, Acquires, client_vars, answer_vars
<1>2. Alive /\ OwnerTypeOK
  BY <1>1 DEF OwnerInv
<1>3. CASE \E why \in {"slot_already_free", "slot_not_free", "empty_prompt"} : Fail(why)
  BY <1>1, <1>3, FailSimulated
<1>4. CASE /\ channel' = Tail(channel) /\ response' = [response EXCEPT ![s] = r]
           /\ UNCHANGED <<client, oneshot, sent>>
  <2>1. /\ r \in Request /\ Queued(r)
        /\ \A q \in Request : Queued(q)' <=> Queued(q) /\ q # r
    BY <1>1, <1>2, <1>4, HeadTaken DEF Alive, OwnerTypeOK
  <2> HIDE DEF r
  <2>2. response[s] = NoRequest /\ NoRequest \notin Request
    BY <1>1, <1>2, OwnerAssumption DEF Alive, SlotOK, TurnShape
  <2>3. \A q \in Request : Served(q)' <=> Served(q) \/ q = r
    BY <1>2, <1>4, <2>2 DEF Served, OwnerTypeOK, SlotTypeOK
  <2>4. \A q \in Request : InEngine(q)' <=> InEngine(q)
    BY <2>1, <2>3 DEF InEngine, Queued, Served
  <2>. QED
    BY <1>4, <2>4, Invisible
<1>. QED
  BY <1>1, <1>3, <1>4

\* What follows the first p elements of a sequence, and that without its last.
LEMMA RestOfSequence ==
  ASSUME NEW seq \in Seq(Token), NEW p \in Nat, p <= Len(seq)
  PROVE  LET rest == SubSeq(seq, p + 1, Len(seq))
         IN  /\ rest \in Seq(Token) /\ Len(rest) = Len(seq) - p
             /\ \A i \in 1 .. Len(rest) : rest[i] = seq[p + i]
             /\ SubSeq(rest, 1, Len(rest) - 1) = SubSeq(seq, p + 1, Len(seq) - 1)
<1> DEFINE n == Len(seq)
           rest == SubSeq(seq, p + 1, n)
           left == SubSeq(rest, 1, Len(rest) - 1)
           right == SubSeq(seq, p + 1, n - 1)
<1>1. n \in Nat /\ p <= n /\ \A i \in 1 .. n : seq[i] \in Token
  BY ElementOfSeq, LenProperties
<1> HIDE DEF n
<1>2. p + 1 \in Int /\ n \in Int /\ \A i \in p + 1 .. n : seq[i] \in Token
  BY <1>1
<1>3. /\ rest \in Seq(Token) /\ Len(rest) = (IF p + 1 <= n THEN n - (p + 1) + 1 ELSE 0)
      /\ \A i \in 1 .. n - (p + 1) + 1 : rest[i] = seq[p + 1 + i - 1]
  BY <1>2, SubSeqProperties
<1>4. Len(rest) = n - p /\ \A i \in 1 .. n - p : rest[i] = seq[p + i]
  BY <1>1, <1>3
<1>5. /\ right \in Seq(Token) /\ Len(right) = (IF p + 1 <= n - 1 THEN n - 1 - (p + 1) + 1 ELSE 0)
      /\ \A i \in 1 .. n - 1 - (p + 1) + 1 : right[i] = seq[p + 1 + i - 1]
  <2>1. n - 1 \in Int /\ \A i \in p + 1 .. n - 1 : seq[i] \in Token
    BY <1>1
  <2>. QED
    BY <1>2, <2>1, SubSeqProperties
<1> HIDE DEF rest
<1>6. /\ left \in Seq(Token) /\ Len(left) = (IF 1 <= Len(rest) - 1 THEN Len(rest) - 1 - 1 + 1 ELSE 0)
      /\ \A i \in 1 .. Len(rest) - 1 - 1 + 1 : left[i] = rest[1 + i - 1]
  <2>1. 1 \in Int /\ Len(rest) - 1 \in Int /\ \A i \in 1 .. Len(rest) - 1 : rest[i] \in Token
    BY <1>1, <1>3, <1>4, ElementOfSeq, LenProperties
  <2>. QED
    BY <2>1, SubSeqProperties
<1> HIDE DEF left, right
<1>7. Len(left) = Len(right)
  BY <1>1, <1>4, <1>5, <1>6
<1>8. \A i \in 1 .. Len(left) : left[i] = right[i]
  BY <1>1, <1>4, <1>5, <1>6
<1>9. left = right
  BY <1>5, <1>6, <1>7, <1>8, SeqEqual
<1>. QED
  BY <1>1, <1>3, <1>4, <1>9 DEF n, rest, left, right

\* A sampled token goes to the stream of a request that has not had its limit.
LEMMA SampleSimulated ==
  ASSUME CacheTypeOK, OwnerInv, NEW s \in Slot, NEW token \in Token, Sample(s, token)
  PROVE  \/ \E r \in Request : Contract!Stream(r, token)
         \/ Contract!Lose \/ UNCHANGED Contract!contract_vars
<1>1. Alive /\ OwnerTypeOK /\ pc = "sample" /\ AnswerOK(s)
  BY DEF Sample, OwnerInv, Alive
<1>2. PICK r \in Request :
        /\ response[s] = r /\ r # NoRequest /\ s \notin DOMAIN finished
        /\ Len(tokens[s]) = Len(PromptOf[r]) + generated[s] /\ generated[s] \in Nat
        /\ Len(tokens[s]) < Total(r)
  BY <1>1, SampledSlot, RequestFacts DEF Sample
<1>3. CASE Fail("push")
  BY <1>1, <1>3, FailSimulated
<1> DEFINE eos == r \notin IgnoreEos /\ token = EosToken
<1>4. CASE /\ UNCHANGED <<channel, client, response, oneshot>>
           /\ \/ sent' = sent
              \/ r \in Streaming /\ ~eos /\ sent' = [sent EXCEPT ![r] = Append(@, token)]
  <2>1. \A q \in Request : InEngine(q)' <=> InEngine(q)
    BY <1>4 DEF InEngine
  <2>2. CASE sent' = sent
    BY <1>4, <2>1, <2>2, Invisible
  <2>3. CASE r \in Streaming /\ ~eos /\ sent' = [sent EXCEPT ![r] = Append(@, token)]
    <3>1. /\ tokens[s] \in Seq(Token) /\ Len(PromptOf[r]) \in Nat /\ LimitOf[r] \in Nat
          /\ Total(r) = Len(PromptOf[r]) + LimitOf[r] /\ Len(tokens[s]) \in Nat
      BY RequestFacts DEF CacheTypeOK
    <3>2. sent[r] = SubSeq(tokens[s], Len(PromptOf[r]) + 1, Len(tokens[s]))
      <4>1. sent[r] = SubSeq(tokens[s], PromptLen(s) + 1, Len(tokens[s]) - Unsent(s))
        BY <1>1, <1>2, <2>3 DEF AnswerOK
      <4>2. PromptLen(s) = Len(PromptOf[r]) /\ Len(tokens[s]) - Unsent(s) = Len(tokens[s])
        BY <1>2, <3>1 DEF PromptLen, Unsent
      <4>. QED
        BY <4>1, <4>2
    <3>3. Len(sent[r]) < LimitOf[r]
      <4>1. Len(sent[r]) = Len(tokens[s]) - Len(PromptOf[r])
        BY <1>2, <3>1, <3>2, RestOfSequence
      <4>. QED
        BY <1>2, <3>1, <4>1
    <3>4. Status[r] = "pending"
      <4>1. Served(r)
        BY <1>2 DEF Served
      <4>. QED
        BY <1>1, <4>1, StatusCases DEF Alive, RequestOK, Status
    <3>5. Status' = Status
      <4>1. ASSUME NEW q \in Request PROVE StatusOf(q)' = StatusOf(q)
        BY <1>4, <2>1 DEF StatusOf
      <4>. QED
        BY <4>1 DEF Status
    <3>6. Reply' = Reply
      BY <1>4 DEF Reply
    <3>7. Contract!Stream(r, token)
      BY <2>3, <3>3, <3>4, <3>5, <3>6 DEF Contract!Stream, Contract!Generated, Status, Reply
    <3>. QED
      BY <3>7
  <2>. QED
    BY <1>4, <2>2, <2>3
<1>5. \/ Fail("push")
      \/ /\ UNCHANGED <<channel, client, response, oneshot>>
         /\ \/ sent' = sent
            \/ r \in Streaming /\ ~eos /\ sent' = [sent EXCEPT ![r] = Append(@, token)]
  BY <1>2 DEF Sample, Streams, client_vars
<1>. QED
  BY <1>3, <1>4, <1>5

\* What a finished slot has generated is a completion the contract allows.
LEMMA FinishedAnswer ==
  ASSUME CacheTypeOK, PageInv, Alive, OwnerTypeOK, NEW s \in Slot, s \in DOMAIN finished,
         NEW r \in Request, response[s] = r
  PROVE  LET text == SubSeq(tokens[s], PromptLen(s) + 1, Len(tokens[s]))
         IN  /\ Contract!Completes(r, text, finished[s])
             /\ [tokens |-> text, reason |-> finished[s]] \in Contract!Answer(r)
<1> DEFINE p == Len(PromptOf[r])
           n == Len(tokens[s])
           text == SubSeq(tokens[s], p + 1, n)
<1>1. /\ SlotOK(s) /\ AnswerOK(s) /\ phase[s] # "Free" /\ response[s] # NoRequest
      /\ finished[s] \in {"stop", "length", "abort"} /\ PromptLen(s) = p
  BY DEF Alive, TurnShape, OwnerTypeOK, StepTypeOK, PromptLen
<1>2. /\ tokens[s] \in Seq(Token) /\ n \in Nat /\ p \in Nat /\ LimitOf[r] \in Nat
      /\ Total(r) = p + LimitOf[r]
  BY RequestFacts DEF CacheTypeOK
<1>3. p <= n /\ n <= p + LimitOf[r]
  <2>1. p <= n
    <3>1. CASE phase[s] = "QueuedPrefill"
      BY <1>1, <1>2, <3>1 DEF SlotOK, PrefillOK
    <3>2. CASE phase[s] = "Decoding"
      BY <1>1, <1>2, <3>2 DEF SlotOK, DecodeOK
    <3>. QED
      BY <1>1, <3>1, <3>2 DEF OwnerTypeOK, SlotTypeOK
  <2>2. n <= maximum_tokens[s] /\ maximum_tokens[s] = Total(r)
    BY <1>1 DEF PageInv, SlotShape, SlotOK
  <2>. QED
    BY <1>2, <2>1, <2>2
<1>4. /\ text \in Seq(Token) /\ Len(text) = n - p
      /\ \A i \in 1 .. Len(text) : text[i] = tokens[s][p + i]
      /\ SubSeq(text, 1, Len(text) - 1) = SubSeq(tokens[s], p + 1, n - 1)
  BY <1>2, <1>3, RestOfSequence
<1>5. /\ \A i \in p + 1 .. n : tokens[s][i] # EosToken \/ r \in IgnoreEos
      /\ r \in Streaming => sent[r] = SubSeq(tokens[s], p + 1, n - Unsent(s))
      /\ ReasonOK(s)
  BY <1>1 DEF AnswerOK
<1>6. /\ \/ finished[s] = "stop" /\ r \notin IgnoreEos /\ n < p + LimitOf[r]
         \/ finished[s] = "length" /\ n = p + LimitOf[r]
         \/ finished[s] = "abort" /\ r \in Streaming /\ p < n
  BY <1>1, <1>2, <1>5 DEF ReasonOK
<1>7. Unsent(s) = (IF finished[s] = "abort" THEN 1 ELSE 0)
  BY DEF Unsent
<1> HIDE DEF p, n, text
<1>8. \A i \in 1 .. Len(text) : text[i] # EosToken \/ r \in IgnoreEos
  BY <1>2, <1>3, <1>4, <1>5
<1>9. \/ finished[s] = "stop" /\ r \notin IgnoreEos /\ Len(text) < LimitOf[r]
      \/ finished[s] = "length" /\ Len(text) = LimitOf[r]
      \/ finished[s] = "abort" /\ r \in Streaming /\ Len(text) \in 1 .. LimitOf[r]
  BY <1>2, <1>3, <1>4, <1>6
<1>10. r \in Streaming =>
         sent[r] = IF finished[s] = "abort" THEN SubSeq(text, 1, Len(text) - 1) ELSE text
  <2>1. CASE finished[s] = "abort"
    BY <1>4, <1>5, <1>7, <2>1
  <2>2. CASE finished[s] # "abort"
    <3>1. n - Unsent(s) = n
      BY <1>2, <1>7, <2>2
    <3>. QED
      BY <1>5, <2>2, <3>1 DEF text
  <2>. QED
    BY <2>1, <2>2
<1>11. text \in UNION {[1 .. k -> Token] : k \in 0 .. LimitOf[r]}
  <2>1. Len(text) \in 0 .. LimitOf[r]
    BY <1>2, <1>3, <1>4
  <2>2. text \in [1 .. Len(text) -> Token]
    BY <1>4, LenProperties
  <2>. QED
    BY <2>1, <2>2
<1>12. Contract!Completes(r, text, finished[s])
  BY <1>8, <1>9, <1>10 DEF Contract!Completes, Contract!Generated
<1>13. [tokens |-> text, reason |-> finished[s]] \in Contract!Answer(r)
  BY <1>1, <1>11 DEF Contract!Answer
<1>. QED
  BY <1>1, <1>12, <1>13 DEF text, n

\* A finished request gets its completion.
LEMMA AnswerSimulated ==
  ASSUME CacheTypeOK, CacheInv, OwnerInv, NEW s \in Slot, Answer(s)
  PROVE  \E r \in Request : \E answer \in Contract!Answer(r) : Contract!Complete(r, answer)
<1>1. /\ Alive /\ OwnerTypeOK /\ pc = "finish" /\ s \in DOMAIN finished
      /\ response[s] # NoRequest /\ PlacesDistinct /\ PageInv
  BY DEF Answer, OwnerInv, Alive, TurnShape, CacheInv
<1>2. PICK r \in Request : response[s] = r
  BY <1>1 DEF OwnerTypeOK, SlotTypeOK
<1> DEFINE text == SubSeq(tokens[s], PromptLen(s) + 1, Len(tokens[s]))
           answer == [tokens |-> text, reason |-> finished[s]]
           full == [kind |-> "completed", reason |-> finished[s], tokens |-> text]
<1>3. Contract!Completes(r, text, finished[s]) /\ answer \in Contract!Answer(r)
  BY <1>1, <1>2, FinishedAnswer
<1>4. /\ oneshot' = [oneshot EXCEPT ![r] = full]
      /\ response' = [response EXCEPT ![s] = NoRequest]
      /\ UNCHANGED <<channel, client, sent>>
  BY <1>2 DEF Answer, client_vars
<1>5. /\ full.kind = "completed" /\ full # Empty /\ full.tokens = answer.tokens
      /\ full.reason = answer.reason /\ answer.tokens = text /\ answer.reason = finished[s]
  BY DEF Empty
<1>6. answer = [tokens |-> full.tokens, reason |-> full.reason]
  OBVIOUS
<1> HIDE DEF text, answer, full
<1>7. \A q \in Request : oneshot'[q] = IF q = r THEN full ELSE oneshot[q]
  BY <1>1, <1>4 DEF OwnerTypeOK, AnswerTypeOK
<1>8. Served(r) /\ client[r] = "waiting" /\ ~Queued(r) /\ ~Answered(r)
  BY <1>1, <1>2 DEF Served, Alive, RequestOK
<1>9. Status[r] = "pending"
  BY <1>8, StatusCases DEF Status
<1>10. ASSUME NEW q \in Request PROVE StatusOf(q)' = IF q = r THEN "completed" ELSE StatusOf(q)
  <2>1. CASE q = r
    BY <1>4, <1>5, <1>7, <1>8, <2>1 DEF StatusOf
  <2>2. CASE q # r
    <3>1. \A t \in Slot : response'[t] = q <=> response[t] = q
      BY <1>1, <1>2, <1>4, <2>2, OwnerAssumption DEF OwnerTypeOK, SlotTypeOK
    <3>2. InEngine(q)' <=> InEngine(q)
      BY <1>4, <3>1 DEF InEngine
    <3>. QED
      BY <1>4, <1>7, <2>2, <3>2 DEF StatusOf
  <2>. QED
    BY <2>1, <2>2
<1>11. Status' = [Status EXCEPT ![r] = "completed"]
  BY <1>10 DEF Status
<1>12. Reply' = [Reply EXCEPT ![r] = answer]
  BY <1>6, <1>7 DEF Reply
<1>13. PICK a \in Contract!Answer(r) : a = answer
  BY <1>3
<1>14. Contract!Complete(r, a)
  BY <1>3, <1>4, <1>5, <1>9, <1>11, <1>12, <1>13 DEF Contract!Complete, Status, Reply
<1>. QED
  BY <1>13, <1>14

-----------------------------------------------------------------------------
(* The refinement.                                                         *)

\* The owner starts where the contract does.
LEMMA InitSimulated == OwnerInit => Contract!ContractInit
<1> SUFFICES ASSUME OwnerInit PROVE Contract!ContractInit
  OBVIOUS
<1>1. /\ client = [r \in Request |-> "idle"] /\ oneshot = [r \in Request |-> Empty]
      /\ sent = [r \in Request |-> << >>]
  BY DEF OwnerInit
<1>2. Status = [r \in Request |-> "idle"]
  BY <1>1 DEF Status, StatusOf
<1>3. Reply = [r \in Request |-> Contract!NoReply]
  BY <1>1 DEF Reply, Contract!NoReply, Empty
<1>. QED
  BY <1>1, <1>2, <1>3 DEF Contract!ContractInit, Status, Reply

\* Every step of the owner is one of the contract or a stutter.
LEMMA NextSimulated ==
  ASSUME CacheTypeOK, CacheInv, OwnerInv, [OwnerNext]_vars
  PROVE  [Contract!ContractNext]_(Contract!contract_vars)
<1>1. ASSUME UNCHANGED <<channel, client, response, oneshot, sent>>
      PROVE  UNCHANGED Contract!contract_vars
  <2>1. \A r \in Request : InEngine(r)' <=> InEngine(r)
    BY <1>1 DEF InEngine
  <2>. QED
    BY <1>1, <2>1, Invisible
<1>2. ASSUME NEW why, Fail(why), pc # "failed"
      PROVE  Contract!Lose \/ UNCHANGED Contract!contract_vars
  BY <1>2, FailSimulated
<1>3. CASE UNCHANGED vars
  BY <1>1, <1>3 DEF vars, owner_vars, client_vars, answer_vars, slot_vars
<1>4. CASE ClientNext
  <2>1. CASE \E r \in Request : Submit(r)
    BY <2>1, SubmitSimulated DEF Contract!ContractNext
  <2>2. CASE CloseChannel \/ \E r \in Request : DropStream(r)
    BY <1>1, <2>2 DEF CloseChannel, DropStream, answer_vars, slot_vars
  <2>. QED
    BY <1>4, <2>1, <2>2 DEF ClientNext
<1>5. CASE RejectHead
  BY <1>5, RejectSimulated DEF Contract!ContractNext
<1>6. CASE Drained \/ Refreshed \/ EmptyPlan \/ Plan
  BY <1>1, <1>6 DEF Drained, Refreshed, EmptyPlan, Plan, client_vars, answer_vars, slot_vars
<1>7. CASE GpuError \/ OverflowHead
  <2>1. \E why \in {"gpu", "length_overflow"} : Fail(why) /\ pc # "failed"
    BY <1>7 DEF GpuError, Acquires, OverflowHead
  <2>. QED
    BY <1>2, <2>1 DEF Contract!ContractNext
<1>8. ASSUME NEW s \in Slot, NEW hit \in 0 .. PagesPerSlot, AdmitHead(s, hit)
      PROVE  [Contract!ContractNext]_(Contract!contract_vars)
  BY <1>8, AdmitSimulated DEF Contract!ContractNext
<1>9. ASSUME NEW s \in Slot, NEW hit \in 0 .. PagesPerSlot, Refresh(s, hit)
      PROVE  [Contract!ContractNext]_(Contract!contract_vars)
  <2>1. CASE Fail("refresh")
    BY <1>2, <1>9, <2>1 DEF Refresh, Contract!ContractNext
  <2>2. CASE ~Fail("refresh")
    BY <1>1, <1>9, <2>2 DEF Refresh, client_vars, answer_vars
  <2>. QED
    BY <2>1, <2>2
<1>10. ASSUME NEW s \in Slot, Forward(s)
       PROVE  [Contract!ContractNext]_(Contract!contract_vars)
  <2>1. CASE Fail("prepare")
    BY <1>2, <1>10, <2>1 DEF Forward, Contract!ContractNext
  <2>2. CASE ~Fail("prepare")
    BY <1>1, <1>10, <2>2 DEF Forward, client_vars, answer_vars, slot_vars
  <2>. QED
    BY <2>1, <2>2
<1>11. ASSUME NEW s \in Slot, TakePrefill(s)
       PROVE  [Contract!ContractNext]_(Contract!contract_vars)
  <2>1. CASE Fail("publish")
    BY <1>2, <1>11, <2>1 DEF TakePrefill, Contract!ContractNext
  <2>2. CASE ~Fail("publish")
    BY <1>1, <1>11, <2>2 DEF TakePrefill, client_vars, answer_vars
  <2>. QED
    BY <2>1, <2>2
<1>12. ASSUME NEW s \in Slot, NEW token \in Token, Sample(s, token)
       PROVE  [Contract!ContractNext]_(Contract!contract_vars)
  BY <1>12, SampleSimulated DEF Contract!ContractNext
<1>13. ASSUME NEW s \in Slot, Answer(s)
       PROVE  [Contract!ContractNext]_(Contract!contract_vars)
  <2>1. PICK r \in Request : \E answer \in Contract!Answer(r) : Contract!Complete(r, answer)
    BY <1>13, AnswerSimulated
  <2>2. Status[r] = "pending"
    BY <2>1 DEF Contract!Complete, Status
  <2>. QED
    BY <2>1, <2>2 DEF Contract!ContractNext, Status
<1>14. ASSUME NEW s \in Slot, Vacate(s)
       PROVE  [Contract!ContractNext]_(Contract!contract_vars)
  BY <1>1, <1>14 DEF Vacate, client_vars, answer_vars
<1>. QED
  BY <1>3, <1>4, <1>5, <1>6, <1>7, <1>8, <1>9, <1>10, <1>11, <1>12, <1>13, <1>14
  DEF OwnerNext, OwnerStep

\* The owner thread keeps the promise of ServingContract for any requests,
\* limits, channel and cache sizes: one answer per accepted request, a
\* completion with exactly the tokens that were streamed and no more than the
\* limit, and nothing lost unless the thread fails (run_owner_radix,
\* finish_request, ServingHandle::try_submit).
THEOREM OwnerImplementsContract == OwnerSpec => ImplementsContract
<1>1. (CacheTypeOK /\ CacheInv /\ OwnerInv) /\ [OwnerNext]_vars
        => [Contract!ContractNext]_(Contract!contract_vars)
  BY NextSimulated
<1>. QED
  BY <1>1, InitSimulated, OwnerInvariant, PTL
  DEF OwnerSpec, ImplementsContract, Contract!ContractSpec
=============================================================================
