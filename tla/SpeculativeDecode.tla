--------------------------- MODULE SpeculativeDecode ---------------------------
(***************************************************************************)
(* Generation for a single request with speculative decoding: generate in  *)
(* src/engine/runner.rs over the contiguous ModelCache, with the drafter   *)
(* of NgramDrafter and forward_logits_speculative / rollback_speculative   *)
(* of src/model/lfm2_base.rs.  Temperature is zero and there is no         *)
(* repetition penalty, so that sampling is the argmax.                     *)
(*                                                                         *)
(* A token that went through the model is an entry: the token and the      *)
(* precision it was computed in.  The K/V stored at a position and the     *)
(* convolution state are the sequences of entries they depend on; entries  *)
(* of rejected drafts stay in the K/V memory until overwritten.  The model *)
(* is any function from the last few entries to a token; from K/V and      *)
(* state that do not belong together it may predict anything.              *)
(***************************************************************************)
EXTENDS NgramDrafter

CONSTANTS
  Token,         \* token ids
  EosToken,      \* eos_token_id
  Prompt,        \* the prompts considered
  MaxNewTokens,  \* max_new_tokens
  Fp8Decode,     \* decode_fp8_enabled: an FP8 policy is installed
  MaxFp8Batch,   \* maximum_fp8_batch
  Depth          \* how many entries a prediction depends on

ASSUME SpeculativeAssumption ==
  /\ EosToken \in Token
  /\ Depth \in Nat \ {0}
  /\ Prompt \subseteq Seq(Token) /\ \A p \in Prompt : Len(p) >= Depth
  /\ MaxNewTokens \in Nat \ {0}
  /\ Fp8Decode \in BOOLEAN
  /\ MaxFp8Batch \in Nat \ {0}

VARIABLES
  model,       \* the model's argmax: last entries -> token
  prompt,      \* prompt_ids
  ignore_eos,  \* fixed-step generation for benchmarks
  generated,   \* tokens of the result
  token,       \* the token sampled last, not yet in the result
  kv,          \* position -> entries its K/V was computed from
  length,      \* cache.sequence_length
  conv,        \* entries the convolution state has absorbed
  rejections,  \* consecutive_rejections, counted up to two
  cooldown,    \* cooldown_steps
  drafted,     \* speculative_draft_tokens
  accepted,    \* speculative_accepted_tokens
  finish       \* "none" while generating, then the finish reason, or "error"

request_vars == <<model, prompt, ignore_eos>>
cache_vars == <<kv, length, conv>>
draft_vars == <<rejections, cooldown, drafted, accepted>>
vars == <<request_vars, generated, token, cache_vars, draft_vars, finish>>

Precision == IF Fp8Decode THEN {"bf16", "fp8"} ELSE {"bf16"}
Entry == [token : Token, precision : Precision]
Models == [[1 .. Depth -> Entry] -> Token]

Capacity(p) == Len(p) + MaxNewTokens
history == prompt \o generated

\* use_fp8_decode for a pass over n tokens after start cached ones.
PrecisionOf(start, n) ==
  IF Fp8Decode /\ start > 0 /\ n <= MaxFp8Batch THEN "fp8" ELSE "bf16"

Entries(seq, precision) == [i \in 1 .. Len(seq) |-> [token |-> seq[i], precision |-> precision]]

\* The argmax after the entries of c.
Argmax(f, c) == f[SubSeq(c, Len(c) - Depth + 1, Len(c))]

\* What the pass may predict at a position, given K/V memory and the state there.
Predicted(f, mem, c) ==
  IF \A i \in 1 .. Len(c) : mem[i] = SubSeq(c, 1, i) THEN {Argmax(f, c)} ELSE Token

\* A pass writes K/V from position start on, for the entries new after state c.
KvAfter(mem, start, c, new) ==
  [i \in 1 .. Len(mem) |->
     IF i \in start + 1 .. start + Len(new)
     THEN c \o SubSeq(new, 1, i - start)
     ELSE mem[i]]

SpeculativeInit ==
  /\ model \in Models
  /\ prompt \in Prompt
  /\ ignore_eos \in BOOLEAN
  /\ generated = << >>
  /\ conv = Entries(prompt, PrecisionOf(0, Len(prompt)))
  /\ kv = KvAfter([i \in 1 .. Capacity(prompt) |-> << >>], 0, << >>, conv)
  /\ length = Len(prompt)
  /\ token = Argmax(model, conv)
  /\ rejections = 0 /\ cooldown = 0 /\ drafted = 0 /\ accepted = 0
  /\ finish = "none"

-----------------------------------------------------------------------------
(* One turn of the generation loop.                                        *)

EndsHere(t) == t = EosToken /\ ~ignore_eos

\* The pending token ends the generation.
StopAtEos ==
  /\ finish = "none" /\ EndsHere(token)
  /\ finish' = "stop"
  /\ UNCHANGED <<request_vars, generated, token, cache_vars, draft_vars>>

\* The pending token fills the result.
FinishAtLimit ==
  /\ finish = "none" /\ ~EndsHere(token)
  /\ Len(generated) + 1 >= MaxNewTokens
  /\ generated' = Append(generated, token)
  /\ finish' = "length"
  /\ UNCHANGED <<request_vars, token, cache_vars, draft_vars>>

\* Mutant: every draft is verified in full.
NotTruncated(draft, remaining, space) == draft

\* The draft leaves room for the token that follows it.
Truncated(draft, remaining, space) ==
  SubSeq(draft, 1, Smaller(Len(draft), Smaller(remaining - 1, space)))

\* Mutant: the cooldown is decremented unconditionally.
CooldownUnguarded == cooldown - 1

CooldownAfter == IF cooldown > 0 THEN cooldown - 1 ELSE 0

\* The draft of this turn, once the pending token is in the history.
TurnDraft ==
  LET remaining == MaxNewTokens - (Len(generated) + 1)
      cap       == Capacity(prompt)
      space     == IF cap > length + 1 THEN cap - (length + 1) ELSE 0
  IN  IF cooldown > 0 THEN << >>
      ELSE Truncated(Draft(Append(history, token)), remaining, space)

Continues ==
  /\ finish = "none" /\ ~EndsHere(token)
  /\ Len(generated) + 1 < MaxNewTokens

\* forward_logits and the sampler for a single token.
DecodeOne ==
  LET new == <<[token |-> token, precision |-> PrecisionOf(length, 1)]>>
  IN  /\ Continues
      /\ TurnDraft = << >>
      /\ generated' = Append(generated, token)
      /\ cooldown' = CooldownAfter
      /\ IF length + 1 > Capacity(prompt)
         THEN finish' = "error" /\ UNCHANGED <<token, cache_vars>>
         ELSE /\ kv' = KvAfter(kv, length, conv, new)
              /\ conv' = conv \o new
              /\ length' = length + 1
              /\ token' \in Predicted(model, kv', conv')
              /\ UNCHANGED finish
      /\ UNCHANGED <<request_vars, rejections, drafted, accepted>>

-----------------------------------------------------------------------------
(* Draft, verify and roll back.                                            *)

\* Mutant: the prediction after a draft token is compared with that token.
AcceptedShifted(draft, predictions) ==
  Cardinality({i \in 1 .. Len(draft) : \A j \in 1 .. i : predictions[j + 1] = draft[j]})

\* num_draft_accepted: the longest prefix of the draft the model agrees with.
Accepted(draft, predictions) ==
  Cardinality({i \in 1 .. Len(draft) : \A j \in 1 .. i : predictions[j] = draft[j]})

\* Mutant: the state of the whole verified draft stays.
NotRolledBack(full, valid) == full

\* rollback_speculative restores the state after the last valid token from the
\* history the pass recorded.
RolledBack(full, valid) == SubSeq(full, 1, length + valid)

\* The accepted tokens up to the first that ends the generation.
Emitted(tokens) ==
  LET last == CHOOSE n \in 0 .. Len(tokens) :
                /\ \A i \in 1 .. n : ~EndsHere(tokens[i])
                /\ Len(generated) + 1 + n <= MaxNewTokens
                /\ \/ n = Len(tokens)
                   \/ Len(generated) + 1 + n >= MaxNewTokens
                   \/ EndsHere(tokens[n + 1])
  IN  SubSeq(tokens, 1, last)

Verify ==
  LET draft  == TurnDraft
      k      == Len(draft)
      new    == Entries(<<token>> \o draft, PrecisionOf(length, 1 + k))
      full   == conv \o new
      mem    == KvAfter(kv, length, conv, new)
      After(i) == SubSeq(full, 1, Len(conv) + i)
  IN  /\ Continues
      /\ k > 0
      /\ drafted' = drafted + k
      /\ IF length + 1 + k > Capacity(prompt)
         THEN /\ generated' = Append(generated, token)
              /\ finish' = "error"
              /\ UNCHANGED <<token, cache_vars, rejections, cooldown, accepted>>
         ELSE \E predictions \in [1 .. k + 1 -> Token] :
                LET n       == Accepted(draft, predictions)
                    emitted == Emitted(SubSeq(draft, 1, n))
                    all     == Append(generated, token) \o emitted
                IN  /\ \A i \in 1 .. k + 1 :
                         predictions[i] \in Predicted(model, mem, After(i))
                    /\ accepted' = accepted + n
                    /\ rejections' = IF n > 0 THEN 0 ELSE Smaller(rejections + 1, 2)
                    /\ cooldown' = IF rejections' = 2 THEN 3 ELSE 0
                    /\ kv' = mem
                    /\ length' = length + 1 + n
                    /\ conv' = RolledBack(full, 1 + n)
                    /\ generated' = all
                    /\ finish' = IF Len(emitted) < n /\ EndsHere(draft[Len(emitted) + 1])
                                 THEN "stop"
                                 ELSE IF Len(all) >= MaxNewTokens THEN "length" ELSE "none"
                    /\ token' = IF finish' = "none" THEN predictions[n + 1] ELSE token
      /\ UNCHANGED request_vars

Next == StopAtEos \/ FinishAtLimit \/ DecodeOne \/ Verify

SpeculativeSpec == SpeculativeInit /\ [][Next]_vars

-----------------------------------------------------------------------------
(* What generation without a draft would produce.                          *)

\* The entries of a text whose tokens after the prompt were decoded one by one.
OneByOne(text) ==
  [i \in 1 .. Len(text) |->
     [token |-> text[i],
      precision |-> IF i <= Len(prompt) THEN PrecisionOf(0, Len(prompt)) ELSE PrecisionOf(i - 1, 1)]]

\* The greedy token after a text; GreedyNext comes after the whole history.
GreedyAfter(text) == Argmax(model, OneByOne(text))
GreedyNext == GreedyAfter(history)

\* Every token is the greedy one after those before it.
AgreesWithGreedy ==
  \A n \in 1 .. Len(generated) :
    generated[n] = GreedyAfter(prompt \o SubSeq(generated, 1, n - 1))

-----------------------------------------------------------------------------
(* Properties.                                                             *)

\* Every variable has its type; the usize cooldown never goes below zero.
SpeculativeTypeOK ==
  /\ model \in Models /\ prompt \in Prompt /\ ignore_eos \in BOOLEAN
  /\ generated \in Seq(Token) /\ token \in Token
  /\ kv \in [1 .. Capacity(prompt) -> Seq(Entry)]
  /\ length \in 0 .. Capacity(prompt) /\ conv \in Seq(Entry)
  /\ rejections \in 0 .. 2 /\ cooldown \in 0 .. 3
  /\ drafted \in Nat /\ accepted \in 0 .. drafted
  /\ finish \in {"none", "stop", "length", "error"}

\* Drafts change how often the model runs and never what it says: the result is
\* that of greedy decoding, cut at the first end-of-sequence token or at
\* max_new_tokens, with the finish reason greedy decoding would give
\* (generate_impl, through rejected, partly accepted and truncated drafts).
GreedyOutput ==
  /\ AgreesWithGreedy
  /\ \A n \in 1 .. Len(generated) : ~EndsHere(generated[n])
  /\ CASE finish = "none"   -> /\ Len(generated) < MaxNewTokens
                               /\ token = GreedyNext
       [] finish = "stop"   -> /\ Len(generated) < MaxNewTokens
                               /\ EndsHere(GreedyNext)
       [] finish = "length" -> Len(generated) = MaxNewTokens
       [] OTHER             -> TRUE

\* After every turn, rejection and roll back included, the length, the K/V of
\* every cached position and the convolution state belong to the history
\* without its pending token: nothing of a rejected draft is left behind
\* (rollback_speculative).
StateExact ==
  finish = "none" =>
    /\ length = Len(history) /\ Len(conv) = length
    /\ \A i \in 1 .. length : conv[i].token = history[i] /\ kv[i] = SubSeq(conv, 1, i)

\* The cache of prompt and max_new_tokens always has room for the token and its
\* draft: the capacity check of a forward pass never fails (generate_impl
\* truncates the draft by what remains).
FitsCapacity == finish # "error"

\* Drafts are verified in the precision in which single tokens are decoded.
UniformPrecision == Fp8Decode => DraftLength < MaxFp8Batch

\* What makes these inductive: a generating request has room for its pending
\* token, and its state is that of decoding one by one.
SpeculativeInv ==
  /\ SpeculativeTypeOK
  /\ finish = "none" => Len(generated) < MaxNewTokens
  /\ UniformPrecision /\ finish = "none" => conv = OneByOne(history)

\* docs/final_release_report.md explains different output under speculative
\* decoding by the roll back of rejected drafts: as long as every drafted token
\* has been accepted, the output would be that of greedy decoding.
DivergenceNeedsRejection == accepted = drafted => AgreesWithGreedy
=============================================================================
