------------------------------- MODULE ShortConv -------------------------------
(***************************************************************************)
(* The causal convolution of one layer (src/kernels/short_conv.cu): three  *)
(* taps, the two older ones kept in a state of two bf16 values per request *)
(* slot of the batch cache, and per single-request cache.  A kernel loads  *)
(* the state, runs through the tokens of its segment with f32 values in    *)
(* registers, and stores the state back.                                   *)
(*                                                                         *)
(* A gated value is known by the text up to its token, and by whether it   *)
(* is still in f32 or has been rounded to bf16.                            *)
(***************************************************************************)
EXTENDS Integers, Sequences, SequencesExt, FiniteSets

CONSTANTS
  RequestSlots,       \* request slots of the batch cache
  Tokens,
  MaxLength,   \* bound on the length of a text
  MaxSegment   \* bound on the tokens of a segment

ASSUME ConvAssumption ==
  /\ "single" \notin RequestSlots /\ Tokens # {}
  /\ MaxLength \in Nat /\ MaxSegment \in Nat \ {0}

VARIABLES
  text,      \* cache -> tokens absorbed
  state,     \* cache -> the state in memory, older value first
  outputs,   \* results of the last kernel: their text and the values they weigh
  history    \* the states recorded by a verification that is not settled yet

conv_vars == <<text, state, outputs, history>>

Caches == RequestSlots \cup {"single"}
Gated(prefix) == [text |-> prefix, f32 |-> TRUE]
Rounded(value) == [text |-> value.text, f32 |-> FALSE]
Zero == [text |-> << >>, f32 |-> FALSE]
ZeroState == <<Zero, Zero>>
Segment == BoundedSeq(Tokens, MaxSegment) \ {<< >>}

ConvInit ==
  /\ text = [c \in Caches |-> << >>]
  /\ state = [c \in Caches |-> ZeroState]
  /\ outputs = {} /\ history = << >>
--------------------------------------------------------------------------------
(* The kernels *)

Weighed(window, gated) == <<window[1], window[2], gated>>

\* The values that go through a thread's registers: the two of the state, then
\* the gated value of each token.
Values(cache, tokens) ==
  state[cache] \o [n \in DOMAIN tokens |-> Gated(text[cache] \o SubSeq(tokens, 1, n))]

\* What thread and token loop compute over the tokens of a segment: a window of
\* two values moves by one with every token, and is recorded rounded.
Convolve(cache, tokens) ==
  LET values    == Values(cache, tokens)
      window(n) == <<values[n + 1], values[n + 2]>>
  IN [text    |-> text[cache] \o tokens,
      window  |-> window(Len(tokens)),
      outputs |-> {[text   |-> values[n + 2].text,
                    window |-> Weighed(window(n - 1), values[n + 2])] : n \in DOMAIN tokens},
      history |-> [n \in DOMAIN tokens |-> <<Rounded(window(n)[1]), Rounded(window(n)[2])>>]]

Stored(run) == <<Rounded(run.window[1]), Rounded(run.window[2])>>

\* short_conv_segmented_lfm2_bf16: each segment goes on from the state of its slot.
SegmentedPass(tokens) ==
  \E runs \in {[s \in DOMAIN tokens |-> Convolve(s, tokens[s])]} :
    /\ \A s \in DOMAIN tokens : Len(runs[s].text) <= MaxLength
    /\ text' = [c \in Caches |-> IF c \in DOMAIN tokens THEN runs[c].text ELSE text[c]]
    /\ state' = [c \in Caches |-> IF c \in DOMAIN tokens THEN Stored(runs[c]) ELSE state[c]]
    /\ outputs' = UNION {runs[s].outputs : s \in DOMAIN tokens}
    /\ UNCHANGED history

\* short_conv_lfm2_bf16: a prompt, or a token, of the single-request engine.
SinglePass(tokens) ==
  \E run \in {Convolve("single", tokens)} :
    /\ history = << >> /\ Len(run.text) <= MaxLength
    /\ text' = [text EXCEPT !["single"] = run.text]
    /\ state' = [state EXCEPT !["single"] = Stored(run)]
    /\ outputs' = run.outputs
    /\ UNCHANGED history

\* short_conv_lfm2_bf16_with_history: as above, recording the state after each token.
Verify(tokens) ==
  \E run \in {Convolve("single", tokens)} :
    /\ history = << >> /\ Len(run.text) <= MaxLength
    /\ text' = [text EXCEPT !["single"] = run.text]
    /\ state' = [state EXCEPT !["single"] = Stored(run)]
    /\ outputs' = run.outputs
    /\ history' = run.history

\* mutant: the state after the first rejected token comes back
RestoredOneLate(valid) == IF valid < Len(history) THEN history[valid + 1] ELSE state["single"]

Restored(valid) == IF valid < Len(history) THEN history[valid] ELSE state["single"]

\* rollback_speculative
Rollback(valid) ==
  /\ valid \in 1 .. Len(history)
  /\ text' = [text EXCEPT !["single"] = SubSeq(@, 1, Len(@) - Len(history) + valid)]
  /\ state' = [state EXCEPT !["single"] = Restored(valid)]
  /\ history' = << >> /\ outputs' = {}

FreshState(cache) == ZeroState

\* BatchModelCache::release, ModelCache::reset
Release(cache) ==
  /\ cache = "single" => history = << >>
  /\ text[cache] # << >>
  /\ text' = [text EXCEPT ![cache] = << >>]
  /\ state' = [state EXCEPT ![cache] = FreshState(cache)]
  /\ outputs' = {} /\ UNCHANGED history

ConvNext ==
  \/ \E chosen \in (SUBSET RequestSlots) \ {{}} : \E tokens \in [chosen -> Segment] : SegmentedPass(tokens)
  \/ \E tokens \in Segment : SinglePass(tokens) \/ Verify(tokens)
  \/ \E valid \in DOMAIN history : Rollback(valid)
  \/ \E cache \in Caches : Release(cache)

--------------------------------------------------------------------------------
(* Properties *)

\* The gated value k tokens before the end of a text, zero before its start.
Before(prefix, k) ==
  IF Len(prefix) > k THEN SubSeq(prefix, 1, Len(prefix) - k) ELSE << >>

\* However a text was cut into prompts, chunks, single tokens and drafts, every
\* output weighs the values of its own token and of the two before it, oldest
\* first.
WeighsOwnPast ==
  \A out \in outputs : \A k \in 0 .. 2 : out.window[3 - k].text = Before(out.text, k)

\* What decoding a text token by token leaves: its last two values, rounded once.
DecodedState(prefix) == <<Rounded(Gated(Before(prefix, 1))), Rounded(Gated(prefix))>>

\* The state in memory is that one.  It holds after a roll back as after an
\* acceptance, so that rolling back adds no error of its own.
StateAsDecoded == \A c \in Caches : state[c] = DecodedState(text[c])

\* Whatever prefix of a draft is accepted, the state to go back to was recorded.
HistoryAsDecoded ==
  \A n \in DOMAIN history :
    history[n] = DecodedState(SubSeq(text["single"], 1, Len(text["single"]) - Len(history) + n))

\* Types; a verification that is not settled is the end of the text.
ConvTypeOK ==
  /\ text \in [Caches -> Seq(Tokens)] /\ \A c \in Caches : Len(text[c]) <= MaxLength
  /\ DOMAIN state = Caches
  /\ DOMAIN history = 1 .. Len(history) /\ Len(history) <= Len(text["single"])

\* The convolution of a served text does not depend on how the text was cut into
\* passes, up to the rounding of the state (kernels/short_conv.cu).
ConvolutionSound == ConvTypeOK /\ WeighsOwnPast /\ StateAsDecoded /\ HistoryAsDecoded
================================================================================
