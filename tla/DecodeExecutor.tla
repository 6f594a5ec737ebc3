----------------------------- MODULE DecodeExecutor -----------------------------
(***************************************************************************)
(* The persistent decode executor (src/model/decode_executor.rs): one      *)
(* forward pass over fixed scratch buffers for steps of one token per      *)
(* segment, recorded once per topology as a CUDA graph and replayed.       *)
(*                                                                         *)
(* The host runs through the operations of a pass (src/ops), checks and    *)
(* sets logical shapes, and issues launches that carry the sizes it saw;   *)
(* the device runs launches on what the buffers hold.  A value is known by *)
(* its name in the network of forward_prepared_batch                       *)
(* (src/model/lfm2_base.rs); what a buffer held before the step is Stale.  *)
(* A pass is one step of the model: one thread issues it on one stream.    *)
(***************************************************************************)
EXTENDS Integers, Sequences, FiniteSets, FiniteSetsExt, Functions, TLC, AttentionPolicy

CONSTANTS
  MaximumTokens,   \* request slots the executor was built for
  Contexts,        \* longest context of a step, in tokens
  Layers,          \* kinds of the layers, "conv" or "attention"
  Fp8Sites,        \* linear weights with an FP8 copy, <<layer, site>>
  page_size,       \* tokens of a page
  graphs_enabled,  \* cuda_graphs.enabled
  splitk_attention_enabled  \* LFM25_SPLITK_ATTENTION

ASSUME ExecutorAssumption ==
  /\ MaximumTokens \in Nat \ {0} /\ Contexts \subseteq Nat \ {0}
  /\ Layers \in Seq({"conv", "attention"}) /\ Len(Layers) > 0
  /\ page_size \in {16, 32}
  /\ graphs_enabled \in BOOLEAN /\ splitk_attention_enabled \in BOOLEAN

VARIABLES
  shape,     \* buffer -> its logical shape <<rows, width>>
  content,   \* buffer -> what the device holds there
  graphs,    \* bucket -> launches recorded for it, << >> before its first use
  plans,     \* FP8 plans that exist
  written,   \* layer -> times the step wrote its cache or convolution state
  step,      \* the step just run
  failed     \* a check of the step did not hold

vars == <<shape, content, graphs, plans, written, step, failed>>

Buffers == {"hidden", "normalized", "post_operator", "operator_output", "query", "key", "value",
            "wide", "activated", "logits", "fp8_input", "sampled"}
Widths == {"new", "hidden", "heads", "kv", "kv_heads", "3hidden", "2ffn", "ffn", "vocab", "one"}
Stale == [name |-> "stale", layer |-> 0, rows |-> 0]
Val(name, layer, rows) == [name |-> name, layer |-> layer, rows |-> rows]
Final == Len(Layers) + 1      \* the normalisation after the last layer, and the head
--------------------------------------------------------------------------------
(* Operations: what they read and write, and which values of the network    *)
(* these are.  "site" is the weight, "width" that of the result.             *)

Op(op, layer, site, reads, needs, writes, makes, width) ==
  [op |-> op, layer |-> layer, site |-> site, reads |-> reads, needs |-> needs,
   writes |-> writes, makes |-> makes, width |-> width]

Reshape(buffer, width) == Op("reshape", 0, "", <<buffer>>, << >>, <<buffer>>, << >>, width)

\* linear_decode_into: BF16, or quantised into the FP8 scratch first.
Linear(layer, site, from, need, into, make, width) ==
  IF <<layer, site>> \in Fp8Sites
  THEN <<Op("quantize", layer, site, <<from>>, <<need>>, <<"fp8_input">>, <<site>>, "same"),
         Op("linear_fp8", layer, site, <<"fp8_input">>, <<site>>, <<into>>, <<make>>, width)>>
  ELSE <<Op("linear", layer, site, <<from>>, <<need>>, <<into>>, <<make>>, width)>>

Splits(tokens, context) ==
  IF splitk_attention_enabled THEN splitk_decode_splits(tokens, context, page_size) ELSE 1

AttentionOps(l, tokens, context) ==
  Linear(l, "q", "normalized", "normed", "query", "query", "hidden")
  \o <<Reshape("query", "heads")>>
  \o Linear(l, "k", "normalized", "normed", "key", "key", "kv")
  \o <<Reshape("key", "kv_heads")>>
  \o Linear(l, "v", "normalized", "normed", "value", "value", "kv")
  \o <<Reshape("value", "kv_heads")>>
  \o (IF should_use_mok_one_kernel(page_size, context, tokens)
      THEN <<Op("fused", l, "1", <<"query", "key", "value">>, <<"query", "key", "value">>,
                <<"post_operator">>, <<"attended">>, "heads")>>
      ELSE <<Op("write", l, "1", <<"query", "key", "value">>, <<"query", "key", "value">>,
                <<"query">>, <<"rotated">>, "heads"),
             Op("attend", l, ToString(Splits(tokens, context)), <<"query">>, <<"rotated">>,
                <<"post_operator">>, <<"attended">>, "heads")>>)
  \o <<Reshape("post_operator", "hidden")>>
  \o Linear(l, "out", "post_operator", "attended", "operator_output", "mixed", "hidden")

ConvOps(l) ==
  Linear(l, "in", "normalized", "normed", "wide", "projected", "3hidden")
  \o <<Op("conv", l, "", <<"wide">>, <<"projected">>, <<"post_operator">>, <<"convolved">>, "hidden")>>
  \o Linear(l, "out", "post_operator", "convolved", "operator_output", "mixed", "hidden")

\* Both residual steps ping-pong between hidden and post_operator; with an FP8
\* weight the activation is quantised as it is computed.
FeedForwardOps(l) ==
  <<Op("residual", l, "", <<"hidden", "operator_output">>, <<"residual", "mixed">>,
       <<"post_operator", "normalized">>, <<"post_operator", "ffn_input">>, "hidden")>>
  \o Linear(l, "gate_up", "normalized", "ffn_input", "wide", "gate_up", "2ffn")
  \o (IF <<l, "down">> \in Fp8Sites
      THEN <<Op("silu_fp8", l, "down", <<"wide">>, <<"gate_up">>, <<"fp8_input">>, <<"down">>, "ffn"),
             Op("linear_fp8", l, "down", <<"fp8_input">>, <<"down">>, <<"operator_output">>,
                <<"ffn_output">>, "hidden")>>
      ELSE <<Op("silu", l, "", <<"wide">>, <<"gate_up">>, <<"activated">>, <<"activated">>, "ffn")>>
           \o Linear(l, "down", "activated", "activated", "operator_output", "ffn_output", "hidden"))
  \o <<Op("residual", l + 1, "", <<"post_operator", "operator_output">>,
          <<"post_operator", "ffn_output">>, <<"hidden", "normalized">>, <<"residual", "normed">>,
          "hidden")>>

LayerOps(l, tokens, context) ==
  (IF Layers[l] = "conv" THEN ConvOps(l) ELSE AttentionOps(l, tokens, context)) \o FeedForwardOps(l)

EmbedOps ==
  <<Op("embed", 1, "", << >>, << >>, <<"hidden">>, <<"residual">>, "hidden"),
    Op("norm", 1, "", <<"hidden">>, <<"residual">>, <<"normalized">>, <<"normed">>, "hidden")>>

HeadOps ==
  Linear(Final, "head", "normalized", "normed", "logits", "logits", "vocab")
  \o <<Op("argmax", Final, "", <<"logits">>, <<"logits">>, <<"sampled">>, <<"sampled">>, "one")>>

ForwardOps(tokens, context) ==
  LET through[l \in 0 .. Len(Layers)] ==
        IF l = 0 THEN EmbedOps ELSE through[l - 1] \o LayerOps(l, tokens, context)
  IN  through[Len(Layers)] \o HeadOps
--------------------------------------------------------------------------------
(* The host: shapes and launches *)

WidthOf(layer, site) ==
  CASE site \in {"q", "k", "v", "in", "out", "gate_up", "head"} -> "hidden" [] site = "down" -> "ffn"

\* The width an operation insists on, of what it reads.
Accepts(op, shapes, tokens) ==
  LET widths == [i \in DOMAIN op.reads |-> shapes[op.reads[i]][2]]
  IN CASE op.op \in {"linear", "linear_fp8", "quantize"} -> widths = <<WidthOf(op.layer, op.site)>>
       [] op.op = "residual" -> shapes[op.reads[1]] = shapes[op.reads[2]]
       [] op.op \in {"fused", "write"} ->
            /\ widths = <<"heads", "kv_heads", "kv_heads">>
            /\ \A b \in Range(op.reads) : shapes[b][1] = tokens
       [] op.op = "attend" -> shapes["query"] = <<tokens, "heads">>
       [] op.op = "conv" -> widths = <<"3hidden">>
       [] op.op \in {"silu", "silu_fp8"} -> widths = <<"2ffn">>
       [] OTHER -> TRUE

\* Rows of the result: those of the operand, or of the step's metadata.
RowsOf(op, shapes, tokens) ==
  IF op.op \in {"embed", "reshape"} THEN tokens ELSE shapes[op.reads[1]][1]

Issue(host, op) ==
  LET rows == RowsOf(op, host.shape, host.tokens)
      width == IF op.width = "same" THEN host.shape[op.reads[1]][2] ELSE op.width
  IN [shape |-> [b \in Buffers |-> IF b \in Range(op.writes) THEN <<rows, width>> ELSE host.shape[b]],
      tokens |-> host.tokens,
      launches |-> IF op.op = "reshape" THEN host.launches
                   ELSE Append(host.launches, [op |-> op, rows |-> rows]),
      ok |-> host.ok /\ Accepts(op, host.shape, host.tokens) /\ rows <= MaximumTokens]

\* The host after some operations of a pass over buffers of the given shapes.
Issued(shapes, tokens, ops) ==
  LET host[i \in 0 .. Len(ops)] ==
        IF i = 0 THEN [shape |-> shapes, tokens |-> tokens, launches |-> << >>, ok |-> TRUE]
        ELSE Issue(host[i - 1], ops[i])
  IN  host[Len(ops)]

HostPass(shapes, tokens, context) == Issued(shapes, tokens, ForwardOps(tokens, context))
--------------------------------------------------------------------------------
(* The device *)

\* A launch computes its value only from the values it needs, for its rows.
Execute(device, launch) ==
  LET op == launch.op
      at(i) == IF op.op = "residual" /\ op.layer > 1 /\ op.needs[1] = "post_operator"
               THEN op.layer - 1 ELSE op.layer
      fed == \A i \in DOMAIN op.reads :
               device.content[op.reads[i]] = Val(op.needs[i], at(i), launch.rows)
      made(b) == LET i == CHOOSE i \in DOMAIN op.writes : op.writes[i] = b
                 IN Val(op.makes[i], op.layer, launch.rows)
  IN [content |-> [b \in Buffers |->
                     IF b \in Range(op.writes) THEN IF fed THEN made(b) ELSE Stale
                     ELSE device.content[b]],
      written |-> IF op.op \in {"fused", "write", "conv"}
                  THEN [device.written EXCEPT ![op.layer] = @ + 1] ELSE device.written]

Run(launches) ==
  LET device[i \in 0 .. Len(launches)] ==
        IF i = 0 THEN [content |-> [b \in Buffers |-> Stale], written |-> [l \in DOMAIN Layers |-> 0]]
        ELSE Execute(device[i - 1], launches[i])
  IN  device[Len(launches)]
--------------------------------------------------------------------------------
(* Dispatch *)

\* FP8 plans made before the first step, for every batch the executor may run.
PreparedPlans == {<<rows, where>> : rows \in 1 .. MaximumTokens, where \in Fp8Sites}

PlansOf(launches) ==
  {<<launch.rows, <<launch.op.layer, launch.op.site>>>> :
     launch \in {l \in Range(launches) : l.op.op = "linear_fp8"}}

Unbucketed == "none"
InGraphRange(context) == context >= 128 /\ context < 4117
GraphsOff == ~graphs_enabled \/ ~splitk_attention_enabled

\* mutant: four splits share the graph of eight
BucketBySplitting(tokens, context) ==
  IF GraphsOff \/ tokens # 1 \/ page_size # 16 \/ ~InGraphRange(context) THEN Unbucketed
  ELSE IF Splits(tokens, context) = 1 THEN "unsplit" ELSE "split8"

cuda_graph_bucket(tokens, context) ==
  IF \/ GraphsOff \/ tokens # 1 \/ page_size # 16 \/ ~InGraphRange(context)
     \/ should_use_mok_one_kernel(page_size, context, tokens)
  THEN Unbucketed
  ELSE CASE Splits(tokens, context) = 1 -> "unsplit"
         [] Splits(tokens, context) = 8 -> "split8"
         [] OTHER -> Unbucketed

Init ==
  /\ shape = [b \in Buffers |-> <<MaximumTokens, "new">>]
  /\ content = [b \in Buffers |-> Stale]
  /\ graphs = [bucket \in {"unsplit", "split8"} |-> << >>]
  /\ plans = PreparedPlans
  /\ written = [l \in DOMAIN Layers |-> 0]
  /\ step = [path |-> "none", tokens |-> 0, context |-> 0]
  /\ failed = FALSE

Executed(launches) ==
  \E device \in {Run(launches)} : content' = device.content /\ written' = device.written

StepBy(path, tokens, context) == step' = [path |-> path, tokens |-> tokens, context |-> context]

Direct(tokens, context) ==
  /\ cuda_graph_bucket(tokens, context) = Unbucketed
  /\ \E pass \in {HostPass(shape, tokens, context)} :
       /\ shape' = pass.shape /\ failed' = ~pass.ok
       /\ plans' = plans \cup PlansOf(pass.launches)
       /\ Executed(pass.launches)
  /\ StepBy("direct", tokens, context)
  /\ UNCHANGED graphs

\* mutant: recording a pass is taken for running it
RecordedOnly(launches) == << >>

\* Recording runs nothing: the new graph is launched once.
FirstRun(launches) == launches

Capture(tokens, context) ==
  \E bucket \in {cuda_graph_bucket(tokens, context)} :
    /\ bucket # Unbucketed /\ graphs[bucket] = << >>
    /\ \E pass \in {HostPass([shape EXCEPT !["sampled"] = <<1, "one">>], tokens, context)} :
         /\ shape' = pass.shape /\ failed' = ~pass.ok
         /\ plans' = plans \cup PlansOf(pass.launches)
         /\ graphs' = [graphs EXCEPT ![bucket] = pass.launches]
         /\ Executed(FirstRun(pass.launches))
    /\ StepBy("capture", tokens, context)

ReplayShape == <<1, "one">>

Replay(tokens, context) ==
  \E bucket \in {cuda_graph_bucket(tokens, context)} :
    /\ bucket # Unbucketed /\ graphs[bucket] # << >>
    /\ shape' = [shape EXCEPT !["sampled"] = ReplayShape]
    /\ Executed(graphs[bucket])
    /\ StepBy("replay", tokens, context)
    /\ UNCHANGED <<graphs, plans, failed>>

\* A step of one token per request; a failed check ends the owner's thread.
Next ==
  /\ ~failed
  /\ \E tokens \in 1 .. MaximumTokens, context \in Contexts :
       Direct(tokens, context) \/ Capture(tokens, context) \/ Replay(tokens, context)

Spec == Init /\ [][Next]_vars
--------------------------------------------------------------------------------
(* Properties *)

Ran == step.path # "none"

\* Types; no shape, width or row count that an operation checks is ever wrong,
\* whatever the steps before left in the logical shapes.
ExecutorTypeOK ==
  /\ shape \in [Buffers -> (1 .. MaximumTokens) \X Widths]
  /\ Ran => step.tokens \in 1 .. MaximumTokens /\ step.context \in Contexts
  /\ \A b \in Buffers : content[b].rows \in 0 .. MaximumTokens
  /\ written \in [DOMAIN Layers -> Nat]
  /\ plans \subseteq (1 .. MaximumTokens) \X Fp8Sites
  /\ DOMAIN graphs = {"unsplit", "split8"}
  /\ ~failed

\* However buffers are reused between layers and steps, and whether a pass is
\* run, recorded or replayed, the tokens sampled are those of the network for
\* this step, and the tensor handed to the owner has one row per token.
SamplesTheNetwork ==
  Ran => /\ content["sampled"] = Val("sampled", Final, step.tokens)
         /\ shape["sampled"] = <<step.tokens, "one">>

\* "The graph therefore remains valid while the context grows inside one
\* MOK/unsplit/Split-K topology bucket" (docs/research/cuda-graphs-phase1.md:129):
\* a replayed graph holds exactly the launches a direct pass would issue now.
ReplayIsDirect ==
  step.path = "replay" =>
    graphs[cuda_graph_bucket(step.tokens, step.context)]
      = HostPass(shape, step.tokens, step.context).launches

\* More than ReplayIsDirect: so it is at any time with every graph that exists, for
\* every step that would find it.
GraphsCurrent ==
  \A tokens \in 1 .. MaximumTokens, context \in Contexts :
    \A bucket \in DOMAIN graphs :
      cuda_graph_bucket(tokens, context) = bucket /\ graphs[bucket] # << >> =>
        graphs[bucket] = HostPass(shape, tokens, context).launches

\* A replay has a graph to replay.
ReplaysRecorded ==
  step.path = "replay" =>
    \E bucket \in DOMAIN graphs :
      bucket = cuda_graph_bucket(step.tokens, step.context) /\ graphs[bucket] # << >>

\* A step writes the K/V or the convolution state of each layer exactly once:
\* recording alone writes nothing, and recording then launching writes once.
StateAdvancesOnce == Ran => \A l \in DOMAIN Layers : written[l] = 1

\* Nothing is allocated or copied for a plan while a stream is being recorded:
\* every FP8 plan of a step existed before it.
NoPlanWhileCapturing == plans = PreparedPlans

\* However steps are run, recorded and replayed, each computes the network for its
\* tokens, once, without a check failing or an allocation while recording
\* (DecodeExecutor::step and its capture in src/model/decode_executor.rs).
ExecutorSound ==
  /\ ExecutorTypeOK /\ SamplesTheNetwork /\ StateAdvancesOnce /\ NoPlanWhileCapturing
  /\ GraphsCurrent /\ ReplaysRecorded
================================================================================
