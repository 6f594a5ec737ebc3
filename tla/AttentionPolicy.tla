---------------------------- MODULE AttentionPolicy ----------------------------
(***************************************************************************)
(* Which kernel computes attention: the measured policies of               *)
(* src/ops/mok_dispatch.rs, src/ops/splitk_policy.rs and                    *)
(* src/ops/prefill_dispatch.rs.  The thresholds are the code's.             *)
(***************************************************************************)
EXTENDS Integers, FiniteSetsExt

SPLITK_MAX_SPLITS == 8
CeilDiv(a, b) == (a + b - 1) \div b
Clamp(n, low, high) == Max({low, Min({n, high})})

\* One kernel normalises, rotates, stores and attends.
should_use_mok_one_kernel(page_size, context_tokens, batch_size) ==
  /\ context_tokens # 0
  /\ batch_size # 0
  /\ \/ /\ page_size = 16
        /\ \/ context_tokens <= 16
           \/ context_tokens <= 32 /\ batch_size <= 32
           \/ context_tokens <= 64 /\ batch_size <= 8
     \/ /\ page_size = 32
        /\ \/ context_tokens <= 32 /\ batch_size <= 16
           \/ context_tokens <= 64 /\ batch_size <= 8

splitk_decode_splits_ps16(num_tokens, context_tokens) ==
  CASE context_tokens < 512 -> 1
    [] context_tokens >= 512 /\ num_tokens = 1 -> IF context_tokens < 1024 THEN 4 ELSE 8
    [] context_tokens >= 512 /\ num_tokens = 2 ->
         IF context_tokens \in 1024 .. 4095 THEN 4 ELSE 8
    [] context_tokens >= 512 /\ num_tokens \in 3 .. 8 -> 8
    [] context_tokens >= 512 /\ num_tokens \in 9 .. 16 -> 4
    [] context_tokens >= 512 /\ num_tokens \in 17 .. 32 ->
         IF context_tokens < 1024 THEN 1 ELSE IF context_tokens < 2048 THEN 2 ELSE 4
    [] OTHER -> 1

splitk_decode_splits_ps32_legacy(num_tokens, context_tokens) ==
  IF context_tokens < 1024 THEN 1
  ELSE LET occupancy == Clamp(CeilDiv(64, Max({num_tokens * 8, 1})), 1, SPLITK_MAX_SPLITS)
           paged == Clamp(CeilDiv(context_tokens, 32) \div 8, 1, SPLITK_MAX_SPLITS)
       IN Max({Min({occupancy, paged}), 1})

splitk_decode_splits(num_tokens, context_tokens, page_size) ==
  CASE num_tokens = 0 -> 1
    [] num_tokens # 0 /\ page_size = 16 -> splitk_decode_splits_ps16(num_tokens, context_tokens)
    [] num_tokens # 0 /\ page_size = 32 ->
         splitk_decode_splits_ps32_legacy(num_tokens, context_tokens)
    [] OTHER -> 1

\* Elements of the split-K workspace for so many rows.
SPLITK_PARTIAL_STRIDE == 64 + 2

splitk_workspace_elements(maximum_tokens) ==
  maximum_tokens * 32 * SPLITK_MAX_SPLITS * SPLITK_PARTIAL_STRIDE
================================================================================
