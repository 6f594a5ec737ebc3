----------------------------- MODULE DeviceKernels -----------------------------
(***************************************************************************)
(* What happens on the device during a step, beneath the layers: attention *)
(* over the paged cache (AttentionDispatch), the short convolution and its *)
(* states (ShortConv), and the storages the tensors between them come from *)
(* (BufferPool).  The three share no data, only the stream they are issued *)
(* on, so a behaviour follows one of them while the others are at rest.    *)
(***************************************************************************)
EXTENDS AttentionDispatch, ShortConv, BufferPool

VARIABLE part    \* the part a behaviour is about

kernel_vars == <<part, attention_vars, conv_vars, pool_vars>>

AttentionAtRest ==
  /\ page_size = Min(PageSizes)
  /\ ~flash
  /\ length = [s \in Slots |-> Min(Starts)]

KernelsInit ==
  /\ part \in {"attention", "convolution", "pool"}
  /\ AttentionInit
  /\ part # "attention" => AttentionAtRest
  /\ ConvInit
  /\ PoolInit

KernelsNext ==
  \/ part = "attention" /\ AttentionNext /\ UNCHANGED <<conv_vars, pool_vars>>
  \/ part = "convolution" /\ ConvNext /\ UNCHANGED <<attention_vars, pool_vars>>
  \/ part = "pool" /\ PoolNext /\ UNCHANGED <<attention_vars, conv_vars>>

KernelsSpec == KernelsInit /\ [][KernelsNext /\ UNCHANGED part]_kernel_vars
================================================================================
