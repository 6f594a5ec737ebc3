------------------------------- MODULE BufferPool -------------------------------
(***************************************************************************)
(* The pools device tensors come from (src/tensor/mod.rs and the pooled    *)
(* allocations of src/cuda/runtime.rs): storages of a power of two of      *)
(* elements, handed out again as soon as the host drops a tensor, while    *)
(* the kernels that use it may still be waiting on the stream.             *)
(***************************************************************************)
EXTENDS Integers, Sequences, SequencesExt, FiniteSets, FiniteSetsExt, Functions

CONSTANTS
  MaxClass,                 \* the last size class, usize::BITS - 1
  Sizes,                    \* elements a tensor may ask for
  ClassCapacity,            \* PER_SIZE_CLASS_CAPACITY
  max_available_elements,
  MaxTensors,               \* bound on the tensors ever made
  MaxQueue                  \* bound on the kernels waiting on the stream

ASSUME PoolAssumption ==
  /\ MaxClass \in Nat
  /\ Sizes \subseteq Nat /\ \A elements \in Sizes : elements <= 2 ^ MaxClass
  /\ MaxTensors \in Nat /\ MaxQueue \in Nat
  /\ ClassCapacity \in Nat /\ max_available_elements \in Nat

VARIABLES
  available,           \* class -> stack of storages nobody uses
  available_elements,
  tensors,             \* live tensors: serial -> storage and logical elements
  made,                \* tensors made so far
  stream,              \* kernels issued and not run: tensors read, tensor written
  content,             \* storage -> tensor whose result it holds
  misread              \* a kernel found another tensor's data in an operand

pool_vars == <<available, available_elements, tensors, made, stream, content, misread>>

Classes == 0 .. MaxClass

\* elements.max(1).checked_next_power_of_two() and its logarithm
ClassOf(elements) == CHOOSE c \in Classes : /\ 2 ^ c >= elements
                                            /\ \A d \in Classes : 2 ^ d >= elements => c <= d

PoolInit ==
  /\ available = [c \in Classes |-> << >>] /\ available_elements = 0
  /\ tensors = << >> /\ made = 0
  /\ stream = << >> /\ content = << >> /\ misread = FALSE
--------------------------------------------------------------------------------
(* take and recycle *)

FirstClass(elements) == ClassOf(elements)

\* The smallest class from there on that holds a storage; MaxClass + 1: none does.
TakenClass(elements) ==
  Min({c \in Classes : c >= FirstClass(elements) /\ available[c] # << >>} \cup {MaxClass + 1})

Popped(class) == [available EXCEPT ![class] = Front(@)]

\* A recycled storage is kept unless the pool or its class is full.
Recycles(len) ==
  /\ available_elements + len <= max_available_elements
  /\ Len(available[ClassOf(len)]) < ClassCapacity

ElementsAfter(len) == IF Recycles(len) THEN available_elements + len ELSE available_elements

\* An operator makes its result and issues the kernel that fills it from
\* live tensors: alloc_bf16, alloc_fp8, alloc_u32, then the launch.
Operate(elements, operands) ==
  LET class == TakenClass(elements)
      storage == IF class \in Classes THEN Last(available[class])
                 ELSE [name |-> made + 1, len |-> 2 ^ ClassOf(elements)]
  IN /\ made < MaxTensors /\ Len(stream) < MaxQueue
     /\ made' = made + 1
     /\ available' = IF class \in Classes THEN Popped(class) ELSE available
     /\ available_elements' = IF class \in Classes THEN available_elements - storage.len
                              ELSE available_elements
     /\ tensors' = [t \in DOMAIN tensors \cup {made + 1} |->
                      IF t = made + 1 THEN [storage |-> storage, elements |-> elements] ELSE tensors[t]]
     /\ stream' = Append(stream, [reads |-> {<<t, tensors[t].storage.name>> : t \in operands},
                                  writes |-> <<made + 1, storage.name>>])
     /\ UNCHANGED <<content, misread>>

\* Tensor::drop: at once, whatever is waiting on the stream.
Drop(t) ==
  LET storage == tensors[t].storage
  IN /\ tensors' = Restrict(tensors, DOMAIN tensors \ {t})
     /\ available' = IF Recycles(storage.len)
                     THEN [available EXCEPT ![ClassOf(storage.len)] = Append(@, storage)]
                     ELSE available
     /\ available_elements' = ElementsAfter(storage.len)
     /\ UNCHANGED <<made, stream, content, misread>>

\* mutant: the second kernel on the stream overtakes the first
OutOfOrder == Min({2, Len(stream)})

\* The device runs the kernels of the one stream in the order of their issue.
NextKernel == 1

RunKernel ==
  /\ stream # << >>
  /\ LET kernel == stream[NextKernel]
     IN /\ misread' = (misread \/ \E r \in kernel.reads : r[2] \notin DOMAIN content \/ content[r[2]] # r[1])
        /\ content' = [s \in DOMAIN content \cup {kernel.writes[2]} |->
                         IF s = kernel.writes[2] THEN kernel.writes[1] ELSE content[s]]
  /\ stream' = RemoveAt(stream, NextKernel)
  /\ UNCHANGED <<available, available_elements, tensors, made>>

PoolNext ==
  \/ \E elements \in Sizes, operands \in SUBSET DOMAIN tensors : Operate(elements, operands)
  \/ \E t \in DOMAIN tensors : Drop(t)
  \/ RunKernel

--------------------------------------------------------------------------------
(* Properties *)

\* The elements the pool holds: class, place in its stack, place in the storage.
Pooled ==
  UNION {{<<c, i, e>> : i \in 1 .. Len(available[c]), e \in 1 .. 2 ^ c} : c \in Classes}

Storage == [name : 1 .. made, len : {2 ^ c : c \in Classes}]

\* Types; each class holds storages of its size, and the count of elements by
\* which the pool keeps its limit is that of what it holds.
PoolTypeOK ==
  /\ available \in [Classes -> Seq(Storage)]
  /\ \A c \in Classes : /\ Len(available[c]) <= ClassCapacity
                        /\ \A i \in DOMAIN available[c] : available[c][i].len = 2 ^ c
  /\ available_elements = Cardinality(Pooled)
  /\ available_elements <= max_available_elements
  /\ made \in 0 .. MaxTensors /\ DOMAIN tensors \subseteq 1 .. made
  /\ \A t \in DOMAIN tensors : tensors[t].storage \in Storage /\ tensors[t].elements \in Sizes
  /\ stream \in Seq([reads : SUBSET (Nat \X Nat), writes : Nat \X Nat])
  /\ Len(stream) <= MaxQueue

\* A tensor fits into the storage it was given, whatever that was used for before.
TensorsFit == \A t \in DOMAIN tensors : tensors[t].elements <= tensors[t].storage.len

\* No storage is in the pool twice, belongs to two tensors, or is handed out
\* while a tensor has it.
StoragesExclusive ==
  /\ \A c, d \in Classes : \A i \in DOMAIN available[c], j \in DOMAIN available[d] :
       available[c][i].name = available[d][j].name => c = d /\ i = j
  /\ \A t, u \in DOMAIN tensors : tensors[t].storage.name = tensors[u].storage.name => t = u
  /\ \A t \in DOMAIN tensors : \A c \in Classes : \A i \in DOMAIN available[c] :
       available[c][i].name # tensors[t].storage.name

\* Before the n-th kernel runs, the last to have written a storage is the one
\* of tensor t.
Holds(t, storage, n) ==
  \/ \E j \in 1 .. n - 1 : /\ stream[j].writes = <<t, storage>>
                           /\ \A k \in j + 1 .. n - 1 : stream[k].writes[2] # storage
  \/ /\ \A k \in 1 .. n - 1 : stream[k].writes[2] # storage
     /\ storage \in DOMAIN content /\ content[storage] = t

\* Every waiting kernel will find its operands, and so would one issued now that
\* reads any live tensor.
ResultsInPlace ==
  /\ \A n \in DOMAIN stream : \A r \in stream[n].reads : Holds(r[1], r[2], n)
  /\ \A t \in DOMAIN tensors : Holds(t, tensors[t].storage.name, Len(stream) + 1)

\* Handing a storage on while kernels that read it are still waiting is safe:
\* every kernel finds in its operands what their own kernels put there.
KernelsReadTheirOperands == ~misread

\* A tensor holds what its own kernel computed as long as it lives, whatever the
\* pool did with its storage before (Tensor::drop, TensorPool::take, recycle).
PoolSound ==
  PoolTypeOK /\ TensorsFit /\ StoragesExclusive /\ ResultsInPlace /\ KernelsReadTheirOperands
================================================================================
