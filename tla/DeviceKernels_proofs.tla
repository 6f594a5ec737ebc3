------------------------- MODULE DeviceKernels_proofs -------------------------
(***************************************************************************)
(* The tensor pools hand out storages soundly, the convolution of a text   *)
(* does not depend on the passes it was cut into, and every row of a step  *)
(* attends to its whole past, whichever kernels compute it.                *)
(***************************************************************************)
EXTENDS DeviceKernels, Extrema_proofs, FiniteSetTheorems, SequenceTheorems, TLAPS

(* Powers of two and size classes *)

\* A power of two counts the subsets of a set: it is a positive natural number.
LEMMA PowerOfTwo ==
  ASSUME NEW n \in Nat
  PROVE  IsFiniteSet(SUBSET (1 .. n)) /\ Cardinality(SUBSET (1 .. n)) = 2 ^ n
<1>1. IsFiniteSet(1 .. n) /\ Cardinality(1 .. n) = n
  <2>1. 1 \in Int /\ n \in Int /\ (1 > n => n = 0) /\ n - 1 + 1 = n
    OBVIOUS
  <2>2. IsFiniteSet(1 .. n) /\ Cardinality(1 .. n) = IF 1 > n THEN 0 ELSE n - 1 + 1
    BY <2>1, FS_Interval, Zenon
  <2>. QED
    BY <2>1, <2>2
<1>. QED
  BY <1>1, FS_SUBSET

\* A storage is never empty.
LEMMA PowerNat ==
  ASSUME NEW n \in Nat
  PROVE  2 ^ n \in Nat /\ 2 ^ n > 0
<1>1. 2 ^ n \in Nat
  BY PowerOfTwo, FS_CardinalityType
<1>2. 2 ^ n # 0
  <2>1. IsFiniteSet(SUBSET (1 .. n)) /\ Cardinality(SUBSET (1 .. n)) = 2 ^ n
    BY PowerOfTwo
  <2>2. {} \in SUBSET (1 .. n)
    OBVIOUS
  <2>3. Cardinality(SUBSET (1 .. n)) # 0
    BY <2>1, <2>2, FS_EmptySet
  <2>. QED
    BY <2>1, <2>3
<1>. QED
  BY <1>1, <1>2

\* A larger size class holds larger storages.
LEMMA PowerStrict ==
  ASSUME NEW m \in Nat, NEW n \in Nat, m < n
  PROVE  2 ^ m < 2 ^ n
<1>1. 2 ^ m \in Nat /\ 2 ^ n \in Nat
  BY PowerNat
<1>2. IsFiniteSet(SUBSET (1 .. n)) /\ SUBSET (1 .. m) \in SUBSET (SUBSET (1 .. n))
  <2>1. 1 .. m \subseteq 1 .. n
    OBVIOUS
  <2>2. SUBSET (1 .. m) \subseteq SUBSET (1 .. n)
    BY <2>1, Zenon
  <2>. QED
    BY <2>2, PowerOfTwo, Zenon
<1>3. SUBSET (1 .. m) # SUBSET (1 .. n)
  <2>1. 1 .. n \in SUBSET (1 .. n) /\ n \in 1 .. n /\ n \notin 1 .. m
    OBVIOUS
  <2>. QED
    BY <2>1
<1>4. Cardinality(SUBSET (1 .. m)) = 2 ^ m /\ Cardinality(SUBSET (1 .. n)) = 2 ^ n
  BY PowerOfTwo
<1>5. Cardinality(SUBSET (1 .. m)) <= Cardinality(SUBSET (1 .. n))
      /\ Cardinality(SUBSET (1 .. m)) # Cardinality(SUBSET (1 .. n))
  BY <1>2, <1>3, FS_Subset
<1>. QED
  BY <1>1, <1>4, <1>5

\* The size of a storage tells its class.
LEMMA PowerReflects ==
  ASSUME NEW m \in Nat, NEW n \in Nat, 2 ^ m >= 2 ^ n
  PROVE  n <= m
<1>1. 2 ^ m \in Nat /\ 2 ^ n \in Nat
  BY PowerNat
<1>. QED
  BY <1>1, PowerStrict

\* Every size asked for has its class, the least whose storages are large enough.
LEMMA ClassOfSize ==
  ASSUME PoolAssumption, NEW elements \in Nat, elements <= 2 ^ MaxClass
  PROVE  /\ ClassOf(elements) \in Classes
         /\ elements <= 2 ^ ClassOf(elements)
         /\ \A d \in Classes : 2 ^ d >= elements => ClassOf(elements) <= d
<1>1. Classes \subseteq Nat /\ MaxClass \in Nat /\ MaxClass \in Classes
  BY DEF PoolAssumption, Classes
<1> DEFINE S == {c \in Classes : 2 ^ c >= elements}
<1>2. 2 ^ MaxClass \in Nat
  BY <1>1, PowerNat
<1>3. S \subseteq Nat /\ MaxClass \in S
  BY <1>1, <1>2
<1>4. PICK m \in S : \A n \in S : m <= n
  BY <1>3, LeastExists
<1>5. m \in Classes /\ 2 ^ m >= elements /\ \A d \in Classes : 2 ^ d >= elements => m <= d
  BY <1>4
<1>6. /\ ClassOf(elements) \in Classes
      /\ 2 ^ ClassOf(elements) >= elements
      /\ \A d \in Classes : 2 ^ d >= elements => ClassOf(elements) <= d
  BY <1>5, Zenon DEF ClassOf
<1>7. 2 ^ ClassOf(elements) \in Nat
  BY <1>1, <1>6, PowerNat
<1>. QED
  BY <1>6, <1>7

\* A storage of a class goes back to that class.
LEMMA ClassOfPower ==
  ASSUME PoolAssumption, NEW c \in Classes
  PROVE  ClassOf(2 ^ c) = c
<1>1. c \in Nat /\ MaxClass \in Nat /\ c <= MaxClass /\ Classes \subseteq Nat
  BY DEF PoolAssumption, Classes
<1>2. 2 ^ c \in Nat /\ 2 ^ MaxClass \in Nat
  BY <1>1, PowerNat
<1>3. 2 ^ c <= 2 ^ MaxClass
  <2>1. CASE c = MaxClass
    BY <1>2, <2>1
  <2>2. CASE c < MaxClass
    BY <1>1, <1>2, <2>2, PowerStrict
  <2>. QED
    BY <1>1, <2>1, <2>2
<1>4. /\ ClassOf(2 ^ c) \in Classes
      /\ 2 ^ c <= 2 ^ ClassOf(2 ^ c)
      /\ \A d \in Classes : 2 ^ d >= 2 ^ c => ClassOf(2 ^ c) <= d
  BY <1>2, <1>3, ClassOfSize
<1>5. 2 ^ c >= 2 ^ c
  BY <1>2
<1>6. ClassOf(2 ^ c) <= c
  BY <1>4, <1>5
<1>7. ClassOf(2 ^ c) \in Nat /\ 2 ^ ClassOf(2 ^ c) \in Nat
  BY <1>1, <1>4, PowerNat
<1>8. c <= ClassOf(2 ^ c)
  BY <1>1, <1>2, <1>4, <1>7, PowerReflects
<1>. QED
  BY <1>1, <1>6, <1>7, <1>8

--------------------------------------------------------------------------------
(* The elements a pool holds *)

\* Those of a class with len storages, and those of all classes.
PlacesIn(c, len) == {<<c, i, e>> : i \in 1 .. len, e \in 1 .. 2 ^ c}

Places(lens) == UNION {PlacesIn(c, lens[c]) : c \in Classes}

\* A pool holds finitely many elements, so that their number means something.
LEMMA PlacesFinite ==
  ASSUME PoolAssumption, NEW lens \in [Classes -> Nat]
  PROVE  IsFiniteSet(Places(lens))
<1>1. MaxClass \in Nat /\ Classes \subseteq Nat
  BY DEF PoolAssumption, Classes
<1>2. ASSUME NEW c \in Classes PROVE IsFiniteSet(PlacesIn(c, lens[c]))
  <2>1. c \in Nat /\ lens[c] \in Nat /\ 2 ^ c \in Nat
    BY <1>1, PowerNat
  <2>2. IsFiniteSet(1 .. lens[c]) /\ IsFiniteSet(1 .. 2 ^ c)
    BY <2>1, FS_Interval
  <2>3. IsFiniteSet((1 .. lens[c]) \X (1 .. 2 ^ c))
    BY <2>2, FS_Product
  <2> DEFINE f == [p \in (1 .. lens[c]) \X (1 .. 2 ^ c) |-> <<c, p[1], p[2]>>]
  <2>4. f \in Surjection((1 .. lens[c]) \X (1 .. 2 ^ c), PlacesIn(c, lens[c]))
    <3>1. f \in [(1 .. lens[c]) \X (1 .. 2 ^ c) -> PlacesIn(c, lens[c])]
      BY DEF PlacesIn
    <3>2. ASSUME NEW x \in PlacesIn(c, lens[c])
          PROVE  \E p \in (1 .. lens[c]) \X (1 .. 2 ^ c) : f[p] = x
      <4>1. PICK i \in 1 .. lens[c], e \in 1 .. 2 ^ c : x = <<c, i, e>>
        BY DEF PlacesIn
      <4>2. <<i, e>> \in (1 .. lens[c]) \X (1 .. 2 ^ c) /\ f[<<i, e>>] = x
        BY <4>1
      <4>. QED
        BY <4>2
    <3>. QED
      BY <3>1, <3>2, Zenon DEF Surjection
  <2>. QED
    BY <2>3, <2>4, FS_Surjection
<1>3. IsFiniteSet(Classes)
  BY <1>1, FS_Interval DEF Classes
<1> DEFINE S == {PlacesIn(c, lens[c]) : c \in Classes}
           g == [c \in Classes |-> PlacesIn(c, lens[c])]
<1>4. g \in Surjection(Classes, S)
  BY DEF Surjection
<1>5. IsFiniteSet(S)
  BY <1>3, <1>4, FS_Surjection
<1>6. \A T \in S : IsFiniteSet(T)
  BY <1>2
<1>7. IsFiniteSet(UNION S)
  <2> HIDE DEF S
  <2>. QED
    BY <1>5, <1>6, FS_UNION
<1>. QED
  BY <1>7 DEF Places

\* One storage more in class c is 2 ^ c elements more.
LEMMA PlacesGrow ==
  ASSUME PoolAssumption, NEW lens \in [Classes -> Nat], NEW more \in [Classes -> Nat],
         NEW c \in Classes, more = [lens EXCEPT ![c] = @ + 1]
  PROVE  Cardinality(Places(more)) = Cardinality(Places(lens)) + 2 ^ c
<1>1. c \in Nat /\ 2 ^ c \in Nat /\ lens[c] \in Nat
  <2>1. c \in Nat
    BY DEF PoolAssumption, Classes
  <2>. QED
    BY <2>1, PowerNat
<1> DEFINE New == {<<c, lens[c] + 1, e>> : e \in 1 .. 2 ^ c}
           f == [e \in 1 .. 2 ^ c |-> <<c, lens[c] + 1, e>>]
<1>2. IsFiniteSet(New) /\ Cardinality(New) = 2 ^ c
  <2>1. IsFiniteSet(1 .. 2 ^ c) /\ Cardinality(1 .. 2 ^ c) = 2 ^ c
    <3>1. 1 \in Int /\ 2 ^ c \in Int /\ (1 > 2 ^ c => 2 ^ c = 0) /\ 2 ^ c - 1 + 1 = 2 ^ c
      BY <1>1
    <3>2. IsFiniteSet(1 .. 2 ^ c) /\ Cardinality(1 .. 2 ^ c) = IF 1 > 2 ^ c THEN 0 ELSE 2 ^ c - 1 + 1
      BY <3>1, FS_Interval, Zenon
    <3>. QED
      BY <3>1, <3>2
  <2>2. f \in Bijection(1 .. 2 ^ c, New)
    BY DEF Bijection, Injection, Surjection, IsInjective
  <2>3. ExistsBijection(1 .. 2 ^ c, New)
    BY <2>2 DEF ExistsBijection
  <2>. QED
    BY <2>1, <2>3, FS_Bijection
<1>3. Places(more) = Places(lens) \cup New
  <2>1. more[c] = lens[c] + 1 /\ \A d \in Classes : d # c => more[d] = lens[d]
    OBVIOUS
  <2>2. PlacesIn(c, more[c]) = PlacesIn(c, lens[c]) \cup New
    <3>1. 1 .. more[c] = (1 .. lens[c]) \cup {lens[c] + 1}
      BY <1>1, <2>1
    <3>. QED
      BY <3>1 DEF PlacesIn
  <2>3. \A d \in Classes : d # c => PlacesIn(d, more[d]) = PlacesIn(d, lens[d])
    BY <2>1
  <2> HIDE DEF New
  <2>. QED
    BY <2>2, <2>3, Zenon DEF Places
<1>4. Places(lens) \cap New = {}
  <2>1. ASSUME NEW x \in Places(lens), x \in New PROVE FALSE
    <3>1. PICK d \in Classes : x \in PlacesIn(d, lens[d])
      BY DEF Places
    <3>2. PICK i \in 1 .. lens[d], e \in 1 .. 2 ^ d : x = <<d, i, e>>
      BY <3>1 DEF PlacesIn
    <3>3. PICK e2 \in 1 .. 2 ^ c : x = <<c, lens[c] + 1, e2>>
      BY <2>1
    <3>4. d = c /\ i = lens[c] + 1
      BY <3>2, <3>3
    <3>. QED
      BY <1>1, <3>4
  <2>. QED
    BY <2>1
<1>5. IsFiniteSet(Places(lens))
  BY PlacesFinite
<1> HIDE DEF New
<1>6. Cardinality(Places(more)) = Cardinality(Places(lens)) + Cardinality(New) - Cardinality({})
  BY <1>2, <1>3, <1>4, <1>5, FS_Union
<1>7. Cardinality({}) = 0 /\ Cardinality(Places(lens)) \in Nat
  BY <1>5, FS_EmptySet, FS_CardinalityType
<1>. QED
  BY <1>1, <1>2, <1>6, <1>7

--------------------------------------------------------------------------------
(* Stacks of storages *)

\* How many storages each class holds.
Lens(stacks) == [c \in Classes |-> Len(stacks[c])]

\* The pool's elements are the places of its stacks.
LEMMA PooledPlaces == Pooled = Places(Lens(available))
<1>1. \A c \in Classes : Lens(available)[c] = Len(available[c])
  BY DEF Lens
<1>2. ASSUME NEW x
      PROVE  x \in Pooled <=> \E c \in Classes : x \in PlacesIn(c, Len(available[c]))
  BY SMT DEF Pooled, PlacesIn
<1>3. ASSUME NEW x
      PROVE  x \in Places(Lens(available))
             <=> \E c \in Classes : x \in PlacesIn(c, Lens(available)[c])
  BY SMT DEF Places
<1>4. ASSUME NEW x PROVE x \in Pooled <=> x \in Places(Lens(available))
  BY <1>1, <1>2, <1>3
<1>. QED
  BY <1>4

\* The same of the pool after a step.
LEMMA PooledPlacesAfter == Pooled' = Places(Lens(available'))
<1>1. \A c \in Classes : Lens(available')[c] = Len(available'[c])
  BY DEF Lens
<1>2. ASSUME NEW x
      PROVE  x \in Pooled' <=> \E c \in Classes : x \in PlacesIn(c, Len(available'[c]))
  BY SMT DEF Pooled, PlacesIn
<1>3. ASSUME NEW x
      PROVE  x \in Places(Lens(available'))
             <=> \E c \in Classes : x \in PlacesIn(c, Lens(available')[c])
  BY SMT DEF Places
<1>4. ASSUME NEW x PROVE x \in Pooled' <=> x \in Places(Lens(available'))
  BY <1>1, <1>2, <1>3
<1>. QED
  BY <1>4

\* Popping a stack.
LEMMA FrontOfStack ==
  ASSUME NEW S, NEW s \in Seq(S), s # << >>
  PROVE  /\ Front(s) \in Seq(S) /\ Len(s) \in Nat /\ Len(s) > 0
         /\ Len(s) = Len(Front(s)) + 1
         /\ \A i \in 1 .. Len(Front(s)) : i \in 1 .. Len(s) /\ i # Len(s) /\ Front(s)[i] = s[i]
         /\ Last(s) = s[Len(s)] /\ Len(s) \in 1 .. Len(s)
<1>1. Len(s) \in Nat /\ Len(s) > 0
  OBVIOUS
<1>2. Front(s) = SubSeq(s, 1, Len(s) - 1)
  BY DEF Front
<1> DEFINE n == Len(s) - 1
<1>3. /\ SubSeq(s, 1, n) \in Seq(S)
      /\ Len(SubSeq(s, 1, n)) = IF 1 <= n THEN n - 1 + 1 ELSE 0
      /\ \A i \in 1 .. n - 1 + 1 : SubSeq(s, 1, n)[i] = s[1 + i - 1]
  <2>1. n \in Int /\ 1 \in Int /\ \A i \in 1 .. n : s[i] \in S
    BY <1>1
  <2> HIDE DEF n
  <2>. QED
    BY <2>1, SubSeqProperties
<1>4. n \in Nat /\ n - 1 + 1 = n /\ \A i \in 1 .. n : 1 + i - 1 = i
  BY <1>1
<1>5. Front(s) \in Seq(S) /\ Len(Front(s)) = n /\ \A i \in 1 .. n : Front(s)[i] = s[i]
  BY <1>2, <1>3, <1>4
<1>. QED
  BY <1>1, <1>5 DEF Last

\* Pushing onto a stack.
LEMMA AppendToStack ==
  ASSUME NEW S, NEW s \in Seq(S), NEW x \in S
  PROVE  /\ Append(s, x) \in Seq(S) /\ Len(s) \in Nat
         /\ Len(Append(s, x)) = Len(s) + 1 /\ DOMAIN Append(s, x) = 1 .. Len(s) + 1
         /\ \A i \in 1 .. Len(s) : Append(s, x)[i] = s[i]
         /\ Append(s, x)[Len(s) + 1] = x
OBVIOUS

\* Taking the kernel at the head of the stream away.
LEMMA BehindTheHead ==
  ASSUME NEW S, NEW s \in Seq(S), s # << >>
  PROVE  /\ RemoveAt(s, 1) \in Seq(S) /\ Len(s) \in Nat /\ Len(s) = Len(RemoveAt(s, 1)) + 1
         /\ \A i \in 1 .. Len(RemoveAt(s, 1)) : RemoveAt(s, 1)[i] = s[i + 1]
<1>1. Len(s) \in Nat /\ Len(s) > 0
  OBVIOUS
<1>2. SubSeq(s, 1, 0) = << >>
  OBVIOUS
<1>3. RemoveAt(s, 1) = << >> \o SubSeq(s, 2, Len(s))
  <2>1. 1 - 1 = 0 /\ 1 + 1 = 2
    OBVIOUS
  <2>. QED
    BY <1>2, <2>1 DEF RemoveAt
<1>4. SubSeq(s, 2, Len(s)) = Tail(s)
  BY TailIsSubSeq
<1>5. Tail(s) \in Seq(S) /\ Len(Tail(s)) = Len(s) - 1
      /\ \A i \in 1 .. Len(Tail(s)) : Tail(s)[i] = s[i + 1]
  BY HeadTailProperties
<1>6. RemoveAt(s, 1) = Tail(s)
  BY <1>3, <1>4, <1>5
<1>7. Len(s) = Len(Tail(s)) + 1
  BY <1>1, <1>5
<1>. QED
  BY <1>1, <1>5, <1>6, <1>7, Zenon

--------------------------------------------------------------------------------
(* Taking a storage *)

\* What PoolTypeOK says of the stacks, in the form the steps use it.
LEMMA StackFacts ==
  ASSUME PoolAssumption, PoolTypeOK, NEW c \in Classes
  PROVE  /\ available \in [Classes -> Seq(Storage)] /\ available[c] \in Seq(Storage)
         /\ Len(available[c]) \in Nat /\ Len(available[c]) <= ClassCapacity
         /\ DOMAIN available[c] = 1 .. Len(available[c])
         /\ \A i \in 1 .. Len(available[c]) :
              available[c][i] \in Storage /\ available[c][i].len = 2 ^ c
         /\ Lens(available) \in [Classes -> Nat]
         /\ c \in Nat /\ 2 ^ c \in Nat /\ 2 ^ c > 0
<1>1. available \in [Classes -> Seq(Storage)] /\ available[c] \in Seq(Storage)
  BY DEF PoolTypeOK
<1>2. Len(available[c]) \in Nat /\ DOMAIN available[c] = 1 .. Len(available[c])
  BY <1>1
<1>3. Len(available[c]) <= ClassCapacity /\ \A i \in DOMAIN available[c] : available[c][i].len = 2 ^ c
  BY DEF PoolTypeOK
<1>4. \A i \in 1 .. Len(available[c]) : available[c][i] \in Storage
  BY <1>1
<1>5. Lens(available) \in [Classes -> Nat]
  <2>1. \A d \in Classes : available[d] \in Seq(Storage)
    BY <1>1
  <2>2. \A d \in Classes : Len(available[d]) \in Nat
    BY <2>1
  <2>. QED
    BY <2>2 DEF Lens
<1>6. c \in Nat
  BY DEF PoolAssumption, Classes
<1>7. 2 ^ c \in Nat /\ 2 ^ c > 0
  BY <1>6, PowerNat
<1>. QED
  BY <1>1, <1>2, <1>3, <1>4, <1>5, <1>6, <1>7, Zenon

\* The class taken from is one whose storages are large enough, and has one.
LEMMA TakenClassHasOne ==
  ASSUME PoolAssumption, NEW elements \in Sizes, TakenClass(elements) \in Classes
  PROVE  /\ elements <= 2 ^ TakenClass(elements)
         /\ available[TakenClass(elements)] # << >>
<1> DEFINE T == {c \in Classes : c >= FirstClass(elements) /\ available[c] # << >>} \cup {MaxClass + 1}
<1>1. Classes \subseteq Nat /\ MaxClass \in Nat /\ MaxClass + 1 \notin Classes
      /\ elements \in Nat /\ elements <= 2 ^ MaxClass
  BY DEF PoolAssumption, Classes
<1>2. T \subseteq Nat /\ T # {}
  <2>1. MaxClass + 1 \in T
    OBVIOUS
  <2>2. MaxClass + 1 \in Nat
    BY <1>1
  <2>3. \A c \in T : c \in Classes \/ c = MaxClass + 1
    OBVIOUS
  <2> HIDE DEF T
  <2>. QED
    BY <1>1, <2>1, <2>2, <2>3
<1>3. PICK m \in T : \A n \in T : m <= n
  <2> HIDE DEF T
  <2>. QED
    BY <1>2, LeastExists
<1>4. Min(T) \in T
  <2> HIDE DEF T
  <2>. QED
    BY <1>3, Zenon DEF Min
<1>5. TakenClass(elements) = Min(T)
  BY Zenon DEF TakenClass
<1> DEFINE m0 == TakenClass(elements)
<1>6. m0 \in Classes /\ m0 >= ClassOf(elements) /\ available[m0] # << >>
  <2>1. m0 \in T /\ m0 # MaxClass + 1
    BY <1>1, <1>4, <1>5
  <2>. QED
    BY <2>1 DEF FirstClass
<1>7. ClassOf(elements) \in Classes /\ elements <= 2 ^ ClassOf(elements)
  BY <1>1, ClassOfSize
<1> HIDE DEF m0
<1>8. m0 \in Nat /\ ClassOf(elements) \in Nat /\ 2 ^ m0 \in Nat /\ 2 ^ ClassOf(elements) \in Nat
  BY <1>1, <1>6, <1>7, PowerNat
<1>9. elements <= 2 ^ m0
  <2>1. CASE m0 = ClassOf(elements)
    BY <1>7, <2>1
  <2>2. CASE ClassOf(elements) < m0
    <3>1. 2 ^ ClassOf(elements) < 2 ^ m0
      BY <1>8, <2>2, PowerStrict
    <3>. QED
      BY <1>1, <1>7, <1>8, <3>1
  <2>. QED
    BY <1>6, <1>8, <2>1, <2>2
<1>. QED
  BY <1>6, <1>9 DEF m0

\* What a step that takes storage s for a tensor of that many elements has done.
Took(s, elements, operands) ==
  /\ s \in Storage' /\ elements <= s.len
  /\ \A t \in DOMAIN tensors : tensors[t].storage.name # s.name
  /\ available' \in [Classes -> Seq(Storage)]
  /\ \A c \in Classes : Len(available'[c]) <= Len(available[c])
  /\ \A c \in Classes : \A i \in DOMAIN available'[c] :
       i \in DOMAIN available[c] /\ available'[c][i] = available[c][i] /\ available'[c][i].name # s.name
  /\ available_elements' = Cardinality(Pooled') /\ available_elements' <= available_elements
  /\ tensors' = [t \in DOMAIN tensors \cup {made + 1} |->
                   IF t = made + 1 THEN [storage |-> s, elements |-> elements] ELSE tensors[t]]
  /\ stream' = Append(stream, [reads |-> {<<t, tensors[t].storage.name>> : t \in operands},
                               writes |-> <<made + 1, s.name>>])

\* Taking from the pool or the device allocator alike gives a storage that is
\* large enough, that no live tensor has and that is not in the pool any more.
LEMMA TakesOwnStorage ==
  ASSUME PoolAssumption, PoolTypeOK, StoragesExclusive, NEW elements \in Sizes,
         NEW operands \in SUBSET DOMAIN tensors, Operate(elements, operands)
  PROVE  \E s : Took(s, elements, operands)
<1> DEFINE class == TakenClass(elements)
<1>1. /\ made < MaxTensors /\ made' = made + 1
      /\ available' = IF class \in Classes THEN Popped(class) ELSE available
  BY Zenon DEF Operate
<1>2. made \in Nat /\ elements \in Nat /\ elements <= 2 ^ MaxClass
      /\ Classes \subseteq Nat /\ \A t \in DOMAIN tensors : tensors[t].storage \in Storage
  BY DEF PoolTypeOK, PoolAssumption, Classes
<1>3. Storage \subseteq Storage'
  <2>1. Storage' = [name : 1 .. made', len : {2 ^ c : c \in Classes}]
    BY Zenon DEF Storage, Classes
  <2>2. 1 .. made \subseteq 1 .. made'
    BY <1>1, <1>2
  <2>. QED
    BY <2>1, <2>2 DEF Storage
<1>4. CASE class \in Classes
  <2>1. elements <= 2 ^ class /\ available[class] # << >>
    BY <1>4, TakenClassHasOne
  <2> DEFINE stack == available[class]  n == Len(available[class])  s == Last(available[class])
  <2>2. /\ available \in [Classes -> Seq(Storage)] /\ stack \in Seq(Storage)
        /\ n \in Nat /\ DOMAIN stack = 1 .. n
        /\ \A i \in 1 .. n : stack[i] \in Storage /\ stack[i].len = 2 ^ class
        /\ Lens(available) \in [Classes -> Nat]
        /\ 2 ^ class \in Nat
    BY <1>4, StackFacts
  <2>3. /\ Front(stack) \in Seq(Storage) /\ n > 0 /\ n = Len(Front(stack)) + 1
        /\ \A i \in 1 .. Len(Front(stack)) : i \in 1 .. n /\ i # n /\ Front(stack)[i] = stack[i]
        /\ s = stack[n] /\ n \in 1 .. n
    BY <2>1, <2>2, FrontOfStack
  <2>4. /\ available_elements' = available_elements - s.len
        /\ tensors' = [t \in DOMAIN tensors \cup {made + 1} |->
                         IF t = made + 1 THEN [storage |-> s, elements |-> elements] ELSE tensors[t]]
        /\ stream' = Append(stream, [reads |-> {<<t, tensors[t].storage.name>> : t \in operands},
                                     writes |-> <<made + 1, s.name>>])
    BY <1>4, Zenon DEF Operate
  <2>5. s \in Storage /\ s.len = 2 ^ class
    BY <2>2, <2>3
  <2>6. available' = [available EXCEPT ![class] = Front(stack)]
    BY <1>1, <1>4 DEF Popped
  <2>7. available'[class] = Front(stack)
        /\ \A c \in Classes : c # class => available'[c] = available[c]
    BY <1>4, <2>2, <2>6
  <2>8. available' \in [Classes -> Seq(Storage)]
    BY <2>2, <2>3, <2>6
  <2>9. ASSUME NEW t \in DOMAIN tensors PROVE tensors[t].storage.name # s.name
    <3>1. n \in DOMAIN available[class]
      BY <2>2, <2>3
    <3>. QED
      BY <1>4, <2>3, <3>1 DEF StoragesExclusive
  <2>10. ASSUME NEW c \in Classes
         PROVE  /\ Len(available'[c]) <= Len(available[c])
                /\ \A i \in DOMAIN available'[c] :
                     /\ i \in DOMAIN available[c] /\ available'[c][i] = available[c][i]
                     /\ available'[c][i].name # s.name
    <3>1. CASE c = class
      <4>1. Len(Front(stack)) \in Nat /\ DOMAIN Front(stack) = 1 .. Len(Front(stack))
        BY <2>3
      <4>2. Len(Front(stack)) <= n
        BY <2>3, <4>1
      <4>3. ASSUME NEW i \in 1 .. Len(Front(stack))
            PROVE  /\ i \in DOMAIN stack /\ Front(stack)[i] = stack[i]
                   /\ Front(stack)[i].name # s.name
        <5>1. i \in 1 .. n /\ i # n /\ Front(stack)[i] = stack[i]
          BY <2>3
        <5>2. i \in DOMAIN available[class] /\ n \in DOMAIN available[class]
          BY <2>2, <2>3, <5>1
        <5>3. available[class][i].name # available[class][n].name
          BY <1>4, <5>1, <5>2 DEF StoragesExclusive
        <5>. QED
          BY <2>3, <5>1, <5>2, <5>3
      <4>. QED
        BY <2>7, <3>1, <4>1, <4>2, <4>3
    <3>2. CASE c # class
      <4>1. Len(available[c]) \in Nat
        BY StackFacts
      <4>2. n \in DOMAIN available[class]
        BY <2>2, <2>3
      <4>3. \A i \in DOMAIN available[c] : available[c][i].name # available[class][n].name
        BY <1>4, <3>2, <4>2 DEF StoragesExclusive
      <4>. QED
        BY <2>3, <2>7, <3>2, <4>1, <4>3
    <3>. QED
      BY <3>1, <3>2
  <2>11. available_elements' = Cardinality(Pooled') /\ available_elements' <= available_elements
    <3> DEFINE before == Lens(available)  after == Lens(available')
    <3>1. \A c \in Classes : before[c] = Len(available[c]) /\ after[c] = Len(available'[c])
      BY DEF Lens
    <3>2. before \in [Classes -> Nat]
      BY <2>2
    <3>3. after \in [Classes -> Nat]
      <4>1. \A c \in Classes : available'[c] \in Seq(Storage)
        BY <2>8
      <4>2. \A c \in Classes : Len(available'[c]) \in Nat
        BY <4>1
      <4>. QED
        BY <4>2 DEF Lens
    <3>4. before[class] = after[class] + 1 /\ \A c \in Classes : c # class => before[c] = after[c]
      BY <1>4, <2>3, <2>7, <3>1
    <3> HIDE DEF before, after
    <3>5. before = [after EXCEPT ![class] = @ + 1]
      BY <1>4, <3>2, <3>3, <3>4
    <3>6. Cardinality(Places(before)) = Cardinality(Places(after)) + 2 ^ class
      BY <1>4, <3>2, <3>3, <3>5, PlacesGrow
    <3>7. IsFiniteSet(Places(after))
      BY <3>3, PlacesFinite
    <3>8. Cardinality(Places(after)) \in Nat
      BY <3>7, FS_CardinalityType
    <3>9. Pooled = Places(before) /\ Pooled' = Places(after)
      BY PooledPlaces, PooledPlacesAfter DEF before, after
    <3>10. available_elements = Cardinality(Pooled)
      BY DEF PoolTypeOK
    <3>11. available_elements' = Cardinality(Places(before)) - 2 ^ class
      BY <2>4, <2>5, <3>9, <3>10, Zenon
    <3> HIDE DEF class
    <3>12. /\ Cardinality(Places(before)) - 2 ^ class = Cardinality(Places(after))
           /\ Cardinality(Places(after)) <= Cardinality(Places(before))
      BY <2>2, <3>6, <3>8
    <3>. QED
      BY <3>9, <3>10, <3>11, <3>12, Zenon
  <2>12. elements <= s.len
    BY <2>1, <2>5
  <2>13. Took(s, elements, operands)
    BY <1>3, <2>4, <2>5, <2>8, <2>9, <2>10, <2>11, <2>12, Zenon DEF Took
  <2>. QED
    BY <2>13
<1>5. CASE class \notin Classes
  <2> DEFINE s == [name |-> made + 1, len |-> 2 ^ ClassOf(elements)]
  <2>1. /\ available_elements' = available_elements
        /\ tensors' = [t \in DOMAIN tensors \cup {made + 1} |->
                         IF t = made + 1 THEN [storage |-> s, elements |-> elements] ELSE tensors[t]]
        /\ stream' = Append(stream, [reads |-> {<<t, tensors[t].storage.name>> : t \in operands},
                                     writes |-> <<made + 1, made + 1>>])
    BY <1>5 DEF Operate
  <2>2. available' = available
    BY <1>1, <1>5
  <2>3. ClassOf(elements) \in Classes /\ elements <= 2 ^ ClassOf(elements)
    BY <1>2, ClassOfSize
  <2>4. s \in Storage'
    <3>1. Storage' = [name : 1 .. made', len : {2 ^ c : c \in Classes}]
      BY Zenon DEF Storage, Classes
    <3>2. made + 1 \in 1 .. made'
      BY <1>1, <1>2
    <3>3. 2 ^ ClassOf(elements) \in {2 ^ c : c \in Classes}
      BY <2>3
    <3>. QED
      BY <3>1, <3>2, <3>3
  <2>5. ASSUME NEW t \in DOMAIN tensors PROVE tensors[t].storage.name # s.name
    <3>1. tensors[t].storage.name \in 1 .. made
      BY <1>2 DEF Storage
    <3>. QED
      BY <1>2, <3>1
  <2>6. ASSUME NEW c \in Classes
        PROVE  /\ Len(available'[c]) <= Len(available[c])
               /\ \A i \in DOMAIN available'[c] :
                    /\ i \in DOMAIN available[c] /\ available'[c][i] = available[c][i]
                    /\ available'[c][i].name # s.name
    <3>1. Len(available[c]) \in Nat /\ DOMAIN available[c] = 1 .. Len(available[c])
          /\ \A i \in 1 .. Len(available[c]) : available[c][i] \in Storage
      BY StackFacts
    <3>2. ASSUME NEW i \in DOMAIN available[c] PROVE available[c][i].name # made + 1
      <4>1. available[c][i] \in Storage
        BY <3>1
      <4>2. available[c][i].name \in 1 .. made
        BY <4>1 DEF Storage
      <4>. QED
        BY <1>2, <4>2
    <3>. QED
      BY <2>2, <3>1, <3>2
  <2>7. available' \in [Classes -> Seq(Storage)]
    BY <2>2 DEF PoolTypeOK
  <2>8. available_elements' = Cardinality(Pooled') /\ available_elements' <= available_elements
    <3>1. Pooled' = Pooled
      BY <2>2, PooledPlaces, PooledPlacesAfter
    <3>2. available_elements = Cardinality(Pooled)
      BY DEF PoolTypeOK
    <3>3. available_elements \in Nat
      <4>1. MaxClass \in Nat /\ 0 \in Classes
        BY DEF PoolAssumption, Classes
      <4>2. Lens(available) \in [Classes -> Nat]
        BY <4>1, StackFacts
      <4>3. IsFiniteSet(Places(Lens(available)))
        BY <4>2, PlacesFinite
      <4>. QED
        BY <3>2, <4>3, PooledPlaces, FS_CardinalityType
    <3>. QED
      BY <2>1, <3>1, <3>2, <3>3
  <2>9. elements <= s.len
    BY <2>3
  <2>10. s.name = made + 1
    OBVIOUS
  <2> HIDE DEF s
  <2>11. Took(s, elements, operands)
    BY <2>1, <2>4, <2>5, <2>6, <2>7, <2>8, <2>9, <2>10, Zenon DEF Took
  <2>. QED
    BY <2>11
<1>. QED
  BY <1>4, <1>5

--------------------------------------------------------------------------------
(* What a storage holds when its turn comes *)

\* Holds, of any stream and any contents.
HoldsIn(str, cnt, t, st, n) ==
  \/ \E j \in 1 .. n - 1 : /\ str[j].writes = <<t, st>>
                           /\ \A k \in j + 1 .. n - 1 : str[k].writes[2] # st
  \/ /\ \A k \in 1 .. n - 1 : str[k].writes[2] # st
     /\ st \in DOMAIN cnt /\ cnt[st] = t

\* Issuing more kernels does not change what an earlier one will find.
LEMMA HoldsSamePrefix ==
  ASSUME NEW str, NEW str2, NEW cnt, NEW t, NEW st, NEW n \in Nat, n >= 1,
         \A k \in 1 .. n - 1 : str2[k] = str[k], HoldsIn(str, cnt, t, st, n)
  PROVE  HoldsIn(str2, cnt, t, st, n)
<1>1. CASE \E j \in 1 .. n - 1 : /\ str[j].writes = <<t, st>>
                                 /\ \A k \in j + 1 .. n - 1 : str[k].writes[2] # st
  <2>1. PICK j \in 1 .. n - 1 : /\ str[j].writes = <<t, st>>
                                /\ \A k \in j + 1 .. n - 1 : str[k].writes[2] # st
    BY <1>1
  <2>2. \A k \in j + 1 .. n - 1 : k \in 1 .. n - 1
    OBVIOUS
  <2>3. str2[j].writes = <<t, st>> /\ \A k \in j + 1 .. n - 1 : str2[k].writes[2] # st
    BY <2>1, <2>2
  <2>. QED
    BY <2>3 DEF HoldsIn
<1>2. CASE /\ \A k \in 1 .. n - 1 : str[k].writes[2] # st
           /\ st \in DOMAIN cnt /\ cnt[st] = t
  BY <1>2 DEF HoldsIn
<1>. QED
  BY <1>1, <1>2 DEF HoldsIn

\* A kernel that writes another storage does not disturb it.
LEMMA HoldsOneMore ==
  ASSUME NEW str, NEW cnt, NEW t, NEW st, NEW n \in Nat, n >= 1,
         str[n].writes[2] # st, HoldsIn(str, cnt, t, st, n)
  PROVE  HoldsIn(str, cnt, t, st, n + 1)
<1>1. n + 1 - 1 = n /\ \A k \in Nat : k <= n => k = n \/ k <= n - 1
  OBVIOUS
<1>2. CASE \E j \in 1 .. n - 1 : /\ str[j].writes = <<t, st>>
                                 /\ \A k \in j + 1 .. n - 1 : str[k].writes[2] # st
  <2>1. PICK j \in 1 .. n - 1 : /\ str[j].writes = <<t, st>>
                                /\ \A k \in j + 1 .. n - 1 : str[k].writes[2] # st
    BY <1>2
  <2>2. j \in 1 .. n /\ \A k \in j + 1 .. n : k = n \/ k \in j + 1 .. n - 1
    OBVIOUS
  <2>3. \A k \in j + 1 .. n : str[k].writes[2] # st
    BY <2>1, <2>2
  <2>. QED
    BY <1>1, <2>1, <2>2, <2>3 DEF HoldsIn
<1>3. CASE /\ \A k \in 1 .. n - 1 : str[k].writes[2] # st
           /\ st \in DOMAIN cnt /\ cnt[st] = t
  <2>1. \A k \in 1 .. n : k = n \/ k \in 1 .. n - 1
    OBVIOUS
  <2>2. \A k \in 1 .. n : str[k].writes[2] # st
    BY <1>3, <2>1
  <2>. QED
    BY <1>1, <1>3, <2>2 DEF HoldsIn
<1>. QED
  BY <1>2, <1>3 DEF HoldsIn

\* The tensor a kernel writes is in its storage for the next one.
LEMMA HoldsOwnResult ==
  ASSUME NEW str, NEW cnt, NEW t, NEW st, NEW n \in Nat, n >= 1, str[n].writes = <<t, st>>
  PROVE  HoldsIn(str, cnt, t, st, n + 1)
<1>1. n + 1 - 1 = n /\ n \in 1 .. n /\ n + 1 .. n = {}
  OBVIOUS
<1>. QED
  BY <1>1 DEF HoldsIn

\* The kernel at the head has run: what a later one was to find in the stream
\* it finds in the contents.
LEMMA HoldsAfterTheHead ==
  ASSUME NEW str, NEW str2, NEW cnt, NEW cnt2, NEW t, NEW st, NEW n \in Nat, n >= 1,
         \A i \in 1 .. n - 1 : str2[i] = str[i + 1],
         \A s : s = str[1].writes[2] => s \in DOMAIN cnt2 /\ cnt2[s] = str[1].writes[1],
         \A s \in DOMAIN cnt : s # str[1].writes[2] => s \in DOMAIN cnt2 /\ cnt2[s] = cnt[s],
         HoldsIn(str, cnt, t, st, n + 1)
  PROVE  HoldsIn(str2, cnt2, t, st, n)
<1>1. n + 1 - 1 = n /\ 1 \in 1 .. n
  OBVIOUS
<1>2. CASE \E j \in 1 .. n : /\ str[j].writes = <<t, st>>
                             /\ \A k \in j + 1 .. n : str[k].writes[2] # st
  <2>1. PICK j \in 1 .. n : /\ str[j].writes = <<t, st>>
                            /\ \A k \in j + 1 .. n : str[k].writes[2] # st
    BY <1>2
  <2>2. CASE j = 1
    <3>1. str[1].writes[2] = st /\ str[1].writes[1] = t
      BY <2>1, <2>2
    <3>2. st \in DOMAIN cnt2 /\ cnt2[st] = t
      BY <3>1
    <3>3. \A i \in 1 .. n - 1 : i + 1 \in j + 1 .. n
      BY <2>2
    <3>4. \A i \in 1 .. n - 1 : str2[i].writes[2] # st
      BY <2>1, <3>3
    <3>. QED
      BY <3>2, <3>4 DEF HoldsIn
  <2>3. CASE j > 1
    <3>1. j - 1 \in 1 .. n - 1 /\ j - 1 + 1 = j /\ j - 1 \in Nat
      BY <2>3
    <3>2. str2[j - 1] = str[j]
      BY <3>1
    <3>3. \A i \in j - 1 + 1 .. n - 1 : i \in 1 .. n - 1 /\ i + 1 \in j + 1 .. n
      BY <2>3
    <3>4. \A i \in j - 1 + 1 .. n - 1 : str2[i].writes[2] # st
      BY <2>1, <3>3
    <3>. QED
      BY <2>1, <3>1, <3>2, <3>4 DEF HoldsIn
  <2>. QED
    BY <2>2, <2>3
<1>3. CASE /\ \A k \in 1 .. n : str[k].writes[2] # st
           /\ st \in DOMAIN cnt /\ cnt[st] = t
  <2>1. st \in DOMAIN cnt2 /\ cnt2[st] = t
    BY <1>1, <1>3
  <2>2. \A i \in 1 .. n - 1 : i + 1 \in 1 .. n
    OBVIOUS
  <2>3. \A i \in 1 .. n - 1 : str2[i].writes[2] # st
    BY <1>3, <2>2
  <2>. QED
    BY <2>1, <2>3 DEF HoldsIn
<1>. QED
  BY <1>1, <1>2, <1>3 DEF HoldsIn

--------------------------------------------------------------------------------
(* Each operation keeps the pools sound *)

QueuedKernel == [reads : SUBSET (Nat \X Nat), writes : Nat \X Nat]

\* The results a stream and contents have in place.
InPlace(str, cnt, live) ==
  /\ \A n \in DOMAIN str : \A r \in str[n].reads : HoldsIn(str, cnt, r[1], r[2], n)
  /\ \A t \in DOMAIN live : HoldsIn(str, cnt, t, live[t].storage.name, Len(str) + 1)

\* The invariant says so of the state,
LEMMA InPlaceNow == ResultsInPlace <=> InPlace(stream, content, tensors)
<1>1. ASSUME NEW t, NEW st, NEW n
      PROVE  Holds(t, st, n) <=> HoldsIn(stream, content, t, st, n)
  BY Zenon DEF Holds, HoldsIn
<1>. QED
  BY <1>1, Zenon DEF ResultsInPlace, InPlace

\* and primed of the state after a step.
LEMMA InPlaceAfter == ResultsInPlace' <=> InPlace(stream', content', tensors')
BY Zenon DEF ResultsInPlace, InPlace, Holds, HoldsIn

\* A tensor of an operator's result: nothing waiting is disturbed.
LEMMA OperateInPlace ==
  ASSUME PoolTypeOK, ResultsInPlace, NEW elements \in Sizes, NEW operands \in SUBSET DOMAIN tensors,
         Operate(elements, operands), NEW s, Took(s, elements, operands)
  PROVE  ResultsInPlace'
<1> DEFINE n == Len(stream)
           kernel == [reads |-> {<<t, tensors[t].storage.name>> : t \in operands},
                      writes |-> <<made + 1, s.name>>]
<1>1. /\ stream' = Append(stream, kernel) /\ content' = content
      /\ tensors' = [t \in DOMAIN tensors \cup {made + 1} |->
                       IF t = made + 1 THEN [storage |-> s, elements |-> elements] ELSE tensors[t]]
      /\ \A t \in DOMAIN tensors : tensors[t].storage.name # s.name
  BY Zenon DEF Operate, Took
<1>2. stream \in Seq(QueuedKernel) /\ n \in Nat /\ DOMAIN stream = 1 .. n
  BY DEF PoolTypeOK, QueuedKernel
<1>3. DOMAIN stream' = 1 .. n + 1 /\ Len(stream') = n + 1 /\ stream'[n + 1] = kernel
      /\ \A k \in 1 .. n : stream'[k] = stream[k]
  BY <1>1, <1>2
<1>4. InPlace(stream, content, tensors)
  BY InPlaceNow
<1>5. ASSUME NEW k \in 1 .. n, NEW r \in stream'[k].reads
      PROVE  HoldsIn(stream', content', r[1], r[2], k)
  <2>1. HoldsIn(stream, content, r[1], r[2], k)
    BY <1>2, <1>3, <1>4, <1>5 DEF InPlace
  <2>2. k \in Nat /\ k >= 1 /\ \A i \in 1 .. k - 1 : i \in 1 .. n
    BY <1>2
  <2>3. \A i \in 1 .. k - 1 : stream'[i] = stream[i]
    BY <1>3, <2>2
  <2>. QED
    BY <1>1, <2>1, <2>2, <2>3, HoldsSamePrefix
<1>6. ASSUME NEW t \in DOMAIN tensors
      PROVE  HoldsIn(stream', content', t, tensors[t].storage.name, n + 1)
  <2>1. HoldsIn(stream, content, t, tensors[t].storage.name, n + 1)
    BY <1>4 DEF InPlace
  <2>2. n + 1 \in Nat /\ n + 1 >= 1 /\ n + 1 - 1 = n
    BY <1>2
  <2> DEFINE m == n + 1
  <2>3. \A i \in 1 .. m - 1 : stream'[i] = stream[i]
    BY <1>3, <2>2
  <2>4. m \in Nat /\ m >= 1 /\ HoldsIn(stream, content, t, tensors[t].storage.name, m)
    BY <2>1, <2>2
  <2> HIDE DEF m
  <2>5. HoldsIn(stream', content, t, tensors[t].storage.name, m)
    BY <2>3, <2>4, HoldsSamePrefix
  <2>. QED
    BY <1>1, <2>5 DEF m
<1>7. ASSUME NEW r \in stream'[n + 1].reads
      PROVE  HoldsIn(stream', content', r[1], r[2], n + 1)
  <2>1. PICK t \in operands : r = <<t, tensors[t].storage.name>>
    BY <1>3
  <2>2. t \in DOMAIN tensors /\ r[1] = t /\ r[2] = tensors[t].storage.name
    BY <2>1
  <2>. QED
    BY <1>6, <2>2
<1>8. ASSUME NEW t \in DOMAIN tensors'
      PROVE  HoldsIn(stream', content', t, tensors'[t].storage.name, n + 1 + 1)
  <2>1. n + 1 \in Nat /\ n + 1 >= 1 /\ stream'[n + 1].writes = <<made + 1, s.name>>
    BY <1>2, <1>3
  <2>2. CASE t = made + 1
    <3>1. tensors'[t].storage.name = s.name
      BY <1>1, <2>2
    <3>. QED
      BY <2>1, <2>2, <3>1, HoldsOwnResult
  <2>3. CASE t # made + 1
    <3>1. t \in DOMAIN tensors /\ tensors'[t] = tensors[t]
      BY <1>1, <2>3
    <3>2. stream'[n + 1].writes[2] # tensors[t].storage.name
      BY <1>1, <2>1, <3>1
    <3>3. HoldsIn(stream', content', t, tensors[t].storage.name, n + 1)
      BY <1>6, <3>1
    <3>. QED
      BY <2>1, <3>1, <3>2, <3>3, HoldsOneMore
  <2>. QED
    BY <2>2, <2>3
<1>9. ASSUME NEW k \in DOMAIN stream', NEW r \in stream'[k].reads
      PROVE  HoldsIn(stream', content', r[1], r[2], k)
  <2>1. k \in 1 .. n \/ k = n + 1
    BY <1>2, <1>3
  <2>. QED
    BY <1>5, <1>7, <1>9, <2>1
<1>10. InPlace(stream', content', tensors')
  BY <1>3, <1>8, <1>9, Zenon DEF InPlace
<1>. QED
  BY <1>10, InPlaceAfter

\* Making a tensor.
LEMMA OperateSound ==
  ASSUME PoolAssumption, PoolSound, NEW elements \in Sizes,
         NEW operands \in SUBSET DOMAIN tensors, Operate(elements, operands)
  PROVE  PoolSound'
<1>1. PoolTypeOK /\ TensorsFit /\ StoragesExclusive /\ ResultsInPlace /\ ~misread
  BY DEF PoolSound, KernelsReadTheirOperands
<1>2. PICK s : Took(s, elements, operands)
  BY <1>1, TakesOwnStorage
<1>3. /\ s \in Storage' /\ elements <= s.len
      /\ \A t \in DOMAIN tensors : tensors[t].storage.name # s.name
      /\ available' \in [Classes -> Seq(Storage)]
      /\ \A c \in Classes : Len(available'[c]) <= Len(available[c])
      /\ \A c \in Classes : \A i \in DOMAIN available'[c] :
           i \in DOMAIN available[c] /\ available'[c][i] = available[c][i] /\ available'[c][i].name # s.name
      /\ available_elements' = Cardinality(Pooled') /\ available_elements' <= available_elements
  BY <1>2, Zenon DEF Took
<1>4. /\ tensors' = [t \in DOMAIN tensors \cup {made + 1} |->
                       IF t = made + 1 THEN [storage |-> s, elements |-> elements] ELSE tensors[t]]
      /\ stream' = Append(stream, [reads |-> {<<t, tensors[t].storage.name>> : t \in operands},
                                   writes |-> <<made + 1, s.name>>])
      /\ made < MaxTensors /\ Len(stream) < MaxQueue /\ made' = made + 1 /\ UNCHANGED misread
  BY <1>2, Zenon DEF Took, Operate
<1>5. made \in Nat /\ MaxTensors \in Nat /\ MaxQueue \in Nat /\ ClassCapacity \in Nat
      /\ max_available_elements \in Nat /\ DOMAIN tensors \subseteq 1 .. made
      /\ \A t \in DOMAIN tensors : tensors[t].storage \in Storage /\ tensors[t].elements \in Sizes
  BY <1>1 DEF PoolTypeOK, PoolAssumption
<1>6. Storage' = [name : 1 .. made', len : {2 ^ c : c \in Classes}]
  BY Zenon DEF Storage, Classes
<1>7. Storage \subseteq Storage'
  <2>1. 1 .. made \subseteq 1 .. made'
    BY <1>4, <1>5
  <2>. QED
    BY <1>6, <2>1 DEF Storage
<1>8. \A t \in DOMAIN tensors' : \/ t = made + 1 /\ tensors'[t].storage = s /\ tensors'[t].elements = elements
                                 \/ t \in DOMAIN tensors /\ t # made + 1 /\ tensors'[t] = tensors[t]
  BY <1>4
<1>9. PoolTypeOK'
  <2>1. available' \in [Classes -> Seq(Storage')]
    <3>1. Seq(Storage) \subseteq Seq(Storage')
      BY <1>7
    <3>. QED
      BY <1>3, <3>1
  <2>2. ASSUME NEW c \in Classes
        PROVE  /\ Len(available'[c]) <= ClassCapacity
               /\ \A i \in DOMAIN available'[c] : available'[c][i].len = 2 ^ c
    <3>1. Len(available[c]) <= ClassCapacity /\ Len(available[c]) \in Nat
          /\ DOMAIN available[c] = 1 .. Len(available[c])
          /\ \A i \in 1 .. Len(available[c]) : available[c][i].len = 2 ^ c
      BY <1>1, StackFacts
    <3>2. available'[c] \in Seq(Storage)
      BY <1>3
    <3>3. Len(available'[c]) \in Nat /\ Len(available'[c]) <= Len(available[c])
      BY <1>3, <3>2
    <3>4. Len(available'[c]) <= ClassCapacity
      BY <1>5, <3>1, <3>3
    <3>. QED
      BY <1>3, <3>1, <3>4
  <2>3. available_elements' <= max_available_elements
    <3>1. available_elements <= max_available_elements
      BY <1>1 DEF PoolTypeOK
    <3>2. available_elements \in Nat
      <4>1. MaxClass \in Nat /\ 0 \in Classes
        BY DEF PoolAssumption, Classes
      <4>2. Lens(available) \in [Classes -> Nat]
        BY <1>1, <4>1, StackFacts
      <4>3. IsFiniteSet(Places(Lens(available)))
        BY <4>2, PlacesFinite
      <4>4. Cardinality(Places(Lens(available))) \in Nat
        BY <4>3, FS_CardinalityType
      <4>5. available_elements = Cardinality(Pooled)
        BY <1>1 DEF PoolTypeOK
      <4>. QED
        BY <4>4, <4>5, PooledPlaces
    <3>3. available_elements' \in Nat
      <4>1. \A c \in Classes : available'[c] \in Seq(Storage)
        BY <1>3
      <4>2. Lens(available') \in [Classes -> Nat]
        BY <4>1 DEF Lens
      <4>3. IsFiniteSet(Places(Lens(available')))
        BY <4>2, PlacesFinite
      <4>4. Cardinality(Places(Lens(available'))) \in Nat
        BY <4>3, FS_CardinalityType
      <4>. QED
        BY <1>3, <4>4, PooledPlacesAfter
    <3>. QED
      BY <1>3, <1>5, <3>1, <3>2, <3>3
  <2>4. made' \in 0 .. MaxTensors /\ DOMAIN tensors' \subseteq 1 .. made'
    <3>1. made' \in 0 .. MaxTensors /\ 1 .. made \subseteq 1 .. made' /\ made + 1 \in 1 .. made'
      BY <1>4, <1>5
    <3>. QED
      BY <1>5, <1>8, <3>1
  <2>5. \A t \in DOMAIN tensors' : tensors'[t].storage \in Storage' /\ tensors'[t].elements \in Sizes
    BY <1>3, <1>5, <1>7, <1>8
  <2>6. stream' \in Seq(QueuedKernel) /\ Len(stream') <= MaxQueue
    <3>1. stream \in Seq(QueuedKernel)
      BY <1>1 DEF PoolTypeOK, QueuedKernel
    <3>2. s.name \in Nat
      BY <1>3, <1>4, <1>5, <1>6
    <3>3. \A t \in operands : t \in Nat /\ tensors[t].storage.name \in Nat
      <4>1. \A t \in operands : t \in 1 .. made /\ tensors[t].storage \in Storage
        BY <1>5
      <4>2. \A t \in operands : tensors[t].storage.name \in 1 .. made
        BY <4>1 DEF Storage
      <4>. QED
        BY <1>5, <4>1, <4>2
    <3>4. [reads |-> {<<t, tensors[t].storage.name>> : t \in operands},
           writes |-> <<made + 1, s.name>>] \in QueuedKernel
      <4>1. {<<t, tensors[t].storage.name>> : t \in operands} \in SUBSET (Nat \X Nat)
        BY <3>3
      <4>2. <<made + 1, s.name>> \in Nat \X Nat
        BY <1>5, <3>2
      <4>. QED
        BY <4>1, <4>2, Zenon DEF QueuedKernel
    <3>5. stream' \in Seq(QueuedKernel) /\ Len(stream') = Len(stream) + 1 /\ Len(stream) \in Nat
      BY <1>4, <3>1, <3>4
    <3>. QED
      BY <1>4, <1>5, <3>5
  <2>. QED
    BY <1>3, <2>1, <2>2, <2>3, <2>4, <2>5, <2>6, Zenon DEF PoolTypeOK, Classes, QueuedKernel
<1>10. TensorsFit'
  <2>1. \A t \in DOMAIN tensors : tensors[t].elements <= tensors[t].storage.len
    BY <1>1 DEF TensorsFit
  <2>. QED
    BY <1>3, <1>8, <2>1 DEF TensorsFit
<1>11. StoragesExclusive'
  <2>1. ASSUME NEW c \in Classes, NEW d \in Classes,
               NEW i \in DOMAIN available'[c], NEW j \in DOMAIN available'[d],
               available'[c][i].name = available'[d][j].name
        PROVE  c = d /\ i = j
    <3>1. /\ i \in DOMAIN available[c] /\ available'[c][i] = available[c][i]
          /\ j \in DOMAIN available[d] /\ available'[d][j] = available[d][j]
      BY <1>3
    <3>. QED
      BY <1>1, <2>1, <3>1 DEF StoragesExclusive
  <2>2. ASSUME NEW t \in DOMAIN tensors', NEW u \in DOMAIN tensors',
               tensors'[t].storage.name = tensors'[u].storage.name
        PROVE  t = u
    BY <1>1, <1>3, <1>8, <2>2 DEF StoragesExclusive
  <2>3. ASSUME NEW t \in DOMAIN tensors', NEW c \in Classes, NEW i \in DOMAIN available'[c]
        PROVE  available'[c][i].name # tensors'[t].storage.name
    <3>1. i \in DOMAIN available[c] /\ available'[c][i] = available[c][i] /\ available'[c][i].name # s.name
      BY <1>3
    <3>. QED
      BY <1>1, <1>8, <3>1 DEF StoragesExclusive
  <2>. QED
    BY <2>1, <2>2, <2>3, Zenon DEF StoragesExclusive, Classes
<1>12. ResultsInPlace'
  BY <1>1, <1>2, OperateInPlace
<1>. QED
  BY <1>1, <1>4, <1>9, <1>10, <1>11, <1>12 DEF PoolSound, KernelsReadTheirOperands

\* Dropping one, whatever is waiting on the stream.
LEMMA DropSound ==
  ASSUME PoolAssumption, PoolSound, NEW t0 \in DOMAIN tensors, Drop(t0)
  PROVE  PoolSound'
<1>1. PoolTypeOK /\ TensorsFit /\ StoragesExclusive /\ ResultsInPlace /\ ~misread
  BY DEF PoolSound, KernelsReadTheirOperands
<1> DEFINE storage == tensors[t0].storage
<1>2. /\ tensors' = Restrict(tensors, DOMAIN tensors \ {t0})
      /\ available' = IF Recycles(storage.len)
                      THEN [available EXCEPT ![ClassOf(storage.len)] = Append(@, storage)]
                      ELSE available
      /\ available_elements' = ElementsAfter(storage.len)
      /\ UNCHANGED <<made, stream, content, misread>>
  BY Zenon DEF Drop
<1>3. DOMAIN tensors' = DOMAIN tensors \ {t0} /\ \A t \in DOMAIN tensors' : tensors'[t] = tensors[t]
  BY <1>2 DEF Restrict
<1>4. made \in Nat /\ ClassCapacity \in Nat /\ max_available_elements \in Nat
      /\ \A t \in DOMAIN tensors : tensors[t].storage \in Storage /\ tensors[t].elements \in Sizes
  BY <1>1 DEF PoolTypeOK, PoolAssumption
<1>5. PICK c0 \in Classes : storage.len = 2 ^ c0
  <2>1. storage.len \in {2 ^ c : c \in Classes}
    BY <1>4 DEF Storage
  <2>. QED
    BY <2>1
<1>6. ClassOf(storage.len) = c0
  BY <1>5, ClassOfPower
<1>7. Storage' = Storage
  BY <1>2, Zenon DEF Storage, Classes
<1> DEFINE grows == Recycles(storage.len)
           old == available[c0]
           n == Len(available[c0])
<1>8. /\ available \in [Classes -> Seq(Storage)] /\ old \in Seq(Storage)
      /\ n \in Nat /\ n <= ClassCapacity /\ DOMAIN old = 1 .. n
      /\ \A i \in 1 .. n : old[i] \in Storage /\ old[i].len = 2 ^ c0
      /\ Lens(available) \in [Classes -> Nat]
      /\ 2 ^ c0 \in Nat
  BY <1>1, StackFacts
<1>9. /\ storage \in Storage
      /\ Append(old, storage) \in Seq(Storage) /\ Len(Append(old, storage)) = n + 1
      /\ DOMAIN Append(old, storage) = 1 .. n + 1
      /\ \A i \in 1 .. n : Append(old, storage)[i] = old[i]
      /\ Append(old, storage)[n + 1] = storage
  <2>1. storage \in Storage
    BY <1>4
  <2>2. old \in Seq(Storage)
    BY <1>8
  <2>. QED
    BY <2>1, <2>2, AppendToStack
<1>10. available_elements \in Nat /\ available_elements = Cardinality(Pooled)
       /\ available_elements <= max_available_elements
  <2>1. IsFiniteSet(Places(Lens(available)))
    BY <1>8, PlacesFinite
  <2>2. Cardinality(Places(Lens(available))) \in Nat
    BY <2>1, FS_CardinalityType
  <2>3. available_elements = Cardinality(Pooled) /\ available_elements <= max_available_elements
    BY <1>1 DEF PoolTypeOK
  <2>. QED
    BY <2>2, <2>3, PooledPlaces
\* The stacks after the step.
<1>11. ASSUME NEW c \in Classes, NEW i \in DOMAIN available'[c]
       PROVE  \/ i \in DOMAIN available[c] /\ available'[c][i] = available[c][i]
              \/ grows /\ c = c0 /\ i = n + 1 /\ available'[c][i] = storage
  <2>1. CASE grows /\ c = c0
    <3>1. available'[c0] = Append(old, storage)
      BY <1>2, <1>6, <1>8, <2>1
    <3>2. i \in 1 .. n + 1
      BY <1>9, <2>1, <3>1
    <3>3. i \in 1 .. n \/ i = n + 1
      BY <1>8, <3>2
    <3>. QED
      BY <1>8, <1>9, <2>1, <3>1, <3>3
  <2>2. CASE ~(grows /\ c = c0)
    <3>1. available'[c] = available[c]
      BY <1>2, <1>6, <1>8, <2>2
    <3>. QED
      BY <3>1
  <2>. QED
    BY <2>1, <2>2
<1>12. available' \in [Classes -> Seq(Storage)]
  BY <1>2, <1>6, <1>8, <1>9
<1>13. ASSUME NEW c \in Classes
       PROVE  /\ Len(available'[c]) <= ClassCapacity
              /\ \A i \in DOMAIN available'[c] : available'[c][i].len = 2 ^ c
  <2>1. \A i \in DOMAIN available[c] : available[c][i].len = 2 ^ c
    BY <1>1 DEF PoolTypeOK
  <2>2. \A i \in DOMAIN available'[c] : available'[c][i].len = 2 ^ c
    BY <1>5, <1>11, <2>1
  <2>3. Len(available[c]) <= ClassCapacity
    BY <1>1 DEF PoolTypeOK
  <2>4. CASE grows /\ c = c0
    <3>1. available'[c0] = Append(old, storage)
      BY <1>2, <1>6, <1>8, <2>4
    <3>2. n < ClassCapacity
      BY <1>6, <2>4 DEF Recycles
    <3>3. n + 1 <= ClassCapacity
      BY <1>4, <1>8, <3>2
    <3>. QED
      BY <1>9, <2>2, <2>4, <3>1, <3>3
  <2>5. CASE ~(grows /\ c = c0)
    <3>1. available'[c] = available[c]
      BY <1>2, <1>6, <1>8, <2>5
    <3>. QED
      BY <2>2, <2>3, <3>1
  <2>. QED
    BY <2>4, <2>5
<1>14. available_elements' = Cardinality(Pooled') /\ available_elements' <= max_available_elements
  <2>1. CASE grows
    <3> DEFINE before == Lens(available)  after == Lens(available')
    <3>1. available' = [available EXCEPT ![c0] = Append(old, storage)]
      BY <1>2, <1>6, <2>1
    <3>2. available'[c0] = Append(old, storage)
          /\ \A c \in Classes : c # c0 => available'[c] = available[c]
      BY <1>8, <3>1
    <3>3. after[c0] = n + 1 /\ before[c0] = n
      BY <1>9, <3>2 DEF Lens
    <3>4. \A c \in Classes : c # c0 => after[c] = before[c]
      BY <3>2 DEF Lens
    <3>5. before \in [Classes -> Nat]
      BY <1>8
    <3>6. after \in [Classes -> Nat]
      <4>1. \A c \in Classes : available'[c] \in Seq(Storage)
        BY <1>12
      <4>. QED
        BY <4>1 DEF Lens
    <3>7. Pooled = Places(before) /\ Pooled' = Places(after)
      BY PooledPlaces, PooledPlacesAfter DEF before, after
    <3> HIDE DEF before, after
    <3>8. after = [before EXCEPT ![c0] = @ + 1]
      BY <3>3, <3>4, <3>5, <3>6
    <3>9. Cardinality(Places(after)) = Cardinality(Places(before)) + 2 ^ c0
      BY <3>5, <3>6, <3>8, PlacesGrow
    <3>10. available_elements' = available_elements + 2 ^ c0
           /\ available_elements + 2 ^ c0 <= max_available_elements
      BY <1>2, <1>5, <2>1 DEF ElementsAfter, Recycles
    <3>. QED
      BY <1>10, <3>7, <3>9, <3>10
  <2>2. CASE ~grows
    <3>1. available' = available /\ available_elements' = available_elements
      BY <1>2, <2>2 DEF ElementsAfter
    <3>. QED
      BY <1>10, <3>1, PooledPlaces, PooledPlacesAfter
  <2>. QED
    BY <2>1, <2>2
<1>15. PoolTypeOK'
  <2>1. made' \in 0 .. MaxTensors /\ DOMAIN tensors' \subseteq 1 .. made'
        /\ stream' \in Seq(QueuedKernel) /\ Len(stream') <= MaxQueue
    BY <1>1, <1>2, <1>3 DEF PoolTypeOK, QueuedKernel
  <2>2. \A t \in DOMAIN tensors' : tensors'[t].storage \in Storage' /\ tensors'[t].elements \in Sizes
    BY <1>3, <1>4, <1>7
  <2>3. available' \in [Classes -> Seq(Storage')]
    BY <1>7, <1>12
  <2>. QED
    BY <1>13, <1>14, <2>1, <2>2, <2>3, Zenon DEF PoolTypeOK, Classes, QueuedKernel
<1>16. TensorsFit'
  BY <1>1, <1>3 DEF TensorsFit
<1>17. ASSUME NEW c \in Classes, NEW i \in DOMAIN available[c]
       PROVE  i # n + 1 \/ c # c0
  BY <1>8, <1>17
<1>18. StoragesExclusive'
  <2>1. ASSUME NEW c \in Classes, NEW d \in Classes,
               NEW i \in DOMAIN available'[c], NEW j \in DOMAIN available'[d],
               available'[c][i].name = available'[d][j].name
        PROVE  c = d /\ i = j
    BY <1>1, <1>11, <2>1 DEF StoragesExclusive
  <2>2. \A t, u \in DOMAIN tensors' : tensors'[t].storage.name = tensors'[u].storage.name => t = u
    BY <1>1, <1>3 DEF StoragesExclusive
  <2>3. ASSUME NEW t \in DOMAIN tensors', NEW c \in Classes, NEW i \in DOMAIN available'[c]
        PROVE  available'[c][i].name # tensors'[t].storage.name
    <3>1. t \in DOMAIN tensors /\ t # t0 /\ tensors'[t] = tensors[t]
      BY <1>3
    <3>2. tensors[t].storage.name # storage.name
      BY <1>1, <3>1 DEF StoragesExclusive
    <3>. QED
      BY <1>1, <1>11, <3>1, <3>2 DEF StoragesExclusive
  <2>. QED
    BY <2>1, <2>2, <2>3, Zenon DEF StoragesExclusive, Classes
<1>19. ResultsInPlace'
  <2>1. InPlace(stream, content, tensors)
    BY <1>1, InPlaceNow
  <2>2. InPlace(stream', content', tensors')
    BY <1>2, <1>3, <2>1 DEF InPlace
  <2>. QED
    BY <2>2, InPlaceAfter
<1>. QED
  BY <1>1, <1>2, <1>15, <1>16, <1>18, <1>19 DEF PoolSound, KernelsReadTheirOperands

\* The device running the kernel at the head of the stream: it finds in every
\* operand what the operand's own kernel put there.
LEMMA RunKernelSound ==
  ASSUME PoolAssumption, PoolSound, RunKernel
  PROVE  PoolSound'
<1>1. PoolTypeOK /\ TensorsFit /\ StoragesExclusive /\ ResultsInPlace /\ ~misread
  BY DEF PoolSound, KernelsReadTheirOperands
<1> DEFINE kernel == stream[1]
<1>2. /\ stream # << >>
      /\ misread' = (misread \/ \E r \in kernel.reads : r[2] \notin DOMAIN content \/ content[r[2]] # r[1])
      /\ content' = [s \in DOMAIN content \cup {kernel.writes[2]} |->
                       IF s = kernel.writes[2] THEN kernel.writes[1] ELSE content[s]]
      /\ stream' = RemoveAt(stream, 1)
      /\ UNCHANGED <<available, available_elements, tensors, made>>
  BY Zenon DEF RunKernel, NextKernel
<1>3. stream \in Seq(QueuedKernel) /\ Len(stream) <= MaxQueue
  BY <1>1 DEF PoolTypeOK, QueuedKernel
<1>4. /\ stream' \in Seq(QueuedKernel) /\ Len(stream) \in Nat /\ Len(stream) = Len(stream') + 1
      /\ \A i \in 1 .. Len(stream') : stream'[i] = stream[i + 1]
  BY <1>2, <1>3, BehindTheHead
<1>5. Len(stream') \in Nat /\ DOMAIN stream' = 1 .. Len(stream') /\ DOMAIN stream = 1 .. Len(stream)
  BY <1>3, <1>4
<1>6. InPlace(stream, content, tensors)
  BY <1>1, InPlaceNow
<1>7. ~misread'
  <2>1. ASSUME NEW r \in kernel.reads
        PROVE  r[2] \in DOMAIN content /\ content[r[2]] = r[1]
    <3>1. 1 \in DOMAIN stream
      BY <1>4, <1>5
    <3>2. HoldsIn(stream, content, r[1], r[2], 1)
      BY <1>6, <3>1 DEF InPlace
    <3>3. 1 .. 1 - 1 = {}
      OBVIOUS
    <3>. QED
      BY <3>2, <3>3 DEF HoldsIn
  <2>. QED
    BY <1>1, <1>2, <2>1
<1>8. /\ \A s : s = kernel.writes[2] => s \in DOMAIN content' /\ content'[s] = kernel.writes[1]
      /\ \A s \in DOMAIN content : s # kernel.writes[2] => s \in DOMAIN content' /\ content'[s] = content[s]
  BY <1>2
<1>9. ASSUME NEW n \in Nat, n >= 1, n <= Len(stream') + 1, NEW t, NEW st,
             HoldsIn(stream, content, t, st, n + 1)
      PROVE  HoldsIn(stream', content', t, st, n)
  <2>1. \A i \in 1 .. n - 1 : i \in 1 .. Len(stream')
    BY <1>5, <1>9
  <2>2. \A i \in 1 .. n - 1 : stream'[i] = stream[i + 1]
    BY <1>4, <2>1
  <2>. QED
    BY <1>8, <1>9, <2>2, HoldsAfterTheHead
<1>10. ResultsInPlace'
  <2>1. ASSUME NEW n \in DOMAIN stream', NEW r \in stream'[n].reads
        PROVE  HoldsIn(stream', content', r[1], r[2], n)
    <3>1. n \in Nat /\ n >= 1 /\ n <= Len(stream') + 1 /\ n + 1 \in DOMAIN stream
          /\ stream'[n] = stream[n + 1]
      BY <1>4, <1>5
    <3>2. HoldsIn(stream, content, r[1], r[2], n + 1)
      BY <1>6, <3>1 DEF InPlace
    <3>. QED
      BY <1>9, <3>1, <3>2
  <2>2. ASSUME NEW t \in DOMAIN tensors'
        PROVE  HoldsIn(stream', content', t, tensors'[t].storage.name, Len(stream') + 1)
    <3>1. tensors' = tensors
      BY <1>2
    <3> DEFINE m == Len(stream') + 1
    <3>2. HoldsIn(stream, content, t, tensors[t].storage.name, m + 1)
      BY <1>4, <1>6, <3>1 DEF InPlace
    <3>3. m \in Nat /\ m >= 1 /\ m <= Len(stream') + 1
      BY <1>5
    <3> HIDE DEF m
    <3>4. HoldsIn(stream', content', t, tensors[t].storage.name, m)
      BY <1>9, <3>2, <3>3
    <3>. QED
      BY <3>1, <3>4 DEF m
  <2>3. InPlace(stream', content', tensors')
    BY <2>1, <2>2, Zenon DEF InPlace
  <2>. QED
    BY <2>3, InPlaceAfter
<1>11. PoolTypeOK'
  <2>1. Storage' = Storage
    BY <1>2, Zenon DEF Storage, Classes
  <2>2. Pooled' = Pooled
    BY <1>2, PooledPlaces, PooledPlacesAfter
  <2>3. MaxQueue \in Nat
    BY DEF PoolAssumption
  <2>4. stream' \in Seq(QueuedKernel) /\ Len(stream') <= MaxQueue
    BY <1>3, <1>4, <1>5, <2>3
  <2>. QED
    BY <1>1, <1>2, <2>1, <2>2, <2>4, Zenon DEF PoolTypeOK, Classes, QueuedKernel
<1>12. TensorsFit' /\ StoragesExclusive'
  BY <1>1, <1>2, Zenon DEF TensorsFit, StoragesExclusive, Classes
<1>. QED
  BY <1>7, <1>10, <1>11, <1>12 DEF PoolSound, KernelsReadTheirOperands

\* A behaviour about another part leaves the pools alone.
LEMMA PoolAtRest ==
  ASSUME PoolSound, UNCHANGED pool_vars
  PROVE  PoolSound'
<1>1. UNCHANGED <<available, available_elements, tensors, made, stream, content, misread>>
  BY Zenon DEF pool_vars
<1>2. Storage' = Storage
  BY <1>1, Zenon DEF Storage, Classes
<1>3. Pooled' = Pooled
  BY <1>1, PooledPlaces, PooledPlacesAfter
<1>4. PoolTypeOK' /\ TensorsFit' /\ StoragesExclusive'
  BY <1>1, <1>2, <1>3, Zenon DEF PoolSound, PoolTypeOK, TensorsFit, StoragesExclusive, Classes
<1>5. ResultsInPlace'
  BY <1>1, InPlaceNow, InPlaceAfter, Zenon DEF PoolSound
<1>. QED
  BY <1>1, <1>4, <1>5, Zenon DEF PoolSound, KernelsReadTheirOperands

\* An empty pool and no tensors: nothing to go wrong yet.
LEMMA PoolInitSound ==
  ASSUME PoolAssumption, PoolInit
  PROVE  PoolSound
<1>1. /\ available = [c \in Classes |-> << >>] /\ available_elements = 0
      /\ tensors = << >> /\ made = 0 /\ stream = << >> /\ content = << >> /\ ~misread
  BY DEF PoolInit
<1>2. DOMAIN tensors = {} /\ DOMAIN stream = {} /\ Len(stream) = 0 /\ stream \in Seq(QueuedKernel)
  BY <1>1
<1>3. \A c \in Classes : available[c] = << >> /\ Len(available[c]) = 0 /\ DOMAIN available[c] = {}
  BY <1>1
<1>4. Cardinality(Pooled) = 0
  <2>1. ASSUME NEW x \in Pooled PROVE FALSE
    <3>1. PICK c \in Classes : \E i \in 1 .. Len(available[c]) : TRUE
      BY DEF Pooled
    <3>2. 1 .. Len(available[c]) = {}
      BY <1>3
    <3>. QED
      BY <3>1, <3>2
  <2>2. Pooled = {}
    BY <2>1
  <2>. QED
    BY <2>2, FS_EmptySet
<1>5. MaxTensors \in Nat /\ MaxQueue \in Nat /\ ClassCapacity \in Nat /\ max_available_elements \in Nat
  BY DEF PoolAssumption
<1>6. PoolTypeOK
  <2>1. available \in [Classes -> Seq(Storage)]
    BY <1>1
  <2>2. made \in 0 .. MaxTensors /\ Len(stream) <= MaxQueue /\ available_elements <= max_available_elements
    BY <1>1, <1>2, <1>5
  <2>3. \A c \in Classes : /\ Len(available[c]) <= ClassCapacity
                           /\ \A i \in DOMAIN available[c] : available[c][i].len = 2 ^ c
    BY <1>3, <1>5
  <2>. QED
    BY <1>1, <1>2, <1>4, <2>1, <2>2, <2>3, Zenon DEF PoolTypeOK, QueuedKernel
<1>7. TensorsFit /\ StoragesExclusive /\ ResultsInPlace
  BY <1>2, <1>3, Zenon DEF TensorsFit, StoragesExclusive, ResultsInPlace
<1>. QED
  BY <1>1, <1>6, <1>7 DEF PoolSound, KernelsReadTheirOperands

\* The tensor pools are sound for every number of tensors and kernels and every
\* limit of the pool (TensorPool::take, TensorPool::recycle, Tensor::drop): a
\* storage is in one place only, is large enough for its tensor, and may be
\* handed on while kernels that read it wait, because the one stream runs them
\* first.
THEOREM PoolIsSound ==
  KernelsSpec => []PoolSound
<1>1. PoolAssumption
  BY PoolAssumption
<1>2. KernelsInit => PoolSound
  BY <1>1, PoolInitSound DEF KernelsInit
<1>3. PoolSound /\ [KernelsNext /\ UNCHANGED part]_kernel_vars => PoolSound'
  <2> SUFFICES ASSUME PoolSound, [KernelsNext /\ UNCHANGED part]_kernel_vars
               PROVE  PoolSound'
    OBVIOUS
  <2>1. CASE UNCHANGED pool_vars
    BY <2>1, PoolAtRest
  <2>2. CASE PoolNext
    <3>1. CASE \E elements \in Sizes, operands \in SUBSET DOMAIN tensors : Operate(elements, operands)
      BY <1>1, <3>1, OperateSound
    <3>2. CASE \E t \in DOMAIN tensors : Drop(t)
      BY <1>1, <3>2, DropSound
    <3>3. CASE RunKernel
      BY <1>1, <3>3, RunKernelSound
    <3>. QED
      BY <2>2, <3>1, <3>2, <3>3 DEF PoolNext
  <2>3. UNCHANGED pool_vars \/ PoolNext
    BY Zenon DEF KernelsNext, kernel_vars
  <2>. QED
    BY <2>1, <2>2, <2>3
<1>. QED
  BY <1>2, <1>3, PTL DEF KernelsSpec

--------------------------------------------------------------------------------
(* The convolution of a text *)

\* The first i tokens of a text, none if i is not positive.
FirstOf(prefix, i) == IF i > 0 THEN SubSeq(prefix, 1, i) ELSE << >>

\* Prefixes of prefixes, in the ways the states and windows name them.
LEMMA FirstOfFirst ==
  ASSUME NEW p \in Seq(Tokens), NEW i \in Int, i <= Len(p)
  PROVE  /\ FirstOf(p, i) \in Seq(Tokens)
         /\ Len(FirstOf(p, i)) = IF i > 0 THEN i ELSE 0
         /\ \A k \in Nat : Before(FirstOf(p, i), k) = FirstOf(p, i - k)
<1>1. Len(p) \in Nat
  OBVIOUS
<1>2. CASE i <= 0
  <2>1. FirstOf(p, i) = << >> /\ \A k \in Nat : FirstOf(p, i - k) = << >>
    BY <1>2 DEF FirstOf
  <2>2. << >> \in Seq(Tokens) /\ Len(<< >>) = 0
    OBVIOUS
  <2>3. \A k \in Nat : Before(<< >>, k) = << >>
    BY <2>2 DEF Before
  <2>. QED
    BY <1>2, <2>1, <2>2, <2>3
<1>3. CASE i > 0
  <2> DEFINE q == SubSeq(p, 1, i)
  <2>1. FirstOf(p, i) = q
    BY <1>3 DEF FirstOf
  <2>2. q \in Seq(Tokens) /\ Len(q) = i /\ \A n \in 1 .. i : q[n] = p[n]
    BY <1>1, <1>3
  <2>3. ASSUME NEW k \in Nat PROVE Before(q, k) = FirstOf(p, i - k)
    <3>1. CASE k >= i
      BY <2>2, <3>1 DEF Before, FirstOf
    <3>2. CASE k < i
      <4>1. i - k \in 1 .. i /\ i - k \in 1 .. Len(p)
        BY <1>1, <1>3, <3>2
      <4>2. Before(q, k) = SubSeq(q, 1, i - k) /\ FirstOf(p, i - k) = SubSeq(p, 1, i - k)
        BY <2>2, <3>2 DEF Before, FirstOf
      <4>3. SubSeq(q, 1, i - k) = SubSeq(p, 1, i - k)
        <5> HIDE DEF q
        <5>1. SubSeq(q, 1, i - k) = [n \in 1 .. i - k |-> q[n]]
          BY <2>2, <4>1
        <5>2. SubSeq(p, 1, i - k) = [n \in 1 .. i - k |-> p[n]]
          BY <4>1
        <5>3. \A n \in 1 .. i - k : q[n] = p[n]
          BY <2>2, <4>1
        <5>. QED
          BY <5>1, <5>2, <5>3
      <4>. QED
        BY <4>2, <4>3
    <3>. QED
      BY <1>3, <3>1, <3>2
  <2>. QED
    BY <1>3, <2>1, <2>2, <2>3
<1>. QED
  BY <1>2, <1>3

\* The state of a text in terms of its first tokens.
LEMMA DecodedFirst ==
  ASSUME NEW p \in Seq(Tokens), NEW i \in Nat, i <= Len(p)
  PROVE  DecodedState(FirstOf(p, i)) = <<Rounded(Gated(FirstOf(p, i - 1))), Rounded(Gated(FirstOf(p, i)))>>
<1>1. Before(FirstOf(p, i), 1) = FirstOf(p, i - 1)
  BY FirstOfFirst
<1>. QED
  BY <1>1, Zenon DEF DecodedState

\* A text is its own first tokens, and those of any text that goes on from it.
LEMMA FirstOfMore ==
  ASSUME NEW p \in Seq(Tokens), NEW q \in Seq(Tokens)
  PROVE  /\ p \o q \in Seq(Tokens) /\ Len(p \o q) = Len(p) + Len(q)
         /\ FirstOf(p, Len(p)) = p
         /\ FirstOf(p \o q, Len(p) + Len(q)) = p \o q
         /\ \A i \in Int : i <= Len(p) => FirstOf(p \o q, i) = FirstOf(p, i)
         /\ \A n \in 1 .. Len(q) : p \o SubSeq(q, 1, n) = FirstOf(p \o q, Len(p) + n)
<1> DEFINE r == p \o q
<1>1. /\ r \in Seq(Tokens) /\ Len(r) = Len(p) + Len(q) /\ Len(p) \in Nat /\ Len(q) \in Nat
      /\ \A n \in 1 .. Len(p) : r[n] = p[n]
      /\ \A n \in 1 .. Len(q) : r[Len(p) + n] = q[n]
  OBVIOUS
<1>2. ASSUME NEW s \in Seq(Tokens) PROVE FirstOf(s, Len(s)) = s
  <2>1. CASE Len(s) = 0
    BY <2>1 DEF FirstOf
  <2>2. CASE Len(s) > 0
    <3>1. FirstOf(s, Len(s)) = [n \in 1 .. Len(s) |-> s[n]]
      BY <2>2 DEF FirstOf
    <3>. QED
      BY <3>1
  <2>. QED
    BY <2>1, <2>2
<1>3. ASSUME NEW i \in Int, i <= Len(p) PROVE FirstOf(r, i) = FirstOf(p, i)
  <2>1. CASE i > 0
    <3>1. FirstOf(r, i) = SubSeq(r, 1, i) /\ FirstOf(p, i) = SubSeq(p, 1, i)
      BY <2>1 DEF FirstOf
    <3> HIDE DEF r
    <3>2. SubSeq(r, 1, i) = [n \in 1 .. i |-> r[n]] /\ SubSeq(p, 1, i) = [n \in 1 .. i |-> p[n]]
      BY <1>1, <1>3, <2>1
    <3>3. \A n \in 1 .. i : r[n] = p[n]
      BY <1>1, <1>3
    <3>. QED
      BY <3>1, <3>2, <3>3
  <2>. QED
    BY <2>1 DEF FirstOf
<1>4. ASSUME NEW n \in 1 .. Len(q) PROVE p \o SubSeq(q, 1, n) = FirstOf(r, Len(p) + n)
  <2> DEFINE t == SubSeq(q, 1, n)
             u == SubSeq(r, 1, Len(p) + n)
  <2>0. n \in Nat
    OBVIOUS
  <2>1. t \in Seq(Tokens) /\ Len(t) = n /\ \A m \in 1 .. n : t[m] = q[m]
    OBVIOUS
  <2>2. FirstOf(r, Len(p) + n) = u
    BY <1>1 DEF FirstOf
  <2> HIDE DEF r
  <2>3. u \in Seq(Tokens) /\ Len(u) = Len(p) + n /\ \A m \in 1 .. Len(p) + n : u[m] = r[m]
    BY <1>1
  <2> HIDE DEF t, u
  <2>4. p \o t \in Seq(Tokens) /\ Len(p \o t) = Len(p) + n
    BY <2>1, ConcatProperties
  <2>5. \A m \in 1 .. Len(p) + n : (p \o t)[m] = u[m]
    <3> SUFFICES ASSUME NEW m \in 1 .. Len(p) + n PROVE (p \o t)[m] = u[m]
      OBVIOUS
    <3>1. CASE m <= Len(p)
      BY <1>1, <2>1, <2>3, <3>1
    <3>2. CASE m > Len(p)
      <4>1. m - Len(p) \in 1 .. n /\ m - Len(p) \in 1 .. Len(q) /\ Len(p) + (m - Len(p)) = m
        BY <1>1, <3>2
      <4>2. (p \o t)[m] = t[m - Len(p)]
        BY <1>1, <2>1, <3>2, <4>1
      <4>3. r[m] = q[m - Len(p)]
        BY <1>1, <4>1
      <4>. QED
        BY <2>1, <2>3, <4>1, <4>2, <4>3
    <3>3. m \in Int /\ Len(p) \in Int
      BY <1>1, <2>0
    <3>4. m <= Len(p) \/ m > Len(p)
      BY <3>3
    <3>. QED
      BY <3>1, <3>2, <3>4, Zenon
  <2>6. p \o t = u
    BY <2>3, <2>4, <2>5, SeqEqual
  <2>. QED
    BY <2>2, <2>6 DEF t
<1>. QED
  BY <1>1, <1>2, <1>3, <1>4
\* What goes through the registers is, place by place, the text up to a token,
\* rounded at most once.
LEMMA ValuesOf ==
  ASSUME NEW c \in Caches, NEW tokens \in Seq(Tokens),
         text[c] \in Seq(Tokens), state[c] = DecodedState(text[c])
  PROVE  \A j \in 1 .. Len(tokens) + 2 :
           Values(c, tokens)[j] \in
             {Gated(FirstOf(text[c] \o tokens, Len(text[c]) + j - 2)),
              Rounded(Gated(FirstOf(text[c] \o tokens, Len(text[c]) + j - 2)))}
<1> DEFINE p == text[c]
           L == Len(text[c])
           v == [n \in DOMAIN tokens |-> Gated(p \o SubSeq(tokens, 1, n))]
<1>1. L \in Nat /\ Len(tokens) \in Nat /\ DOMAIN tokens = 1 .. Len(tokens)
  OBVIOUS
<1>2. state[c] = <<Rounded(Gated(FirstOf(p, L - 1))), Rounded(Gated(FirstOf(p, L)))>>
  <2>1. FirstOf(p, L) = p
    BY FirstOfMore
  <2>. QED
    BY <1>1, <2>1, DecodedFirst
<1>3. FirstOf(p, L - 1) = FirstOf(p \o tokens, L - 1) /\ FirstOf(p, L) = FirstOf(p \o tokens, L)
  BY <1>1, FirstOfMore
<1>4. \A n \in 1 .. Len(tokens) : v[n] = Gated(FirstOf(p \o tokens, L + n))
  BY <1>1, FirstOfMore
<1>5. Values(c, tokens) = state[c] \o v
  BY DEF Values
<1>6. v \in Seq({v[n] : n \in 1 .. Len(tokens)}) /\ Len(v) = Len(tokens)
  BY <1>1
<1> HIDE DEF v, p, L
<1> SUFFICES ASSUME NEW j \in 1 .. Len(tokens) + 2
             PROVE  (state[c] \o v)[j] \in {Gated(FirstOf(p \o tokens, L + j - 2)),
                                             Rounded(Gated(FirstOf(p \o tokens, L + j - 2)))}
  BY <1>5 DEF p, L
<1> DEFINE a == Rounded(Gated(FirstOf(p, L - 1)))
           b == Rounded(Gated(FirstOf(p, L)))
<1>7. state[c] = <<a, b>>
  BY <1>2
<1> HIDE DEF a, b
<1>8. (state[c] \o v)[j] = IF j = 1 THEN a ELSE IF j = 2 THEN b ELSE v[j - 2]
  <2>1. <<a, b>> \in Seq({a, b}) /\ Len(<<a, b>>) = 2 /\ <<a, b>>[1] = a /\ <<a, b>>[2] = b
    OBVIOUS
  <2>. QED
    BY <1>1, <1>6, <1>7, <2>1
<1>9. CASE j = 1
  <2>1. L + j - 2 = L - 1
    BY <1>1, <1>9
  <2>. QED
    BY <1>3, <1>8, <1>9, <2>1, Zenon DEF a
<1>10. CASE j = 2
  <2>1. L + j - 2 = L /\ j # 1
    BY <1>1, <1>10
  <2>. QED
    BY <1>3, <1>8, <1>10, <2>1, Zenon DEF b
<1>11. CASE j > 2
  <2>1. L + j - 2 = L + (j - 2) /\ j - 2 \in 1 .. Len(tokens) /\ j # 1 /\ j # 2
    BY <1>1, <1>11
  <2>. QED
    BY <1>4, <1>8, <2>1, Zenon
<1>12. j = 1 \/ j = 2 \/ j > 2
  OBVIOUS
<1>. QED
  BY <1>9, <1>10, <1>11, <1>12, Zenon

\* Rounding a second time changes nothing, and no rounding changes the text.
LEMMA RoundOnce ==
  ASSUME NEW p, NEW v \in {Gated(p), Rounded(Gated(p))}
  PROVE  v.text = p /\ Rounded(v) = Rounded(Gated(p))
<1>1. Gated(p).text = p
  BY DEF Gated
<1>2. Rounded(Gated(p)) = [text |-> p, f32 |-> FALSE]
  BY <1>1 DEF Rounded
<1>3. Rounded([text |-> p, f32 |-> FALSE]) = [text |-> p, f32 |-> FALSE]
  BY DEF Rounded
<1>4. [text |-> p, f32 |-> FALSE].text = p
  OBVIOUS
<1>5. v = Gated(p) \/ v = Rounded(Gated(p))
  OBVIOUS
<1>. QED
  BY <1>1, <1>2, <1>3, <1>4, <1>5, Zenon

\* What a kernel makes of the next tokens of a text.
LEMMA Convolved ==
  ASSUME NEW c \in Caches, NEW tokens \in Seq(Tokens),
         text[c] \in Seq(Tokens), state[c] = DecodedState(text[c])
  PROVE  /\ Convolve(c, tokens).text = text[c] \o tokens
         /\ Stored(Convolve(c, tokens)) = DecodedState(text[c] \o tokens)
         /\ \A out \in Convolve(c, tokens).outputs : \A k \in 0 .. 2 :
              out.window[3 - k].text = Before(out.text, k)
         /\ DOMAIN Convolve(c, tokens).history = 1 .. Len(tokens)
         /\ \A n \in 1 .. Len(tokens) :
              Convolve(c, tokens).history[n] =
                DecodedState(SubSeq(text[c] \o tokens, 1, Len(text[c]) + n))
<1> DEFINE values == Values(c, tokens)
           p == text[c] \o tokens
           L == Len(text[c])
           At(j) == FirstOf(p, L + j - 2)
<1>1. /\ L \in Nat /\ Len(tokens) \in Nat /\ DOMAIN tokens = 1 .. Len(tokens)
      /\ p \in Seq(Tokens) /\ Len(p) = L + Len(tokens)
  BY FirstOfMore
<1>2. \A j \in 1 .. Len(tokens) + 2 :
        values[j].text = At(j) /\ Rounded(values[j]) = Rounded(Gated(At(j)))
  BY ValuesOf, RoundOnce
<1>3. \A n \in 0 .. Len(tokens) : DecodedState(FirstOf(p, L + n)) =
        <<Rounded(values[n + 1]), Rounded(values[n + 2])>>
  <2> SUFFICES ASSUME NEW n \in 0 .. Len(tokens)
               PROVE  DecodedState(FirstOf(p, L + n)) =
                        <<Rounded(values[n + 1]), Rounded(values[n + 2])>>
    OBVIOUS
  <2>1. /\ L + n \in Nat /\ L + n <= Len(p)
        /\ n + 1 \in 1 .. Len(tokens) + 2 /\ n + 2 \in 1 .. Len(tokens) + 2
        /\ L + (n + 1) - 2 = (L + n) - 1 /\ L + (n + 2) - 2 = L + n
    BY <1>1
  <2>2. DecodedState(FirstOf(p, L + n)) =
          <<Rounded(Gated(FirstOf(p, (L + n) - 1))), Rounded(Gated(FirstOf(p, L + n)))>>
    <3> DEFINE i == L + n
    <3>1. i \in Nat /\ i <= Len(p) /\ p \in Seq(Tokens)
      BY <1>1, <2>1
    <3> HIDE DEF p, i
    <3>2. DecodedState(FirstOf(p, i)) =
            <<Rounded(Gated(FirstOf(p, i - 1))), Rounded(Gated(FirstOf(p, i)))>>
      BY <3>1, DecodedFirst
    <3>. QED
      BY <3>2, Zenon DEF i
  <2> HIDE DEF p, L, values
  <2>3. /\ Rounded(values[n + 1]) = Rounded(Gated(FirstOf(p, (L + n) - 1)))
        /\ Rounded(values[n + 2]) = Rounded(Gated(FirstOf(p, L + n)))
    BY <1>2, <2>1, Zenon
  <2>. QED
    BY <2>2, <2>3, Zenon
<1>4. Convolve(c, tokens).text = p
  BY DEF Convolve
<1>5. Stored(Convolve(c, tokens)) = DecodedState(p)
  <2>1. FirstOf(p, L + Len(tokens)) = p
    BY FirstOfMore
  <2>2. Convolve(c, tokens).window = <<values[Len(tokens) + 1], values[Len(tokens) + 2]>>
    BY DEF Convolve
  <2> HIDE DEF values, p, L
  <2>3. Stored(Convolve(c, tokens)) =
          <<Rounded(values[Len(tokens) + 1]), Rounded(values[Len(tokens) + 2])>>
    BY <2>2 DEF Stored
  <2>. QED
    BY <1>1, <1>3, <2>1, <2>3
<1>6. ASSUME NEW out \in Convolve(c, tokens).outputs, NEW k \in 0 .. 2
      PROVE  out.window[3 - k].text = Before(out.text, k)
  <2>1. PICK n \in 1 .. Len(tokens) :
          out = [text |-> values[n + 2].text,
                 window |-> <<values[n - 1 + 1], values[n - 1 + 2], values[n + 2]>>]
    BY <1>1, <1>6 DEF Convolve, Weighed
  <2>2. out.text = values[n + 2].text /\ out.window[1] = values[n - 1 + 1]
        /\ out.window[2] = values[n - 1 + 2] /\ out.window[3] = values[n + 2]
    BY <2>1
  <2>3. n - 1 + 1 = n /\ n - 1 + 2 = n + 1 /\ n \in 1 .. Len(tokens) + 2
        /\ n + 1 \in 1 .. Len(tokens) + 2 /\ n + 2 \in 1 .. Len(tokens) + 2
    BY <1>1
  <2>4. out.text = At(n + 2) /\ out.window[1].text = At(n)
        /\ out.window[2].text = At(n + 1) /\ out.window[3].text = At(n + 2)
    <3> HIDE DEF values, At
    <3>. QED
      BY <1>2, <2>2, <2>3
  <2>5. /\ L + (n + 2) - 2 \in Int /\ L + (n + 2) - 2 <= Len(p)
        /\ (L + (n + 2) - 2) - 0 = L + (n + 2) - 2
        /\ (L + (n + 2) - 2) - 1 = L + (n + 1) - 2
        /\ (L + (n + 2) - 2) - 2 = L + n - 2
    BY <1>1
  <2>6. /\ Before(At(n + 2), 0) = At(n + 2) /\ Before(At(n + 2), 1) = At(n + 1)
        /\ Before(At(n + 2), 2) = At(n)
    <3> DEFINE i == L + (n + 2) - 2
    <3>1. i \in Int /\ i <= Len(p) /\ p \in Seq(Tokens)
      BY <1>1, <2>5
    <3> HIDE DEF p, i
    <3>2. 0 \in Nat /\ 1 \in Nat /\ 2 \in Nat
      OBVIOUS
    <3>3. \A m \in Nat : Before(FirstOf(p, i), m) = FirstOf(p, i - m)
      BY <3>1, FirstOfFirst
    <3>4. /\ Before(At(n + 2), 0) = FirstOf(p, (L + (n + 2) - 2) - 0)
          /\ Before(At(n + 2), 1) = FirstOf(p, (L + (n + 2) - 2) - 1)
          /\ Before(At(n + 2), 2) = FirstOf(p, (L + (n + 2) - 2) - 2)
      BY <3>2, <3>3, Zenon DEF i
    <3>. QED
      BY <2>5, <3>4, Zenon
  <2> HIDE DEF At, p, L, values
  <2>7. k = 0 \/ k = 1 \/ k = 2
    OBVIOUS
  <2>8. 3 - 0 = 3 /\ 3 - 1 = 2 /\ 3 - 2 = 1
    OBVIOUS
  <2>. QED
    BY <2>4, <2>6, <2>7, <2>8
<1>7. /\ DOMAIN Convolve(c, tokens).history = 1 .. Len(tokens)
      /\ \A n \in 1 .. Len(tokens) :
           Convolve(c, tokens).history[n] = <<Rounded(values[n + 1]), Rounded(values[n + 2])>>
  BY <1>1 DEF Convolve
<1>8. ASSUME NEW n \in 1 .. Len(tokens)
      PROVE  Convolve(c, tokens).history[n] = DecodedState(SubSeq(p, 1, L + n))
  <2>1. FirstOf(p, L + n) = SubSeq(p, 1, L + n)
    BY <1>1 DEF FirstOf
  <2>2. n \in 0 .. Len(tokens)
    OBVIOUS
  <2> HIDE DEF p, L, values
  <2>. QED
    BY <1>3, <1>7, <2>1, <2>2
<1>. QED
  BY <1>4, <1>5, <1>6, <1>7, <1>8
\* The tokens of a segment.
LEMMA SegmentIsText ==
  ASSUME ConvAssumption, NEW tokens \in Segment
  PROVE  tokens \in Seq(Tokens) /\ Len(tokens) \in Nat /\ DOMAIN tokens = 1 .. Len(tokens)
<1>1. PICK m \in 0 .. MaxSegment : tokens \in [1 .. m -> Tokens]
  BY DEF Segment, BoundedSeq, SeqOf
<1>2. m \in Nat
  BY DEF ConvAssumption
<1>3. tokens \in Seq(Tokens)
  BY <1>1, <1>2
<1>. QED
  BY <1>3

\* The single-request cache is none of the batch cache's.
LEMMA CacheOf ==
  ASSUME ConvAssumption
  PROVE  "single" \in Caches /\ RequestSlots \subseteq Caches /\ "single" \notin RequestSlots
BY DEF ConvAssumption, Caches

\* What the lemma on kernels asks of a cache.
LEMMA CacheSound ==
  ASSUME ConvolutionSound, NEW c \in Caches
  PROVE  text[c] \in Seq(Tokens) /\ Len(text[c]) \in Nat /\ state[c] = DecodedState(text[c])
BY DEF ConvolutionSound, ConvTypeOK, StateAsDecoded

\* Every request of a batch goes on from the state of its own slot.
LEMMA SegmentedSound ==
  ASSUME ConvAssumption, ConvolutionSound, NEW chosen \in SUBSET RequestSlots,
         NEW tokens \in [chosen -> Segment], SegmentedPass(tokens)
  PROVE  ConvolutionSound'
<1>1. PICK runs \in {[s \in DOMAIN tokens |-> Convolve(s, tokens[s])]} :
      /\ \A s \in DOMAIN tokens : Len(runs[s].text) <= MaxLength
      /\ text' = [c \in Caches |-> IF c \in DOMAIN tokens THEN runs[c].text ELSE text[c]]
      /\ state' = [c \in Caches |-> IF c \in DOMAIN tokens THEN Stored(runs[c]) ELSE state[c]]
      /\ outputs' = UNION {runs[s].outputs : s \in DOMAIN tokens}
      /\ history' = history
  BY Zenon DEF SegmentedPass
<1>2. DOMAIN tokens = chosen /\ \A s \in chosen : tokens[s] \in Segment /\ s \in Caches
  BY CacheOf
<1>3. \A s \in chosen : runs[s] = Convolve(s, tokens[s])
  BY <1>2
<1>4. ASSUME NEW s \in chosen
      PROVE  /\ runs[s].text \in Seq(Tokens)
             /\ Stored(runs[s]) = DecodedState(runs[s].text)
             /\ \A out \in runs[s].outputs : \A k \in 0 .. 2 :
                  out.window[3 - k].text = Before(out.text, k)
  <2>1. s \in Caches /\ tokens[s] \in Seq(Tokens)
    BY <1>2, SegmentIsText
  <2>2. text[s] \in Seq(Tokens) /\ state[s] = DecodedState(text[s])
    BY <2>1, CacheSound
  <2>3. text[s] \o tokens[s] \in Seq(Tokens)
    BY <2>1, <2>2, FirstOfMore
  <2>4. /\ Convolve(s, tokens[s]).text = text[s] \o tokens[s]
        /\ Stored(Convolve(s, tokens[s])) = DecodedState(text[s] \o tokens[s])
        /\ \A out \in Convolve(s, tokens[s]).outputs : \A k \in 0 .. 2 :
             out.window[3 - k].text = Before(out.text, k)
    BY <2>1, <2>2, Convolved
  <2>. QED
    BY <1>3, <2>3, <2>4
<1>5. \A c \in Caches : /\ c \in chosen => text'[c] = runs[c].text /\ state'[c] = Stored(runs[c])
                        /\ c \notin chosen => text'[c] = text[c] /\ state'[c] = state[c]
  BY <1>1, <1>2
<1>6. DOMAIN text' = Caches /\ DOMAIN state' = Caches /\ text'["single"] = text["single"]
  BY <1>1, <1>5, CacheOf
<1>7. ConvTypeOK'
  <2>1. \A c \in Caches : text'[c] \in Seq(Tokens) /\ Len(text'[c]) <= MaxLength
    BY <1>1, <1>2, <1>4, <1>5 DEF ConvolutionSound, ConvTypeOK
  <2>2. text' \in [Caches -> Seq(Tokens)]
    BY <1>1, <1>6, <2>1
  <2>. QED
    BY <1>1, <1>6, <2>1, <2>2 DEF ConvolutionSound, ConvTypeOK
<1>8. WeighsOwnPast'
  <2> SUFFICES ASSUME NEW out \in outputs', NEW k \in 0 .. 2
               PROVE  out.window[3 - k].text = Before(out.text, k)
    BY Zenon DEF WeighsOwnPast
  <2>1. PICK s \in DOMAIN tokens : out \in runs[s].outputs
    BY <1>1, Zenon
  <2>. QED
    BY <1>2, <1>4, <2>1, Zenon
<1>9. StateAsDecoded'
  <2>1. ASSUME NEW c \in Caches PROVE state'[c] = DecodedState(text'[c])
    <3>1. CASE c \in chosen
      <4>1. text'[c] = runs[c].text /\ state'[c] = Stored(runs[c])
        BY <1>5, <3>1, Zenon
      <4>2. Stored(runs[c]) = DecodedState(runs[c].text)
        BY <1>4, <3>1
      <4>. QED
        BY <4>1, <4>2
    <3>2. CASE c \notin chosen
      BY <1>5, <3>2, CacheSound
    <3>. QED
      BY <3>1, <3>2
  <2>. QED
    BY <2>1, Zenon DEF StateAsDecoded
<1>10. HistoryAsDecoded'
  BY <1>1, <1>6 DEF ConvolutionSound, HistoryAsDecoded
<1>. QED
  BY <1>7, <1>8, <1>9, <1>10 DEF ConvolutionSound

\* What one pass over the single-request cache leaves, whatever it records.
LEMMA PassSound ==
  ASSUME ConvAssumption, ConvolutionSound, NEW tokens \in Segment,
         Len(Convolve("single", tokens).text) <= MaxLength,
         text' = [text EXCEPT !["single"] = Convolve("single", tokens).text],
         state' = [state EXCEPT !["single"] = Stored(Convolve("single", tokens))],
         outputs' = Convolve("single", tokens).outputs,
         history' = << >> \/ history' = Convolve("single", tokens).history
  PROVE  ConvolutionSound'
<1> DEFINE run == Convolve("single", tokens)
<1>1. /\ "single" \in Caches /\ tokens \in Seq(Tokens) /\ Len(tokens) \in Nat
      /\ text["single"] \in Seq(Tokens) /\ Len(text["single"]) \in Nat
      /\ state["single"] = DecodedState(text["single"])
  BY CacheOf, SegmentIsText, CacheSound
<1>2. /\ run.text = text["single"] \o tokens
      /\ Stored(run) = DecodedState(run.text)
      /\ \A out \in run.outputs : \A k \in 0 .. 2 : out.window[3 - k].text = Before(out.text, k)
      /\ DOMAIN run.history = 1 .. Len(tokens)
      /\ \A n \in 1 .. Len(tokens) :
           run.history[n] = DecodedState(SubSeq(run.text, 1, Len(text["single"]) + n))
  <2>1. /\ run.text = text["single"] \o tokens
        /\ Stored(run) = DecodedState(text["single"] \o tokens)
        /\ \A out \in run.outputs : \A k \in 0 .. 2 : out.window[3 - k].text = Before(out.text, k)
        /\ DOMAIN run.history = 1 .. Len(tokens)
        /\ \A n \in 1 .. Len(tokens) : run.history[n] =
              DecodedState(SubSeq(text["single"] \o tokens, 1, Len(text["single"]) + n))
    BY <1>1, Convolved
  <2> HIDE DEF run
  <2>. QED
    BY <2>1
<1>3. run.text \in Seq(Tokens) /\ Len(run.text) = Len(text["single"]) + Len(tokens)
  BY <1>1, <1>2, FirstOfMore
<1>4. /\ text' = [text EXCEPT !["single"] = run.text]
      /\ state' = [state EXCEPT !["single"] = Stored(run)]
      /\ outputs' = run.outputs /\ Len(run.text) <= MaxLength
      /\ history' = << >> \/ history' = run.history
  OBVIOUS
<1> HIDE DEF run
<1>5. DOMAIN text = Caches /\ DOMAIN state = Caches
  BY DEF ConvolutionSound, ConvTypeOK
<1>6. /\ text'["single"] = run.text /\ state'["single"] = Stored(run)
      /\ \A c \in Caches \ {"single"} : text'[c] = text[c] /\ state'[c] = state[c]
  BY <1>1, <1>4, <1>5
<1>7. DOMAIN history' = 1 .. Len(history') /\ Len(history') \in {0, Len(tokens)}
      /\ (history' = run.history \/ DOMAIN history' = {})
  <2>1. CASE history' = << >>
    BY <2>1
  <2>2. CASE history' = run.history
    <3>1. run.history = [n \in 1 .. Len(tokens) |-> run.history[n]]
      BY <1>1, SegmentIsText DEF run, Convolve
    <3>2. Len(run.history) = Len(tokens)
      BY <1>1, <3>1
    <3>. QED
      BY <1>2, <2>2, <3>2
  <2>. QED
    BY <1>4, <2>1, <2>2
<1>8. ConvTypeOK'
  <2>1. \A c \in Caches : text'[c] \in Seq(Tokens) /\ Len(text'[c]) <= MaxLength
    BY <1>3, <1>4, <1>6 DEF ConvolutionSound, ConvTypeOK
  <2>2. text' \in [Caches -> Seq(Tokens)] /\ DOMAIN state' = Caches
    BY <1>3, <1>4, <1>5 DEF ConvolutionSound, ConvTypeOK
  <2>3. Len(history') <= Len(text'["single"])
    BY <1>1, <1>3, <1>6, <1>7
  <2>. QED
    BY <1>7, <2>1, <2>2, <2>3 DEF ConvTypeOK
<1>9. WeighsOwnPast'
  BY <1>2, <1>4, Zenon DEF WeighsOwnPast
<1>10. StateAsDecoded'
  <2>1. \A c \in Caches : state'[c] = DecodedState(text'[c])
    BY <1>2, <1>6, CacheSound
  <2>. QED
    BY <2>1, Zenon DEF StateAsDecoded
<1>11. HistoryAsDecoded'
  <2> SUFFICES ASSUME NEW n \in DOMAIN history'
               PROVE  history'[n] = DecodedState(SubSeq(text'["single"], 1,
                                        Len(text'["single"]) - Len(history') + n))
    BY Zenon DEF HistoryAsDecoded
  <2>1. history' = run.history /\ n \in 1 .. Len(tokens) /\ Len(history') = Len(tokens)
    BY <1>1, <1>2, <1>7
  <2>2. Len(text'["single"]) - Len(history') + n = Len(text["single"]) + n
    <3> DEFINE new   == Len(text'["single"])
               kept  == Len(history')
               old   == Len(text["single"])
               added == Len(tokens)
    <3>1. new = old + added /\ kept = added /\ old \in Int /\ added \in Int
      BY <1>1, <1>3, <1>6, <2>1
    <3>2. n \in Int
      BY <2>1
    <3> HIDE DEF new, kept, old, added
    <3>3. new - kept + n = old + n
      BY <3>1, <3>2
    <3>. QED
      BY <3>3 DEF new, kept, old
  <2>3. history'[n] = DecodedState(SubSeq(run.text, 1, Len(text["single"]) + n))
    BY <1>2, <2>1
  <2>. QED
    BY <1>6, <2>2, <2>3
<1>. QED
  BY <1>8, <1>9, <1>10, <1>11 DEF ConvolutionSound

\* A prompt, a token or a draft goes on from the state of the single-request cache.
LEMMA SingleSound ==
  ASSUME ConvAssumption, ConvolutionSound, NEW tokens \in Segment, SinglePass(tokens) \/ Verify(tokens)
  PROVE  ConvolutionSound'
<1>1. CASE SinglePass(tokens)
  BY <1>1, PassSound DEF SinglePass
<1>2. CASE Verify(tokens)
  BY <1>2, PassSound DEF Verify
<1>. QED
  BY <1>1, <1>2

\* Back to the state after the accepted tokens.
LEMMA RollbackSound ==
  ASSUME ConvAssumption, ConvolutionSound, NEW valid \in DOMAIN history, Rollback(valid)
  PROVE  ConvolutionSound'
<1> DEFINE p == text["single"]
           keep == Len(text["single"]) - Len(history) + valid
<1>1. /\ "single" \in Caches /\ p \in Seq(Tokens) /\ Len(p) \in Nat /\ Len(p) <= MaxLength
      /\ state["single"] = DecodedState(p) /\ DOMAIN text = Caches /\ DOMAIN state = Caches
      /\ text \in [Caches -> Seq(Tokens)]
  BY CacheOf, CacheSound DEF ConvolutionSound, ConvTypeOK
<1>2. DOMAIN history = 1 .. Len(history) /\ Len(history) <= Len(p)
  BY DEF ConvolutionSound, ConvTypeOK
<1>3. Len(history) \in Int /\ valid \in Nat /\ valid <= Len(history) /\ valid > 0
  BY <1>2 DEF Rollback
<1>4. keep \in Nat /\ keep <= Len(p) /\ keep > 0 /\ (valid = Len(history) => keep = Len(p))
  BY <1>1, <1>2, <1>3
<1>5. /\ text' = [text EXCEPT !["single"] = SubSeq(p, 1, keep)]
      /\ state' = [state EXCEPT !["single"] = Restored(valid)]
      /\ history' = << >> /\ outputs' = {}
  BY <1>1 DEF Rollback
<1>6. history[valid] = DecodedState(SubSeq(p, 1, keep))
  BY DEF ConvolutionSound, HistoryAsDecoded
<1>7. Restored(valid) = DecodedState(SubSeq(p, 1, keep))
  <2>1. CASE valid < Len(history)
    BY <1>6, <2>1 DEF Restored
  <2>2. CASE valid = Len(history)
    <3>1. FirstOf(p, Len(p)) = p /\ FirstOf(p, keep) = SubSeq(p, 1, keep)
      BY <1>1, <1>4, FirstOfMore DEF FirstOf
    <3>2. Restored(valid) = state["single"]
      BY <1>3, <2>2 DEF Restored
    <3> HIDE DEF p, keep
    <3>3. SubSeq(p, 1, keep) = p
      BY <1>4, <2>2, <3>1
    <3>. QED
      BY <1>1, <3>2, <3>3
  <2>. QED
    BY <1>3, <2>1, <2>2
<1>8. SubSeq(p, 1, keep) \in Seq(Tokens) /\ Len(SubSeq(p, 1, keep)) <= MaxLength
  <2> HIDE DEF p, keep
  <2>1. SubSeq(p, 1, keep) \in Seq(Tokens) /\ Len(SubSeq(p, 1, keep)) = keep
    BY <1>1, <1>4
  <2>2. MaxLength \in Nat
    BY DEF ConvAssumption
  <2>. QED
    BY <1>1, <1>4, <2>1, <2>2
<1> HIDE DEF p, keep
<1>9. /\ text'["single"] = SubSeq(p, 1, keep) /\ state'["single"] = Restored(valid)
      /\ \A c \in Caches \ {"single"} : text'[c] = text[c] /\ state'[c] = state[c]
  BY <1>1, <1>5
<1>10. ConvTypeOK'
  <2>1. \A c \in Caches : text'[c] \in Seq(Tokens) /\ Len(text'[c]) <= MaxLength
    BY <1>8, <1>9 DEF ConvolutionSound, ConvTypeOK
  <2>2. text' \in [Caches -> Seq(Tokens)] /\ DOMAIN state' = Caches
    BY <1>1, <1>5, <1>8
  <2>3. DOMAIN history' = 1 .. Len(history') /\ Len(history') = 0 /\ Len(text'["single"]) \in Nat
    BY <1>1, <1>5, <2>1
  <2>. QED
    BY <2>1, <2>2, <2>3 DEF ConvTypeOK
<1>11. StateAsDecoded'
  <2>1. \A c \in Caches : state'[c] = DecodedState(text'[c])
    BY <1>7, <1>9, CacheSound
  <2>. QED
    BY <2>1, Zenon DEF StateAsDecoded
<1>12. WeighsOwnPast' /\ HistoryAsDecoded'
  BY <1>5 DEF WeighsOwnPast, HistoryAsDecoded
<1>. QED
  BY <1>10, <1>11, <1>12 DEF ConvolutionSound

\* Nothing was computed: the state of the empty text.
LEMMA FreshSound == ZeroState = DecodedState(<< >>)
<1>1. Before(<< >>, 1) = << >>
  BY DEF Before
<1>2. Rounded(Gated(<< >>)) = Zero
  BY DEF Rounded, Gated, Zero
<1>. QED
  BY <1>1, <1>2 DEF ZeroState, DecodedState

\* The next request finds the state of the empty text.
LEMMA ConvReleaseSound ==
  ASSUME ConvAssumption, ConvolutionSound, NEW cache \in Caches, Release(cache)
  PROVE  ConvolutionSound'
<1>1. /\ "single" \in Caches /\ DOMAIN text = Caches /\ DOMAIN state = Caches
      /\ text \in [Caches -> Seq(Tokens)] /\ << >> \in Seq(Tokens) /\ Len(<< >>) = 0
      /\ MaxLength \in Nat
  BY CacheOf DEF ConvolutionSound, ConvTypeOK, ConvAssumption
<1>2. /\ text' = [text EXCEPT ![cache] = << >>]
      /\ state' = [state EXCEPT ![cache] = ZeroState]
      /\ outputs' = {} /\ history' = history
      /\ cache = "single" => history = << >>
  BY DEF Release, FreshState
<1>3. /\ text'[cache] = << >> /\ state'[cache] = ZeroState
      /\ \A c \in Caches \ {cache} : text'[c] = text[c] /\ state'[c] = state[c]
  BY <1>1, <1>2
<1>4. history = << >> \/ text'["single"] = text["single"]
  BY <1>1, <1>2, <1>3
<1>5. ConvTypeOK'
  <2>1. ASSUME NEW c \in Caches PROVE text'[c] \in Seq(Tokens) /\ Len(text'[c]) <= MaxLength
    <3>1. CASE c = cache
      <4>1. Len(<< >>) <= MaxLength
        BY <1>1
      <4>. QED
        BY <1>1, <1>3, <3>1, <4>1, Zenon
    <3>2. CASE c # cache
      BY <1>3, <3>2 DEF ConvolutionSound, ConvTypeOK
    <3>. QED
      BY <3>1, <3>2
  <2>2. text' \in [Caches -> Seq(Tokens)] /\ DOMAIN state' = Caches
    BY <1>1, <1>2
  <2>3. DOMAIN history' = 1 .. Len(history') /\ Len(history') <= Len(text'["single"])
    <3>1. CASE history = << >>
      BY <1>1, <1>2, <2>1, <3>1
    <3>2. CASE text'["single"] = text["single"]
      BY <1>2, <3>2 DEF ConvolutionSound, ConvTypeOK
    <3>. QED
      BY <1>4, <3>1, <3>2
  <2>. QED
    BY <2>1, <2>2, <2>3 DEF ConvTypeOK
<1>6. StateAsDecoded'
  <2>1. \A c \in Caches : state'[c] = DecodedState(text'[c])
    BY <1>3, FreshSound, CacheSound
  <2>. QED
    BY <2>1, Zenon DEF StateAsDecoded
<1>7. HistoryAsDecoded'
  <2>1. CASE history = << >>
    BY <1>2, <2>1 DEF HistoryAsDecoded
  <2>2. CASE text'["single"] = text["single"]
    BY <1>2, <2>2 DEF ConvolutionSound, HistoryAsDecoded
  <2>. QED
    BY <1>4, <2>1, <2>2
<1>8. WeighsOwnPast'
  BY <1>2 DEF WeighsOwnPast
<1>. QED
  BY <1>5, <1>6, <1>7, <1>8 DEF ConvolutionSound

\* All texts are empty to begin with.
LEMMA ConvInitSound ==
  ASSUME ConvAssumption, ConvInit
  PROVE  ConvolutionSound
<1>1. /\ text = [c \in Caches |-> << >>] /\ state = [c \in Caches |-> ZeroState]
      /\ outputs = {} /\ history = << >> /\ "single" \in Caches /\ MaxLength \in Nat
  BY CacheOf DEF ConvInit, ConvAssumption
<1>2. << >> \in Seq(Tokens) /\ Len(<< >>) = 0 /\ DOMAIN << >> = 1 .. 0
  OBVIOUS
<1>3. ConvTypeOK
  BY <1>1, <1>2 DEF ConvTypeOK
<1>4. WeighsOwnPast /\ HistoryAsDecoded
  BY <1>1, <1>2 DEF WeighsOwnPast, HistoryAsDecoded
<1>5. StateAsDecoded
  BY <1>1, FreshSound DEF StateAsDecoded
<1>. QED
  BY <1>3, <1>4, <1>5 DEF ConvolutionSound

\* Attention and pools do not touch the convolution.
LEMMA ConvAtRest ==
  ASSUME ConvolutionSound, UNCHANGED conv_vars
  PROVE  ConvolutionSound'
BY DEF conv_vars, ConvolutionSound, ConvTypeOK, WeighsOwnPast, StateAsDecoded, HistoryAsDecoded

\* However texts are cut into chunks, tokens and drafts, and however many tokens
\* of a draft are rejected, the states of the convolution are those of decoding
\* one token after another (src/kernels/short_conv.cu and its callers).
THEOREM ConvolutionIsSound == KernelsSpec => []ConvolutionSound
<1>1. ConvAssumption
  BY ConvAssumption
<1>2. KernelsInit => ConvolutionSound
  BY <1>1, ConvInitSound DEF KernelsInit
<1>3. ConvolutionSound /\ [KernelsNext /\ UNCHANGED part]_kernel_vars => ConvolutionSound'
  <2> SUFFICES ASSUME ConvolutionSound, [KernelsNext /\ UNCHANGED part]_kernel_vars
               PROVE  ConvolutionSound'
    OBVIOUS
  <2>1. CASE UNCHANGED conv_vars
    BY <2>1, ConvAtRest
  <2>2. CASE ConvNext
    <3>1. CASE \E chosen \in (SUBSET RequestSlots) \ {{}} :
                 \E tokens \in [chosen -> Segment] : SegmentedPass(tokens)
      BY <1>1, <3>1, SegmentedSound
    <3>2. CASE \E tokens \in Segment : SinglePass(tokens) \/ Verify(tokens)
      BY <1>1, <3>2, SingleSound
    <3>3. CASE \E valid \in DOMAIN history : Rollback(valid)
      BY <1>1, <3>3, RollbackSound
    <3>4. CASE \E cache \in Caches : Release(cache)
      BY <1>1, <3>4, ConvReleaseSound
    <3>. QED
      BY <2>2, <3>1, <3>2, <3>3, <3>4 DEF ConvNext
  <2>3. UNCHANGED conv_vars \/ ConvNext
    BY Zenon DEF KernelsNext, kernel_vars
  <2>. QED
    BY <2>1, <2>2, <2>3
<1>. QED
  BY <1>2, <1>3, PTL DEF KernelsSpec

--------------------------------------------------------------------------------
(* Attention: the launch policies *)

\* The greater of two numbers.
LEMMA MaxOfTwo == \A a, b \in Int : Max({a, b}) = IF a >= b THEN a ELSE b
<1> SUFFICES ASSUME NEW a \in Int, NEW b \in Int PROVE Max({a, b}) = IF a >= b THEN a ELSE b
  OBVIOUS
<1>1. \A x \in {a, b} : (\A y \in {a, b} : x >= y) <=> x = IF a >= b THEN a ELSE b
  OBVIOUS
<1>. QED
  BY <1>1 DEF Max

\* The smaller of two numbers.
LEMMA MinOfTwo == \A a, b \in Int : Min({a, b}) = IF a <= b THEN a ELSE b
<1> SUFFICES ASSUME NEW a \in Int, NEW b \in Int PROVE Min({a, b}) = IF a <= b THEN a ELSE b
  OBVIOUS
<1>1. \A x \in {a, b} : (\A y \in {a, b} : x <= y) <=> x = IF a <= b THEN a ELSE b
  OBVIOUS
<1>. QED
  BY <1>1 DEF Min

\* However many rows and tokens, a launch has at most eight splits.
LEMMA SplitsBounded ==
  ASSUME NEW n \in Nat, NEW c \in Nat, NEW size \in {16, 32}
  PROVE  splitk_decode_splits(n, c, size) \in 1 .. SPLITK_MAX_SPLITS
<1>1. \A x \in Int : Clamp(x, 1, SPLITK_MAX_SPLITS) \in 1 .. SPLITK_MAX_SPLITS
  <2>1. ASSUME NEW x \in Int PROVE Clamp(x, 1, SPLITK_MAX_SPLITS) \in 1 .. SPLITK_MAX_SPLITS
    <3>1. Min({x, 8}) = IF x <= 8 THEN x ELSE 8
      BY MinOfTwo
    <3>2. Min({x, 8}) \in Int /\ Min({x, 8}) <= 8
      BY <3>1
    <3> HIDE <3>1
    <3>3. Max({1, Min({x, 8})}) = IF 1 >= Min({x, 8}) THEN 1 ELSE Min({x, 8})
      BY <3>2, MaxOfTwo
    <3>. QED
      BY <3>2, <3>3 DEF Clamp, SPLITK_MAX_SPLITS
  <2>. QED
    BY <2>1
<1>2. splitk_decode_splits_ps16(n, c) \in 1 .. SPLITK_MAX_SPLITS
  BY DEF splitk_decode_splits_ps16, SPLITK_MAX_SPLITS
<1>3. splitk_decode_splits_ps32_legacy(n, c) \in 1 .. SPLITK_MAX_SPLITS
  <2>1. CASE c < 1024
    BY <2>1 DEF splitk_decode_splits_ps32_legacy, SPLITK_MAX_SPLITS
  <2>2. CASE ~(c < 1024)
    <3> DEFINE o == Clamp(CeilDiv(64, Max({n * 8, 1})), 1, SPLITK_MAX_SPLITS)
               p == Clamp(CeilDiv(c, 32) \div 8, 1, SPLITK_MAX_SPLITS)
    <3>1. o \in 1 .. SPLITK_MAX_SPLITS
      <4>1. Max({n * 8, 1}) = IF n * 8 >= 1 THEN n * 8 ELSE 1
        BY MaxOfTwo
      <4>2. Max({n * 8, 1}) \in Nat \ {0}
        BY <4>1
      <4>3. CeilDiv(64, Max({n * 8, 1})) \in Int
        BY <4>2 DEF CeilDiv
      <4>. QED
        BY <1>1, <4>3
    <3>2. p \in 1 .. SPLITK_MAX_SPLITS
      <4>1. CeilDiv(c, 32) \div 8 \in Int
        BY DEF CeilDiv
      <4>. QED
        BY <1>1, <4>1
    <3>3. splitk_decode_splits_ps32_legacy(n, c) = Max({Min({o, p}), 1})
      BY <2>2 DEF splitk_decode_splits_ps32_legacy
    <3> HIDE DEF o, p
    <3>4. o \in 1 .. 8 /\ p \in 1 .. 8
      BY <3>1, <3>2 DEF SPLITK_MAX_SPLITS
    <3>5. Min({o, p}) = IF o <= p THEN o ELSE p
      BY <3>4, MinOfTwo
    <3>6. Min({o, p}) \in 1 .. 8
      BY <3>4, <3>5
    <3>7. Max({Min({o, p}), 1}) = IF Min({o, p}) >= 1 THEN Min({o, p}) ELSE 1
      BY <3>6, MaxOfTwo
    <3>. QED
      BY <3>3, <3>6, <3>7 DEF SPLITK_MAX_SPLITS
  <2>. QED
    BY <2>1, <2>2
<1>4. 1 \in 1 .. SPLITK_MAX_SPLITS
  BY DEF SPLITK_MAX_SPLITS
<1>. QED
  BY <1>2, <1>3, <1>4 DEF splitk_decode_splits

--------------------------------------------------------------------------------
(* Attention: the rows of a step *)

Row == [slot : Slots, position : Nat, begin : Nat]

\* The rows of a launch are laid out as the kernels expect: slot by slot.
LEMMA RowsOfLaidOut ==
  ASSUME DispatchAssumption, length \in [Slots -> Nat],
         NEW S \in SUBSET Slots, S # {}, NEW count \in [S -> Nat \ {0}],
         NEW sequence, sequence = RowsOf(count)
  PROVE  /\ sequence \in Seq(Row) /\ sequence # << >>
         /\ LaidOut(sequence)
         /\ \A i \in DOMAIN sequence : /\ sequence[i].slot \in S
                                       /\ i - sequence[i].begin < count[sequence[i].slot]
<1>1. IsFiniteSet(S) /\ S \subseteq Nat /\ count \in [S -> Nat]
  BY FS_Subset DEF DispatchAssumption
<1> DEFINE N == Cardinality(RowTokens(count))
           L == Layout(count)
           before(s) == RowsBefore(count, s)
<1>. LaidInOrder(S, count)
  BY <1>1, LayoutIs
<1>2. N \in Nat /\ DOMAIN L = 1 .. N
  BY DEF LaidInOrder
<1>3. \A i \in DOMAIN L : \E s \in S, k \in Nat : k \in 1 .. count[s] /\ L[i] = <<s, k>> /\ i = before(s) + k
  BY DEF LaidInOrder
<1>4. \A s \in S, k \in Nat : k \in 1 .. count[s] =>
        before(s) + k \in DOMAIN L /\ L[before(s) + k] = <<s, k>>
  BY DEF LaidInOrder
<1>5. \A s \in S : before(s) \in Nat
  BY <1>1, RowsBeforeType
<1>6. \A s, t \in S : s < t => before(s) + count[s] <= before(t)
  <2>1. \A t \in S : t \in Nat
    BY <1>1
  <2>. QED
    BY <1>1, <2>1, RowsBeforeStep
<1>7. sequence = [i \in DOMAIN L |->
                    [slot |-> L[i][1], position |-> length[L[i][1]] + (L[i][2] - 1),
                     begin |-> i - (L[i][2] - 1)]]
  BY DEF RowsOf
<1> HIDE DEF L, N, before
<1>8. ASSUME NEW i \in 1 .. N
      PROVE  /\ sequence[i].slot \in S
             /\ sequence[i].begin = before(sequence[i].slot) + 1
             /\ sequence[i].begin \in 1 .. i
             /\ i - sequence[i].begin < count[sequence[i].slot]
             /\ sequence[i].position = length[sequence[i].slot] + (i - sequence[i].begin)
             /\ sequence[i] \in Row
  <2>2. PICK s \in S, k \in Nat : k \in 1 .. count[s] /\ L[i] = <<s, k>> /\ i = before(s) + k
    BY <1>2, <1>3
  <2>3. sequence[i] = [slot |-> s, position |-> length[s] + (k - 1), begin |-> i - (k - 1)]
    BY <1>2, <1>3, <1>7, <2>2
  <2>4. before(s) \in Nat /\ count[s] \in Nat /\ s \in Slots /\ length[s] \in Nat /\ k \in 1 .. count[s]
    BY <1>1, <1>5, <2>2
  <2>5. /\ i - (k - 1) = before(s) + 1 /\ i - (k - 1) \in 1 .. i /\ i - (i - (k - 1)) = k - 1
        /\ k - 1 < count[s] /\ length[s] + (k - 1) \in Nat /\ i - (k - 1) \in Nat
    BY <2>2, <2>4
  <2>. QED
    BY <2>3, <2>4, <2>5 DEF Row
<1>9. sequence \in Seq(Row) /\ DOMAIN sequence = 1 .. N /\ Len(sequence) = N
  <2>1. sequence \in [1 .. N -> Row]
    BY <1>2, <1>3, <1>7, <1>8
  <2>. QED
    BY <1>2, <1>3, <2>1, SeqDef
<1>10. N # 0
  <2>1. PICK s \in S : TRUE
    OBVIOUS
  <2>2. 1 \in Nat /\ 1 \in 1 .. count[s] /\ before(s) \in Nat
    BY <1>5
  <2>3. before(s) + 1 \in 1 .. N
    BY <1>2, <1>4, <2>2
  <2>. QED
    BY <1>2, <1>3, <2>3
<1>11. ASSUME NEW i \in 1 .. N, NEW j \in sequence[i].begin .. i
       PROVE  sequence[j].slot = sequence[i].slot
  <2> DEFINE s == sequence[i].slot
             k == j - before(s)
  <2>1. s \in S /\ sequence[i].begin = before(s) + 1 /\ sequence[i].begin \in 1 .. i
        /\ i - sequence[i].begin < count[s] /\ before(s) \in Nat /\ count[s] \in Nat
    BY <1>1, <1>5, <1>8
  <2> HIDE DEF s
  <2>2. k \in Nat /\ k \in 1 .. count[s] /\ before(s) + k = j
    BY <2>1
  <2> HIDE DEF k
  <2>3. j \in 1 .. N /\ L[j] = <<s, k>>
    BY <1>2, <1>4, <2>1, <2>2
  <2>4. sequence[j].slot = s
    BY <1>2, <1>3, <1>7, <2>3
  <2>. QED
    BY <2>4 DEF s
<1>12. \A s, t \in S : before(s) = before(t) => s = t
  <2>1. \A s \in S : s \in Nat /\ before(s) \in Nat /\ count[s] \in Nat \ {0}
    BY <1>1, <1>5
  <2>. QED
    BY <1>6, <2>1
<1>13. ASSUME NEW i \in 1 .. N, NEW j \in 1 .. N
       PROVE  sequence[j].slot = sequence[i].slot <=> sequence[j].begin = sequence[i].begin
  <2>1. /\ sequence[i].slot \in S /\ sequence[i].begin = before(sequence[i].slot) + 1
        /\ sequence[j].slot \in S /\ sequence[j].begin = before(sequence[j].slot) + 1
    BY <1>8
  <2>2. before(sequence[i].slot) \in Nat /\ before(sequence[j].slot) \in Nat
    BY <1>5, <2>1
  <2>3. sequence[j].begin = sequence[i].begin => before(sequence[i].slot) = before(sequence[j].slot)
    BY <2>1, <2>2
  <2>. QED
    BY <1>12, <2>1, <2>3
<1>14. LaidOut(sequence)
  BY <1>8, <1>9, <1>11, <1>13 DEF LaidOut
<1>. QED
  BY <1>8, <1>9, <1>10, <1>14

\* The longest context of a step is a number of tokens.
LEMMA ContextType ==
  ASSUME NEW sequence \in Seq(Row), sequence # << >>
  PROVE  ContextTokens(sequence) \in Nat
<1> DEFINE P == {row.position : row \in Range(sequence)}
           f == [i \in 1 .. Len(sequence) |-> sequence[i].position]
<1>1. Len(sequence) \in Nat /\ DOMAIN sequence = 1 .. Len(sequence) /\ sequence \in [1 .. Len(sequence) -> Row]
  BY LenProperties
<1>2. P = {sequence[i].position : i \in 1 .. Len(sequence)}
  BY <1>1 DEF Range
<1>3. f \in Surjection(1 .. Len(sequence), P)
  BY <1>2 DEF Surjection
<1>4. IsFiniteSet(1 .. Len(sequence))
  BY <1>1, FS_Interval
<1>5. IsFiniteSet(P)
  BY <1>3, <1>4, FS_Surjection
<1>6. P \subseteq Nat
  BY <1>1, <1>2 DEF Row
<1>7. 1 \in 1 .. Len(sequence)
  BY <1>1, EmptySeq
<1>8. P # {}
  BY <1>2, <1>7
<1> HIDE DEF P
<1>9. Max(P) \in Nat
  BY <1>5, <1>6, <1>8, MaxOfFinite
<1>. QED
  BY <1>9 DEF ContextTokens, P

\* As many segments as rows: every row is a segment of its own.
LEMMA AllLone ==
  ASSUME NEW sequence \in Seq(Row), LaidOut(sequence), Segments(sequence) = Len(sequence)
  PROVE  LoneRows(sequence)
<1> DEFINE B == {row.begin : row \in Range(sequence)}
           f == [i \in 1 .. Len(sequence) |-> sequence[i].begin]
<1>1. Len(sequence) \in Nat /\ DOMAIN sequence = 1 .. Len(sequence)
  BY LenProperties
<1>2. B = {sequence[i].begin : i \in 1 .. Len(sequence)}
  BY <1>1 DEF Range
<1>3. f \in Surjection(1 .. Len(sequence), B)
  BY <1>2 DEF Surjection
<1>4. 1 \in Int /\ Len(sequence) \in Int /\ (1 > Len(sequence) => Len(sequence) = 0)
      /\ Len(sequence) - 1 + 1 = Len(sequence)
  BY <1>1
<1>5. IsFiniteSet(1 .. Len(sequence))
      /\ Cardinality(1 .. Len(sequence)) = IF 1 > Len(sequence) THEN 0 ELSE Len(sequence) - 1 + 1
  BY <1>4, FS_Interval, Zenon
<1>6. Cardinality(B) = Cardinality(1 .. Len(sequence))
  BY <1>4, <1>5 DEF Segments
<1>7. f \in Injection(1 .. Len(sequence), B)
  BY <1>3, <1>5, <1>6, FS_Surjection
<1>8. \A i, j \in 1 .. Len(sequence) : sequence[i].begin = sequence[j].begin => i = j
  BY <1>7 DEF Injection, IsInjective
<1>9. ASSUME NEW i \in DOMAIN sequence PROVE sequence[i].begin = i
  <2>1. /\ sequence[i].begin \in 1 .. i /\ i \in 1 .. Len(sequence)
        /\ \A j \in sequence[i].begin .. i : sequence[j].slot = sequence[i].slot
        /\ \A j \in DOMAIN sequence : sequence[j].slot = sequence[i].slot <=> sequence[j].begin = sequence[i].begin
    BY <1>1 DEF LaidOut
  <2>2. sequence[i].begin \in sequence[i].begin .. i /\ sequence[i].begin \in DOMAIN sequence
    BY <1>1, <2>1
  <2>3. sequence[sequence[i].begin].begin = sequence[i].begin
    BY <2>1, <2>2
  <2>. QED
    BY <1>1, <1>8, <2>1, <2>2, <2>3
<1>. QED
  BY <1>9 DEF LoneRows

\* The first row begins the first segment; the rows of one slot are one segment.
LEMMA FirstSegment ==
  ASSUME NEW sequence \in Seq(Row), LaidOut(sequence), sequence # << >>
  PROVE  /\ 1 \in DOMAIN sequence /\ sequence[1].begin = 1
         /\ (\A i, j \in DOMAIN sequence : sequence[i].slot = sequence[j].slot)
              => \A i \in DOMAIN sequence : sequence[i].begin = 1
<1>1. 1 \in DOMAIN sequence
  BY LenProperties, EmptySeq
<1>2. sequence[1].begin \in 1 .. 1
  BY <1>1 DEF LaidOut
<1>3. ASSUME \A i, j \in DOMAIN sequence : sequence[i].slot = sequence[j].slot, NEW i \in DOMAIN sequence
      PROVE  sequence[i].begin = 1
  BY <1>1, <1>2, <1>3 DEF LaidOut
<1>. QED
  BY <1>1, <1>2, <1>3

\* A single segment begins with the first row.
LEMMA OneSegment ==
  ASSUME NEW sequence \in Seq(Row), LaidOut(sequence), sequence # << >>, Segments(sequence) = 1
  PROVE  \A i \in DOMAIN sequence : sequence[i].begin = 1
<1> DEFINE B == {row.begin : row \in Range(sequence)}
           f == [i \in 1 .. Len(sequence) |-> sequence[i].begin]
<1>1. Len(sequence) \in Nat /\ DOMAIN sequence = 1 .. Len(sequence)
  BY LenProperties
<1>2. B = {sequence[i].begin : i \in 1 .. Len(sequence)}
  BY <1>1 DEF Range
<1>3. f \in Surjection(1 .. Len(sequence), B)
  BY <1>2 DEF Surjection
<1>4. IsFiniteSet(1 .. Len(sequence))
  BY <1>1, FS_Interval
<1>5. IsFiniteSet(B)
  BY <1>3, <1>4, FS_Surjection
<1>6. \E x : B = {x}
  BY <1>5, FS_Singleton DEF Segments
<1>7. 1 \in DOMAIN sequence /\ sequence[1].begin = 1
  BY FirstSegment
<1>. QED
  BY <1>1, <1>2, <1>6, <1>7

\* What a step launches: the fused kernel by itself, or another behind the writes.
GoodRoute(route, who, sequence) ==
  \/ route = <<Kernel("fused", 1)>> /\ Suits(Kernel("fused", 1), who, sequence)
  \/ \E k \in [kind : Kinds, splits : 1 .. SPLITK_MAX_SPLITS] :
       route = <<Write, k>> /\ k.kind \notin {"write", "fused"} /\ Suits(k, who, sequence)

\* A kernel behind the writes of the step.
LEMMA WriteFirst ==
  ASSUME NEW kind \in Kinds, NEW n \in 1 .. SPLITK_MAX_SPLITS, NEW who, NEW sequence,
         kind \notin {"write", "fused"}, Suits(Kernel(kind, n), who, sequence)
  PROVE  GoodRoute(<<Write, Kernel(kind, n)>>, who, sequence)
<1> DEFINE k == Kernel(kind, n)
<1>1. k \in [kind : Kinds, splits : 1 .. SPLITK_MAX_SPLITS] /\ k.kind = kind
  BY DEF Kernel
<1>2. k.kind \notin {"write", "fused"} /\ Suits(k, who, sequence)
  BY <1>1
<1>3. <<Write, Kernel(kind, n)>> = <<Write, k>>
  OBVIOUS
<1> HIDE DEF k
<1>. QED
  BY <1>1, <1>2, <1>3, Zenon DEF GoodRoute

\* A route that reads the cache suits any rows.
LEMMA PagedGood ==
  ASSUME NEW who, NEW sequence, NEW kind \in {"paged", "hybrid"}
  PROVE  GoodRoute(<<Write, Kernel(kind, 1)>>, who, sequence)
<1>1. kind \in Kinds /\ 1 \in 1 .. SPLITK_MAX_SPLITS /\ kind \notin {"write", "fused"}
  BY DEF SPLITK_MAX_SPLITS, Kinds
<1>2. Suits(Kernel(kind, 1), who, sequence)
  BY DEF Suits, Kernel
<1>. QED
  BY <1>1, <1>2, WriteFirst

\* One that takes the segments as whole prompts.
LEMMA PrefillGood ==
  ASSUME NEW who, NEW sequence, flash \in BOOLEAN, sequence # << >>,
         \A i \in DOMAIN sequence : sequence[i].begin = 1, sequence[1].position = 0
  PROVE  GoodRoute(<<Write, Prefill>>, who, sequence)
<1> DEFINE kind == IF flash THEN "flash" ELSE "prefill"
<1>1. FromStart(sequence)
  BY DEF FromStart
<1>2. kind \in Kinds /\ 1 \in 1 .. SPLITK_MAX_SPLITS /\ kind \in {"flash", "prefill"}
  BY DEF SPLITK_MAX_SPLITS, Kinds
<1>3. Prefill = Kernel(kind, 1)
  BY DEF Prefill
<1> HIDE DEF kind
<1>4. Suits(Kernel(kind, 1), who, sequence)
  BY <1>1, <1>2 DEF Suits, Kernel
<1>5. kind \notin {"write", "fused"}
  BY <1>2
<1>. QED
  BY <1>2, <1>3, <1>4, <1>5, WriteFirst

\* The fused kernel, if every row is alone.
LEMMA FusedGood ==
  ASSUME NEW who, NEW sequence, ~RacingRows(who, sequence) => LoneRows(sequence)
  PROVE  GoodRoute(<<Kernel("fused", 1)>>, who, sequence)
BY DEF GoodRoute, Suits, Kernel, SPLITK_MAX_SPLITS

\* Whoever runs a step, its kernels are made for its rows.
LEMMA RouteGood ==
  ASSUME DispatchAssumption, page_size \in PageSizes, flash \in BOOLEAN, length \in [Slots -> Nat],
         NEW who \in Callers, NEW S \in SUBSET Slots, S # {}, NEW count \in [S -> Nat \ {0}],
         Brings(who, count), NEW sequence, sequence = RowsOf(count)
  PROVE  GoodRoute(Route(who, sequence), who, sequence)
<1>1. /\ sequence \in Seq(Row) /\ sequence # << >>
      /\ LaidOut(sequence)
      /\ \A i \in DOMAIN sequence : /\ sequence[i].slot \in S
                                    /\ i - sequence[i].begin < count[sequence[i].slot]
  BY RowsOfLaidOut
<1>2. page_size \in {16, 32} /\ who \in {"single", "verify", "append", "batch", "executor"}
  BY DEF DispatchAssumption
<1>3. DOMAIN sequence = 1 .. Len(sequence) /\ Len(sequence) \in Nat
  BY <1>1, LenProperties
<1>4. \A i \in DOMAIN sequence : sequence[i].begin \in 1 .. i
  BY <1>1 DEF LaidOut
<1>5. 1 \in DOMAIN sequence /\ sequence[1].begin = 1
  BY <1>1, FirstSegment
<1>6. CASE who \in {"single", "append"}
  <2>1. PICK s \in Slots : /\ DOMAIN count = {s}
                           /\ who = "single" => length[s] = 0 \/ count[s] = 1
    BY <1>6 DEF Brings
  <2>2. S = {s} /\ \A i \in DOMAIN sequence : sequence[i].slot = s
    BY <1>1, <2>1
  <2>3. \A i \in DOMAIN sequence : sequence[i].begin = 1
    BY <1>1, <2>2, FirstSegment
  <2>4. Route(who, sequence) = SingleRoute(sequence)
    BY <1>6 DEF Route
  <2>5. CASE sequence[1].position = 0 /\ Len(sequence) > 1
    <3>1. Route(who, sequence) = <<Write, Prefill>>
      BY <2>4, <2>5 DEF SingleRoute
    <3>2. sequence[1].position = 0 /\ sequence # << >> /\ flash \in BOOLEAN
      BY <1>1, <2>5
    <3>3. GoodRoute(<<Write, Prefill>>, who, sequence)
      BY <2>3, <3>2, PrefillGood
    <3>. QED
      BY <3>1, <3>3
  <2>6. CASE ~(sequence[1].position = 0 /\ Len(sequence) > 1)
    <3>1. CASE should_use_mok_one_kernel(page_size, ContextTokens(sequence), 1)
      <4>1. ASSUME ~RacingRows(who, sequence) PROVE LoneRows(sequence)
        <5>1. who = "single"
          BY <1>6, <3>1, <4>1 DEF RacingRows
        <5>2. CASE count[s] = 1
          <6>1. ASSUME NEW i \in DOMAIN sequence PROVE sequence[i].begin = i
            <7>1. i - 1 < 1 /\ i \in 1 .. Len(sequence)
              BY <1>1, <1>3, <2>2, <2>3, <5>2
            <7>2. i = 1
              BY <1>3, <7>1
            <7>. QED
              BY <2>3, <7>2
          <6>. QED
            BY <6>1 DEF LoneRows
        <5>3. CASE length[s] = 0
          <6>1. sequence[1].position = length[s] + (1 - 1)
            BY <1>1, <1>5, <2>2 DEF LaidOut
          <6>2. ~(Len(sequence) > 1)
            BY <2>6, <5>3, <6>1
          <6>3. DOMAIN sequence = {1}
            BY <1>3, <1>5, <6>2
          <6>. QED
            BY <2>3, <6>3 DEF LoneRows
        <5>. QED
          BY <2>1, <5>1, <5>2, <5>3
      <4>2. Route(who, sequence) = <<Kernel("fused", 1)>>
        BY <2>4, <2>6, <3>1 DEF SingleRoute
      <4>. QED
        BY <4>1, <4>2, FusedGood
    <3>2. CASE ~should_use_mok_one_kernel(page_size, ContextTokens(sequence), 1)
      <4>1. Route(who, sequence) = <<Write, Kernel("paged", 1)>>
        BY <2>4, <2>6, <3>2 DEF SingleRoute
      <4>. QED
        BY <4>1, PagedGood
    <3>. QED
      BY <3>1, <3>2
  <2>. QED
    BY <2>5, <2>6
<1>7. CASE who = "verify"
  <2>1. Route(who, sequence) = <<Write, Kernel("paged", 1)>>
    BY <1>7 DEF Route, VerifyRoute
  <2>. QED
    BY <2>1, PagedGood
<1>8. CASE who = "batch"
  <2>1. Route(who, sequence) = BatchRoute(sequence)
    BY <1>8 DEF Route
  <2>2. CASE Segments(sequence) = Len(sequence)
    <3>1. LoneRows(sequence)
      BY <1>1, <2>2, AllLone
    <3>2. Route(who, sequence) \in {<<Kernel("fused", 1)>>, <<Write, Kernel("paged", 1)>>}
      BY <2>1, <2>2 DEF BatchRoute
    <3>. QED
      BY <3>1, <3>2, FusedGood, PagedGood
  <2>3. CASE Segments(sequence) # Len(sequence)
    <3>1. CASE Segments(sequence) = 1 /\ sequence[1].position = 0
      <4>1. Route(who, sequence) = <<Write, Prefill>>
        BY <2>1, <2>3, <3>1 DEF BatchRoute
      <4>2. \A i \in DOMAIN sequence : sequence[i].begin = 1
        BY <1>1, <3>1, OneSegment
      <4>. QED
        BY <1>1, <3>1, <4>1, <4>2, PrefillGood
    <3>2. CASE /\ ~(Segments(sequence) = 1 /\ sequence[1].position = 0)
               /\ Segments(sequence) > 1 /\ flash
               /\ \A row \in Range(sequence) : sequence[row.begin].position = 0
      <4>1. Route(who, sequence) = <<Write, Kernel("segmented", 1)>>
        BY <2>1, <2>3, <3>2 DEF BatchRoute
      <4>2. FromStart(sequence)
        BY <3>2 DEF FromStart, Range
      <4>3. GoodRoute(<<Write, Kernel("segmented", 1)>>, who, sequence)
        <5>1. "segmented" \in Kinds /\ 1 \in 1 .. SPLITK_MAX_SPLITS /\ "segmented" \notin {"write", "fused"}
          BY DEF SPLITK_MAX_SPLITS, Kinds
        <5>2. Suits(Kernel("segmented", 1), who, sequence)
          BY <4>2 DEF Suits, Kernel
        <5>. QED
          BY <5>1, <5>2, WriteFirst
      <4>. QED
        BY <4>1, <4>3
    <3>3. CASE /\ ~(Segments(sequence) = 1 /\ sequence[1].position = 0)
               /\ ~(/\ Segments(sequence) > 1 /\ flash
                    /\ \A row \in Range(sequence) : sequence[row.begin].position = 0)
      <4>1. Route(who, sequence) = <<Write, Kernel("hybrid", 1)>>
        BY <2>1, <2>3, <3>3 DEF BatchRoute
      <4>. QED
        BY <4>1, PagedGood
    <3>. QED
      BY <3>1, <3>2, <3>3
  <2>. QED
    BY <2>2, <2>3
<1>9. CASE who = "executor"
  <2> DEFINE splits == splitk_decode_splits(Len(sequence), ContextTokens(sequence), page_size)
  <2>1. Route(who, sequence) = ExecutorRoute(sequence)
    BY <1>9 DEF Route
  <2>2. \A s \in S : count[s] = 1
    BY <1>9 DEF Brings, Range
  <2>3. LoneRows(sequence)
    <3>1. ASSUME NEW i \in DOMAIN sequence PROVE sequence[i].begin = i
      <4>1. i - sequence[i].begin < 1 /\ sequence[i].begin \in 1 .. i /\ i \in 1 .. Len(sequence)
        BY <1>1, <1>3, <1>4, <2>2
      <4>. QED
        BY <1>3, <4>1
    <3>. QED
      BY <3>1 DEF LoneRows
  <2>4. splits \in 1 .. SPLITK_MAX_SPLITS
    BY <1>1, <1>2, <1>3, ContextType, SplitsBounded
  <2>5. CASE should_use_mok_one_kernel(page_size, ContextTokens(sequence), Len(sequence))
    <3>1. Route(who, sequence) = <<Kernel("fused", 1)>>
      BY <2>1, <2>5 DEF ExecutorRoute
    <3>. QED
      BY <2>3, <3>1, FusedGood
  <2>6. CASE ~should_use_mok_one_kernel(page_size, ContextTokens(sequence), Len(sequence))
    <3>1. Route(who, sequence) = <<Write, Kernel(IF splits > 1 THEN "splitk" ELSE "paged", splits)>>
      BY <2>1, <2>6 DEF ExecutorRoute
    <3> HIDE DEF splits
    <3>2. CASE splits > 1
      <4>1. Route(who, sequence) = <<Write, Kernel("splitk", splits)>> /\ splits \in 2 .. SPLITK_MAX_SPLITS
        BY <2>4, <3>1, <3>2 DEF SPLITK_MAX_SPLITS
      <4>2. GoodRoute(<<Write, Kernel("splitk", splits)>>, who, sequence)
        <5>1. "splitk" \in Kinds /\ "splitk" \notin {"write", "fused"}
          BY DEF Kinds
        <5>2. Suits(Kernel("splitk", splits), who, sequence)
          BY <2>3, <4>1 DEF Suits, Kernel
        <5>. QED
          BY <2>4, <5>1, <5>2, WriteFirst
      <4>. QED
        BY <4>1, <4>2
    <3>3. CASE ~(splits > 1)
      <4>1. Route(who, sequence) = <<Write, Kernel("paged", 1)>>
        BY <2>4, <3>1, <3>3 DEF SPLITK_MAX_SPLITS
      <4>. QED
        BY <4>1, PagedGood
    <3>. QED
      BY <3>2, <3>3
  <2>. QED
    BY <2>5, <2>6
<1>. QED
  BY <1>2, <1>6, <1>7, <1>8, <1>9

--------------------------------------------------------------------------------
(* Attention: what a row reads *)

\* The parts of an answer are the row's past, each position in one of them.
Covers(parts, row) ==
  /\ UNION Range(parts) = {row.slot} \X (0 .. row.position)
  /\ \A j, k \in DOMAIN parts : j # k => parts[j] \cap parts[k] = {}

\* The past as a single part.
LEMMA OnePart ==
  ASSUME NEW row, NEW P, P = {row.slot} \X (0 .. row.position)
  PROVE  Covers(<<P>>, row)
<1> DEFINE parts == <<P>>
<1>1. DOMAIN parts = {1} /\ parts[1] = P
  OBVIOUS
<1> HIDE DEF parts
<1>2. Range(parts) = {P}
  BY <1>1 DEF Range
<1>. QED
  BY <1>1, <1>2 DEF Covers, parts

\* The past as two parts.
LEMMA TwoParts ==
  ASSUME NEW row, NEW P, NEW Q, P \cup Q = {row.slot} \X (0 .. row.position), P \cap Q = {}
  PROVE  Covers(<<P, Q>>, row)
<1> DEFINE parts == <<P, Q>>
<1>1. DOMAIN parts = {1, 2} /\ parts[1] = P /\ parts[2] = Q
  OBVIOUS
<1> HIDE DEF parts
<1>2. Range(parts) = {P, Q}
  BY <1>1 DEF Range
<1>. QED
  BY <1>1, <1>2 DEF Covers, parts

\* The pages a block takes hold these positions of the row's past.
LEMMA PageRangeIs ==
  ASSUME page_size \in {16, 32}, NEW row \in Row, NEW first \in Nat, NEW end \in Nat
  PROVE  PageRange(row, first, end) =
           ({row.slot} \X {x \in 0 .. row.position : first <= x \div page_size /\ x \div page_size < end})
             \ unwritten
<1> DEFINE to == Min({end * page_size, row.position + 1})
<1>1. row.position \in Nat
  BY DEF Row
<1>2. end * page_size \in Nat /\ row.position + 1 \in Nat
  BY <1>1
<1>3. to = IF end * page_size <= row.position + 1 THEN end * page_size ELSE row.position + 1
  <2>1. end * page_size \in Int /\ row.position + 1 \in Int
    BY <1>2
  <2>. QED
    BY <2>1, MinOfTwo
<1>4. to \in Nat
  BY <1>2, <1>3
<1> HIDE DEF to
<1>5. ASSUME NEW x \in Nat
      PROVE  x \in first * page_size .. to - 1
               <=> x <= row.position /\ first <= x \div page_size /\ x \div page_size < end
  <2>1. CASE page_size = 16
    BY <1>1, <1>3, <1>4, <2>1
  <2>2. CASE page_size = 32
    BY <1>1, <1>3, <1>4, <2>2
  <2>. QED
    BY <2>1, <2>2
<1>6. first * page_size \in Nat
  OBVIOUS
<1>7. first * page_size .. to - 1
        = {x \in 0 .. row.position : first <= x \div page_size /\ x \div page_size < end}
  BY <1>1, <1>4, <1>5, <1>6
<1>. QED
  BY <1>7 DEF PageRange, Cached, to

\* All pages of a row hold its past.
LEMMA PagedCovers ==
  ASSUME page_size \in {16, 32}, NEW row \in Row, unwritten = {}
  PROVE  Covers(<<PageRange(row, 0, PagesOf(row))>>, row)
<1>1. row.position \in Nat
  BY DEF Row
<1>2. PagesOf(row) = row.position \div page_size + 1 /\ PagesOf(row) \in Nat /\ 0 \in Nat
  BY <1>1 DEF PagesOf
<1>3. \A x \in 0 .. row.position : 0 <= x \div page_size /\ x \div page_size < row.position \div page_size + 1
  <2>1. CASE page_size = 16
    BY <1>1, <2>1
  <2>2. CASE page_size = 32
    BY <1>1, <2>2
  <2>. QED
    BY <2>1, <2>2
<1>4. {x \in 0 .. row.position : 0 <= x \div page_size /\ x \div page_size < PagesOf(row)} = 0 .. row.position
  BY <1>2, <1>3
<1>5. PageRange(row, 0, PagesOf(row)) = {row.slot} \X (0 .. row.position)
  BY <1>2, <1>4, PageRangeIs
<1>. QED
  BY <1>5, OnePart

\* Cutting so many pages into so many splits cuts them into consecutive ranges.
LEMMA CutsAscend ==
  ASSUME NEW pages \in Nat, NEW n \in 2 .. SPLITK_MAX_SPLITS
  PROVE  /\ \A s \in 0 .. n : (pages * s) \div n \in Nat
         /\ (pages * 0) \div n = 0 /\ (pages * n) \div n = pages
         /\ \A s, t \in 0 .. n : s <= t => (pages * s) \div n <= (pages * t) \div n
<1>1. n \in {2, 3, 4, 5, 6, 7, 8}
  BY DEF SPLITK_MAX_SPLITS
<1>2. \A a, b \in Nat : a <= b => a \div n <= b \div n /\ a \div n \in Nat
  BY <1>1
<1>3. \A s, t \in 0 .. n : s \in Nat /\ t \in Nat /\ pages * s \in Nat /\ pages * t \in Nat
  OBVIOUS
<1>4. \A s, t \in 0 .. n : s <= t => pages * s <= pages * t
  <2>1. ASSUME NEW s \in 0 .. n, NEW t \in 0 .. n, s <= t PROVE pages * s <= pages * t
    <3>1. s * pages <= t * pages
      BY <1>3, <2>1, ScaleUp
    <3>2. s * pages = pages * s /\ t * pages = pages * t
      BY <1>3
    <3>. QED
      BY <3>1, <3>2
  <2>. QED
    BY <2>1
<1>5. \A s, t \in 0 .. n : s <= t => (pages * s) \div n <= (pages * t) \div n
  BY <1>2, <1>3, <1>4
<1>6. \A s \in 0 .. n : (pages * s) \div n \in Nat
  BY <1>2, <1>3
<1>7. (pages * 0) \div n = 0 /\ (pages * n) \div n = pages
  BY <1>1
<1>. QED
  BY <1>5, <1>6, <1>7

\* The splits of a row take each of its pages once.
LEMMA SplitCovers ==
  ASSUME page_size \in {16, 32}, NEW row \in Row, unwritten = {}, NEW n \in 2 .. SPLITK_MAX_SPLITS
  PROVE  Covers(SplitParts(row, n), row)
<1> DEFINE pages == PagesOf(row)
           cut(s) == (pages * s) \div n
           held(s) == {x \in 0 .. row.position : cut(s - 1) <= x \div page_size /\ x \div page_size < cut(s)}
           parts == SplitParts(row, n)
<1>1. row.position \in Nat /\ n \in Nat /\ n \in 2 .. 8
  BY DEF Row, SPLITK_MAX_SPLITS
<1>2. pages = row.position \div page_size + 1 /\ pages \in Nat
  BY <1>1 DEF PagesOf
<1>3. \A x \in 0 .. row.position : x \div page_size \in Nat /\ x \div page_size < pages
  <2>1. CASE page_size = 16
    BY <1>1, <1>2, <2>1
  <2>2. CASE page_size = 32
    BY <1>1, <1>2, <2>2
  <2>. QED
    BY <2>1, <2>2
<1>4. DOMAIN parts = 1 .. n
      /\ \A s \in 1 .. n : parts[s] = PageRange(row, cut(s - 1), cut(s))
  BY DEF SplitParts
<1> HIDE DEF pages, parts
<1>5. /\ \A s \in 0 .. n : cut(s) \in Nat
      /\ cut(0) = 0 /\ cut(n) = pages
      /\ \A s, t \in 0 .. n : s <= t => cut(s) <= cut(t)
  BY <1>2, CutsAscend
<1> HIDE DEF cut
<1>6. \A s \in 1 .. n : s \in 0 .. n /\ s - 1 \in 0 .. n /\ cut(s - 1) \in Nat /\ cut(s) \in Nat
  BY <1>1, <1>5
<1>7. \A s \in 1 .. n : parts[s] = {row.slot} \X held(s)
  BY <1>4, <1>6, PageRangeIs
<1>8. ASSUME NEW x \in 0 .. row.position
      PROVE  \E s \in 1 .. n : x \in held(s)
  <2> DEFINE p == x \div page_size
             above == {s \in 0 .. n : p < cut(s)}
  <2>1. p \in Nat /\ p < pages
    BY <1>3
  <2> HIDE DEF p
  <2>2. n \in above /\ above \subseteq Nat /\ 0 \notin above
    BY <1>1, <1>5, <2>1
  <2>3. PICK s \in above : \A t \in above : s <= t
    BY <2>2, LeastExists
  <2>4. s \in 1 .. n /\ p < cut(s)
    BY <1>1, <2>2
  <2>5. s - 1 \in 0 .. n /\ s - 1 \notin above /\ cut(s - 1) \in Nat
    BY <1>1, <1>6, <2>3, <2>4
  <2>6. cut(s - 1) <= p
    BY <2>1, <2>5
  <2>. QED
    BY <2>4, <2>6 DEF p
<1>9. ASSUME NEW s \in 1 .. n, NEW t \in 1 .. n, s # t
      PROVE  held(s) \cap held(t) = {}
  <2>1. ASSUME NEW u \in 1 .. n, NEW v \in 1 .. n, u < v, NEW x \in 0 .. row.position
        PROVE  ~(x \in held(u) /\ x \in held(v))
    <3>1. u \in 0 .. n /\ v - 1 \in 0 .. n /\ u <= v - 1
      BY <1>1, <2>1
    <3>2. cut(u) <= cut(v - 1) /\ cut(u) \in Nat /\ cut(v - 1) \in Nat
      BY <1>5, <3>1
    <3>3. x \div page_size \in Nat
      BY <1>3
    <3>. QED
      BY <3>2, <3>3
  <2>2. s < t \/ t < s
    BY <1>1, <1>9
  <2>. QED
    BY <2>1, <2>2
<1> HIDE DEF held
<1>10. \A s \in 1 .. n : held(s) \subseteq 0 .. row.position
  BY DEF held
<1>11. UNION Range(parts) = {row.slot} \X (0 .. row.position)
  <2>1. Range(parts) = {parts[s] : s \in 1 .. n}
    BY <1>4 DEF Range
  <2>. QED
    BY <1>7, <1>8, <1>10, <2>1
<1>12. \A j, k \in DOMAIN parts : j # k => parts[j] \cap parts[k] = {}
  BY <1>4, <1>7, <1>9
<1>. QED
  BY <1>11, <1>12 DEF Covers, parts

\* The tiles of a row reach up to it.
LEMMA TiledIs ==
  ASSUME NEW begin \in Nat, NEW i \in Nat, begin <= i, NEW count \in Nat, i - begin < count,
         NEW query_tile \in {2, 16}, NEW key_tile \in {16, 32}
  PROVE  TiledRows(i, begin, count, query_tile, key_tile) = begin .. i
<1> DEFINE r == i - begin
           q == (r \div query_tile) * query_tile + query_tile
           bound == Min({q, count})
           reach == CeilDiv(bound, key_tile) * key_tile
<1>1. r \in Nat /\ r < count
  OBVIOUS
<1>2. q \in Nat /\ r < q
  <2>1. CASE query_tile = 2
    BY <1>1, <2>1
  <2>2. CASE query_tile = 16
    BY <1>1, <2>2
  <2>. QED
    BY <2>1, <2>2
<1> HIDE DEF q
<1>3. bound \in Nat /\ r < bound
  <2>1. bound = IF q <= count THEN q ELSE count
    BY <1>2, MinOfTwo
  <2>. QED
    BY <1>1, <1>2, <2>1
<1> HIDE DEF bound
<1>4. reach \in Nat /\ bound <= reach
  <2>1. CASE key_tile = 16
    BY <1>3, <2>1 DEF CeilDiv
  <2>2. CASE key_tile = 32
    BY <1>3, <2>2 DEF CeilDiv
  <2>. QED
    BY <2>1, <2>2
<1>5. TiledRows(i, begin, count, query_tile, key_tile)
        = {begin + k : k \in {k \in 0 .. reach - 1 : k <= r /\ k < count}}
  BY DEF TiledRows, bound, q
<1> HIDE DEF reach
<1>6. {k \in 0 .. reach - 1 : k <= r /\ k < count} = 0 .. r
  BY <1>1, <1>3, <1>4
<1>7. \A x : x \in begin .. i <=> \E k \in 0 .. r : x = begin + k
  <2>1. ASSUME NEW x \in begin .. i PROVE x - begin \in 0 .. r /\ x = begin + (x - begin)
    OBVIOUS
  <2>2. \A k \in 0 .. r : begin + k \in begin .. i
    OBVIOUS
  <2>. QED
    BY <2>1, <2>2
<1>. QED
  BY <1>5, <1>6, <1>7

\* The rows of a segment up to one of them hold its positions since the step began.
LEMMA KeysOfIs ==
  ASSUME rows \in Seq(Row), LaidOut(rows), length \in [Slots -> Nat], NEW i \in DOMAIN rows
  PROVE  KeysOf(rows[i].begin .. i) = {rows[i].slot} \X (length[rows[i].slot] .. rows[i].position)
<1> DEFINE b == rows[i].begin
           s == rows[i].slot
<1>1. DOMAIN rows = 1 .. Len(rows) /\ Len(rows) \in Nat /\ rows[i] \in Row
  BY LenProperties
<1>2. b \in 1 .. i /\ i \in 1 .. Len(rows) /\ s \in Slots /\ length[s] \in Nat
      /\ rows[i].position = length[s] + (i - b)
  BY <1>1 DEF LaidOut, Row
<1>3. ASSUME NEW j \in b .. i
      PROVE  j \in DOMAIN rows /\ Key(rows[j]) = <<s, length[s] + (j - b)>>
  <2>1. j \in DOMAIN rows /\ rows[j].slot = s
    BY <1>1, <1>2 DEF LaidOut
  <2>2. rows[j].begin = b
    BY <2>1 DEF LaidOut
  <2>3. rows[j].position = length[s] + (j - b)
    BY <2>1, <2>2 DEF LaidOut
  <2>. QED
    BY <2>1, <2>3 DEF Key
<1> HIDE DEF b, s
<1>4. KeysOf(b .. i) = {<<s, length[s] + (j - b)>> : j \in b .. i}
  BY <1>3 DEF KeysOf
<1>5. ASSUME NEW x \in length[s] .. rows[i].position
      PROVE  b + (x - length[s]) \in b .. i /\ x = length[s] + ((b + (x - length[s])) - b)
  BY <1>1, <1>2
<1>6. \A j \in b .. i : length[s] + (j - b) \in length[s] .. rows[i].position
  BY <1>1, <1>2
<1>7. KeysOf(b .. i) = {s} \X (length[s] .. rows[i].position)
  BY <1>4, <1>5, <1>6
<1>. QED
  BY <1>7 DEF b, s

\* In a prompt from its start a row's past is its segment up to it.
LEMMA PastIs ==
  ASSUME rows \in Seq(Row), LaidOut(rows), length \in [Slots -> Nat], FromStart(rows),
         NEW i \in DOMAIN rows
  PROVE  KeysOf(rows[i].begin .. i) = {rows[i].slot} \X (0 .. rows[i].position)
<1> DEFINE b == rows[i].begin
           s == rows[i].slot
<1>1. DOMAIN rows = 1 .. Len(rows) /\ Len(rows) \in Nat /\ rows[i] \in Row
  BY LenProperties
<1>2. b \in 1 .. i /\ i \in 1 .. Len(rows) /\ s \in Slots /\ length[s] \in Nat
  BY <1>1 DEF LaidOut, Row
<1>3. b \in DOMAIN rows /\ b \in b .. i
  BY <1>1, <1>2
<1>4. rows[b].slot = s
  BY <1>3 DEF LaidOut
<1>5. rows[b].begin = b
  BY <1>3, <1>4 DEF LaidOut
<1>6. rows[b].position = length[s] + (b - b)
  BY <1>3, <1>4, <1>5 DEF LaidOut
<1>7. length[s] = 0
  BY <1>2, <1>6 DEF FromStart
<1>. QED
  BY <1>7, KeysOfIs

\* The kernels that take the step as one prompt.
LEMMA PrefillCovers ==
  ASSUME rows \in Seq(Row), LaidOut(rows), length \in [Slots -> Nat], FromStart(rows),
         \A i \in DOMAIN rows : rows[i].begin = 1, NEW i \in DOMAIN rows,
         NEW query_tile \in {2, 16}, NEW key_tile \in {16, 32}
  PROVE  Covers(<<KeysOf(TiledRows(i, 1, Len(rows), query_tile, key_tile))>>, rows[i])
<1>1. DOMAIN rows = 1 .. Len(rows) /\ Len(rows) \in Nat
  BY LenProperties
<1>2. 1 \in Nat /\ i \in Nat /\ 1 <= i /\ i - 1 < Len(rows)
  BY <1>1
<1>3. TiledRows(i, 1, Len(rows), query_tile, key_tile) = 1 .. i
  BY <1>1, <1>2, TiledIs
<1>4. KeysOf(1 .. i) = {rows[i].slot} \X (0 .. rows[i].position)
  BY PastIs
<1>. QED
  BY <1>3, <1>4, OnePart

\* A row is within its segment, and no segment is longer than the longest.
LEMMA SegmentLengths ==
  ASSUME rows \in Seq(Row), LaidOut(rows), NEW i \in DOMAIN rows
  PROVE  /\ SegmentLength(rows[i].begin) \in Nat /\ LongestSegment \in Nat
         /\ i - rows[i].begin < SegmentLength(rows[i].begin)
         /\ SegmentLength(rows[i].begin) <= LongestSegment
<1> DEFINE own(b) == {j \in DOMAIN rows : rows[j].begin = b}
           lengths == {SegmentLength(row.begin) : row \in Range(rows)}
           f == [j \in DOMAIN rows |-> SegmentLength(rows[j].begin)]
           b == rows[i].begin
<1>1. DOMAIN rows = 1 .. Len(rows) /\ Len(rows) \in Nat
  BY LenProperties
<1>2. 1 \in Int /\ Len(rows) \in Int
  BY <1>1
<1>3. IsFiniteSet(DOMAIN rows)
  BY <1>1, <1>2, FS_Interval
<1>4. \A c : IsFiniteSet(own(c)) /\ SegmentLength(c) = Cardinality(own(c)) /\ SegmentLength(c) \in Nat
  <2>1. ASSUME NEW c PROVE IsFiniteSet(own(c)) /\ Cardinality(own(c)) \in Nat
    <3>1. own(c) \in SUBSET DOMAIN rows
      OBVIOUS
    <3> HIDE DEF own
    <3>. QED
      BY <1>3, <3>1, FS_Subset, FS_CardinalityType
  <2>. QED
    BY <2>1 DEF SegmentLength
<1>5. b \in 1 .. i /\ i \in 1 .. Len(rows)
  BY <1>1 DEF LaidOut
<1>6. b .. i \in SUBSET own(b)
  <2>1. ASSUME NEW j \in b .. i PROVE j \in DOMAIN rows /\ rows[j].begin = b
    <3>1. j \in DOMAIN rows /\ rows[j].slot = rows[i].slot
      BY <1>1, <1>5 DEF LaidOut
    <3>. QED
      BY <3>1 DEF LaidOut
  <2>. QED
    BY <2>1
<1>7. Cardinality(b .. i) = i - b + 1
  <2>1. b \in Int /\ i \in Int /\ ~(b > i)
    BY <1>5
  <2>2. Cardinality(b .. i) = IF b > i THEN 0 ELSE i - b + 1
    BY <2>1, FS_Interval
  <2>. QED
    BY <2>1, <2>2
<1>8. Cardinality(b .. i) <= Cardinality(own(b))
  <2>1. IsFiniteSet(own(b))
    BY <1>4
  <2> HIDE DEF own
  <2>. QED
    BY <1>6, <2>1, FS_Subset
<1>9. SegmentLength(b) \in Nat /\ i - b < SegmentLength(b)
  <2>1. SegmentLength(b) \in Nat /\ i - b + 1 <= SegmentLength(b)
    BY <1>4, <1>7, <1>8
  <2>2. i \in Nat /\ b \in Nat
    BY <1>5
  <2> HIDE DEF b
  <2>. QED
    BY <2>1, <2>2
<1>10. lengths = {f[j] : j \in DOMAIN rows} /\ f \in Surjection(DOMAIN rows, lengths)
  BY DEF Range, Surjection
<1>11. IsFiniteSet(lengths)
  BY <1>3, <1>10, FS_Surjection
<1>12. lengths \subseteq Nat /\ SegmentLength(b) \in lengths
  BY <1>4 DEF Range
<1> HIDE DEF lengths, b
<1>13. Max(lengths) \in lengths /\ \A n \in lengths : n <= Max(lengths)
  BY <1>11, <1>12, MaxOfFinite
<1>14. LongestSegment = Max(lengths)
  BY DEF LongestSegment, lengths
<1>15. LongestSegment \in Nat /\ SegmentLength(b) <= LongestSegment
  BY <1>12, <1>13, <1>14
<1>. QED
  BY <1>9, <1>15 DEF b

\* The kernel of several prompts at once has a block for every row.
LEMMA SegmentedCovers ==
  ASSUME rows \in Seq(Row), LaidOut(rows), length \in [Slots -> Nat], FromStart(rows),
         NEW i \in DOMAIN rows
  PROVE  Covers(SegmentedParts(i), rows[i])
<1>1. DOMAIN rows = 1 .. Len(rows) /\ Len(rows) \in Nat
  BY LenProperties
<1>2. rows[i].begin \in 1 .. i /\ i \in 1 .. Len(rows)
  BY <1>1 DEF LaidOut
<1>3. rows[i].begin \in Nat /\ i \in Nat /\ rows[i].begin <= i
  BY <1>1, <1>2
<1>4. /\ SegmentLength(rows[i].begin) \in Nat /\ LongestSegment \in Nat
      /\ i - rows[i].begin < SegmentLength(rows[i].begin)
      /\ SegmentLength(rows[i].begin) <= LongestSegment
  BY SegmentLengths
<1>5. (i - rows[i].begin) \div 16 < CeilDiv(LongestSegment, 16)
  BY <1>3, <1>4 DEF CeilDiv
<1>6. TiledRows(i, rows[i].begin, SegmentLength(rows[i].begin), 16, 16) = rows[i].begin .. i
  BY <1>3, <1>4, TiledIs
<1>7. SegmentedParts(i) = <<KeysOf(rows[i].begin .. i)>>
  BY <1>5, <1>6 DEF SegmentedParts
<1>8. KeysOf(rows[i].begin .. i) = {rows[i].slot} \X (0 .. rows[i].position)
  BY PastIs
<1>. QED
  BY <1>7, <1>8, OnePart

\* The cached prefix and the rows of the step meet without a gap.
LEMMA HybridCovers ==
  ASSUME rows \in Seq(Row), LaidOut(rows), length \in [Slots -> Nat], unwritten = {},
         NEW i \in DOMAIN rows
  PROVE  Covers(HybridParts(i), rows[i])
<1> DEFINE b == rows[i].begin
           s == rows[i].slot
           P == {s} \X (0 .. length[s] - 1)
           Q == {s} \X (length[s] .. rows[i].position)
<1>1. DOMAIN rows = 1 .. Len(rows) /\ Len(rows) \in Nat /\ rows[i] \in Row
  BY LenProperties
<1>2. b \in 1 .. i /\ i \in 1 .. Len(rows) /\ s \in Slots /\ length[s] \in Nat
      /\ rows[i].position = length[s] + (i - b)
  BY <1>1 DEF LaidOut, Row
<1>3. ~(rows[i].position < i - b) /\ rows[i].position - (i - b) = length[s]
  BY <1>2
<1>4. KeysOf(b .. i) = Q
  BY KeysOfIs
<1>5. Cached(s, 0, length[s]) = P
  BY DEF Cached
<1>6. HybridParts(i) = <<P, Q>>
  BY <1>3, <1>4, <1>5 DEF HybridParts
<1>7. P \cup Q = {s} \X (0 .. rows[i].position) /\ P \cap Q = {}
  <2>1. /\ \A x : x \in 0 .. rows[i].position <=> x \in 0 .. length[s] - 1 \/ x \in length[s] .. rows[i].position
        /\ \A x : ~(x \in 0 .. length[s] - 1 /\ x \in length[s] .. rows[i].position)
    BY <1>2
  <2>. QED
    BY <2>1
<1> HIDE DEF P, Q
<1>. QED
  BY <1>6, <1>7, TwoParts

\* Whichever kernel reads the cache: every row attends to its whole past, once.
LEMMA PartsCover ==
  ASSUME AttentionTypeOK, DispatchAssumption, LaidOut(rows), unwritten = {},
         NEW kernel \in [kind : Kinds, splits : 1 .. SPLITK_MAX_SPLITS],
         Suits(kernel, caller, rows), kernel.kind \notin {"write", "fused"}, NEW i \in DOMAIN rows
  PROVE  Covers(Parts(kernel, i), rows[i])
<1>1. rows \in Seq(Row) /\ length \in [Slots -> Nat] /\ page_size \in {16, 32}
  BY DEF AttentionTypeOK, DispatchAssumption, Row
<1>2. rows[i] \in Row
  BY <1>1, LenProperties
<1>3. kernel.kind \in {"paged", "splitk", "prefill", "flash", "segmented", "hybrid"}
  BY DEF Kinds
<1>4. CASE kernel.kind = "paged"
  <2>1. Parts(kernel, i) = <<PageRange(rows[i], 0, PagesOf(rows[i]))>>
    BY <1>4 DEF Parts
  <2>. QED
    BY <1>1, <1>2, <2>1, PagedCovers
<1>5. CASE kernel.kind = "splitk"
  <2>1. Parts(kernel, i) = SplitParts(rows[i], kernel.splits)
    BY <1>5 DEF Parts
  <2>2. kernel.splits \in 2 .. SPLITK_MAX_SPLITS
    BY <1>5 DEF Suits
  <2>. QED
    BY <1>1, <1>2, <2>1, <2>2, SplitCovers
<1>6. CASE kernel.kind \in {"prefill", "flash"}
  <2>1. FromStart(rows) /\ \A j \in DOMAIN rows : rows[j].begin = 1
    BY <1>6 DEF Suits
  <2>2. CASE kernel.kind = "prefill"
    <3>1. Parts(kernel, i) = <<KeysOf(TiledRows(i, 1, Len(rows), 2, 32))>>
      BY <2>2 DEF Parts
    <3>. QED
      BY <1>1, <2>1, <3>1, PrefillCovers
  <2>3. CASE kernel.kind = "flash"
    <3>1. Parts(kernel, i) = <<KeysOf(TiledRows(i, 1, Len(rows), 16, 16))>>
      BY <2>3 DEF Parts
    <3>. QED
      BY <1>1, <2>1, <3>1, PrefillCovers
  <2>. QED
    BY <1>6, <2>2, <2>3
<1>7. CASE kernel.kind = "segmented"
  <2>1. Parts(kernel, i) = SegmentedParts(i) /\ FromStart(rows)
    BY <1>7 DEF Parts, Suits
  <2>. QED
    BY <1>1, <2>1, SegmentedCovers
<1>8. CASE kernel.kind = "hybrid"
  <2>1. Parts(kernel, i) = HybridParts(i)
    BY <1>8 DEF Parts
  <2>. QED
    BY <1>1, <2>1, HybridCovers
<1>. QED
  BY <1>3, <1>4, <1>5, <1>6, <1>7, <1>8

\* A split launch has a row for each of some slots: its partial results fit.
LEMMA LoneRowsFit ==
  ASSUME DispatchAssumption, NEW sequence \in Seq(Row), LaidOut(sequence), LoneRows(sequence),
         NEW n \in 2 .. SPLITK_MAX_SPLITS
  PROVE  Len(sequence) * 32 * n * SPLITK_PARTIAL_STRIDE
           <= splitk_workspace_elements(Cardinality(Slots))
<1> DEFINE f == [i \in 1 .. Len(sequence) |-> sequence[i].slot]
           l == Len(sequence)
           c == Cardinality(Slots)
<1>1. DOMAIN sequence = 1 .. l /\ l \in Nat /\ \A i \in 1 .. l : sequence[i].slot \in Slots
  <2>1. DOMAIN sequence = 1 .. l /\ l \in Nat /\ \A i \in 1 .. l : sequence[i] \in Row
    BY LenProperties
  <2>. QED
    BY <2>1 DEF Row
<1>2. f \in Injection(1 .. l, Slots)
  <2>1. ASSUME NEW i \in 1 .. l, NEW j \in 1 .. l, f[i] = f[j] PROVE i = j
    BY <1>1, <2>1 DEF LaidOut, LoneRows
  <2>. QED
    BY <1>1, <2>1 DEF Injection, IsInjective
<1>3. IsFiniteSet(Slots)
  BY DEF DispatchAssumption
<1>4. Cardinality(1 .. l) <= c /\ c \in Nat
  BY <1>2, <1>3, FS_Injection, FS_CardinalityType
<1>5. 1 \in Int /\ l \in Int /\ (1 > l => l = 0) /\ l - 1 + 1 = l
  BY <1>1
<1>6. Cardinality(1 .. l) = IF 1 > l THEN 0 ELSE l - 1 + 1
  BY <1>5, FS_Interval, Zenon
<1>7. l <= c
  BY <1>4, <1>5, <1>6
<1> HIDE DEF l, c
<1>8. n \in {2, 3, 4, 5, 6, 7, 8}
  BY DEF SPLITK_MAX_SPLITS
<1>9. l * 32 * n * 66 <= c * 32 * 8 * 66
  BY <1>1, <1>4, <1>7, <1>8
<1>. QED
  BY <1>9 DEF SPLITK_PARTIAL_STRIDE, splitk_workspace_elements, SPLITK_MAX_SPLITS, l, c

\* No two rows have the same key; lone rows do not even share a slot.
LEMMA KeysDiffer ==
  ASSUME NEW sequence \in Seq(Row), LaidOut(sequence), length \in [Slots -> Nat]
  PROVE  /\ \A i, j \in DOMAIN sequence : Key(sequence[i]) = Key(sequence[j]) => i = j
         /\ LoneRows(sequence) => \A i, j \in DOMAIN sequence :
                                    sequence[i].slot = sequence[j].slot => i = j
<1>1. DOMAIN sequence = 1 .. Len(sequence) /\ Len(sequence) \in Nat
      /\ \A i \in DOMAIN sequence : sequence[i] \in Row
  BY LenProperties
<1>2. ASSUME NEW i \in DOMAIN sequence, NEW j \in DOMAIN sequence, Key(sequence[i]) = Key(sequence[j])
      PROVE  i = j
  <2>1. sequence[i].slot = sequence[j].slot /\ sequence[i].position = sequence[j].position
    BY <1>2 DEF Key
  <2>2. sequence[i].begin = sequence[j].begin
    BY <2>1 DEF LaidOut
  <2>3. /\ sequence[i].position = length[sequence[i].slot] + (i - sequence[i].begin)
        /\ sequence[j].position = length[sequence[j].slot] + (j - sequence[j].begin)
    BY DEF LaidOut
  <2>4. length[sequence[i].slot] \in Nat /\ sequence[i].begin \in Nat /\ i \in Nat /\ j \in Nat
    BY <1>1 DEF Row
  <2>5. length[sequence[i].slot] + (i - sequence[i].begin) = length[sequence[i].slot] + (j - sequence[i].begin)
    BY <2>1, <2>2, <2>3
  <2>. QED
    BY <2>4, <2>5
<1>3. ASSUME LoneRows(sequence), NEW i \in DOMAIN sequence, NEW j \in DOMAIN sequence,
             sequence[i].slot = sequence[j].slot
      PROVE  i = j
  BY <1>3 DEF LoneRows, LaidOut
<1>. QED
  BY <1>2, <1>3

\* The pieces a fused block attends to are those of an undisturbed row.
LEMMA FirstPartIs ==
  ASSUME page_size \in {16, 32}, rows \in Seq(Row), LaidOut(rows), LoneRows(rows),
         length \in [Slots -> Nat], unwritten \subseteq {Key(row) : row \in Range(rows)},
         NEW i \in DOMAIN rows
  PROVE  PageRange(rows[i], 0, 1) \ {Key(rows[i])} = FirstPart(rows[i])
<1> DEFINE row == rows[i]
<1>1. row \in Row /\ 0 \in Nat /\ 1 \in Nat
  BY LenProperties
<1>2. row.position \in Nat
  BY <1>1 DEF Row
<1>3. PageRange(row, 0, 1) =
        ({row.slot} \X {x \in 0 .. row.position : 0 <= x \div page_size /\ x \div page_size < 1}) \ unwritten
  BY <1>1, PageRangeIs
<1>4. \A x \in 0 .. row.position : (0 <= x \div page_size /\ x \div page_size < 1) <=> x < page_size
  <2>1. CASE page_size = 16
    BY <1>2, <2>1
  <2>2. CASE page_size = 32
    BY <1>2, <2>2
  <2>. QED
    BY <2>1, <2>2
<1>5. {x \in 0 .. row.position : 0 <= x \div page_size /\ x \div page_size < 1}
        = {p \in 0 .. row.position : p < page_size}
  BY <1>4
<1>6. \A x : <<row.slot, x>> \in unwritten => <<row.slot, x>> = Key(row)
  <2>1. ASSUME NEW x, <<row.slot, x>> \in unwritten PROVE <<row.slot, x>> = Key(row)
    <3>1. PICK j \in DOMAIN rows : <<row.slot, x>> = Key(rows[j])
      BY <2>1 DEF Range
    <3>2. rows[j].slot = row.slot
      BY <3>1 DEF Key
    <3>3. j = i
      BY <3>2, KeysDiffer
    <3>. QED
      BY <3>1, <3>3
  <2>. QED
    BY <2>1
<1> HIDE DEF row
<1>7. ({row.slot} \X {p \in 0 .. row.position : p < page_size}) \ (unwritten \cup {Key(row)})
        = ({row.slot} \X {p \in 0 .. row.position : p < page_size}) \ {Key(row)}
  BY <1>6
<1>8. PageRange(row, 0, 1) \ {Key(row)} = FirstPart(row)
  BY <1>3, <1>5, <1>7 DEF FirstPart
<1>. QED
  BY <1>8 DEF row

\* The rest of a block whose own K/V is in the cache.
LEMMA RestPartIs ==
  ASSUME page_size \in {16, 32}, rows \in Seq(Row), LaidOut(rows), LoneRows(rows),
         length \in [Slots -> Nat], unwritten \subseteq {Key(row) : row \in Range(rows)},
         NEW i \in DOMAIN rows, Key(rows[i]) \notin unwritten
  PROVE  RestOf(i) = RestPart(rows[i])
<1> DEFINE row == rows[i]
           pages == PagesOf(row)
<1>1. row \in Row
  BY LenProperties
<1>2. row.position \in Nat
  BY <1>1 DEF Row
<1>3. PagesOf(row) = row.position \div page_size + 1 /\ PagesOf(row) \in Nat /\ 1 \in Nat
  BY <1>2 DEF PagesOf
<1>4. PageRange(row, 1, pages) =
        ({row.slot} \X {x \in 0 .. row.position : 1 <= x \div page_size /\ x \div page_size < pages})
          \ unwritten
  <2>1. \A e \in Nat : PageRange(row, 1, e) =
          ({row.slot} \X {x \in 0 .. row.position : 1 <= x \div page_size /\ x \div page_size < e})
            \ unwritten
    BY <1>1, <1>3, PageRangeIs
  <2>2. pages \in Nat
    BY <1>3
  <2>. QED
    BY <2>1, <2>2
<1>5. \A x \in 0 .. row.position :
        (1 <= x \div page_size /\ x \div page_size < PagesOf(row)) <=> page_size <= x
  <2>1. CASE page_size = 16
    BY <1>2, <1>3, <2>1
  <2>2. CASE page_size = 32
    BY <1>2, <1>3, <2>2
  <2>. QED
    BY <2>1, <2>2
<1>6. {x \in 0 .. row.position : 1 <= x \div page_size /\ x \div page_size < PagesOf(row)}
        = page_size .. row.position
  BY <1>2, <1>5
<1>7. \A x : <<row.slot, x>> \notin unwritten
  <2>1. ASSUME NEW x, <<row.slot, x>> \in unwritten PROVE FALSE
    <3>1. PICK j \in DOMAIN rows : <<row.slot, x>> = Key(rows[j])
      BY <2>1 DEF Range
    <3>2. rows[j].slot = row.slot
      BY <3>1 DEF Key
    <3>3. j = i
      BY <3>2, KeysDiffer
    <3>. QED
      BY <2>1, <3>1, <3>3
  <2>. QED
    BY <2>1
<1>8. RestOf(i) = IF PagesOf(row) = 1 THEN {Key(row)} ELSE PageRange(row, 1, PagesOf(row))
  BY DEF RestOf
<1> HIDE DEF row
<1>9. PageRange(row, 1, PagesOf(row)) = {row.slot} \X (page_size .. row.position)
  BY <1>4, <1>6, <1>7
<1>10. RestOf(i) = RestPart(row)
  BY <1>8, <1>9 DEF RestPart
<1>. QED
  BY <1>10 DEF row

\* Both parts together are the past of the row.
LEMMA FusedCovers ==
  ASSUME page_size \in {16, 32}, NEW row \in Row
  PROVE  Covers(<<FirstPart(row), RestPart(row)>>, row)
<1> DEFINE P == FirstPart(row)
           Q == RestPart(row)
<1>1. row.position \in Nat /\ page_size \in Nat
  BY DEF Row
<1>2. PagesOf(row) = 1 <=> row.position < page_size
  <2>1. CASE page_size = 16
    BY <1>1, <2>1 DEF PagesOf
  <2>2. CASE page_size = 32
    BY <1>1, <2>2 DEF PagesOf
  <2>. QED
    BY <2>1, <2>2
<1>3. CASE row.position < page_size
  <2>1. Q = {<<row.slot, row.position>>} /\ P = ({row.slot} \X (0 .. row.position)) \ {<<row.slot, row.position>>}
    <3>1. {p \in 0 .. row.position : p < page_size} = 0 .. row.position
      BY <1>1, <1>3
    <3>. QED
      BY <1>2, <1>3, <3>1 DEF FirstPart, RestPart, Key
  <2>2. row.position \in 0 .. row.position
    BY <1>1
  <2> HIDE DEF P, Q
  <2>3. P \cup Q = {row.slot} \X (0 .. row.position) /\ P \cap Q = {}
    BY <2>1, <2>2
  <2>4. Covers(<<P, Q>>, row)
    BY <2>3, TwoParts
  <2>. QED
    BY <2>4 DEF P, Q
<1>4. CASE ~(row.position < page_size)
  <2>1. Q = {row.slot} \X (page_size .. row.position)
    BY <1>2, <1>4 DEF RestPart
  <2>2. P = {row.slot} \X {p \in 0 .. row.position : p < page_size}
    BY <1>4 DEF FirstPart, Key
  <2>3. /\ \A x : x \in 0 .. row.position
                    <=> x \in {p \in 0 .. row.position : p < page_size} \/ x \in page_size .. row.position
        /\ \A x : ~(x \in {p \in 0 .. row.position : p < page_size} /\ x \in page_size .. row.position)
    BY <1>1
  <2> HIDE DEF P, Q
  <2>4. P \cup Q = {row.slot} \X (0 .. row.position) /\ P \cap Q = {}
    BY <2>1, <2>2, <2>3
  <2>5. Covers(<<P, Q>>, row)
    BY <2>4, TwoParts
  <2>. QED
    BY <2>5 DEF P, Q
<1>. QED
  BY <1>3, <1>4

--------------------------------------------------------------------------------
(* Attention: the steps *)

\* The shapes a list of kernels takes.
LEMMA Lists ==
  /\ \A k : /\ <<k>> # << >> /\ Len(<<k>>) = 1 /\ <<k>>[1] = k /\ Head(<<k>>) = k
            /\ Tail(<<k>>) = << >> /\ Range(<<k>>) = {k} /\ DOMAIN <<k>> = {1}
  /\ \A k, l : /\ <<k, l>> # << >> /\ Len(<<k, l>>) = 2 /\ <<k, l>>[1] = k /\ <<k, l>>[2] = l
               /\ Head(<<k, l>>) = k /\ Tail(<<k, l>>) = <<l>> /\ Range(<<k, l>>) = {k, l}
               /\ DOMAIN <<k, l>> = {1, 2}
<1>1. ASSUME NEW k
      PROVE  /\ <<k>> # << >> /\ Len(<<k>>) = 1 /\ <<k>>[1] = k /\ Head(<<k>>) = k
             /\ Tail(<<k>>) = << >> /\ Range(<<k>>) = {k} /\ DOMAIN <<k>> = {1}
  <2> DEFINE s == <<k>>
  <2>1. s # << >> /\ Len(s) = 1 /\ s[1] = k /\ Head(s) = k /\ Tail(s) = << >> /\ DOMAIN s = {1}
    OBVIOUS
  <2> HIDE DEF s
  <2>2. Range(s) = {k}
    BY <2>1 DEF Range
  <2>. QED
    BY <2>1, <2>2 DEF s
<1>2. ASSUME NEW k, NEW l
      PROVE  /\ <<k, l>> # << >> /\ Len(<<k, l>>) = 2 /\ <<k, l>>[1] = k /\ <<k, l>>[2] = l
             /\ Head(<<k, l>>) = k /\ Tail(<<k, l>>) = <<l>> /\ Range(<<k, l>>) = {k, l}
             /\ DOMAIN <<k, l>> = {1, 2}
  <2> DEFINE s == <<k, l>>
  <2>1. s # << >> /\ Len(s) = 2 /\ s[1] = k /\ s[2] = l /\ Head(s) = k /\ Tail(s) = <<l>> /\ DOMAIN s = {1, 2}
    OBVIOUS
  <2> HIDE DEF s
  <2>2. Range(s) = {k, l}
    BY <2>1 DEF Range
  <2>. QED
    BY <2>1, <2>2 DEF s
<1>. QED
  BY <1>1, <1>2

\* What every kernel leaves as it is.
Framed ==
  /\ AttentionTypeOK
  /\ LaidOut(rows)
  /\ rows # << >> <=> ~Idle
  /\ Idle => kernels = << >>
  /\ \A kernel \in Range(kernels) : Suits(kernel, caller, rows)
  /\ PartialsFit

\* A kernel that runs on, or makes room for the next one.
LEMMA FrameKept ==
  ASSUME AttentionSound, UNCHANGED <<page_size, flash, length, caller, rows, passes>>,
         kernels' = kernels \/ (kernels # << >> /\ kernels' = Tail(kernels)),
         unwritten' \subseteq unwritten, DOMAIN attended' = DOMAIN rows, DOMAIN block' = DOMAIN rows
  PROVE  Framed'
<1>1. AttentionTypeOK /\ StepInProgress /\ PartialsFit
  BY DEF AttentionSound
<1>2. kernels' \in Seq([kind : Kinds, splits : 1 .. SPLITK_MAX_SPLITS]) /\ Range(kernels') \subseteq Range(kernels)
      /\ (kernels = << >> => kernels' = << >>)
  <2>1. kernels \in Seq([kind : Kinds, splits : 1 .. SPLITK_MAX_SPLITS])
    BY <1>1 DEF AttentionTypeOK
  <2>2. CASE kernels' = kernels
    BY <2>1, <2>2
  <2>3. CASE kernels # << >> /\ kernels' = Tail(kernels)
    <3>1. /\ Tail(kernels) \in Seq([kind : Kinds, splits : 1 .. SPLITK_MAX_SPLITS])
          /\ Len(Tail(kernels)) = Len(kernels) - 1 /\ Len(kernels) \in Nat
          /\ \A i \in 1 .. Len(Tail(kernels)) : Tail(kernels)[i] = kernels[i + 1]
      BY <2>1, <2>3, HeadTailProperties, LenProperties
    <3>2. DOMAIN Tail(kernels) = 1 .. Len(Tail(kernels)) /\ DOMAIN kernels = 1 .. Len(kernels)
      BY <2>1, <3>1, LenProperties
    <3>3. \A i \in DOMAIN Tail(kernels) : i + 1 \in DOMAIN kernels /\ Tail(kernels)[i] = kernels[i + 1]
      BY <3>1, <3>2
    <3>. QED
      BY <2>3, <3>1, <3>3 DEF Range
  <2>. QED
    BY <2>2, <2>3
<1>3. AttentionTypeOK'
  BY <1>1, <1>2 DEF AttentionTypeOK
<1>4. LaidOut(rows)'
  BY <1>1 DEF StepInProgress, LaidOut
<1>5. (rows # << >> <=> ~Idle)' /\ (Idle => kernels = << >>)'
  BY <1>1, <1>2 DEF StepInProgress, Idle
<1>6. (\A kernel \in Range(kernels) : Suits(kernel, caller, rows))'
  <2>1. ASSUME NEW kernel \in Range(kernels') PROVE Suits(kernel, caller, rows)'
    <3>1. Suits(kernel, caller, rows)
      BY <1>1, <1>2 DEF StepInProgress
    <3>. QED
      BY <3>1 DEF Suits, RacingRows
  <2>. QED
    BY <2>1
<1>7. PartialsFit'
  BY <1>1, <1>2 DEF PartialsFit
<1>. QED
  BY <1>3, <1>4, <1>5, <1>6, <1>7 DEF Framed

\* What the kernels change.
Moving ==
  /\ StoredFirst
  /\ Running("fused") => FusedInProgress
  /\ AttendsToWholePastOnce
  /\ LeavesCacheComplete

\* Both together.
LEMMA SoundParts == AttentionSound <=> Framed /\ Moving
BY DEF AttentionSound, Framed, Moving, StepInProgress

\* The parts of a list of kernels in progress.
LEMMA StoredFirstIs ==
  ASSUME AttentionSound, kernels # << >>, ~Running("fused")
  PROVE  \/ /\ kernels = <<Write, kernels[2]>> /\ kernels[2].kind \notin {"write", "fused"}
            /\ Running("write")
         \/ /\ kernels = <<kernels[1]>> /\ kernels[1].kind \notin {"write", "fused"} /\ unwritten = {}
            /\ ~Running("write")
<1>1. StoredFirst /\ kernels \in Seq([kind : Kinds, splits : 1 .. SPLITK_MAX_SPLITS])
  BY DEF AttentionSound, AttentionTypeOK, StepInProgress
<1>2. Head(kernels) = kernels[1]
  BY <1>1
<1>3. CASE Len(kernels) = 2 /\ kernels[1] = Write /\ kernels[2].kind \notin {"write", "fused"}
  <2>1. kernels = <<kernels[1], kernels[2]>>
    BY <1>1, <1>3
  <2>2. Write.kind = "write"
    BY DEF Write, Kernel
  <2>. QED
    BY <1>2, <1>3, <2>1, <2>2 DEF Running
<1>4. CASE Len(kernels) = 1 /\ kernels[1].kind # "write" /\ unwritten = {}
  <2>1. kernels = <<kernels[1]>>
    BY <1>1, <1>4
  <2>2. kernels[1].kind # "fused"
    BY <1>2 DEF Running
  <2>. QED
    BY <1>2, <1>4, <2>1, <2>2 DEF Running
<1>. QED
  BY <1>1, <1>3, <1>4 DEF StoredFirst

\* The K/V of the step is in the cache before the next kernel runs.
LEMMA StoreAllSound ==
  ASSUME AttentionSound, StoreAll
  PROVE  AttentionSound'
<1>1. /\ Running("write") /\ unwritten' = unwritten \ {Key(row) : row \in Range(rows)}
      /\ kernels' = Tail(kernels) /\ kernels # << >> /\ attended' = attended /\ block' = block
      /\ UNCHANGED <<page_size, flash, length, caller, rows, passes>>
  BY DEF StoreAll, Running
<1>2. AttentionTypeOK /\ DOMAIN attended' = DOMAIN rows /\ DOMAIN block' = DOMAIN rows
  BY <1>1 DEF AttentionSound, AttentionTypeOK
<1>3. Framed'
  BY <1>1, <1>2, FrameKept
<1>4. ~Running("fused")
  BY <1>1 DEF Running
<1>5. kernels = <<Write, kernels[2]>> /\ kernels[2].kind \notin {"write", "fused"}
  BY <1>1, <1>4, StoredFirstIs
<1>6. kernels' = <<kernels[2]>>
  <2> DEFINE l == kernels[2]
  <2>1. kernels = <<Write, l>>
    BY <1>5
  <2> HIDE DEF l
  <2>2. Tail(<<Write, l>>) = <<l>>
    OBVIOUS
  <2>3. kernels' = <<l>>
    BY <1>1, <2>1, <2>2, Zenon
  <2>. QED
    BY <2>3 DEF l
<1>7. unwritten' = {}
  BY <1>1, <1>2 DEF AttentionTypeOK
<1> DEFINE k == kernels[2]
<1>8. k.kind \notin {"write", "fused"}
  BY <1>5
<1> HIDE DEF k
<1>9. kernels' = <<k>>
  BY <1>6 DEF k
<1>10. /\ kernels' # << >> /\ Len(kernels') = 1 /\ kernels'[1] = k /\ Head(kernels') = k
  BY <1>9, Lists
<1>11. Moving'
  BY <1>7, <1>8, <1>10 DEF Moving, StoredFirst, Running, AttendsToWholePastOnce, LeavesCacheComplete, Done
<1>. QED
  BY <1>3, <1>11, SoundParts, PTL

\* A kernel that reads the cache: its rows attend to all they should.
LEMMA AttendAllSound ==
  ASSUME DispatchAssumption, AttentionSound, AttendAll
  PROVE  AttentionSound'
<1>1. /\ kernels # << >> /\ ~Running("write") /\ ~Running("fused")
      /\ attended' = [i \in DOMAIN rows |-> Parts(Head(kernels), i)]
      /\ kernels' = Tail(kernels) /\ unwritten' = unwritten /\ block' = block
      /\ UNCHANGED <<page_size, flash, length, caller, rows, passes>>
  BY DEF AttendAll
<1>2. AttentionTypeOK /\ LaidOut(rows) /\ DOMAIN attended' = DOMAIN rows /\ DOMAIN block' = DOMAIN rows
  BY <1>1 DEF AttentionSound, AttentionTypeOK, StepInProgress
<1>3. Framed'
  BY <1>1, <1>2, FrameKept
<1>4. kernels = <<kernels[1]>> /\ kernels[1].kind \notin {"write", "fused"} /\ unwritten = {}
  BY <1>1, StoredFirstIs
<1>5. kernels' = << >> /\ Head(kernels) = kernels[1]
  BY <1>1, <1>4, Lists
<1>6. kernels[1] \in Range(kernels) /\ kernels[1] \in [kind : Kinds, splits : 1 .. SPLITK_MAX_SPLITS]
  <2>1. kernels \in Seq([kind : Kinds, splits : 1 .. SPLITK_MAX_SPLITS])
    BY <1>2 DEF AttentionTypeOK
  <2>2. 1 \in DOMAIN kernels
    BY <1>1, <2>1, LenProperties, EmptySeq
  <2>3. kernels[1] \in [kind : Kinds, splits : 1 .. SPLITK_MAX_SPLITS]
    <3> DEFINE K == [kind : Kinds, splits : 1 .. SPLITK_MAX_SPLITS]
    <3>1. kernels \in Seq(K) /\ 1 \in 1 .. Len(kernels)
      BY <2>1, <2>2, LenProperties
    <3> HIDE DEF K
    <3>2. kernels[1] \in K
      BY <3>1, ElementOfSeq
    <3>. QED
      BY <3>2 DEF K
  <2>4. kernels[1] \in Range(kernels)
    BY <2>2, Zenon DEF Range
  <2>. QED
    BY <2>3, <2>4
<1>7. Suits(kernels[1], caller, rows)
  BY <1>6 DEF AttentionSound, StepInProgress
<1>8. ASSUME NEW i \in DOMAIN rows PROVE Covers(attended'[i], rows[i])
  <2>1. Covers(Parts(kernels[1], i), rows[i])
    BY <1>2, <1>4, <1>6, <1>7, PartsCover
  <2>. QED
    BY <1>1, <1>5, <2>1
<1>9. AttendsToWholePastOnce'
  BY <1>1, <1>8 DEF AttendsToWholePastOnce, Covers
<1>10. Moving'
  BY <1>1, <1>4, <1>5, <1>9 DEF Moving, StoredFirst, Running, LeavesCacheComplete
<1>. QED
  BY <1>3, <1>10, SoundParts, PTL

\* What is known while a block of the fused kernel takes a step.
LEMMA FusedNow ==
  ASSUME DispatchAssumption, AttentionSound, Running("fused")
  PROVE  /\ kernels = <<Kernel("fused", 1)>> /\ FusedInProgress
         /\ rows \in Seq(Row) /\ LaidOut(rows) /\ length \in [Slots -> Nat] /\ page_size \in {16, 32}
         /\ DOMAIN attended = DOMAIN rows /\ DOMAIN block = DOMAIN rows
         /\ unwritten \subseteq {Key(row) : row \in Range(rows)}
         /\ ~Racing => LoneRows(rows)
<1>1. AttentionTypeOK /\ StepInProgress
  BY DEF AttentionSound
<1>2. FusedInProgress /\ kernels = <<Kernel("fused", 1)>>
  BY <1>1 DEF StepInProgress, FusedInProgress
<1>3. Kernel("fused", 1) \in Range(kernels)
  BY <1>2, Lists
<1>4. ~Racing => LoneRows(rows)
  BY <1>1, <1>3 DEF StepInProgress, Suits, Kernel, Racing
<1>. QED
  BY <1>1, <1>2, <1>4 DEF AttentionTypeOK, StepInProgress, DispatchAssumption, Row

\* A second part behind the first.
LEMMA AppendSecond == \A P, Q : Append(<<P>>, Q) = <<P, Q>>
<1> SUFFICES ASSUME NEW P, NEW Q PROVE Append(<<P>>, Q) = <<P, Q>>
  OBVIOUS
<1> DEFINE S == {P, Q}
           a == Append(<<P>>, Q)
<1>1. <<P>> \in Seq(S) /\ Len(<<P>>) = 1 /\ <<P>>[1] = P /\ Q \in S
  OBVIOUS
<1>2. a \in Seq(S) /\ Len(a) = 2 /\ a[2] = Q /\ a[1] = P
  BY <1>1, AppendProperties
<1>3. a = <<a[1], a[2]>>
  <2> HIDE DEF a, S
  <2>. QED
    BY <1>2
<1>. QED
  BY <1>2, <1>3

\* As long as a block of the fused kernel is not finished nothing is promised yet.
LEMMA FusedGoesOn ==
  ASSUME kernels' = <<Kernel("fused", 1)>>, FusedInProgress'
  PROVE  Moving'
<1> DEFINE k == Kernel("fused", 1)
<1>1. kernels' = <<k>> /\ k.kind = "fused"
  BY DEF Kernel
<1> HIDE DEF k
<1>2. kernels' # << >> /\ Head(kernels') = k
  BY <1>1, Lists
<1>3. Running("fused")' /\ ~Done'
  BY <1>1, <1>2 DEF Running, Done
<1>. QED
  BY <1>3 DEF Moving, StoredFirst, AttendsToWholePastOnce, LeavesCacheComplete

\* A block that took a step leaves the kernel in progress.
LEMMA FusedAgain ==
  ASSUME UNCHANGED <<page_size, caller, rows>>, kernels' = <<Kernel("fused", 1)>>,
         \A j \in DOMAIN rows : block'[j] \in {"waiting", "staged", "stored", "finished"},
         \E j \in DOMAIN rows : block'[j] # "finished",
         unwritten' = {Key(rows[j]) : j \in {j \in DOMAIN rows : block'[j] \in {"waiting", "staged"}}},
         ~Racing => \A j \in DOMAIN rows : attended'[j] = BlockParts(block'[j], rows[j])
  PROVE  FusedInProgress'
<1>1. Racing' <=> Racing
  BY DEF Racing, RacingRows
<1>2. ASSUME NEW j \in DOMAIN rows PROVE BlockParts(block[j], rows[j])' = BlockParts(block'[j], rows[j])
  <2>1. FirstPart(rows[j])' = FirstPart(rows[j]) /\ RestPart(rows[j])' = RestPart(rows[j])
    BY DEF FirstPart, RestPart, PagesOf
  <2>. QED
    BY <2>1 DEF BlockParts
<1>3. (~Racing => \A j \in DOMAIN rows : attended[j] = BlockParts(block[j], rows[j]))'
  BY <1>1, <1>2
<1>4. (unwritten = {Key(rows[j]) : j \in {j \in DOMAIN rows : block[j] \in {"waiting", "staged"}}})'
  OBVIOUS
<1>. QED
  BY <1>3, <1>4 DEF FusedInProgress

\* The first page of a row.
LEMMA StageSound ==
  ASSUME DispatchAssumption, AttentionSound, NEW i \in DOMAIN rows, StageFirstPage(i)
  PROVE  AttentionSound'
<1>1. /\ Running("fused") /\ block[i] = "waiting"
      /\ block' = [block EXCEPT ![i] = "staged"]
      /\ attended' = [attended EXCEPT ![i] = <<PageRange(rows[i], 0, 1) \ {Key(rows[i])}>>]
      /\ UNCHANGED <<page_size, flash, length, unwritten, caller, rows, kernels, passes>>
  BY DEF StageFirstPage
<1>2. /\ kernels = <<Kernel("fused", 1)>> /\ FusedInProgress
      /\ rows \in Seq(Row) /\ LaidOut(rows) /\ length \in [Slots -> Nat] /\ page_size \in {16, 32}
      /\ DOMAIN attended = DOMAIN rows /\ DOMAIN block = DOMAIN rows
      /\ unwritten \subseteq {Key(row) : row \in Range(rows)}
      /\ ~Racing => LoneRows(rows)
  BY <1>1, FusedNow
<1>3. DOMAIN attended' = DOMAIN rows /\ DOMAIN block' = DOMAIN rows
  BY <1>1, <1>2
<1>4. Framed'
  BY <1>1, <1>3, FrameKept
<1>5. block'[i] = "staged" /\ \A j \in DOMAIN rows \ {i} : block'[j] = block[j]
  BY <1>1, <1>2
<1>6. {j \in DOMAIN rows : block'[j] \in {"waiting", "staged"}}
        = {j \in DOMAIN rows : block[j] \in {"waiting", "staged"}}
  BY <1>1, <1>5
<1>7. ASSUME ~Racing, NEW j \in DOMAIN rows
      PROVE  attended'[j] = BlockParts(block'[j], rows[j])
  <2>1. CASE j = i
    <3>1. attended'[i] = <<FirstPart(rows[i])>>
      BY <1>1, <1>2, <1>7, FirstPartIs
    <3>. QED
      BY <1>5, <2>1, <3>1 DEF BlockParts
  <2>2. CASE j # i
    <3>1. attended'[j] = attended[j] /\ block'[j] = block[j]
      BY <1>1, <1>2, <1>5, <2>2
    <3>. QED
      BY <1>2, <1>7, <3>1 DEF FusedInProgress
  <2>. QED
    BY <2>1, <2>2
<1>8. FusedInProgress'
  <2>3. \A j \in DOMAIN rows : block'[j] \in {"waiting", "staged", "stored", "finished"}
    BY <1>2, <1>5 DEF FusedInProgress
  <2>4. \E j \in DOMAIN rows : block'[j] # "finished"
    BY <1>5
  <2>5. unwritten' = {Key(rows[j]) : j \in {j \in DOMAIN rows : block'[j] \in {"waiting", "staged"}}}
    BY <1>1, <1>2, <1>6 DEF FusedInProgress
  <2>. QED
    BY <1>1, <1>2, <1>7, <2>3, <2>4, <2>5, FusedAgain
<1>9. Moving'
  BY <1>1, <1>2, <1>8, FusedGoesOn
<1>. QED
  BY <1>4, <1>9, SoundParts, PTL

\* The K/V of a row.
LEMMA StoreOwnSound ==
  ASSUME DispatchAssumption, AttentionSound, NEW i \in DOMAIN rows, StoreOwn(i)
  PROVE  AttentionSound'
<1>1. /\ Running("fused") /\ block[i] = "staged"
      /\ block' = [block EXCEPT ![i] = "stored"]
      /\ unwritten' = unwritten \ {Key(rows[i])} /\ attended' = attended
      /\ UNCHANGED <<page_size, flash, length, caller, rows, kernels, passes>>
  BY DEF StoreOwn
<1>2. /\ kernels = <<Kernel("fused", 1)>> /\ FusedInProgress
      /\ rows \in Seq(Row) /\ LaidOut(rows) /\ length \in [Slots -> Nat]
      /\ DOMAIN attended = DOMAIN rows /\ DOMAIN block = DOMAIN rows
  BY <1>1, FusedNow
<1>3. DOMAIN attended' = DOMAIN rows /\ DOMAIN block' = DOMAIN rows
  BY <1>1, <1>2
<1>4. Framed'
  BY <1>1, <1>3, FrameKept
<1>5. block'[i] = "stored" /\ \A j \in DOMAIN rows \ {i} : block'[j] = block[j]
  BY <1>1, <1>2
<1>6. {j \in DOMAIN rows : block'[j] \in {"waiting", "staged"}}
        = {j \in DOMAIN rows : block[j] \in {"waiting", "staged"}} \ {i}
  BY <1>1, <1>5
<1>7. FusedInProgress'
  <2>3. \A j \in DOMAIN rows : block'[j] \in {"waiting", "staged", "stored", "finished"}
    BY <1>2, <1>5 DEF FusedInProgress
  <2>4. \E j \in DOMAIN rows : block'[j] # "finished"
    BY <1>5
  <2>5. unwritten' = {Key(rows[j]) : j \in {j \in DOMAIN rows : block'[j] \in {"waiting", "staged"}}}
    <3> DEFINE W == {j \in DOMAIN rows : block[j] \in {"waiting", "staged"}}
    <3>1. unwritten = {Key(rows[j]) : j \in W} /\ i \in W /\ W \subseteq DOMAIN rows
      BY <1>1, <1>2 DEF FusedInProgress
    <3>2. \A j \in DOMAIN rows : Key(rows[j]) = Key(rows[i]) => j = i
      BY <1>2, KeysDiffer
    <3> HIDE DEF W
    <3>3. unwritten \ {Key(rows[i])} = {Key(rows[j]) : j \in W \ {i}}
      BY <3>1, <3>2
    <3>. QED
      BY <1>1, <1>6, <3>3 DEF W
  <2>6. ASSUME ~Racing, NEW j \in DOMAIN rows
        PROVE  attended'[j] = BlockParts(block'[j], rows[j])
    <3>1. attended[j] = BlockParts(block[j], rows[j])
      BY <1>2, <2>6 DEF FusedInProgress
    <3>2. CASE j = i
      BY <1>1, <1>5, <3>1, <3>2 DEF BlockParts
    <3>3. CASE j # i
      BY <1>1, <1>5, <3>1, <3>3
    <3>. QED
      BY <3>2, <3>3
  <2>. QED
    BY <1>1, <1>2, <2>3, <2>4, <2>5, <2>6, FusedAgain
<1>8. Moving'
  BY <1>1, <1>2, <1>7, FusedGoesOn
<1>. QED
  BY <1>4, <1>8, SoundParts, PTL

\* The other pages; with the last block of the step the kernel is over.
LEMMA AttendRestSound ==
  ASSUME DispatchAssumption, AttentionSound, NEW i \in DOMAIN rows, AttendRest(i)
  PROVE  AttentionSound'
<1>1. /\ Running("fused") /\ block[i] = "stored" /\ kernels # << >>
      /\ block' = [block EXCEPT ![i] = "finished"]
      /\ attended' = [attended EXCEPT ![i] = Append(@, RestOf(i))] /\ unwritten' = unwritten
      /\ kernels' = IF \A j \in DOMAIN rows \ {i} : block[j] = "finished" THEN Tail(kernels) ELSE kernels
      /\ UNCHANGED <<page_size, flash, length, caller, rows, passes>>
  BY DEF AttendRest, Running
<1>2. /\ kernels = <<Kernel("fused", 1)>> /\ FusedInProgress
      /\ rows \in Seq(Row) /\ LaidOut(rows) /\ length \in [Slots -> Nat] /\ page_size \in {16, 32}
      /\ DOMAIN attended = DOMAIN rows /\ DOMAIN block = DOMAIN rows
      /\ unwritten \subseteq {Key(row) : row \in Range(rows)}
      /\ ~Racing => LoneRows(rows)
  BY <1>1, FusedNow
<1>3. DOMAIN attended' = DOMAIN rows /\ DOMAIN block' = DOMAIN rows
  BY <1>1, <1>2
<1>4. Framed'
  BY <1>1, <1>3, FrameKept
<1>5. block'[i] = "finished" /\ \A j \in DOMAIN rows \ {i} : block'[j] = block[j]
  BY <1>1, <1>2
<1>6. {j \in DOMAIN rows : block'[j] \in {"waiting", "staged"}}
        = {j \in DOMAIN rows : block[j] \in {"waiting", "staged"}}
  BY <1>1, <1>5
<1>7. ASSUME ~Racing, NEW j \in DOMAIN rows
      PROVE  attended'[j] = BlockParts(block'[j], rows[j])
  <2>1. CASE j = i
    <3>1. attended[i] = <<FirstPart(rows[i])>>
      BY <1>1, <1>2, <1>7 DEF FusedInProgress, BlockParts
    <3>2. Key(rows[i]) \notin unwritten
      <4>1. unwritten = {Key(rows[k]) : k \in {k \in DOMAIN rows : block[k] \in {"waiting", "staged"}}}
        BY <1>2 DEF FusedInProgress
      <4>2. \A k \in DOMAIN rows : Key(rows[k]) = Key(rows[i]) => k = i
        BY <1>2, KeysDiffer
      <4>. QED
        BY <1>1, <4>1, <4>2
    <3>3. RestOf(i) = RestPart(rows[i])
      BY <1>2, <1>7, <3>2, RestPartIs
    <3>4. attended'[i] = Append(<<FirstPart(rows[i])>>, RestPart(rows[i]))
      BY <1>1, <1>2, <3>1, <3>3
    <3>5. attended'[i] = <<FirstPart(rows[i]), RestPart(rows[i])>>
      BY <3>4, AppendSecond, Zenon
    <3>. QED
      BY <1>5, <2>1, <3>5 DEF BlockParts
  <2>2. CASE j # i
    <3>1. attended'[j] = attended[j] /\ block'[j] = block[j]
      BY <1>1, <1>2, <1>5, <2>2
    <3>. QED
      BY <1>2, <1>7, <3>1 DEF FusedInProgress
  <2>. QED
    BY <2>1, <2>2
<1>8. CASE \E j \in DOMAIN rows \ {i} : block[j] # "finished"
  <2>1. kernels' = kernels
    BY <1>1, <1>8
  <2>2. FusedInProgress'
    <3>3. \A j \in DOMAIN rows : block'[j] \in {"waiting", "staged", "stored", "finished"}
      BY <1>2, <1>5 DEF FusedInProgress
    <3>4. \E j \in DOMAIN rows : block'[j] # "finished"
      BY <1>5, <1>8
    <3>5. unwritten' = {Key(rows[j]) : j \in {j \in DOMAIN rows : block'[j] \in {"waiting", "staged"}}}
      BY <1>1, <1>2, <1>6 DEF FusedInProgress
    <3>. QED
      BY <1>1, <1>2, <1>7, <2>1, <3>3, <3>4, <3>5, FusedAgain
  <2>3. Moving'
    BY <1>2, <2>1, <2>2, FusedGoesOn
  <2>. QED
    BY <1>4, <2>3, SoundParts, PTL
<1>9. CASE \A j \in DOMAIN rows \ {i} : block[j] = "finished"
  <2>1. kernels' = << >>
    BY <1>1, <1>2, <1>9, Lists
  <2>2. \A j \in DOMAIN rows : block'[j] = "finished"
    BY <1>5, <1>9
  <2>3. unwritten' = {}
    <3>1. unwritten = {Key(rows[j]) : j \in {j \in DOMAIN rows : block'[j] \in {"waiting", "staged"}}}
      BY <1>2, <1>6 DEF FusedInProgress
    <3>. QED
      BY <1>1, <2>2, <3>1
  <2>4. ASSUME ~Racing, NEW j \in DOMAIN rows PROVE Covers(attended'[j], rows[j])
    <3>1. attended'[j] = <<FirstPart(rows[j]), RestPart(rows[j])>>
      BY <1>7, <2>2, <2>4 DEF BlockParts
    <3>2. rows[j] \in Row
      BY <1>2, LenProperties
    <3>. QED
      BY <1>2, <3>1, <3>2, FusedCovers
  <2>5. AttendsToWholePastOnce'
    <3>1. Racing' <=> Racing
      BY <1>1 DEF Racing, RacingRows
    <3>. QED
      BY <1>1, <2>4, <3>1 DEF AttendsToWholePastOnce, Covers
  <2>6. Moving'
    BY <2>1, <2>3, <2>5 DEF Moving, StoredFirst, Running, LeavesCacheComplete
  <2>. QED
    BY <1>4, <2>6, SoundParts, PTL
<1>. QED
  BY <1>8, <1>9

\* The next step: its kernels are made for its rows.
LEMMA LaunchSound ==
  ASSUME DispatchAssumption, AttentionSound, NEW who \in Callers, NEW S \in SUBSET Slots, S # {},
         NEW count \in [S -> Lengths], Launch(who, count)
  PROVE  AttentionSound'
<1> DEFINE sequence == RowsOf(count)
           route == Route(who, sequence)
<1>1. /\ page_size \in PageSizes /\ flash \in BOOLEAN /\ length \in [Slots -> Nat]
      /\ passes \in 0 .. Passes /\ Passes \in Nat /\ count \in [S -> Nat \ {0}]
  BY DEF AttentionSound, AttentionTypeOK, DispatchAssumption
<1>2. /\ Idle /\ passes < Passes /\ Brings(who, count)
      /\ rows' = sequence /\ kernels' = route
      /\ unwritten' = {Key(row) : row \in Range(sequence)}
      /\ block' = [i \in DOMAIN sequence |-> "waiting"]
      /\ attended' = [i \in DOMAIN sequence |-> << >>]
      /\ caller' = who /\ passes' = passes + 1
      /\ UNCHANGED <<page_size, flash, length>>
  BY DEF Launch
<1>3. sequence \in Seq(Row) /\ sequence # << >> /\ LaidOut(sequence)
  BY <1>1, RowsOfLaidOut
<1>4. GoodRoute(route, who, sequence)
  BY <1>1, <1>2, RouteGood
<1>5. DOMAIN sequence = 1 .. Len(sequence) /\ Len(sequence) \in Nat /\ 1 \in DOMAIN sequence
  BY <1>3, LenProperties, EmptySeq
<1>6. who # "none"
  BY DEF DispatchAssumption
<1> HIDE DEF sequence, route
<1>7. PICK k \in [kind : Kinds, splits : 1 .. SPLITK_MAX_SPLITS] :
        /\ Suits(k, who, sequence)
        /\ \/ k = Kernel("fused", 1) /\ route = <<k>>
           \/ k.kind \notin {"write", "fused"} /\ route = <<Write, k>>
  <2>1. Kernel("fused", 1) \in [kind : Kinds, splits : 1 .. SPLITK_MAX_SPLITS]
    BY DEF Kernel, Kinds, SPLITK_MAX_SPLITS
  <2>. QED
    BY <1>4, <2>1, Zenon DEF GoodRoute
<1>8. /\ Write \in [kind : Kinds, splits : 1 .. SPLITK_MAX_SPLITS]
      /\ Suits(Write, who, sequence) /\ Write.kind = "write"
      /\ Kernel("fused", 1).kind = "fused"
  BY DEF Write, Kernel, Kinds, SPLITK_MAX_SPLITS, Suits
<1>9. /\ route \in Seq([kind : Kinds, splits : 1 .. SPLITK_MAX_SPLITS])
      /\ route # << >> /\ Range(route) \subseteq {Write, k} /\ \A l \in Range(route) : Suits(l, who, sequence)
  <2> DEFINE K == [kind : Kinds, splits : 1 .. SPLITK_MAX_SPLITS]
  <2>1. k \in K /\ Write \in K
    BY <1>8
  <2> HIDE DEF K
  <2>2. CASE route = <<k>>
    <3>1. <<k>> \in Seq(K) /\ <<k>> # << >>
      BY <2>1
    <3>2. Range(<<k>>) = {k}
      BY Lists
    <3>. QED
      BY <1>7, <2>2, <3>1, <3>2 DEF K
  <2>3. CASE route = <<Write, k>>
    <3>1. <<Write, k>> \in Seq(K) /\ <<Write, k>> # << >>
      BY <2>1
    <3>2. Range(<<Write, k>>) = {Write, k}
      BY Lists
    <3>. QED
      BY <1>7, <1>8, <2>3, <3>1, <3>2 DEF K
  <2>. QED
    BY <1>7, <2>2, <2>3
<1>10. AttentionTypeOK'
  <2>1. DOMAIN attended' = DOMAIN sequence /\ DOMAIN block' = DOMAIN sequence
    BY <1>2
  <2>2. passes' \in 0 .. Passes
    BY <1>1, <1>2
  <2>3. rows' \in Seq([slot : Slots, position : Nat, begin : Nat])
    BY <1>2, <1>3 DEF Row
  <2>. QED
    BY <1>1, <1>2, <1>9, <2>1, <2>2, <2>3 DEF AttentionTypeOK
<1>11. LaidOut(rows)'
  BY <1>2, <1>3 DEF LaidOut
<1>12. (rows # << >> <=> ~Idle)' /\ (Idle => kernels = << >>)'
  BY <1>2, <1>3, <1>6 DEF Idle
<1>13. (\A kernel \in Range(kernels) : Suits(kernel, caller, rows))'
  <2>1. ASSUME NEW kernel \in Range(kernels') PROVE Suits(kernel, caller, rows)'
    <3>1. Suits(kernel, who, sequence)
      BY <1>2, <1>9
    <3>. QED
      BY <1>2, <3>1 DEF Suits, RacingRows
  <2>. QED
    BY <2>1
<1>14. PartialsFit'
  <2>1. ASSUME NEW kernel \in Range(route), kernel.kind = "splitk"
        PROVE  Len(sequence) * 32 * kernel.splits * SPLITK_PARTIAL_STRIDE
                 <= splitk_workspace_elements(Cardinality(Slots))
    <3>1. Suits(kernel, who, sequence)
      BY <1>9
    <3>2. LoneRows(sequence) /\ kernel.splits \in 2 .. SPLITK_MAX_SPLITS
      BY <2>1, <3>1 DEF Suits
    <3>. QED
      BY <1>3, <3>2, LoneRowsFit
  <2>. QED
    BY <1>2, <2>1 DEF PartialsFit
<1>15. Moving'
  <2>1. CASE k = Kernel("fused", 1) /\ route = <<k>>
    <3>1. kernels' = <<Kernel("fused", 1)>>
      BY <1>2, <2>1
    <3>2. FusedInProgress'
      <4>1. \A j \in DOMAIN sequence : block'[j] = "waiting" /\ attended'[j] = << >>
        BY <1>2
      <4>2. unwritten' = {Key(sequence[j]) : j \in DOMAIN sequence}
        <5>1. Range(sequence) = {sequence[j] : j \in DOMAIN sequence}
          BY DEF Range
        <5>2. {Key(row) : row \in Range(sequence)} = {Key(sequence[j]) : j \in DOMAIN sequence}
          BY <5>1
        <5>. QED
          BY <1>2, <5>2
      <4>3. {j \in DOMAIN sequence : block'[j] \in {"waiting", "staged"}} = DOMAIN sequence
        BY <4>1
      <4>4. (unwritten = {Key(rows[j]) : j \in {j \in DOMAIN rows : block[j] \in {"waiting", "staged"}}})'
        <5>1. (unwritten = {Key(rows[j]) : j \in {j \in DOMAIN rows : block[j] \in {"waiting", "staged"}}})'
                <=> unwritten' = {Key(sequence[j]) : j \in {j \in DOMAIN sequence : block'[j] \in {"waiting", "staged"}}}
          BY <1>2
        <5>. QED
          BY <4>2, <4>3, <5>1
      <4>5. (\A j \in DOMAIN rows : attended[j] = BlockParts(block[j], rows[j]))'
        BY <1>2, <4>1 DEF BlockParts
      <4>6. /\ (\A j \in DOMAIN rows : block[j] \in {"waiting", "staged", "stored", "finished"})'
            /\ (\E j \in DOMAIN rows : block[j] # "finished")'
        BY <1>2, <1>5, <4>1
      <4>. QED
        BY <3>1, <4>4, <4>5, <4>6 DEF FusedInProgress
    <3>. QED
      BY <3>1, <3>2, FusedGoesOn
  <2>2. CASE k.kind \notin {"write", "fused"} /\ route = <<Write, k>>
    <3>1. kernels' = <<Write, k>>
      BY <1>2, <2>2
    <3>2. /\ kernels' # << >> /\ Len(kernels') = 2 /\ kernels'[1] = Write /\ kernels'[2] = k
          /\ Head(kernels') = Write
      BY <3>1, Lists
    <3>. QED
      BY <1>8, <2>2, <3>2 DEF Moving, StoredFirst, Running, AttendsToWholePastOnce, LeavesCacheComplete, Done
  <2>. QED
    BY <1>7, <2>1, <2>2
<1>16. Framed'
  BY <1>10, <1>11, <1>12, <1>13, <1>14 DEF Framed
<1>. QED
  BY <1>15, <1>16, SoundParts, PTL

\* The end of a step.
LEMMA FinishStepSound ==
  ASSUME DispatchAssumption, AttentionSound, FinishStep
  PROVE  AttentionSound'
<1>1. /\ Done /\ length' = [s \in Slots |-> length[s] + Cardinality({i \in DOMAIN rows : rows[i].slot = s})]
      /\ caller' = "none" /\ rows' = << >> /\ unwritten' = {} /\ kernels' = kernels
      /\ block' = << >> /\ attended' = << >>
      /\ UNCHANGED <<page_size, flash, passes>>
  BY DEF FinishStep
<1>2. AttentionTypeOK
  BY DEF AttentionSound
<1>3. kernels' = << >>
  BY <1>1 DEF Done
<1>4. length' \in [Slots -> Nat]
  <2>1. ASSUME NEW s \in Slots
        PROVE  length[s] \in Nat /\ Cardinality({i \in DOMAIN rows : rows[i].slot = s}) \in Nat
    <3> DEFINE own == {i \in DOMAIN rows : rows[i].slot = s}
    <3>1. DOMAIN rows = 1 .. Len(rows) /\ 1 \in Int /\ Len(rows) \in Int
      BY <1>2, LenProperties DEF AttentionTypeOK
    <3>2. IsFiniteSet(DOMAIN rows)
      BY <3>1, FS_Interval
    <3>3. own \in SUBSET DOMAIN rows
      OBVIOUS
    <3> HIDE DEF own
    <3>4. Cardinality(own) \in Nat
      BY <3>2, <3>3, FS_Subset, FS_CardinalityType
    <3>. QED
      BY <1>2, <3>4 DEF AttentionTypeOK, own
  <2>. QED
    BY <1>1, <2>1
<1>5. DOMAIN << >> = {} /\ Range(<< >>) = {} /\ << >> \in Seq([slot : Slots, position : Nat, begin : Nat])
      /\ << >> \in Seq([kind : Kinds, splits : 1 .. SPLITK_MAX_SPLITS])
  BY DEF Range
<1>6. AttentionTypeOK'
  BY <1>1, <1>2, <1>3, <1>4, <1>5 DEF AttentionTypeOK
<1>7. Framed'
  BY <1>1, <1>3, <1>5, <1>6 DEF Framed, LaidOut, Idle, PartialsFit
<1>8. Moving'
  BY <1>1, <1>3 DEF Moving, StoredFirst, Running, AttendsToWholePastOnce, LeavesCacheComplete, Done, Idle
<1>. QED
  BY <1>7, <1>8, SoundParts, PTL

\* Nothing runs to begin with.
LEMMA AttentionInitSound ==
  ASSUME DispatchAssumption, AttentionInit
  PROVE  AttentionSound
<1>1. /\ page_size \in PageSizes /\ flash \in BOOLEAN /\ length \in [Slots -> Nat]
      /\ unwritten = {} /\ rows = << >> /\ kernels = << >>
      /\ caller = "none" /\ block = << >> /\ attended = << >> /\ passes = 0 /\ Passes \in Nat
  BY DEF AttentionInit, DispatchAssumption
<1>2. DOMAIN << >> = {} /\ Range(<< >>) = {} /\ << >> \in Seq([slot : Slots, position : Nat, begin : Nat])
      /\ << >> \in Seq([kind : Kinds, splits : 1 .. SPLITK_MAX_SPLITS])
  BY DEF Range
<1>3. AttentionTypeOK
  BY <1>1, <1>2 DEF AttentionTypeOK
<1>4. Framed
  BY <1>1, <1>2, <1>3 DEF Framed, LaidOut, Idle, PartialsFit
<1>5. Moving
  BY <1>1 DEF Moving, StoredFirst, Running, AttendsToWholePastOnce, LeavesCacheComplete, Done, Idle
<1>. QED
  BY <1>4, <1>5, SoundParts

\* Convolution and pools do not touch attention.
LEMMA AttentionKept ==
  ASSUME AttentionSound, UNCHANGED attention_vars
  PROVE  AttentionSound'
<1>1. /\ page_size' = page_size /\ flash' = flash /\ length' = length /\ unwritten' = unwritten
      /\ caller' = caller /\ rows' = rows /\ kernels' = kernels /\ block' = block
      /\ attended' = attended /\ passes' = passes
  BY DEF attention_vars
<1>2. AttentionTypeOK' /\ AttendsToWholePastOnce' /\ LeavesCacheComplete' /\ PartialsFit'
  BY <1>1 DEF AttentionSound, AttentionTypeOK, AttendsToWholePastOnce, LeavesCacheComplete, PartialsFit,
              Done, Idle, Racing, RacingRows
<1>3. StepInProgress'
  <2>1. LaidOut(rows)' /\ (rows # << >> <=> ~Idle)' /\ (Idle => kernels = << >>)'
    BY <1>1 DEF AttentionSound, StepInProgress, LaidOut, Idle
  <2>2. (\A kernel \in Range(kernels) : Suits(kernel, caller, rows))'
    <3>1. ASSUME NEW kernel \in Range(kernels) PROVE Suits(kernel, caller, rows)'
      <4>1. Suits(kernel, caller, rows)
        BY DEF AttentionSound, StepInProgress
      <4>. QED
        BY <1>1, <4>1 DEF Suits, RacingRows
    <3>. QED
      BY <1>1, <3>1
  <2>3. StoredFirst'
    BY <1>1 DEF AttentionSound, StepInProgress, StoredFirst, Running
  <2>4. (Running("fused") => FusedInProgress)'
    <3>1. Running("fused")' => Running("fused")
      BY <1>1 DEF Running
    <3>2. ASSUME FusedInProgress PROVE FusedInProgress'
      BY <1>1, <3>2, FusedAgain DEF FusedInProgress
    <3>. QED
      BY <3>1, <3>2 DEF AttentionSound, StepInProgress
  <2>. QED
    BY <2>1, <2>2, <2>3, <2>4 DEF StepInProgress
<1>. QED
  BY <1>2, <1>3 DEF AttentionSound

\* Whatever kernels a step takes, on whatever rows, each row attends to every
\* position of its own sequence exactly once and the K/V of the step is in the
\* cache when it is over (lfm2_base.rs, decode_executor.rs and src/kernels).
THEOREM AttentionIsSound == KernelsSpec => []AttentionSound
<1>1. DispatchAssumption
  BY DispatchAssumption
<1>2. KernelsInit => AttentionSound
  BY <1>1, AttentionInitSound DEF KernelsInit
<1>3. AttentionSound /\ [KernelsNext /\ UNCHANGED part]_kernel_vars => AttentionSound'
  <2> SUFFICES ASSUME AttentionSound, [KernelsNext /\ UNCHANGED part]_kernel_vars
               PROVE  AttentionSound'
    OBVIOUS
  <2>1. CASE UNCHANGED attention_vars
    BY <2>1, AttentionKept
  <2>2. CASE AttentionNext
    <3>1. CASE \E who \in Callers, S \in (SUBSET Slots) \ {{}} : \E count \in [S -> Lengths] : Launch(who, count)
      <4>1. PICK who \in Callers, S \in (SUBSET Slots) \ {{}} : \E count \in [S -> Lengths] : Launch(who, count)
        BY <3>1
      <4>2. PICK count \in [S -> Lengths] : Launch(who, count)
        BY <4>1
      <4>. QED
        <5>1. S \in SUBSET Slots /\ S # {}
          OBVIOUS
        <5>. QED
          BY <1>1, <4>2, <5>1, LaunchSound
    <3>2. CASE StoreAll
      BY <3>2, StoreAllSound
    <3>3. CASE AttendAll
      BY <1>1, <3>3, AttendAllSound
    <3>4. CASE FinishStep
      BY <1>1, <3>4, FinishStepSound
    <3>5. CASE \E i \in DOMAIN rows : StageFirstPage(i) \/ StoreOwn(i) \/ AttendRest(i)
      BY <1>1, <3>5, StageSound, StoreOwnSound, AttendRestSound
    <3>. QED
      BY <2>2, <3>1, <3>2, <3>3, <3>4, <3>5 DEF AttentionNext
  <2>3. UNCHANGED attention_vars \/ AttentionNext
    BY Zenon DEF KernelsNext, kernel_vars
  <2>. QED
    BY <2>1, <2>2, <2>3
<1>. QED
  BY <1>2, <1>3, PTL DEF KernelsSpec
=============================================================================
