------------------------- MODULE BatchModelCache_proofs -------------------------
(***************************************************************************)
(* Proofs about the paged KV cache: the counts, the free stack and the     *)
(* reservations are exact in every reachable state, and the free pages     *)
(* always cover everything the admitted requests may still need.           *)
(*                                                                         *)
(* And, on top of these, about what the pages hold: the K/V a request      *)
(* attends to and its convolution state were computed from its own tokens, *)
(* the checks that would end the owner never fail, and neither an attached *)
(* page nor what the radix cache has learnt is ever changed.               *)
(***************************************************************************)
EXTENDS BatchModelCache, FiniteSetTheorems, SequenceTheorems, TLAPS

-----------------------------------------------------------------------------
(* Page arithmetic.                                                        *)

\* A whole number of pages is a number of tokens.
LEMMA DivMulType == \A k \in Nat : k * PageSize \in Nat
  BY PageSizeAssumption

\* The pages of a number of tokens are a number.
LEMMA DivCeilType == \A n \in Nat : DivCeil(n) \in Nat
  BY PageSizeAssumption DEF DivCeil

\* No tokens need no page.
LEMMA DivCeilZero == DivCeil(0) = 0
  BY PageSizeAssumption DEF DivCeil

\* More than k pages are needed exactly when the tokens exceed k pages.
LEMMA DivCeilBelow == \A n, k \in Nat : k * PageSize < n <=> k < DivCeil(n)
  BY PageSizeAssumption DEF DivCeil

\* Any token needs one.
LEMMA DivCeilPositive == \A n \in Nat : n > 0 => DivCeil(n) > 0
  BY PageSizeAssumption DEF DivCeil

\* More tokens never need fewer pages.
LEMMA DivCeilMono == \A m, n \in Nat : m <= n => DivCeil(m) <= DivCeil(n)
  BY PageSizeAssumption DEF DivCeil

\* Full pages need exactly themselves.
LEMMA DivCeilExact == \A k \in Nat : DivCeil(k * PageSize) = k
  BY PageSizeAssumption DEF DivCeil

\* The full pages of n tokens hold no more than n.
LEMMA DivBound == \A n, k \in Nat : k <= n \div PageSize => k * PageSize <= n
  BY PageSizeAssumption

\* More pages hold at least as many tokens.
LEMMA MulMono == \A m, n \in Nat : m <= n => m * PageSize <= n * PageSize
  BY PageSizeAssumption

\* The tokens of full pages tell how many pages.
LEMMA MulInjective == \A m, n \in Nat : m * PageSize = n * PageSize => m = n
  BY PageSizeAssumption

\* The rows of the block table have a length.
LEMMA RowLength == PagesPerSlot \in Nat
  BY RequestAssumption

\* What may be reused leaves at least one token of the prompt to compute.
LEMMA ReusableBound ==
  ASSUME NEW seq \in Seq(Token), seq # << >>
  PROVE  /\ ReusablePages(seq) \in Nat
         /\ \A k \in Nat : k <= ReusablePages(seq) => k * PageSize < Len(seq)
<1>1. Len(seq) \in Nat /\ Len(seq) > 0
  OBVIOUS
<1>2. Len(seq) - 1 \in Nat
  BY <1>1
<1>. QED
  BY <1>1, <1>2, DivBound, PageSizeAssumption DEF ReusablePages

-----------------------------------------------------------------------------
(* Sequences and finite sets.                                              *)

\* The tokens of the first k pages, one by one.
LEMMA PrefixType ==
  ASSUME NEW seq \in Seq(Token), NEW k \in Nat, k * PageSize <= Len(seq)
  PROVE  /\ Prefix(seq, k) \in Seq(Token)
         /\ Len(Prefix(seq, k)) = k * PageSize
         /\ \A i \in 1 .. k * PageSize : Prefix(seq, k)[i] = seq[i]
<1>1. k * PageSize \in Nat /\ Len(seq) \in Nat
  BY DivMulType
<1>2. \A i \in 1 .. k * PageSize : seq[i] \in Token
  BY <1>1, ElementOfSeq
<1>3. /\ Prefix(seq, k) \in Seq(Token)
      /\ Len(Prefix(seq, k)) = IF 1 <= k * PageSize THEN k * PageSize - 1 + 1 ELSE 0
      /\ \A i \in 1 .. k * PageSize - 1 + 1 : Prefix(seq, k)[i] = seq[1 + i - 1]
  BY <1>1, <1>2, SubSeqProperties DEF Prefix
<1>. QED
  BY <1>1, <1>3

\* A token more at the end changes no full page before it.
LEMMA PrefixAppend ==
  ASSUME NEW seq \in Seq(Token), NEW token \in Token,
         NEW k \in Nat, k * PageSize <= Len(seq)
  PROVE  Prefix(Append(seq, token), k) = Prefix(seq, k)
<1> DEFINE longer == Append(seq, token)
<1>1. k * PageSize \in Nat /\ Len(seq) \in Nat
  BY DivMulType
<1>2. /\ longer \in Seq(Token)
      /\ Len(longer) = Len(seq) + 1
      /\ \A i \in 1 .. Len(seq) : longer[i] = seq[i]
  BY AppendProperties
<1> HIDE DEF longer
<1>3. k * PageSize <= Len(longer)
  BY <1>1, <1>2
<1>4. /\ Prefix(longer, k) \in Seq(Token) /\ Len(Prefix(longer, k)) = k * PageSize
      /\ \A i \in 1 .. k * PageSize : Prefix(longer, k)[i] = longer[i]
  BY <1>2, <1>3, PrefixType
<1>5. /\ Prefix(seq, k) \in Seq(Token) /\ Len(Prefix(seq, k)) = k * PageSize
      /\ \A i \in 1 .. k * PageSize : Prefix(seq, k)[i] = seq[i]
  BY PrefixType
<1>6. \A i \in 1 .. k * PageSize : Prefix(longer, k)[i] = Prefix(seq, k)[i]
  BY <1>1, <1>2, <1>4, <1>5
<1>7. Prefix(longer, k) = Prefix(seq, k)
  BY <1>4, <1>5, <1>6, SeqEqual
<1>. QED
  BY <1>7 DEF longer

\* Two prefixes of one sequence are equal only if they are as long.
LEMMA PrefixInjective ==
  ASSUME NEW seq \in Seq(Token), NEW j \in Nat, NEW k \in Nat,
         j * PageSize <= Len(seq), k * PageSize <= Len(seq),
         Prefix(seq, j) = Prefix(seq, k)
  PROVE  j = k
  BY PrefixType, MulInjective

\* The pages of one slot at a set of positions, as places of block tables.
LEMMA RowCardinality ==
  ASSUME NEW s, NEW I, IsFiniteSet(I)
  PROVE  IsFiniteSet({s} \X I) /\ Cardinality({s} \X I) = Cardinality(I)
<1>1. IsFiniteSet({s}) /\ Cardinality({s}) = 1
  BY FS_Singleton
<1>2. Cardinality(I) \in Nat
  BY FS_CardinalityType
<1>. QED
  BY <1>1, <1>2, FS_Product

\* The size of an interval.
LEMMA IntervalCardinality ==
  ASSUME NEW a \in Nat, NEW b \in Nat, a <= b
  PROVE  IsFiniteSet(a + 1 .. b) /\ Cardinality(a + 1 .. b) = b - a
<1>1. a + 1 \in Int /\ b \in Int
  OBVIOUS
<1>2. /\ IsFiniteSet(a + 1 .. b)
      /\ Cardinality(a + 1 .. b) = IF a + 1 > b THEN 0 ELSE b - (a + 1) + 1
  BY <1>1, FS_Interval
<1>. QED
  BY <1>2

\* Sizes of disjoint sets add up.
LEMMA DisjointUnion ==
  ASSUME NEW S, IsFiniteSet(S), NEW T, IsFiniteSet(T), S \cap T = {}
  PROVE  /\ IsFiniteSet(S \cup T)
         /\ Cardinality(S \cup T) = Cardinality(S) + Cardinality(T)
         /\ Cardinality(S) \in Nat /\ Cardinality(T) \in Nat
<1>1. Cardinality(S) \in Nat /\ Cardinality(T) \in Nat
  BY FS_CardinalityType
<1>2. Cardinality(S \cap T) = 0
  BY FS_EmptySet
<1>3. /\ IsFiniteSet(S \cup T)
      /\ Cardinality(S \cup T) = Cardinality(S) + Cardinality(T) - Cardinality(S \cap T)
  BY FS_Union
<1>. QED
  BY <1>1, <1>2, <1>3

\* Taking a subset out subtracts its size.
LEMMA SubsetDifference ==
  ASSUME NEW S, IsFiniteSet(S), NEW T \in SUBSET S
  PROVE  /\ IsFiniteSet(S \ T) /\ IsFiniteSet(T)
         /\ Cardinality(S \ T) = Cardinality(S) - Cardinality(T)
         /\ Cardinality(S) \in Nat /\ Cardinality(T) \in Nat
         /\ Cardinality(T) <= Cardinality(S)
<1>1. IsFiniteSet(T) /\ Cardinality(T) <= Cardinality(S)
  BY FS_Subset
<1>2. S \cap T = T
  OBVIOUS
<1>3. Cardinality(S) \in Nat /\ Cardinality(T) \in Nat
  BY <1>1, FS_CardinalityType
<1>. QED
  BY <1>1, <1>2, <1>3, FS_Difference

\* As many values as indices when a function is one-to-one on them.
LEMMA ImageCardinality ==
  ASSUME NEW I, IsFiniteSet(I), NEW f, NEW T,
         T = {f[i] : i \in I},
         \A i, j \in I : f[i] = f[j] => i = j
  PROVE  IsFiniteSet(T) /\ Cardinality(T) = Cardinality(I)
<1> DEFINE g == [i \in I |-> f[i]]
<1>1. g \in Bijection(I, T)
  BY DEF Bijection, Injection, Surjection, IsInjective
<1>2. ExistsBijection(I, T)
  BY <1>1 DEF ExistsBijection
<1>. QED
  BY <1>2, FS_Bijection

-----------------------------------------------------------------------------
(* Types of the helpers' results.                                          *)

\* A page occurs finitely often in a row.
LEMMA OccurrencesType ==
  ASSUME NEW row, NEW I, IsFiniteSet(I), NEW p
  PROVE  /\ IsFiniteSet({i \in I : row[i] = p})
         /\ Occurrences(row, I, p) \in Nat
<1>1. IsFiniteSet({i \in I : row[i] = p})
  BY FS_Subset
<1>. QED
  BY <1>1, FS_CardinalityType DEF Occurrences

\* Retaining pages keeps the types of the references,
LEMMA RetainType ==
  ASSUME page_refs \in [Page -> Nat], NEW row, NEW I, IsFiniteSet(I)
  PROVE  RefsAfterRetain(row, I) \in [Page -> Nat]
<1>1. \A p \in Page : Occurrences(row, I, p) \in Nat
  BY OccurrencesType
<1>. QED
  BY <1>1 DEF RefsAfterRetain

\* and so does releasing them.
LEMMA ReleaseType ==
  ASSUME page_refs \in [Page -> Nat], NEW row, NEW I, IsFiniteSet(I)
  PROVE  RefsAfterRelease(row, I) \in [Page -> Nat]
<1> SUFFICES ASSUME NEW p \in Page
             PROVE  (IF Occurrences(row, I, p) > page_refs[p]
                     THEN 0 ELSE page_refs[p] - Occurrences(row, I, p)) \in Nat
  BY DEF RefsAfterRelease
<1>1. Occurrences(row, I, p) \in Nat /\ page_refs[p] \in Nat
  BY OccurrencesType
<1>. QED
  BY <1>1

\* Reserving and giving back a reservation keep its type.
LEMMA ReservationType ==
  ASSUME reserved_pages \in Nat, NEW n \in Nat
  PROVE  ReservedAfterReserve(n) \in Nat /\ ReservedAfterRelease(n) \in Nat
  BY DEF ReservedAfterReserve, ReservedAfterRelease

\* A hit is a path of nodes, so it has pages and a checkpoint to restore.
LEMMA HitShape ==
  ASSUME CacheTypeOK, NEW seq \in Seq(Token), seq # << >>, NEW hit,
         IsDeepestCheckpoint(seq, ReusablePages(seq), hit)
  PROVE  /\ hit \in Nat /\ hit * PageSize < Len(seq)
         /\ \A j \in 1 .. hit : Prefix(seq, j) \in radix_nodes
         /\ PathPages(seq, hit) \in [1 .. hit -> Page]
         /\ hit # 0 => checkpoint_state[node_checkpoint[Prefix(seq, hit)]] \in Seq(Token)
<1>1. ReusablePages(seq) \in Nat /\ hit \in Nat /\ hit * PageSize < Len(seq)
  BY ReusableBound DEF IsDeepestCheckpoint
<1>2. \A j \in 1 .. hit : Prefix(seq, j) \in radix_nodes
  BY <1>1 DEF IsDeepestCheckpoint, HasCheckpoint, HasPath
<1>3. PathPages(seq, hit) \in [1 .. hit -> Page]
  BY <1>2 DEF PathPages, CacheTypeOK
<1>4. ASSUME hit # 0
      PROVE  checkpoint_state[node_checkpoint[Prefix(seq, hit)]] \in Seq(Token)
  <2>1. HasCheckpoint(seq, hit) /\ Prefix(seq, hit) \in radix_nodes
    BY <1>1, <1>2, <1>4 DEF IsDeepestCheckpoint
  <2>2. node_checkpoint[Prefix(seq, hit)] \in Checkpoint
    BY <2>1 DEF HasCheckpoint, CacheTypeOK
  <2>. QED
    BY <2>2 DEF CacheTypeOK
<1>. QED
  BY <1>1, <1>2, <1>3, <1>4

\* What is admitted is a prompt with room for a token more.
LEMMA AdmittedPrompt ==
  ASSUME NEW s, NEW prompt \in Prompt, NEW new \in NewTokenLimit, NEW hit,
         Admit(s, prompt, Len(prompt) + new, hit)
  PROVE  /\ prompt \in Seq(Token) /\ prompt # << >> /\ new \in Nat
         /\ Len(prompt) \in Nat /\ Len(prompt) > 0
         /\ Len(prompt) + new \in Nat /\ Len(prompt) < Len(prompt) + new
<1>1. prompt \in Seq(Token) /\ new \in Nat /\ new > 0
  BY RequestAssumption
<1>2. prompt # << >>
  BY DEF Admit, CanAdmit
<1>3. Len(prompt) \in Nat /\ Len(prompt) > 0
  BY <1>1, <1>2
<1>. QED
  BY <1>1, <1>2, <1>3

-----------------------------------------------------------------------------
(* Type correctness: no action leaves the types.                           *)

\* Admission keeps the types.
LEMMA AdmitType ==
  ASSUME CacheTypeOK, NEW s \in Slot, NEW prompt \in Prompt, NEW new \in NewTokenLimit,
         NEW hit, Admit(s, prompt, Len(prompt) + new, hit)
  PROVE  CacheTypeOK'
<1> DEFINE total == Len(prompt) + new
<1>1. /\ prompt \in Seq(Token) /\ prompt # << >> /\ new \in Nat /\ Len(prompt) \in Nat
      /\ total \in Nat /\ Len(prompt) <= total
  BY AdmittedPrompt
<1>2. IsDeepestCheckpoint(prompt, ReusablePages(prompt), hit)
  BY DEF Admit, CanAdmit
<1>3. /\ hit \in Nat /\ hit * PageSize < Len(prompt)
      /\ PathPages(prompt, hit) \in [1 .. hit -> Page]
      /\ hit # 0 => checkpoint_state[node_checkpoint[Prefix(prompt, hit)]] \in Seq(Token)
  BY <1>1, <1>2, HitShape
<1>4. PrivatePages(total, hit) \in Nat
  <2>1. hit * PageSize \in Nat /\ hit * PageSize < total
    BY <1>1, <1>3, DivMulType
  <2>2. DivCeil(total) \in Nat /\ hit < DivCeil(total)
    BY <1>1, <1>3, <2>1, DivCeilBelow, DivCeilType
  <2>. QED
    BY <1>3, <2>2 DEF PrivatePages
<1>5. IsFiniteSet(1 .. hit)
  <2>1. 1 \in Int /\ hit \in Int
    BY <1>3
  <2>. QED
    BY <2>1, FS_Interval
<1>6. reserved_pages' \in Nat
  BY <1>4, ReservationType DEF Admit, CacheTypeOK
<1>7. page_refs' \in [Page -> Nat]
  BY <1>5, RetainType DEF Admit, CacheTypeOK
<1>8. block_table' \in [Slot -> [Positions -> Page \cup {NoPage}]]
  BY <1>3 DEF Admit, CacheTypeOK
<1>9. reservations' \in [Slot -> Nat] /\ maximum_tokens' \in [Slot -> Nat]
  BY <1>1, <1>4 DEF Admit, CacheTypeOK
<1>10. allocated_tokens' \in [Slot -> Nat]
  BY <1>3, DivMulType DEF Admit, CacheTypeOK
<1>11. tokens' \in [Slot -> Seq(Token)]
  BY <1>1 DEF Admit, CacheTypeOK
<1>12. conv_state' \in [Slot -> Seq(Token)]
  BY <1>3 DEF Admit, CacheTypeOK
<1>. QED
  BY <1>6, <1>7, <1>8, <1>9, <1>10, <1>11, <1>12
     DEF Admit, CacheTypeOK, radix_vars, radix_nodes

\* Attaching a deeper prefix keeps the types.
LEMMA ExtendType ==
  ASSUME CacheTypeOK, NEW s \in Slot, NEW hit, ExtendAttachedPrefix(s, hit)
  PROVE  CacheTypeOK'
<1> DEFINE n == hit - AllocatedPages(s)
<1>1. tokens[s] \in Seq(Token) /\ tokens[s] # << >>
  BY DEF ExtendAttachedPrefix, Untouched, Occupied, CacheTypeOK
<1>2. /\ hit \in Nat /\ hit # 0
      /\ PathPages(tokens[s], hit) \in [1 .. hit -> Page]
      /\ checkpoint_state[node_checkpoint[Prefix(tokens[s], hit)]] \in Seq(Token)
      /\ AllocatedPages(s) \in Nat /\ hit > AllocatedPages(s)
  <2>1. AllocatedPages(s) \in Nat
    BY DivCeilType DEF AllocatedPages, CacheTypeOK
  <2>2. IsDeepestCheckpoint(tokens[s], ReusablePages(tokens[s]), hit)
        /\ hit > AllocatedPages(s)
    BY DEF ExtendAttachedPrefix, DeeperHit
  <2>3. hit \in Nat /\ hit # 0
    BY <1>1, <2>1, <2>2, HitShape
  <2>. QED
    BY <1>1, <2>1, <2>2, <2>3, HitShape
<1>3. n \in Nat /\ n <= reservations[s] /\ reservations[s] \in Nat
  BY <1>2 DEF ExtendAttachedPrefix, CanExtend, CacheTypeOK
<1>4. IsFiniteSet(AllocatedPages(s) + 1 .. hit)
  BY <1>2, FS_Interval
<1>5. page_refs' \in [Page -> Nat]
  BY <1>4, RetainType DEF ExtendAttachedPrefix, ExtendEffect, CacheTypeOK
<1>6. reserved_pages' \in Nat
  BY <1>3, ReservationType DEF ExtendAttachedPrefix, ExtendEffect, CacheTypeOK
<1>7. reservations' \in [Slot -> Nat]
  BY <1>3 DEF ExtendAttachedPrefix, ExtendEffect, CacheTypeOK
<1>8. block_table' \in [Slot -> [Positions -> Page \cup {NoPage}]]
  <2>1. \A i \in AllocatedPages(s) + 1 .. hit : PathPages(tokens[s], hit)[i] \in Page
    BY <1>2
  <2>. QED
    BY <2>1 DEF ExtendAttachedPrefix, ExtendEffect, CacheTypeOK
<1>9. allocated_tokens' \in [Slot -> Nat]
  BY <1>2, DivMulType DEF ExtendAttachedPrefix, ExtendEffect, CacheTypeOK
<1>10. conv_state' \in [Slot -> Seq(Token)]
  BY <1>2 DEF ExtendAttachedPrefix, ExtendEffect, CacheTypeOK
<1>. QED
  BY <1>5, <1>6, <1>7, <1>8, <1>9, <1>10
     DEF ExtendAttachedPrefix, ExtendEffect, CacheTypeOK, radix_vars, radix_nodes, request_vars

\* Preparing tokens keeps the types.
LEMMA PrepareType ==
  ASSUME CacheTypeOK, NEW s \in Slot, NEW n \in Nat, PrepareTokens(s, n)
  PROVE  CacheTypeOK'
<1> DEFINE I == NewPositions(s, n)
           from == allocated_tokens[s] + 1
           upto == allocated_tokens[s] + n
<1>1. PICK fresh \in FreshRows(I) : PrepareEffect(s, n, fresh)
  BY DEF PrepareTokens
<1>2. allocated_tokens[s] \in Nat /\ upto \in Nat /\ tokens[s] \in Seq(Token)
      /\ upto <= Len(tokens[s]) /\ Len(tokens[s]) \in Nat /\ n > 0
  BY DEF PrepareTokens, CacheTypeOK
<1>3. fresh \in [I -> Page]
  BY DEF FreshRows, CacheTypeOK
<1>4. free_pages' \subseteq Page /\ page_refs' \in [Page -> Nat]
  BY <1>1 DEF PrepareEffect, FreeAfterGrow, RefsAfterGrow, CacheTypeOK
<1>5. block_table' \in [Slot -> [Positions -> Page \cup {NoPage}]]
  BY <1>1, <1>3 DEF PrepareEffect, CacheTypeOK
<1>6. allocated_tokens' \in [Slot -> Nat]
  BY <1>1, <1>2 DEF PrepareEffect, CacheTypeOK
<1>7. \A i \in 1 .. Len(tokens[s]) : tokens[s][i] \in Token
  BY <1>2, ElementOfSeq
<1>8. \A j \in from .. upto : SubSeq(tokens[s], 1, j) \in Seq(Token)
  BY <1>2, <1>7, SubSeqProperties
<1>9. SubSeq(tokens[s], from, upto) \in Seq(Token)
  BY <1>2, <1>7, SubSeqProperties
<1>10. conv_state' \in [Slot -> Seq(Token)]
  <2>1. conv_state[s] \o SubSeq(tokens[s], from, upto) \in Seq(Token)
    BY <1>9, ConcatProperties DEF CacheTypeOK
  <2>. QED
    BY <1>1, <2>1 DEF PrepareEffect, CacheTypeOK
<1>11. kv_page' \in [Page -> [1 .. PageSize -> Seq(Token)]]
  <2> DEFINE row == [i \in Positions |-> IF i \in I THEN fresh[i] ELSE block_table[s][i]]
             stored(p, o) ==
               LET writes == Written(row, from, upto, p, o)
               IN  IF writes = {} THEN kv_page[p][o]
                   ELSE SubSeq(tokens[s], 1, CHOOSE j \in writes : TRUE)
  <2>1. kv_page' = [p \in Page |-> [o \in 1 .. PageSize |-> stored(p, o)]]
    BY <1>1 DEF PrepareEffect
  <2> HIDE DEF row, from, upto
  <2>2. ASSUME NEW p \in Page, NEW o \in 1 .. PageSize
        PROVE  stored(p, o) \in Seq(Token)
    <3>1. CASE Written(row, from, upto, p, o) = {}
      <4>1. kv_page[p] \in [1 .. PageSize -> Seq(Token)]
        BY DEF CacheTypeOK
      <4>2. stored(p, o) = kv_page[p][o]
        BY <3>1
      <4>. QED
        BY <4>1, <4>2
    <3>2. CASE Written(row, from, upto, p, o) # {}
      <4> DEFINE j == CHOOSE j \in Written(row, from, upto, p, o) : TRUE
      <4>1. j \in Written(row, from, upto, p, o)
        BY <3>2
      <4>2. j \in from .. upto
        BY <4>1 DEF Written
      <4>3. SubSeq(tokens[s], 1, j) \in Seq(Token)
        BY <1>8, <4>2
      <4>. QED
        BY <3>2, <4>3
    <3>. QED
      BY <3>1, <3>2
  <2>. QED
    BY <2>1, <2>2
<1>. QED
  BY <1>1, <1>4, <1>5, <1>6, <1>10, <1>11
     DEF PrepareEffect, CacheTypeOK, radix_vars, radix_nodes, request_vars

\* Pushing a sampled token keeps the types.
LEMMA PushType ==
  ASSUME CacheTypeOK, NEW s \in Slot, NEW token \in Token, PushToken(s, token)
  PROVE  CacheTypeOK'
<1>1. Append(tokens[s], token) \in Seq(Token)
  BY AppendProperties DEF CacheTypeOK
<1>2. tokens' \in [Slot -> Seq(Token)]
  BY <1>1 DEF PushToken, CanPush, PushEffect, CacheTypeOK
<1>. QED
  BY <1>2 DEF PushToken, CanPush, PushEffect, CacheTypeOK, allocator_vars, radix_vars,
              radix_nodes, table_vars,
              data_vars

\* A missing page of a prefix is a page of the row that publishes it.
LEMMA InsertedPages ==
  ASSUME CacheTypeOK, NEW seq \in Seq(Token), NEW k \in Nat, k * PageSize <= Len(seq),
         NEW row, NEW checkpoint \in Checkpoint, InsertCheckpoint(seq, k, row, checkpoint)
  PROVE  /\ \A j \in MissingPages(seq, k) : j \in Nat /\ j * PageSize <= Len(seq)
         /\ radix_nodes' = radix_nodes \cup {Prefix(seq, j) : j \in MissingPages(seq, k)}
         /\ \A n \in radix_nodes : node_page'[n] = node_page[n]
         /\ \A j \in MissingPages(seq, k) : node_page'[Prefix(seq, j)] = row[j]
         /\ node_checkpoint' \in [radix_nodes' -> Checkpoint \cup {NoCheckpoint}]
         /\ node_page' = [n \in radix_nodes' |-> node_page'[n]]
<1> DEFINE missing == MissingPages(seq, k)
           added == {Prefix(seq, j) : j \in missing}
           all == radix_nodes \cup added
           owned(n) == IF n \in radix_nodes THEN node_page[n]
                       ELSE row[CHOOSE j \in missing : n = Prefix(seq, j)]
<1>1. \A j \in missing : j \in Nat /\ j * PageSize <= Len(seq)
  <2> SUFFICES ASSUME NEW j \in missing PROVE j \in Nat /\ j * PageSize <= Len(seq)
    OBVIOUS
  <2>1. j \in Nat /\ j <= k
    BY DEF MissingPages
  <2>2. j * PageSize <= k * PageSize
    BY <2>1, MulMono
  <2>. QED
    BY <2>1, <2>2, DivMulType
<1>2. node_page' = [n \in all |-> owned(n)]
  BY DEF InsertCheckpoint
<1>3. radix_nodes' = all
  BY <1>2 DEF radix_nodes
<1>4. \A n \in radix_nodes : node_page'[n] = node_page[n]
  BY <1>2
<1>5. ASSUME NEW j \in missing
      PROVE  node_page'[Prefix(seq, j)] = row[j]
  <2> DEFINE i == CHOOSE i \in missing : Prefix(seq, j) = Prefix(seq, i)
  <2>1. i \in missing /\ Prefix(seq, j) = Prefix(seq, i)
    OBVIOUS
  <2>2. i = j
    BY <1>1, <2>1, PrefixInjective
  <2>3. Prefix(seq, j) \notin radix_nodes /\ Prefix(seq, j) \in all
    BY DEF MissingPages
  <2>4. node_page'[Prefix(seq, j)] = row[i]
    BY <1>2, <2>3
  <2>. QED
    BY <2>2, <2>4
<1>6. node_checkpoint' \in [radix_nodes' -> Checkpoint \cup {NoCheckpoint}]
  BY <1>3 DEF InsertCheckpoint, CacheTypeOK
<1>7. node_page' = [n \in radix_nodes' |-> node_page'[n]]
  BY <1>2, <1>3
<1>. QED
  BY <1>1, <1>3, <1>4, <1>5, <1>6, <1>7

\* Publication keeps the types.
LEMMA PublishType ==
  ASSUME CacheTypeOK, NEW s \in Slot, PublishPrefix(s)
  PROVE  CacheTypeOK'
<1> DEFINE k == AllocatedPages(s)
           missing == MissingPages(tokens[s], k)
<1>1. PICK checkpoint \in free_checkpoints :
        /\ free_checkpoints' = free_checkpoints \ {checkpoint}
        /\ checkpoint_state' = [checkpoint_state EXCEPT ![checkpoint] = conv_state[s]]
        /\ InsertCheckpoint(tokens[s], k, block_table[s], checkpoint)
        /\ page_refs' = RefsAfterRetain(block_table[s], missing)
        /\ cached_pages' = CachedAfterPin(missing)
        /\ UNCHANGED <<free_pages, reserved_pages, table_vars, request_vars,
                       conv_state, kv_page>>
  BY DEF PublishPrefix, PublishEffect
<1>2. k \in Nat /\ k * PageSize <= Len(tokens[s]) /\ tokens[s] \in Seq(Token)
      /\ checkpoint \in Checkpoint
  BY DivCeilType DEF PublishPrefix, WillPublish, CanPublish, AllocatedPages, CacheTypeOK
<1>3. \A j \in missing : block_table[s][j] \in Page
  BY DEF PublishPrefix, PublishSound, CanPin, AllInUse
<1>4. IsFiniteSet(missing)
  <2>1. IsFiniteSet(1 .. k) /\ missing \subseteq 1 .. k
    BY <1>2, FS_Interval DEF MissingPages
  <2>. QED
    BY <2>1, FS_Subset
<1> HIDE DEF k, missing
<1>5. /\ \A j \in missing : j \in Nat /\ j * PageSize <= Len(tokens[s])
      /\ radix_nodes' = radix_nodes \cup {Prefix(tokens[s], j) : j \in missing}
      /\ \A n \in radix_nodes : node_page'[n] = node_page[n]
      /\ \A j \in missing : node_page'[Prefix(tokens[s], j)] = block_table[s][j]
      /\ node_checkpoint' \in [radix_nodes' -> Checkpoint \cup {NoCheckpoint}]
      /\ node_page' = [n \in radix_nodes' |-> node_page'[n]]
  BY <1>1, <1>2, InsertedPages DEF missing
<1>6. node_page' \in [radix_nodes' -> Page]
  <2>1. \A n \in radix_nodes : node_page[n] \in Page
    BY DEF CacheTypeOK
  <2>2. \A n \in radix_nodes' : node_page'[n] \in Page
    BY <1>3, <1>5, <2>1
  <2>. QED
    BY <1>5, <2>2
<1>7. radix_nodes' \subseteq Seq(Token)
  BY <1>2, <1>5, PrefixType DEF CacheTypeOK
<1>8. page_refs' \in [Page -> Nat] /\ cached_pages' \in Nat
  BY <1>1, <1>4, RetainType, FS_CardinalityType DEF CachedAfterPin, CacheTypeOK
<1>9. checkpoint_state' \in [Checkpoint -> Seq(Token)] /\ free_checkpoints' \subseteq Checkpoint
  BY <1>1 DEF CacheTypeOK
<1>. QED
  BY <1>1, <1>5, <1>6, <1>7, <1>8, <1>9 DEF CacheTypeOK, table_vars, request_vars

\* Releasing a slot keeps the types.
LEMMA ReleasesType ==
  ASSUME CacheTypeOK, NEW s \in Slot, Release(s)
  PROVE  CacheTypeOK'
<1> DEFINE I == 1 .. AllocatedPages(s)
<1>1. IsFiniteSet(I)
  <2>1. AllocatedPages(s) \in Nat
    BY DivCeilType DEF AllocatedPages, CacheTypeOK
  <2>. QED
    BY <2>1, FS_Interval
<1>2. page_refs' \in [Page -> Nat]
  BY <1>1, ReleaseType DEF Release, CacheTypeOK
<1>3. free_pages' \subseteq Page
  BY DEF Release, FreeAfterRelease, Reclaimed, CacheTypeOK
<1>4. reserved_pages' \in Nat
  BY ReservationType DEF Release, CacheTypeOK
<1>5. block_table' \in [Slot -> [Positions -> Page \cup {NoPage}]]
  BY DEF Release, CacheTypeOK
<1>6. << >> \in Seq(Token)
  OBVIOUS
<1>7. kv_page' \in [Page -> [1 .. PageSize -> Seq(Token)]]
  BY <1>6 DEF Release, EmptyPage, CacheTypeOK
<1>8. reservations' \in [Slot -> Nat] /\ allocated_tokens' \in [Slot -> Nat]
      /\ maximum_tokens' \in [Slot -> Nat]
  BY DEF Release, CacheTypeOK
<1>9. tokens' \in [Slot -> Seq(Token)] /\ conv_state' \in [Slot -> Seq(Token)]
  BY <1>6 DEF Release, CacheTypeOK
<1>. QED
  BY <1>2, <1>3, <1>4, <1>5, <1>7, <1>8, <1>9
     DEF Release, CacheTypeOK, radix_vars, radix_nodes

\* The empty cache has its types,
LEMMA InitType == CacheInit => CacheTypeOK
<1> SUFFICES ASSUME CacheInit PROVE CacheTypeOK
  OBVIOUS
<1>1. << >> \in Seq(Token) /\ DOMAIN << >> = {}
  OBVIOUS
<1>2. node_page \in [radix_nodes -> Page]
      /\ node_checkpoint \in [radix_nodes -> Checkpoint \cup {NoCheckpoint}]
      /\ radix_nodes = {}
  BY <1>1 DEF CacheInit, RadixInit, radix_nodes
<1>. QED
  BY <1>1, <1>2 DEF CacheInit, AllocatorInit, CacheTypeOK, EmptyRow, EmptyPage

\* and so has the cache after any step.
LEMMA NextType == CacheTypeOK /\ [CacheNext]_cache_vars => CacheTypeOK'
<1> SUFFICES ASSUME CacheTypeOK, [CacheNext]_cache_vars PROVE CacheTypeOK'
  OBVIOUS
<1>1. ASSUME NEW s \in Slot, NEW prompt \in Prompt, NEW new \in NewTokenLimit,
             NEW hit \in 0 .. ReusablePages(prompt),
             Admit(s, prompt, Len(prompt) + new, hit)
      PROVE  CacheTypeOK'
  BY <1>1, AdmitType
<1>2. ASSUME NEW s \in Slot, NEW hit \in 1 .. ReusablePages(tokens[s]),
             ExtendAttachedPrefix(s, hit)
      PROVE  CacheTypeOK'
  BY <1>2, ExtendType
<1>3. ASSUME NEW s \in Slot, NEW n \in 1 .. Len(tokens[s]) - allocated_tokens[s],
             PrepareTokens(s, n)
      PROVE  CacheTypeOK'
  BY <1>3, PrepareType
<1>4. ASSUME NEW s \in Slot, NEW token \in Token, PushToken(s, token)
      PROVE  CacheTypeOK'
  BY <1>4, PushType
<1>5. ASSUME NEW s \in Slot, PublishPrefix(s) PROVE CacheTypeOK'
  BY <1>5, PublishType
<1>6. ASSUME NEW s \in Slot, Release(s) PROVE CacheTypeOK'
  BY <1>6, ReleasesType
<1>7. CASE UNCHANGED cache_vars
  BY <1>7 DEF CacheTypeOK, cache_vars, allocator_vars, radix_vars, radix_nodes, table_vars,
              request_vars, data_vars
<1>. QED
  BY <1>1, <1>2, <1>3, <1>4, <1>5, <1>6, <1>7 DEF CacheNext

\* In every reachable state each variable of the cache has its type: block
\* tables hold physical pages or the empty entry and counters never go below
\* zero (src/cache/allocator.rs, src/model/lfm2_base.rs).
THEOREM TypeCorrect == CacheSpec => []CacheTypeOK
  BY InitType, NextType, PTL DEF CacheSpec

-----------------------------------------------------------------------------
(* Page accounting: places of block tables, and how references, counters   *)
(* and the budget follow a change of one row.                              *)

\* Every set of places in block tables is finite.
LEMMA PlacesFinite ==
  \A S \in SUBSET (Slot \X Positions) : IsFiniteSet(S) /\ Cardinality(S) \in Nat
<1>1. IsFiniteSet(Slot) /\ IsFiniteSet(Positions)
  BY SlotAssumption, RowLength, FS_Interval DEF Positions
<1>2. IsFiniteSet(Slot \X Positions)
  BY <1>1, FS_Product
<1>. QED
  BY <1>2, FS_Subset, FS_CardinalityType

\* What the invariant says of the row of one slot.
LEMMA SlotFacts ==
  ASSUME CacheTypeOK, SlotShape, NEW s \in Slot
  PROVE  /\ AllocatedPages(s) \in Nat /\ SharedPages(s) \in Nat
         /\ DivCeil(maximum_tokens[s]) \in Nat /\ reservations[s] \in Nat
         /\ SharedPages(s) <= AllocatedPages(s)
         /\ AllocatedPages(s) <= DivCeil(maximum_tokens[s])
         /\ DivCeil(maximum_tokens[s]) <= PagesPerSlot
         /\ \A i \in Positions : i <= AllocatedPages(s) => block_table[s][i] \in Page
         /\ \A i \in Positions : i > AllocatedPages(s) => block_table[s][i] = NoPage
         /\ ~Occupied(s) => /\ AllocatedPages(s) = 0 /\ SharedPages(s) = 0
                            /\ maximum_tokens[s] = 0 /\ DivCeil(maximum_tokens[s]) = 0
<1>1. /\ allocated_tokens[s] \in Nat /\ maximum_tokens[s] \in Nat /\ reservations[s] \in Nat
      /\ tokens[s] \in Seq(Token) /\ Len(tokens[s]) \in Nat
  BY DEF CacheTypeOK
<1>2. AllocatedPages(s) \in Nat /\ DivCeil(maximum_tokens[s]) \in Nat
  BY <1>1, DivCeilType DEF AllocatedPages
<1>3. SharedPages(s) \in Nat
  BY <1>1, <1>2 DEF SlotShape, SharedPages
<1>4. SharedPages(s) <= AllocatedPages(s)
  BY <1>1, <1>3, DivMulType, DivCeilMono, DivCeilExact DEF SlotShape, AllocatedPages
<1>5. AllocatedPages(s) <= DivCeil(maximum_tokens[s])
  BY <1>1, DivCeilMono DEF SlotShape, AllocatedPages
<1>6. \A i \in Positions : block_table[s][i] \in Page <=> i <= AllocatedPages(s)
  BY DEF SlotShape
<1>7. \A i \in Positions : i > AllocatedPages(s) => block_table[s][i] = NoPage
  BY <1>2, <1>6, RowLength DEF CacheTypeOK, Positions
<1>8. ASSUME ~Occupied(s)
      PROVE  /\ AllocatedPages(s) = 0 /\ SharedPages(s) = 0
             /\ maximum_tokens[s] = 0 /\ DivCeil(maximum_tokens[s]) = 0
  <2>1. maximum_tokens[s] = 0
    BY <1>8 DEF SlotShape
  <2>2. DivCeil(maximum_tokens[s]) = 0
    BY <2>1, DivCeilZero
  <2>. QED
    BY <1>2, <1>3, <1>4, <1>5, <2>1, <2>2
<1>. QED
  BY <1>1, <1>2, <1>3, <1>4, <1>5, <1>6, <1>7, <1>8 DEF SlotShape

\* A page that a row or the radix cache refers to is in use, so it is not free.
LEMMA ReferredInUse ==
  ASSUME CacheTypeOK, RefsExact, FreeIffUnreferenced, NEW p \in Page,
         TableRefs(p) # {} \/ p \in CachedPageSet
  PROVE  page_refs[p] > 0 /\ p \notin free_pages
<1>1. TableRefs(p) \subseteq Slot \X Positions
  BY DEF TableRefs
<1>2. IsFiniteSet(TableRefs(p)) /\ Cardinality(TableRefs(p)) \in Nat
  BY <1>1, PlacesFinite
<1>3. TableRefs(p) # {} => Cardinality(TableRefs(p)) # 0
  BY <1>2, FS_EmptySet
<1>4. page_refs[p] = Cardinality(TableRefs(p)) + (IF p \in CachedPageSet THEN 1 ELSE 0)
  BY DEF RefsExact
<1>5. page_refs[p] > 0
  BY <1>2, <1>3, <1>4
<1>. QED
  BY <1>5 DEF FreeIffUnreferenced

\* A page is free exactly when no row and no node refers to it.
LEMMA FreeMeansUnused ==
  ASSUME CacheTypeOK, RefsExact, FreeIffUnreferenced, NEW p \in Page
  PROVE  p \in free_pages <=> TableRefs(p) = {} /\ p \notin CachedPageSet
<1>1. ASSUME TableRefs(p) = {}, p \notin CachedPageSet PROVE p \in free_pages
  BY <1>1, FS_EmptySet DEF RefsExact, FreeIffUnreferenced
<1>. QED
  BY <1>1, ReferredInUse

\* Attaching cached pages to empty places of a row and counting them.
LEMMA AttachRefs ==
  ASSUME CacheTypeOK, RefsExact, FreeIffUnreferenced, NEW s \in Slot,
         NEW I \in SUBSET Positions, NEW path,
         \A i \in I : path[i] \in CachedPageSet /\ block_table[s][i] = NoPage,
         block_table' = [block_table EXCEPT ![s] =
                           [i \in Positions |-> IF i \in I THEN path[i] ELSE @[i]]],
         page_refs' = RefsAfterRetain(path, I),
         node_page' = node_page, free_pages' = free_pages
  PROVE  RefsExact' /\ FreeIffUnreferenced'
<1>1. IsFiniteSet(I)
  <2>1. IsFiniteSet(Positions)
    BY RowLength, FS_Interval DEF Positions
  <2>. QED
    BY <2>1, FS_Subset
<1>2. CachedPageSet' = CachedPageSet
  BY DEF CachedPageSet, radix_nodes
<1>3. ASSUME NEW p \in Page
      PROVE  /\ page_refs'[p] = Cardinality(TableRefs(p)')
                                + (IF p \in CachedPageSet THEN 1 ELSE 0)
             /\ p \in free_pages <=> page_refs'[p] = 0
  <2> DEFINE J == {i \in I : path[i] = p}
  <2>1. TableRefs(p)' = TableRefs(p) \cup ({s} \X J)
    BY PageAssumption DEF TableRefs, CacheTypeOK
  <2>2. TableRefs(p) \cap ({s} \X J) = {}
    BY PageAssumption DEF TableRefs
  <2>3. IsFiniteSet(J) /\ Cardinality(J) \in Nat
    BY <1>1, FS_Subset, FS_CardinalityType
  <2>4. IsFiniteSet({s} \X J) /\ Cardinality({s} \X J) = Cardinality(J)
    BY <2>3, RowCardinality
  <2>5. IsFiniteSet(TableRefs(p)) /\ Cardinality(TableRefs(p)) \in Nat
    BY PlacesFinite DEF TableRefs
  <2>6. Cardinality(TableRefs(p)') = Cardinality(TableRefs(p)) + Cardinality(J)
    BY <2>1, <2>2, <2>4, <2>5, DisjointUnion
  <2>7. page_refs'[p] = page_refs[p] + Cardinality(J)
    BY DEF RefsAfterRetain, Occurrences
  <2>8. page_refs[p] = Cardinality(TableRefs(p)) + (IF p \in CachedPageSet THEN 1 ELSE 0)
    BY DEF RefsExact
  <2>9. p \in free_pages <=> page_refs[p] = 0
    BY DEF FreeIffUnreferenced
  <2>10. p \in free_pages => Cardinality(J) = 0
    <3>1. p \in free_pages => p \notin CachedPageSet
      BY ReferredInUse
    <3>2. p \in free_pages => J = {}
      BY <3>1
    <3>. QED
      BY <3>2, FS_EmptySet
  <2>. QED
    BY <2>3, <2>5, <2>6, <2>7, <2>8, <2>9, <2>10
<1>. QED
  BY <1>2, <1>3 DEF RefsExact, FreeIffUnreferenced

\* Reservations and cached pages still fit when the places that count grow by
\* no more than what was reserved for them.
LEMMA BudgetShrinks ==
  ASSUME Budget, CacheTypeOK, cached_pages' = cached_pages,
         (ReservedPositions \ PublishedPositions)' \subseteq
           ReservedPositions \ PublishedPositions
  PROVE  Budget'
<1> DEFINE before == ReservedPositions \ PublishedPositions
           after == (ReservedPositions \ PublishedPositions)'
<1>1. IsFiniteSet(before) /\ Cardinality(before) \in Nat
  BY PlacesFinite DEF ReservedPositions
<1>2. IsFiniteSet(after) /\ Cardinality(after) <= Cardinality(before)
  BY <1>1, FS_Subset
<1>3. Cardinality(after) \in Nat
  BY <1>2, FS_CardinalityType
<1>4. total_pages \in Nat /\ total_pages' = total_pages
  BY PageAssumption, FS_CardinalityType DEF total_pages
<1>. QED
  BY <1>1, <1>2, <1>3, <1>4 DEF Budget, CacheTypeOK

-----------------------------------------------------------------------------
(* Admission.                                                              *)

\* Admission keeps the page accounting: attached pages get a reference each,
\* and the private ones are reserved.
LEMMA AdmitInv ==
  ASSUME CacheTypeOK, PageInv, NEW s \in Slot, NEW prompt \in Prompt,
         NEW new \in NewTokenLimit, NEW hit, Admit(s, prompt, Len(prompt) + new, hit)
  PROVE  PageInv'
<1> DEFINE total == Len(prompt) + new
           I == 1 .. hit
           path == PathPages(prompt, hit)
           n == PrivatePages(total, hit)
<1>1. CacheTypeOK'
  BY AdmitType
<1>2. /\ prompt \in Seq(Token) /\ prompt # << >> /\ new \in Nat /\ Len(prompt) \in Nat
      /\ total \in Nat /\ Len(prompt) <= total /\ Len(prompt) > 0 /\ total > 0
  BY AdmittedPrompt
<1>3. /\ ~Occupied(s) /\ DivCeil(total) <= PagesPerSlot
      /\ IsDeepestCheckpoint(prompt, ReusablePages(prompt), hit) /\ CanReserve(n)
  BY DEF Admit, CanAdmit
<1>4. /\ hit \in Nat /\ hit * PageSize < Len(prompt) /\ hit * PageSize \in Nat
      /\ \A j \in I : Prefix(prompt, j) \in radix_nodes
  BY <1>2, <1>3, HitShape, DivMulType
<1>5. DivCeil(total) \in Nat /\ hit < DivCeil(total) /\ n \in Nat /\ n = DivCeil(total) - hit
  <2>1. hit * PageSize < total
    BY <1>2, <1>4
  <2>2. DivCeil(total) \in Nat /\ hit < DivCeil(total)
    BY <1>2, <1>4, <2>1, DivCeilBelow, DivCeilType
  <2>. QED
    BY <1>4, <2>2 DEF PrivatePages
<1>6. /\ AllocatedPages(s) = 0 /\ SharedPages(s) = 0
      /\ maximum_tokens[s] = 0 /\ DivCeil(maximum_tokens[s]) = 0
  BY <1>3, SlotFacts DEF PageInv
<1>7. I \subseteq Positions /\ PagesPerSlot \in Nat
  BY <1>3, <1>4, <1>5, RowLength DEF Positions
<1>8. \A i \in I : path[i] = node_page[Prefix(prompt, i)] /\ path[i] \in CachedPageSet
  BY <1>4 DEF PathPages, CachedPageSet
<1>9. \A i \in Positions : block_table[s][i] = NoPage
  BY <1>6, SlotFacts DEF PageInv, Positions
<1>10. /\ block_table' = [block_table EXCEPT ![s] =
                            [i \in Positions |-> IF i \in I THEN path[i] ELSE @[i]]]
       /\ page_refs' = RefsAfterRetain(path, I)
       /\ reserved_pages' = reserved_pages + n
       /\ reservations' = [reservations EXCEPT ![s] = n]
       /\ maximum_tokens' = [maximum_tokens EXCEPT ![s] = total]
       /\ allocated_tokens' = [allocated_tokens EXCEPT ![s] = hit * PageSize]
       /\ tokens' = [tokens EXCEPT ![s] = prompt]
       /\ node_page' = node_page /\ free_pages' = free_pages /\ cached_pages' = cached_pages
  BY DEF Admit, ReservedAfterReserve, radix_vars
<1> HIDE DEF total, I, path, n
<1>11. /\ AllocatedPages(s)' = hit /\ SharedPages(s)' = hit
       /\ DivCeil(maximum_tokens[s])' = DivCeil(total)
  BY <1>4, <1>5, <1>10, DivCeilExact DEF AllocatedPages, SharedPages, CacheTypeOK
<1>12. \A t \in Slot \ {s} :
         /\ AllocatedPages(t)' = AllocatedPages(t) /\ SharedPages(t)' = SharedPages(t)
         /\ block_table'[t] = block_table[t] /\ maximum_tokens'[t] = maximum_tokens[t]
         /\ allocated_tokens'[t] = allocated_tokens[t] /\ tokens'[t] = tokens[t]
         /\ reservations'[t] = reservations[t]
  BY <1>10 DEF AllocatedPages, SharedPages, CacheTypeOK
<1>13. CachedPageSet' = CachedPageSet /\ radix_nodes' = radix_nodes
  BY <1>10 DEF CachedPageSet, radix_nodes
<1>14. RefsExact' /\ FreeIffUnreferenced'
  BY <1>7, <1>8, <1>9, <1>10, AttachRefs DEF PageInv
<1>15. /\ ReservedPositions' = ReservedPositions \cup ({s} \X (hit + 1 .. DivCeil(total)))
       /\ ReservedPositions \cap ({s} \X (hit + 1 .. DivCeil(total))) = {}
  BY <1>3, <1>4, <1>5, <1>6, <1>7, <1>11, <1>12 DEF ReservedPositions, Positions
<1>16. PrivatePositions' = PrivatePositions /\ PublishedPositions' = PublishedPositions
  <2>1. PrivatePositions' = PrivatePositions
    BY <1>4, <1>6, <1>11, <1>12 DEF PrivatePositions, Positions
  <2>2. \A x \in PrivatePositions : x[1] \in Slot \ {s}
    BY <1>6 DEF PrivatePositions, Positions
  <2>. QED
    BY <1>12, <1>13, <2>1, <2>2 DEF PublishedPositions
<1>17. IsFiniteSet(hit + 1 .. DivCeil(total)) /\ Cardinality(hit + 1 .. DivCeil(total)) = n
  BY <1>4, <1>5, IntervalCardinality
<1>18. /\ IsFiniteSet({s} \X (hit + 1 .. DivCeil(total)))
       /\ Cardinality({s} \X (hit + 1 .. DivCeil(total))) = n
  BY <1>17, RowCardinality
<1>19. IsFiniteSet(ReservedPositions) /\ Cardinality(ReservedPositions) = reserved_pages
  BY PlacesFinite DEF ReservedPositions, PageInv, CountersExact
<1>20. SlotShape'
  <2>1. ASSUME NEW t \in Slot \ {s}
        PROVE  /\ maximum_tokens'[t] = 0 <=> ~Occupied(t)'
               /\ allocated_tokens'[t] <= Len(tokens'[t])
               /\ Len(tokens'[t]) <= maximum_tokens'[t]
               /\ DivCeil(maximum_tokens'[t]) <= PagesPerSlot
               /\ reservations'[t] <= DivCeil(maximum_tokens'[t])
               /\ SharedPages(t)' * PageSize <= allocated_tokens'[t]
               /\ \A i \in Positions : block_table'[t][i] \in Page <=> i <= AllocatedPages(t)'
    BY <1>12 DEF PageInv, SlotShape, Occupied
  <2>2. /\ maximum_tokens'[s] = 0 <=> ~Occupied(s)'
        /\ allocated_tokens'[s] <= Len(tokens'[s])
        /\ Len(tokens'[s]) <= maximum_tokens'[s]
        /\ DivCeil(maximum_tokens'[s]) <= PagesPerSlot
        /\ reservations'[s] <= DivCeil(maximum_tokens'[s])
        /\ SharedPages(s)' * PageSize <= allocated_tokens'[s]
    <3>1. /\ maximum_tokens'[s] = total /\ tokens'[s] = prompt /\ reservations'[s] = n
          /\ allocated_tokens'[s] = hit * PageSize
      BY <1>10 DEF CacheTypeOK
    <3>2. prompt # << >> /\ total # 0 /\ Len(prompt) <= total /\ hit * PageSize <= Len(prompt)
      BY <1>2, <1>4
    <3>3. n <= DivCeil(total)
      BY <1>4, <1>5
    <3>4. SharedPages(s)' * PageSize <= allocated_tokens'[s]
      BY <1>4, <1>11, <3>1
    <3>. QED
      BY <1>3, <3>1, <3>2, <3>3, <3>4 DEF Occupied
  <2>3. \A i \in Positions : block_table'[s][i] \in Page <=> i <= AllocatedPages(s)'
    <3>1. \A i \in Positions : i \in I <=> i <= hit
      BY <1>4, <1>7 DEF I, Positions
    <3>2. \A i \in I : path[i] \in Page
      BY <1>8 DEF CachedPageSet, CacheTypeOK
    <3>3. \A i \in Positions : block_table'[s][i] = IF i \in I THEN path[i] ELSE NoPage
      BY <1>9, <1>10 DEF CacheTypeOK
    <3>. QED
      BY <1>11, <3>1, <3>2, <3>3, PageAssumption
  <2>. QED
    BY <2>1, <2>2, <2>3 DEF SlotShape
<1>21. PrivateUnique'
  <2>1. \A x \in PrivatePositions : x[1] \in Slot \ {s}
    BY <1>6 DEF PrivatePositions, Positions
  <2>. QED
    BY <1>12, <1>16, <2>1 DEF PageInv, PrivateUnique
<1>22. SharedCached'
  <2>1. \A i \in 1 .. hit : block_table'[s][i] = path[i]
    BY <1>7, <1>10 DEF I, CacheTypeOK
  <2>2. \A i \in 1 .. SharedPages(s)' : block_table'[s][i] \in CachedPageSet
    BY <1>8, <1>11, <2>1 DEF I
  <2>. QED
    BY <1>12, <1>13, <2>2 DEF PageInv, SharedCached
<1>23. NodesDistinct'
  BY <1>10, <1>13 DEF PageInv, NodesDistinct
<1>24. NodeMatch'
  <2>1. ASSUME NEW i \in 1 .. hit, NEW m \in radix_nodes, node_page[m] = block_table'[s][i]
        PROVE  i * PageSize <= allocated_tokens'[s] /\ m = Prefix(tokens'[s], i)
    <3>1. block_table'[s][i] = node_page[Prefix(prompt, i)]
      BY <1>7, <1>8, <1>10 DEF I, CacheTypeOK
    <3>2. m = Prefix(prompt, i)
      BY <1>4, <2>1, <3>1 DEF PageInv, NodesDistinct, I
    <3>3. i * PageSize <= hit * PageSize
      BY <1>4, MulMono
    <3>. QED
      BY <1>10, <3>2, <3>3 DEF CacheTypeOK
  <2>2. ASSUME NEW i \in 1 .. AllocatedPages(s)', NEW m \in radix_nodes',
               node_page'[m] = block_table'[s][i]
        PROVE  i * PageSize <= allocated_tokens'[s] /\ m = Prefix(tokens'[s], i)
    BY <1>10, <1>11, <1>13, <2>1, <2>2
  <2>3. ASSUME NEW t \in Slot \ {s}, NEW i \in 1 .. AllocatedPages(t)', NEW m \in radix_nodes',
               node_page'[m] = block_table'[t][i]
        PROVE  i * PageSize <= allocated_tokens'[t] /\ m = Prefix(tokens'[t], i)
    BY <1>10, <1>12, <1>13, <2>3 DEF PageInv, NodeMatch
  <2>. QED
    BY <2>2, <2>3 DEF NodeMatch
<1>25. CountersExact'
  <2>1. Cardinality(ReservedPositions') = reserved_pages + n
    BY <1>15, <1>18, <1>19, DisjointUnion
  <2>. QED
    BY <1>10, <1>13, <2>1 DEF PageInv, CountersExact
<1>26. Budget'
  <2> DEFINE before == ReservedPositions \ PublishedPositions
             after == (ReservedPositions \ PublishedPositions)'
             added == {s} \X (hit + 1 .. DivCeil(total))
  <2>1. after \subseteq ReservedPositions \cup added
    BY <1>15
  <2>2. IsFiniteSet(ReservedPositions \cup added)
        /\ Cardinality(ReservedPositions \cup added) = reserved_pages + n
    BY <1>15, <1>18, <1>19, DisjointUnion
  <2>3. IsFiniteSet(after) /\ Cardinality(after) <= reserved_pages + n
    BY <2>1, <2>2, FS_Subset
  <2>4. Cardinality(after) \in Nat /\ total_pages \in Nat /\ total_pages' = total_pages
    BY <2>3, FS_CardinalityType, PageAssumption DEF total_pages
  <2>5. reserved_pages + n + cached_pages <= total_pages
    BY <1>3 DEF CanReserve
  <2>. QED
    BY <1>5, <1>10, <2>3, <2>4, <2>5 DEF Budget, CacheTypeOK
<1>27. IsFiniteSet(radix_nodes)'
  BY <1>13 DEF PageInv
<1>. QED
  BY <1>14, <1>20, <1>21, <1>22, <1>23, <1>24, <1>25, <1>26, <1>27 DEF PageInv

-----------------------------------------------------------------------------
(* Refresh of the attached prefix.                                         *)

\* Attaching a deeper prefix moves pages from the reservation to the shared
\* ones of the row.
LEMMA ExtendInv ==
  ASSUME CacheTypeOK, PageInv, NEW s \in Slot, NEW hit, ExtendAttachedPrefix(s, hit)
  PROVE  PageInv'
<1> DEFINE current == AllocatedPages(s)
           I == current + 1 .. hit
           path == PathPages(tokens[s], hit)
           n == hit - current
<1>1. /\ tokens[s] \in Seq(Token) /\ tokens[s] # << >> /\ Len(tokens[s]) \in Nat
      /\ maximum_tokens[s] \in Nat /\ reservations[s] \in Nat /\ reserved_pages \in Nat
  BY DEF ExtendAttachedPrefix, Untouched, Occupied, CacheTypeOK
<1>2. /\ current \in Nat /\ SharedPages(s) \in Nat /\ DivCeil(maximum_tokens[s]) \in Nat
      /\ DivCeil(maximum_tokens[s]) <= PagesPerSlot /\ PagesPerSlot \in Nat
      /\ reservations[s] = DivCeil(maximum_tokens[s]) - SharedPages(s)
  BY <1>1, SlotFacts, RowLength DEF PageInv, SharedPages
<1>3. current = SharedPages(s)
  BY <1>2, DivCeilExact DEF ExtendAttachedPrefix, Untouched, AllocatedPages
<1>4. /\ hit \in Nat /\ hit * PageSize < Len(tokens[s]) /\ hit * PageSize \in Nat
      /\ \A j \in 1 .. hit : Prefix(tokens[s], j) \in radix_nodes
  <2>1. IsDeepestCheckpoint(tokens[s], ReusablePages(tokens[s]), hit)
    BY DEF ExtendAttachedPrefix, DeeperHit
  <2>. QED
    BY <1>1, <2>1, HitShape, DivMulType
<1>5. hit > current /\ n \in Nat /\ n <= reservations[s]
  BY <1>2, <1>4 DEF ExtendAttachedPrefix, DeeperHit, CanExtend
<1>6. hit <= DivCeil(maximum_tokens[s])
  BY <1>2, <1>3, <1>4, <1>5
<1>7. I \subseteq Positions /\ 1 .. hit \subseteq Positions
  BY <1>2, <1>4, <1>6 DEF Positions
<1>8. \A i \in 1 .. hit : path[i] = node_page[Prefix(tokens[s], i)] /\ path[i] \in CachedPageSet
  BY <1>4 DEF PathPages, CachedPageSet
<1>9. /\ \A i \in I : block_table[s][i] = NoPage
      /\ \A i \in 1 .. current : block_table[s][i] = path[i]
  BY DEF ExtendAttachedPrefix, CanExtend
<1>10. /\ block_table' = [block_table EXCEPT ![s] =
                            [i \in Positions |-> IF i \in I THEN path[i] ELSE @[i]]]
       /\ page_refs' = RefsAfterRetain(path, I)
       /\ reserved_pages' = ReservedAfterRelease(n)
       /\ reservations' = [reservations EXCEPT ![s] = @ - n]
       /\ allocated_tokens' = [allocated_tokens EXCEPT ![s] = hit * PageSize]
       /\ tokens' = tokens /\ maximum_tokens' = maximum_tokens
       /\ node_page' = node_page /\ free_pages' = free_pages /\ cached_pages' = cached_pages
  BY DEF ExtendAttachedPrefix, ExtendEffect, radix_vars, request_vars
<1> HIDE DEF current, I, path, n
<1>11. /\ AllocatedPages(s)' = hit /\ SharedPages(s)' = hit
  <2>1. AllocatedPages(s)' = hit
    BY <1>4, <1>10, DivCeilExact DEF AllocatedPages, CacheTypeOK
  <2>2. reservations'[s] = reservations[s] - n
    BY <1>10 DEF CacheTypeOK
  <2>3. SharedPages(s)' = DivCeil(maximum_tokens[s]) - (reservations[s] - n)
    BY <1>10, <2>2 DEF SharedPages
  <2>. QED
    BY <1>2, <1>3, <1>4, <2>1, <2>3 DEF n
<1>12. \A t \in Slot \ {s} :
         /\ AllocatedPages(t)' = AllocatedPages(t) /\ SharedPages(t)' = SharedPages(t)
         /\ block_table'[t] = block_table[t]
         /\ allocated_tokens'[t] = allocated_tokens[t] /\ reservations'[t] = reservations[t]
  BY <1>10 DEF AllocatedPages, SharedPages, CacheTypeOK
<1>13. CachedPageSet' = CachedPageSet /\ radix_nodes' = radix_nodes
  BY <1>10 DEF CachedPageSet, radix_nodes
<1>14. RefsExact' /\ FreeIffUnreferenced'
  <2>1. \A i \in I : path[i] \in CachedPageSet
    BY <1>2, <1>8 DEF I
  <2>. QED
    BY <1>7, <1>9, <1>10, <2>1, AttachRefs DEF PageInv
<1>15. \A i \in 1 .. hit : block_table'[s][i] = path[i]
  <2>1. \A i \in 1 .. hit : i \in I \/ i \in 1 .. current
    BY <1>2 DEF I
  <2>. QED
    BY <1>7, <1>9, <1>10, <2>1 DEF CacheTypeOK
<1>16. /\ ReservedPositions' = ReservedPositions \ ({s} \X I)
       /\ {s} \X I \in SUBSET ReservedPositions
  BY <1>2, <1>3, <1>4, <1>5, <1>6, <1>7, <1>10, <1>11, <1>12 DEF ReservedPositions, Positions, I
<1>17. PrivatePositions' = PrivatePositions /\ PublishedPositions' = PublishedPositions
  <2>1. \A x \in PrivatePositions : x[1] \in Slot \ {s}
    BY <1>2, <1>3 DEF PrivatePositions, Positions, current
  <2>2. PrivatePositions' = PrivatePositions
    BY <1>4, <1>11, <1>12, <2>1 DEF PrivatePositions, Positions
  <2>. QED
    BY <1>12, <1>13, <2>1, <2>2 DEF PublishedPositions
<1>18. IsFiniteSet({s} \X I) /\ Cardinality({s} \X I) = n
  <2>1. IsFiniteSet(I) /\ Cardinality(I) = n
    BY <1>2, <1>4, <1>5, IntervalCardinality DEF I, n
  <2>. QED
    BY <2>1, RowCardinality
<1>19. /\ Cardinality(ReservedPositions') = reserved_pages - n
       /\ n <= reserved_pages
  <2>1. IsFiniteSet(ReservedPositions) /\ Cardinality(ReservedPositions) = reserved_pages
    BY PlacesFinite DEF ReservedPositions, PageInv, CountersExact
  <2>. QED
    BY <1>16, <1>18, <2>1, SubsetDifference
<1>20. SlotShape'
  <2>1. ASSUME NEW t \in Slot \ {s}
        PROVE  /\ maximum_tokens'[t] = 0 <=> ~Occupied(t)'
               /\ allocated_tokens'[t] <= Len(tokens'[t])
               /\ Len(tokens'[t]) <= maximum_tokens'[t]
               /\ DivCeil(maximum_tokens'[t]) <= PagesPerSlot
               /\ reservations'[t] <= DivCeil(maximum_tokens'[t])
               /\ SharedPages(t)' * PageSize <= allocated_tokens'[t]
               /\ \A i \in Positions : block_table'[t][i] \in Page <=> i <= AllocatedPages(t)'
    BY <1>10, <1>12 DEF PageInv, SlotShape, Occupied
  <2>2. /\ maximum_tokens'[s] = 0 <=> ~Occupied(s)'
        /\ Len(tokens'[s]) <= maximum_tokens'[s]
        /\ DivCeil(maximum_tokens'[s]) <= PagesPerSlot
    BY <1>10 DEF PageInv, SlotShape, Occupied
  <2>3. /\ allocated_tokens'[s] <= Len(tokens'[s])
        /\ SharedPages(s)' * PageSize <= allocated_tokens'[s]
    <3>1. allocated_tokens'[s] = hit * PageSize
      BY <1>10 DEF CacheTypeOK
    <3>. QED
      BY <1>1, <1>4, <1>10, <1>11, <3>1
  <2>4. reservations'[s] <= DivCeil(maximum_tokens'[s])
    <3>1. reservations'[s] = reservations[s] - n
      BY <1>10 DEF CacheTypeOK
    <3>. QED
      BY <1>1, <1>2, <1>5, <1>10, <3>1
  <2>5. \A i \in Positions : block_table'[s][i] \in Page <=> i <= AllocatedPages(s)'
    <3>1. \A i \in 1 .. hit : path[i] \in Page
      BY <1>8 DEF CachedPageSet, CacheTypeOK
    <3>2. \A i \in Positions : i > hit => block_table'[s][i] = block_table[s][i]
      BY <1>2, <1>4, <1>10 DEF I, Positions, CacheTypeOK
    <3>3. \A i \in Positions : i > hit => block_table[s][i] = NoPage
      BY <1>2, <1>4, <1>5, SlotFacts DEF PageInv, Positions, current
    <3>. QED
      BY <1>2, <1>4, <1>11, <1>15, <3>1, <3>2, <3>3, PageAssumption DEF Positions
  <2>. QED
    BY <2>1, <2>2, <2>3, <2>4, <2>5 DEF SlotShape
<1>21. PrivateUnique'
  <2>1. \A x \in PrivatePositions : x[1] \in Slot \ {s}
    BY <1>2, <1>3 DEF PrivatePositions, Positions, current
  <2>. QED
    BY <1>12, <1>17, <2>1 DEF PageInv, PrivateUnique
<1>22. SharedCached'
  BY <1>8, <1>11, <1>12, <1>13, <1>15 DEF PageInv, SharedCached
<1>23. NodesDistinct'
  BY <1>10, <1>13 DEF PageInv, NodesDistinct
<1>24. NodeMatch'
  <2>1. ASSUME NEW i \in 1 .. hit, NEW m \in radix_nodes, node_page[m] = block_table'[s][i]
        PROVE  i * PageSize <= allocated_tokens'[s] /\ m = Prefix(tokens'[s], i)
    <3>1. m = Prefix(tokens[s], i)
      BY <1>4, <1>8, <1>15, <2>1 DEF PageInv, NodesDistinct
    <3>2. i * PageSize <= hit * PageSize
      BY <1>4, MulMono
    <3>. QED
      BY <1>10, <3>1, <3>2 DEF CacheTypeOK
  <2>2. ASSUME NEW i \in 1 .. AllocatedPages(s)', NEW m \in radix_nodes',
               node_page'[m] = block_table'[s][i]
        PROVE  i * PageSize <= allocated_tokens'[s] /\ m = Prefix(tokens'[s], i)
    BY <1>10, <1>11, <1>13, <2>1, <2>2
  <2>3. ASSUME NEW t \in Slot \ {s}, NEW i \in 1 .. AllocatedPages(t)', NEW m \in radix_nodes',
               node_page'[m] = block_table'[t][i]
        PROVE  i * PageSize <= allocated_tokens'[t] /\ m = Prefix(tokens'[t], i)
    BY <1>10, <1>12, <1>13, <2>3 DEF PageInv, NodeMatch
  <2>. QED
    BY <2>2, <2>3 DEF NodeMatch
<1>25. CountersExact'
  <2>1. reserved_pages' = reserved_pages - n
    BY <1>1, <1>5, <1>10, <1>19 DEF ReservedAfterRelease
  <2>. QED
    BY <1>10, <1>13, <1>19, <2>1 DEF PageInv, CountersExact
<1>26. Budget'
  BY <1>10, <1>16, <1>17, BudgetShrinks DEF PageInv
<1>27. IsFiniteSet(radix_nodes)'
  BY <1>13 DEF PageInv
<1>. QED
  BY <1>14, <1>20, <1>21, <1>22, <1>23, <1>24, <1>25, <1>26, <1>27 DEF PageInv

-----------------------------------------------------------------------------
(* Growth of a sequence.                                                   *)

\* Growing a sequence takes from its own reservation, and the free pages
\* suffice.
LEMMA PrepareInv ==
  ASSUME CacheTypeOK, PageInv, NEW s \in Slot, NEW n \in Nat, PrepareTokens(s, n)
  PROVE  PageInv'
<1> DEFINE current == AllocatedPages(s)
           upto == allocated_tokens[s] + n
           I == NewPositions(s, n)
<1>1. PICK fresh \in FreshRows(I) : PrepareEffect(s, n, fresh)
  BY DEF PrepareTokens
<1>2. /\ allocated_tokens[s] \in Nat /\ upto \in Nat /\ Len(tokens[s]) \in Nat
      /\ upto <= Len(tokens[s]) /\ DivCeil(upto) \in Nat /\ DivCeil(upto) <= PagesPerSlot
      /\ current \in Nat /\ current <= DivCeil(upto) /\ PagesPerSlot \in Nat
      /\ I = current + 1 .. DivCeil(upto) /\ I \subseteq Positions
  <2>1. allocated_tokens[s] \in Nat /\ upto \in Nat /\ Len(tokens[s]) \in Nat
        /\ upto <= Len(tokens[s]) /\ DivCeil(upto) <= PagesPerSlot /\ PagesPerSlot \in Nat
    BY RowLength DEF PrepareTokens, CanPrepare, CacheTypeOK
  <2>2. DivCeil(upto) \in Nat /\ current \in Nat /\ current <= DivCeil(upto)
    <3>1. allocated_tokens[s] <= upto
      BY <2>1
    <3>. HIDE DEF upto
    <3>. QED
      BY <2>1, <3>1, DivCeilType, DivCeilMono DEF AllocatedPages
  <2>. QED
    BY <2>1, <2>2 DEF NewPositions, Positions
<1>3. /\ fresh \in [I -> free_pages]
      /\ \A i, j \in I : fresh[i] = fresh[j] => i = j
  BY DEF FreshRows
<1>4. \A i \in I : fresh[i] \in Page /\ fresh[i] \in free_pages
                   /\ TableRefs(fresh[i]) = {} /\ fresh[i] \notin CachedPageSet
  BY <1>3, FreeMeansUnused DEF PageInv, CacheTypeOK
<1>5. /\ block_table' = [block_table EXCEPT ![s] =
                            [i \in Positions |-> IF i \in I THEN fresh[i] ELSE block_table[s][i]]]
      /\ free_pages' = {p \in free_pages : \A i \in I : fresh[i] # p}
      /\ page_refs' = [p \in Page |-> IF \E i \in I : fresh[i] = p THEN 1 ELSE page_refs[p]]
      /\ allocated_tokens' = [allocated_tokens EXCEPT ![s] = upto]
      /\ reserved_pages' = reserved_pages /\ cached_pages' = cached_pages
      /\ reservations' = reservations
      /\ tokens' = tokens /\ maximum_tokens' = maximum_tokens /\ node_page' = node_page
  <2>1. DOMAIN fresh = I
    BY <1>3
  <2>. QED
    BY <1>1, <2>1 DEF PrepareEffect, FreeAfterGrow, RefsAfterGrow, radix_vars, request_vars
<1> HIDE DEF current, upto, I
<1>6. /\ AllocatedPages(s)' = DivCeil(upto)
      /\ \A t \in Slot : SharedPages(t)' = SharedPages(t)
  BY <1>5 DEF AllocatedPages, SharedPages, CacheTypeOK
<1>7. \A t \in Slot \ {s} :
         /\ AllocatedPages(t)' = AllocatedPages(t)
         /\ block_table'[t] = block_table[t] /\ allocated_tokens'[t] = allocated_tokens[t]
  BY <1>5 DEF AllocatedPages, CacheTypeOK
<1>8. CachedPageSet' = CachedPageSet /\ radix_nodes' = radix_nodes
  BY <1>5 DEF CachedPageSet, radix_nodes
<1>9. /\ SharedPages(s) \in Nat /\ SharedPages(s) <= current
      /\ \A i \in Positions : i > current => block_table[s][i] = NoPage
      /\ \A i \in Positions : i <= current => block_table[s][i] \in Page
  BY SlotFacts DEF PageInv, current
<1>10. /\ \A i \in I : block_table'[s][i] = fresh[i]
       /\ \A i \in Positions \ I : block_table'[s][i] = block_table[s][i]
  BY <1>2, <1>5 DEF CacheTypeOK
<1>11. ASSUME NEW p \in Page
       PROVE  /\ page_refs'[p] = Cardinality(TableRefs(p)')
                                 + (IF p \in CachedPageSet' THEN 1 ELSE 0)
              /\ p \in free_pages' <=> page_refs'[p] = 0
  <2>1. CASE \E i \in I : fresh[i] = p
    <3>1. PICK i \in I : fresh[i] = p
      BY <2>1
    <3>2. TableRefs(p)' = {<<s, i>>}
      <4>1. TableRefs(p)' \subseteq {<<s, i>>}
        <5>1. SUFFICES ASSUME NEW x \in Slot \X Positions, block_table'[x[1]][x[2]] = p
                       PROVE  x = <<s, i>>
          BY DEF TableRefs
        <5>2. block_table[x[1]][x[2]] # p
          BY <1>4, <3>1 DEF TableRefs
        <5>3. x[1] = s /\ x[2] \in I
          BY <1>7, <1>10, <5>1, <5>2
        <5>4. x[2] = i
          BY <1>3, <1>10, <3>1, <5>1, <5>3
        <5>. QED
          BY <5>3, <5>4
      <4>2. <<s, i>> \in TableRefs(p)'
        BY <1>2, <1>10, <3>1 DEF TableRefs
      <4>. QED
        BY <4>1, <4>2
    <3>3. Cardinality(TableRefs(p)') = 1
      BY <3>2, FS_Singleton
    <3>. QED
      BY <1>4, <1>5, <1>8, <2>1, <3>1, <3>3
  <2>2. CASE \A i \in I : fresh[i] # p
    <3>1. TableRefs(p)' = TableRefs(p)
      <4>1. \A i \in I : block_table[s][i] = NoPage
        BY <1>2, <1>9 DEF Positions
      <4>2. \A t \in Slot, i \in Positions : block_table'[t][i] = p <=> block_table[t][i] = p
        BY <1>7, <1>10, <2>2, <4>1, PageAssumption
      <4>. QED
        BY <4>2 DEF TableRefs
    <3>. QED
      BY <1>5, <1>8, <2>2, <3>1 DEF PageInv, RefsExact, FreeIffUnreferenced
  <2>. QED
    BY <2>1, <2>2
<1>12. RefsExact' /\ FreeIffUnreferenced'
  BY <1>11 DEF RefsExact, FreeIffUnreferenced
<1>13. PrivatePositions' = PrivatePositions \cup ({s} \X I)
  BY <1>2, <1>6, <1>7, <1>9 DEF PrivatePositions, Positions, current
<1>14. \A x \in PrivatePositions : /\ x \in Slot \X Positions
                                   /\ x[1] = s => x[2] \notin I
                                   /\ block_table'[x[1]][x[2]] = block_table[x[1]][x[2]]
                                   /\ block_table[x[1]][x[2]] \in Page
  <2> SUFFICES ASSUME NEW x \in PrivatePositions
               PROVE  /\ x \in Slot \X Positions
                      /\ x[1] = s => x[2] \notin I
                      /\ block_table'[x[1]][x[2]] = block_table[x[1]][x[2]]
                      /\ block_table[x[1]][x[2]] \in Page
    OBVIOUS
  <2>1. x \in Slot \X Positions /\ x[2] <= AllocatedPages(x[1])
    BY DEF PrivatePositions
  <2>2. x[1] = s => x[2] \notin I
    BY <1>2, <2>1 DEF current
  <2>3. block_table[x[1]][x[2]] \in Page
    BY <2>1, SlotFacts DEF PageInv
  <2>. QED
    BY <1>7, <1>10, <2>1, <2>2, <2>3
<1>15. PublishedPositions' = PublishedPositions
  <2>1. \A x \in {s} \X I : block_table'[x[1]][x[2]] \notin CachedPageSet
    BY <1>4, <1>10
  <2>. QED
    BY <1>8, <1>13, <1>14, <2>1 DEF PublishedPositions
<1>16. ReservedPositions' = ReservedPositions
  BY <1>5, <1>6 DEF ReservedPositions
<1>17. SlotShape'
  <2>1. ASSUME NEW t \in Slot \ {s}
        PROVE  /\ maximum_tokens'[t] = 0 <=> ~Occupied(t)'
               /\ allocated_tokens'[t] <= Len(tokens'[t])
               /\ Len(tokens'[t]) <= maximum_tokens'[t]
               /\ DivCeil(maximum_tokens'[t]) <= PagesPerSlot
               /\ reservations'[t] <= DivCeil(maximum_tokens'[t])
               /\ SharedPages(t)' * PageSize <= allocated_tokens'[t]
               /\ \A i \in Positions : block_table'[t][i] \in Page <=> i <= AllocatedPages(t)'
    BY <1>5, <1>6, <1>7 DEF PageInv, SlotShape, Occupied
  <2>2. /\ maximum_tokens'[s] = 0 <=> ~Occupied(s)'
        /\ Len(tokens'[s]) <= maximum_tokens'[s]
        /\ DivCeil(maximum_tokens'[s]) <= PagesPerSlot
        /\ reservations'[s] <= DivCeil(maximum_tokens'[s])
    BY <1>5 DEF PageInv, SlotShape, Occupied
  <2>3. allocated_tokens'[s] <= Len(tokens'[s])
    BY <1>2, <1>5 DEF CacheTypeOK
  <2>4. SharedPages(s)' * PageSize <= allocated_tokens'[s]
    <3>1. allocated_tokens'[s] = upto /\ allocated_tokens[s] <= upto
      BY <1>2, <1>5 DEF CacheTypeOK, upto
    <3>2. SharedPages(s) * PageSize \in Nat /\ SharedPages(s) * PageSize <= allocated_tokens[s]
      BY <1>9, DivMulType DEF PageInv, SlotShape
    <3>. QED
      BY <1>2, <1>6, <3>1, <3>2
  <2>5. \A i \in Positions : block_table'[s][i] \in Page <=> i <= AllocatedPages(s)'
    <3>1. \A i \in Positions : i \in I <=> current < i /\ i <= DivCeil(upto)
      BY <1>2 DEF Positions
    <3>. QED
      BY <1>2, <1>4, <1>6, <1>9, <1>10, <3>1, PageAssumption DEF Positions
  <2>. QED
    BY <2>1, <2>2, <2>3, <2>4, <2>5 DEF SlotShape
<1>18. PrivateUnique'
  <2>1. \A x \in PrivatePositions, y \in {s} \X I :
          block_table'[x[1]][x[2]] # block_table'[y[1]][y[2]]
    <3>1. \A x \in PrivatePositions : block_table[x[1]][x[2]] \in Page
                                      /\ TableRefs(block_table[x[1]][x[2]]) # {}
      BY <1>14 DEF TableRefs
    <3>. QED
      BY <1>4, <1>10, <1>14, <3>1
  <2>2. \A x, y \in {s} \X I :
          block_table'[x[1]][x[2]] = block_table'[y[1]][y[2]] => x = y
    BY <1>3, <1>10
  <2>3. \A x, y \in PrivatePositions :
          block_table'[x[1]][x[2]] = block_table'[y[1]][y[2]] => x = y
    BY <1>14 DEF PageInv, PrivateUnique
  <2>. QED
    BY <1>13, <2>1, <2>2, <2>3 DEF PrivateUnique
<1>19. SharedCached'
  <2>1. \A i \in 1 .. SharedPages(s) : i \in Positions \ I
    BY <1>2, <1>9 DEF Positions
  <2>. QED
    BY <1>6, <1>7, <1>8, <1>10, <2>1 DEF PageInv, SharedCached
<1>20. NodesDistinct'
  BY <1>5, <1>8 DEF PageInv, NodesDistinct
<1>21. NodeMatch'
  <2>1. ASSUME NEW i \in 1 .. AllocatedPages(s)', NEW m \in radix_nodes',
               node_page'[m] = block_table'[s][i]
        PROVE  i * PageSize <= allocated_tokens'[s] /\ m = Prefix(tokens'[s], i)
    <3>1. i \in 1 .. current
      <4>1. i \notin I
        BY <1>4, <1>5, <1>8, <1>10, <2>1 DEF CachedPageSet
      <4>. QED
        BY <1>2, <1>6, <4>1
    <3>2. i \in Positions \ I
      BY <1>2, <3>1 DEF Positions
    <3>3. i * PageSize <= allocated_tokens[s] /\ m = Prefix(tokens[s], i)
      BY <1>5, <1>8, <1>10, <2>1, <3>1, <3>2 DEF PageInv, NodeMatch, current
    <3>4. i * PageSize \in Nat /\ allocated_tokens[s] <= upto /\ allocated_tokens'[s] = upto
      BY <1>2, <1>5, <3>1, DivMulType DEF CacheTypeOK, upto
    <3>. QED
      BY <1>2, <1>5, <3>3, <3>4
  <2>2. ASSUME NEW t \in Slot \ {s}, NEW i \in 1 .. AllocatedPages(t)', NEW m \in radix_nodes',
               node_page'[m] = block_table'[t][i]
        PROVE  i * PageSize <= allocated_tokens'[t] /\ m = Prefix(tokens'[t], i)
    BY <1>5, <1>7, <1>8, <2>2 DEF PageInv, NodeMatch
  <2>. QED
    BY <2>1, <2>2 DEF NodeMatch
<1>22. CountersExact'
  BY <1>5, <1>8, <1>16 DEF PageInv, CountersExact
<1>23. Budget'
  BY <1>5, <1>15, <1>16, BudgetShrinks DEF PageInv
<1>24. IsFiniteSet(radix_nodes)'
  BY <1>8 DEF PageInv
<1>. QED
  BY <1>12, <1>17, <1>18, <1>19, <1>20, <1>21, <1>22, <1>23, <1>24 DEF PageInv

-----------------------------------------------------------------------------
(* A sampled token.                                                        *)

\* A sampled token touches no page.
LEMMA PushInv ==
  ASSUME CacheTypeOK, PageInv, NEW s \in Slot, NEW token \in Token, PushToken(s, token)
  PROVE  PageInv'
<1>1. /\ tokens' = [tokens EXCEPT ![s] = Append(tokens[s], token)]
      /\ UNCHANGED <<free_pages, page_refs, reserved_pages, cached_pages, node_page,
                     block_table, reservations, allocated_tokens, maximum_tokens>>
      /\ Occupied(s) /\ Len(tokens[s]) < maximum_tokens[s]
  BY DEF PushToken, CanPush, PushEffect, allocator_vars, radix_vars, table_vars
<1>2. /\ CachedPageSet' = CachedPageSet /\ radix_nodes' = radix_nodes
      /\ \A t \in Slot : AllocatedPages(t)' = AllocatedPages(t) /\ SharedPages(t)' = SharedPages(t)
      /\ \A p : TableRefs(p)' = TableRefs(p)
  BY <1>1 DEF CachedPageSet, radix_nodes, AllocatedPages, SharedPages, TableRefs
<1>3. /\ PrivatePositions' = PrivatePositions /\ ReservedPositions' = ReservedPositions
      /\ PublishedPositions' = PublishedPositions
  BY <1>1, <1>2 DEF PrivatePositions, ReservedPositions, PublishedPositions
<1>4. /\ tokens[s] \in Seq(Token) /\ Len(tokens[s]) \in Nat /\ maximum_tokens[s] \in Nat
      /\ tokens'[s] = Append(tokens[s], token)
      /\ Len(tokens'[s]) = Len(tokens[s]) + 1 /\ tokens'[s] # << >>
      /\ \A t \in Slot \ {s} : tokens'[t] = tokens[t]
  <2>1. tokens[s] \in Seq(Token) /\ Len(tokens[s]) \in Nat /\ maximum_tokens[s] \in Nat
    BY DEF CacheTypeOK
  <2>2. tokens'[s] = Append(tokens[s], token)
        /\ \A t \in Slot \ {s} : tokens'[t] = tokens[t]
    BY <1>1 DEF CacheTypeOK
  <2>3. Len(Append(tokens[s], token)) = Len(tokens[s]) + 1
    BY <2>1, AppendProperties
  <2>4. Append(tokens[s], token) # << >>
    BY <2>1, <2>3
  <2>. QED
    BY <2>1, <2>2, <2>3, <2>4
<1>5. SlotShape'
  <2>1. ASSUME NEW t \in Slot
        PROVE  /\ maximum_tokens'[t] = 0 <=> ~Occupied(t)'
               /\ allocated_tokens'[t] <= Len(tokens'[t])
               /\ Len(tokens'[t]) <= maximum_tokens'[t]
    <3>1. CASE t = s
      BY <1>1, <1>4, <3>1 DEF PageInv, SlotShape, Occupied, CacheTypeOK
    <3>2. CASE t # s
      BY <1>1, <1>4, <3>2 DEF PageInv, SlotShape, Occupied
    <3>. QED
      BY <3>1, <3>2
  <2>2. ASSUME NEW t \in Slot
        PROVE  /\ DivCeil(maximum_tokens'[t]) <= PagesPerSlot
               /\ reservations'[t] <= DivCeil(maximum_tokens'[t])
               /\ SharedPages(t)' * PageSize <= allocated_tokens'[t]
               /\ \A i \in Positions : block_table'[t][i] \in Page <=> i <= AllocatedPages(t)'
    BY <1>1, <1>2 DEF PageInv, SlotShape
  <2>. QED
    BY <2>1, <2>2 DEF SlotShape
<1>6. NodeMatch'
  <2>1. ASSUME NEW t \in Slot, NEW i \in 1 .. AllocatedPages(t), NEW m \in radix_nodes,
               node_page[m] = block_table[t][i]
        PROVE  i * PageSize <= allocated_tokens[t] /\ m = Prefix(tokens'[t], i)
    <3>1. i * PageSize <= allocated_tokens[t] /\ m = Prefix(tokens[t], i)
      BY <2>1 DEF PageInv, NodeMatch
    <3>2. CASE t = s
      <4>1. i \in Nat /\ i * PageSize \in Nat /\ allocated_tokens[s] \in Nat
            /\ allocated_tokens[s] <= Len(tokens[s])
        BY <3>2, DivCeilType, DivMulType DEF PageInv, SlotShape, CacheTypeOK, AllocatedPages
      <4>2. i * PageSize <= Len(tokens[s])
        BY <1>4, <3>1, <3>2, <4>1
      <4>3. Prefix(Append(tokens[s], token), i) = Prefix(tokens[s], i)
        BY <1>4, <4>1, <4>2, PrefixAppend
      <4>. QED
        BY <1>4, <3>1, <3>2, <4>3
    <3>3. CASE t # s
      BY <1>4, <3>1, <3>3
    <3>. QED
      BY <3>2, <3>3
  <2>. QED
    BY <1>1, <1>2, <2>1 DEF NodeMatch
<1>7. total_pages' = total_pages
  BY DEF total_pages
<1>. QED
  BY <1>1, <1>2, <1>3, <1>5, <1>6, <1>7
     DEF PageInv, PrivateUnique, SharedCached, NodesDistinct, RefsExact, FreeIffUnreferenced,
         CountersExact, Budget

-----------------------------------------------------------------------------
(* Release of a slot.                                                      *)

\* Releasing a slot gives back its references and what is left of its
\* reservation.
LEMMA ReleaseInv ==
  ASSUME CacheTypeOK, PageInv, NEW s \in Slot, Release(s)
  PROVE  PageInv'
<1> DEFINE current == AllocatedPages(s)
           I == 1 .. current
           n == reservations[s]
<1>1. /\ page_refs' = RefsAfterRelease(block_table[s], I)
      /\ free_pages' = FreeAfterRelease(block_table[s], I)
      /\ reserved_pages' = ReservedAfterRelease(n)
      /\ reservations' = [reservations EXCEPT ![s] = 0]
      /\ block_table' = [block_table EXCEPT ![s] =
                           [i \in Positions |-> IF i \in I THEN NoPage ELSE @[i]]]
      /\ allocated_tokens' = [allocated_tokens EXCEPT ![s] = 0]
      /\ tokens' = [tokens EXCEPT ![s] = << >>]
      /\ maximum_tokens' = [maximum_tokens EXCEPT ![s] = 0]
      /\ cached_pages' = cached_pages /\ node_page' = node_page
  BY DEF Release, radix_vars
<1>2. /\ current \in Nat /\ SharedPages(s) \in Nat /\ DivCeil(maximum_tokens[s]) \in Nat
      /\ DivCeil(maximum_tokens[s]) <= PagesPerSlot /\ PagesPerSlot \in Nat
      /\ n \in Nat /\ n = DivCeil(maximum_tokens[s]) - SharedPages(s)
      /\ current <= PagesPerSlot /\ reserved_pages \in Nat
      /\ \A i \in Positions : i > current => block_table[s][i] = NoPage
  <2>1. SlotShape /\ reserved_pages \in Nat
    BY DEF PageInv, CacheTypeOK
  <2>2. /\ current \in Nat /\ SharedPages(s) \in Nat /\ DivCeil(maximum_tokens[s]) \in Nat
        /\ DivCeil(maximum_tokens[s]) <= PagesPerSlot /\ n \in Nat
        /\ current <= DivCeil(maximum_tokens[s])
        /\ \A i \in Positions : i > current => block_table[s][i] = NoPage
    BY <2>1, SlotFacts
  <2>3. n = DivCeil(maximum_tokens[s]) - SharedPages(s)
    BY <2>2 DEF SharedPages
  <2>. QED
    BY <2>1, <2>2, <2>3, RowLength
<1>3. I \subseteq Positions /\ IsFiniteSet(I)
  <2>1. IsFiniteSet(I)
    BY <1>2, FS_Interval
  <2>. QED
    BY <1>2, <2>1 DEF Positions
<1> HIDE DEF current, I, n
<1>4. AllocatedPages(s)' = 0 /\ SharedPages(s)' = 0 /\ DivCeil(maximum_tokens'[s]) = 0
  BY <1>1, DivCeilZero DEF AllocatedPages, SharedPages, CacheTypeOK
<1>5. \A t \in Slot \ {s} :
         /\ AllocatedPages(t)' = AllocatedPages(t) /\ SharedPages(t)' = SharedPages(t)
         /\ block_table'[t] = block_table[t] /\ maximum_tokens'[t] = maximum_tokens[t]
         /\ allocated_tokens'[t] = allocated_tokens[t] /\ tokens'[t] = tokens[t]
         /\ reservations'[t] = reservations[t]
  BY <1>1 DEF AllocatedPages, SharedPages, CacheTypeOK
<1>6. CachedPageSet' = CachedPageSet /\ radix_nodes' = radix_nodes
  BY <1>1 DEF CachedPageSet, radix_nodes
<1>7. \A i \in Positions : block_table'[s][i] = NoPage
  BY <1>1, <1>2 DEF I, Positions, CacheTypeOK
<1>8. ASSUME NEW p \in Page
      PROVE  /\ page_refs'[p] = Cardinality(TableRefs(p)')
                                + (IF p \in CachedPageSet THEN 1 ELSE 0)
             /\ p \in free_pages' <=> page_refs'[p] = 0
  <2> DEFINE J == {i \in I : block_table[s][i] = p}
  <2>1. {s} \X J \subseteq TableRefs(p)
    BY <1>3 DEF TableRefs
  <2>2. TableRefs(p)' = TableRefs(p) \ ({s} \X J)
    <3>1. \A i \in Positions : block_table[s][i] = p => i \in I
      BY <1>2, PageAssumption DEF I, Positions
    <3>. QED
      BY <1>5, <1>7, <3>1, PageAssumption DEF TableRefs
  <2>3. IsFiniteSet(J) /\ Cardinality(J) \in Nat
    BY <1>3, FS_Subset, FS_CardinalityType
  <2>4. Cardinality({s} \X J) = Cardinality(J)
    BY <2>3, RowCardinality
  <2>5. IsFiniteSet(TableRefs(p))
    BY PlacesFinite DEF TableRefs
  <2>6. /\ Cardinality(TableRefs(p)') = Cardinality(TableRefs(p)) - Cardinality(J)
        /\ Cardinality(J) <= Cardinality(TableRefs(p)) /\ Cardinality(TableRefs(p)) \in Nat
    BY <2>1, <2>2, <2>4, <2>5, SubsetDifference
  <2>7. /\ page_refs[p] = Cardinality(TableRefs(p)) + (IF p \in CachedPageSet THEN 1 ELSE 0)
        /\ p \in free_pages <=> page_refs[p] = 0
    BY DEF PageInv, RefsExact, FreeIffUnreferenced
  <2>8. page_refs'[p] = IF Cardinality(J) > page_refs[p] THEN 0
                        ELSE page_refs[p] - Cardinality(J)
    BY <1>1 DEF RefsAfterRelease, Occurrences
  <2>9. p \in free_pages' <=> p \in free_pages \/ (page_refs[p] # 0 /\ page_refs'[p] = 0)
    BY <1>1 DEF FreeAfterRelease, Reclaimed
  <2>. QED
    BY <2>3, <2>6, <2>7, <2>8, <2>9
<1>9. RefsExact' /\ FreeIffUnreferenced'
  BY <1>6, <1>8 DEF RefsExact, FreeIffUnreferenced
<1>10. /\ ReservedPositions' =
            ReservedPositions \ ({s} \X (SharedPages(s) + 1 .. DivCeil(maximum_tokens[s])))
       /\ {s} \X (SharedPages(s) + 1 .. DivCeil(maximum_tokens[s])) \in SUBSET ReservedPositions
  BY <1>2, <1>4, <1>5 DEF ReservedPositions, Positions
<1>11. /\ PrivatePositions' = {x \in PrivatePositions : x[1] # s}
       /\ PublishedPositions' = {x \in PublishedPositions : x[1] # s}
  <2>1. PrivatePositions' = {x \in PrivatePositions : x[1] # s}
    BY <1>4, <1>5 DEF PrivatePositions, Positions
  <2>. QED
    BY <1>5, <1>6, <2>1 DEF PublishedPositions, PrivatePositions
<1>12. /\ Cardinality(ReservedPositions') = reserved_pages - n
       /\ n <= reserved_pages
  <2> DEFINE mine == SharedPages(s) + 1 .. DivCeil(maximum_tokens[s])
  <2>1. SharedPages(s) <= DivCeil(maximum_tokens[s])
    BY <1>2
  <2>2. IsFiniteSet(mine) /\ Cardinality(mine) = n
    BY <1>2, <2>1, IntervalCardinality
  <2>3. IsFiniteSet({s} \X mine) /\ Cardinality({s} \X mine) = n
    BY <2>2, RowCardinality
  <2>4. IsFiniteSet(ReservedPositions) /\ Cardinality(ReservedPositions) = reserved_pages
    BY PlacesFinite DEF ReservedPositions, PageInv, CountersExact
  <2>. QED
    BY <1>10, <2>3, <2>4, SubsetDifference
<1>13. SlotShape'
  <2>1. ASSUME NEW t \in Slot \ {s}
        PROVE  /\ maximum_tokens'[t] = 0 <=> ~Occupied(t)'
               /\ allocated_tokens'[t] <= Len(tokens'[t])
               /\ Len(tokens'[t]) <= maximum_tokens'[t]
               /\ DivCeil(maximum_tokens'[t]) <= PagesPerSlot
               /\ reservations'[t] <= DivCeil(maximum_tokens'[t])
               /\ SharedPages(t)' * PageSize <= allocated_tokens'[t]
               /\ \A i \in Positions : block_table'[t][i] \in Page <=> i <= AllocatedPages(t)'
    BY <1>5 DEF PageInv, SlotShape, Occupied
  <2>2. /\ maximum_tokens'[s] = 0 /\ ~Occupied(s)' /\ allocated_tokens'[s] = 0
        /\ tokens'[s] = << >> /\ reservations'[s] = 0
    BY <1>1 DEF Occupied, CacheTypeOK
  <2>3. SharedPages(s)' * PageSize = 0
    BY <1>4, PageSizeAssumption
  <2>4. \A i \in Positions : block_table'[s][i] \in Page <=> i <= AllocatedPages(s)'
    BY <1>4, <1>7, PageAssumption DEF Positions
  <2>. QED
    BY <1>2, <1>4, <2>1, <2>2, <2>3, <2>4 DEF SlotShape
<1>14. PrivateUnique'
  BY <1>5, <1>11 DEF PageInv, PrivateUnique, PrivatePositions
<1>15. SharedCached'
  BY <1>4, <1>5, <1>6 DEF PageInv, SharedCached
<1>16. NodesDistinct'
  BY <1>1, <1>6 DEF PageInv, NodesDistinct
<1>17. NodeMatch'
  BY <1>1, <1>4, <1>5, <1>6 DEF PageInv, NodeMatch
<1>18. CountersExact'
  <2>1. reserved_pages' = reserved_pages - n
    BY <1>1, <1>2, <1>12 DEF ReservedAfterRelease
  <2>. QED
    BY <1>1, <1>6, <1>12, <2>1 DEF PageInv, CountersExact
<1>19. Budget'
  <2>1. (ReservedPositions \ PublishedPositions)' \subseteq ReservedPositions \ PublishedPositions
    <3>1. \A x \in ReservedPositions' : x[1] # s
      BY <1>4 DEF ReservedPositions, Positions
    <3>. QED
      BY <1>10, <1>11, <3>1
  <2>. QED
    BY <1>1, <2>1, BudgetShrinks DEF PageInv
<1>20. IsFiniteSet(radix_nodes)'
  BY <1>6 DEF PageInv
<1>. QED
  BY <1>9, <1>13, <1>14, <1>15, <1>16, <1>17, <1>18, <1>19, <1>20 DEF PageInv

-----------------------------------------------------------------------------
(* Publication.                                                            *)

\* Publication pins the pages of the path that no node holds yet.
LEMMA PublishInv ==
  ASSUME CacheTypeOK, PageInv, NEW s \in Slot, PublishPrefix(s)
  PROVE  PageInv'
<1> DEFINE k == AllocatedPages(s)
           row == block_table[s]
           M == MissingPages(tokens[s], k)
           added == {Prefix(tokens[s], j) : j \in M}
           new == {row[j] : j \in M}
<1>1. PICK checkpoint \in free_checkpoints :
        /\ InsertCheckpoint(tokens[s], k, row, checkpoint)
        /\ page_refs' = RefsAfterRetain(row, M)
        /\ cached_pages' = CachedAfterPin(M)
        /\ UNCHANGED <<free_pages, reserved_pages, table_vars, request_vars>>
  BY DEF PublishPrefix, PublishEffect
<1>2. /\ tokens[s] \in Seq(Token) /\ Len(tokens[s]) \in Nat
      /\ k \in Nat /\ k * PageSize <= Len(tokens[s]) /\ allocated_tokens[s] = k * PageSize
      /\ k <= PagesPerSlot /\ PagesPerSlot \in Nat /\ checkpoint \in Checkpoint
  BY SlotFacts, RowLength
     DEF PageInv, PublishPrefix, WillPublish, CanPublish, CacheTypeOK
<1>3. /\ M \subseteq Positions /\ M \subseteq 1 .. k /\ IsFiniteSet(M) /\ Cardinality(M) \in Nat
  <2>1. M \subseteq 1 .. k /\ M \subseteq Positions
    BY <1>2 DEF MissingPages, Positions
  <2>2. IsFiniteSet(1 .. k)
    BY <1>2, FS_Interval
  <2>. QED
    BY <2>1, <2>2, FS_Subset, FS_CardinalityType
<1>4. /\ \A j \in M : /\ j \in Nat /\ j * PageSize <= Len(tokens[s])
                      /\ Prefix(tokens[s], j) \notin radix_nodes
      /\ radix_nodes' = radix_nodes \cup added
      /\ \A m \in radix_nodes : node_page'[m] = node_page[m]
      /\ \A j \in M : node_page'[Prefix(tokens[s], j)] = row[j]
  <2>1. \A j \in M : Prefix(tokens[s], j) \notin radix_nodes
    BY DEF MissingPages
  <2>. QED
    BY <1>1, <1>2, <2>1, InsertedPages
<1>5. \A j \in M : row[j] \in Page /\ row[j] \notin CachedPageSet
  <2> SUFFICES ASSUME NEW j \in M PROVE row[j] \in Page /\ row[j] \notin CachedPageSet
    OBVIOUS
  <2>1. row[j] \in Page
    BY <1>2, <1>3, SlotFacts DEF PageInv
  <2>2. ASSUME NEW m \in radix_nodes, node_page[m] = row[j] PROVE FALSE
    <3>1. m = Prefix(tokens[s], j)
      BY <1>3, <2>2 DEF PageInv, NodeMatch
    <3>. QED
      BY <1>4, <2>2, <3>1
  <2>. QED
    BY <2>1, <2>2 DEF CachedPageSet
<1>6. \A j \in M : <<s, j>> \in PrivatePositions
  <2> SUFFICES ASSUME NEW j \in M PROVE <<s, j>> \in PrivatePositions
    OBVIOUS
  <2>1. j \in Positions /\ j \in Nat /\ j <= AllocatedPages(s) /\ 1 <= j
    BY <1>2, <1>3
  <2>2. ~(j <= SharedPages(s))
    BY <1>5, <2>1, SlotFacts DEF PageInv, SharedCached
  <2>. QED
    BY <2>1, <2>2, SlotFacts DEF PageInv, PrivatePositions
<1>7. \A i, j \in M : row[i] = row[j] => i = j
  BY <1>6 DEF PageInv, PrivateUnique
<1>8. \A i, j \in M : Prefix(tokens[s], i) = Prefix(tokens[s], j) => i = j
  BY <1>2, <1>4, PrefixInjective
<1>9. IsFiniteSet(new) /\ Cardinality(new) = Cardinality(M)
  BY <1>3, <1>7, ImageCardinality
<1>10. IsFiniteSet(added) /\ Cardinality(added) = Cardinality(M)
  <2> DEFINE f == [j \in M |-> Prefix(tokens[s], j)]
  <2>1. added = {f[j] : j \in M} /\ \A i, j \in M : f[i] = f[j] => i = j
    BY <1>8
  <2> HIDE DEF f, added
  <2>. QED
    BY <1>3, <2>1, ImageCardinality
<1>11. CachedPageSet' = CachedPageSet \cup new
  BY <1>4 DEF CachedPageSet
<1>12. /\ page_refs' = RefsAfterRetain(row, M) /\ cached_pages' = cached_pages + Cardinality(M)
       /\ free_pages' = free_pages /\ reserved_pages' = reserved_pages
       /\ block_table' = block_table /\ reservations' = reservations
       /\ allocated_tokens' = allocated_tokens
       /\ tokens' = tokens /\ maximum_tokens' = maximum_tokens
  BY <1>1 DEF table_vars, request_vars, CachedAfterPin
<1> HIDE DEF k, M, row, added, new
<1>13. \A t \in Slot : AllocatedPages(t)' = AllocatedPages(t) /\ SharedPages(t)' = SharedPages(t)
  BY <1>12 DEF AllocatedPages, SharedPages
<1>14. /\ ReservedPositions' = ReservedPositions /\ PrivatePositions' = PrivatePositions
       /\ \A p : TableRefs(p)' = TableRefs(p)
  BY <1>12, <1>13 DEF ReservedPositions, PrivatePositions, TableRefs
<1>15. ASSUME NEW p \in Page
       PROVE  /\ page_refs'[p] = Cardinality(TableRefs(p)')
                                 + (IF p \in CachedPageSet' THEN 1 ELSE 0)
              /\ p \in free_pages' <=> page_refs'[p] = 0
  <2> DEFINE J == {j \in M : row[j] = p}
  <2>1. page_refs'[p] = page_refs[p] + Cardinality(J)
    BY <1>12 DEF RefsAfterRetain, Occurrences
  <2>2. /\ page_refs[p] = Cardinality(TableRefs(p)) + (IF p \in CachedPageSet THEN 1 ELSE 0)
        /\ p \in free_pages <=> page_refs[p] = 0
        /\ Cardinality(TableRefs(p)) \in Nat
    BY PlacesFinite DEF PageInv, RefsExact, FreeIffUnreferenced, TableRefs
  <2>3. CASE p \in new
    <3>1. PICK j \in M : row[j] = p
      BY <2>3 DEF new
    <3>2. J = {j}
      BY <1>7, <3>1
    <3>3. Cardinality(J) = 1
      BY <3>2, FS_Singleton
    <3>4. <<s, j>> \in TableRefs(p)
      BY <1>3, <3>1 DEF TableRefs, row
    <3>5. p \notin free_pages /\ page_refs[p] > 0
      BY <3>4, ReferredInUse DEF PageInv
    <3>6. p \notin CachedPageSet
      BY <1>5, <3>1
    <3>. QED
      BY <1>11, <1>12, <1>14, <2>1, <2>2, <2>3, <3>3, <3>5, <3>6
  <2>4. CASE p \notin new
    <3>1. J = {}
      BY <2>4 DEF new
    <3>2. Cardinality(J) = 0
      BY <3>1, FS_EmptySet
    <3>. QED
      BY <1>11, <1>12, <1>14, <2>1, <2>2, <2>4, <3>2 DEF CacheTypeOK
  <2>. QED
    BY <2>3, <2>4
<1>16. RefsExact' /\ FreeIffUnreferenced'
  BY <1>15 DEF RefsExact, FreeIffUnreferenced
<1>17. SlotShape'
  BY <1>12, <1>13 DEF PageInv, SlotShape, Occupied
<1>18. PrivateUnique' /\ SharedCached'
  BY <1>11, <1>12, <1>13, <1>14 DEF PageInv, PrivateUnique, SharedCached
<1>19. NodesDistinct'
  <2>1. \A j \in M, m \in radix_nodes : node_page[m] # row[j]
    BY <1>5 DEF CachedPageSet
  <2>2. \A x, y \in radix_nodes : node_page[x] = node_page[y] => x = y
    BY DEF PageInv, NodesDistinct
  <2>. QED
    BY <1>4, <1>7, <2>1, <2>2 DEF NodesDistinct, added
<1>20. NodeMatch'
  <2> SUFFICES ASSUME NEW t \in Slot, NEW i \in 1 .. AllocatedPages(t), NEW m \in radix_nodes',
                      node_page'[m] = block_table[t][i]
               PROVE  i * PageSize <= allocated_tokens[t] /\ m = Prefix(tokens[t], i)
    BY <1>12, <1>13 DEF NodeMatch
  <2>1. CASE m \in radix_nodes
    BY <1>4, <2>1 DEF PageInv, NodeMatch
  <2>2. CASE m \in added
    <3>1. PICK j \in M : m = Prefix(tokens[s], j)
      BY <2>2 DEF added
    <3>2. block_table[t][i] = row[j] /\ block_table[t][i] \notin CachedPageSet
      BY <1>4, <1>5, <3>1
    <3>3. AllocatedPages(t) \in Nat /\ SharedPages(t) \in Nat /\ AllocatedPages(t) <= PagesPerSlot
      BY <1>2, SlotFacts DEF PageInv
    <3>4. i \in Positions /\ ~(i <= SharedPages(t))
      BY <1>2, <3>2, <3>3 DEF PageInv, SharedCached, Positions
    <3>5. <<t, i>> \in PrivatePositions
      BY <3>3, <3>4 DEF PrivatePositions
    <3>6. t = s /\ i = j
      BY <1>6, <3>2, <3>5 DEF PageInv, PrivateUnique, row
    <3>7. i * PageSize <= k * PageSize
      BY <1>2, <1>3, <3>6, MulMono
    <3>. QED
      BY <1>2, <3>1, <3>6, <3>7
  <2>. QED
    BY <1>4, <2>1, <2>2
<1>21. CountersExact'
  <2>1. radix_nodes \cap added = {} /\ CachedPageSet \cap new = {}
    BY <1>4, <1>5 DEF added, new
  <2>2. IsFiniteSet(radix_nodes)
    BY DEF PageInv
  <2>3. IsFiniteSet(CachedPageSet)
    BY <2>2, ImageCardinality DEF PageInv, NodesDistinct, CachedPageSet
  <2>4. Cardinality(radix_nodes') = Cardinality(radix_nodes) + Cardinality(M)
    BY <1>4, <1>10, <2>1, <2>2, DisjointUnion
  <2>5. Cardinality(CachedPageSet') = Cardinality(CachedPageSet) + Cardinality(M)
    BY <1>9, <1>11, <2>1, <2>3, DisjointUnion
  <2>. QED
    BY <1>12, <1>14, <2>4, <2>5 DEF PageInv, CountersExact
<1>22. Budget'
  <2> DEFINE before == ReservedPositions \ PublishedPositions
             mine == {s} \X M
  <2>1. PublishedPositions' = PublishedPositions \cup mine
    <3>1. \A x \in PrivatePositions :
            block_table[x[1]][x[2]] \in new <=> x \in mine
      <4> SUFFICES ASSUME NEW x \in PrivatePositions
                   PROVE  block_table[x[1]][x[2]] \in new <=> x \in mine
        OBVIOUS
      <4>1. ASSUME NEW j \in M, block_table[x[1]][x[2]] = row[j] PROVE x = <<s, j>>
        BY <1>6, <4>1 DEF PageInv, PrivateUnique, row
      <4>. QED
        BY <4>1 DEF new, row
    <3>2. mine \subseteq PrivatePositions
      BY <1>6
    <3>. QED
      BY <1>11, <1>12, <1>14, <3>1, <3>2 DEF PublishedPositions
  <2>2. mine \subseteq before
    <3>1. \A j \in M : <<s, j>> \notin PublishedPositions
      BY <1>5 DEF PublishedPositions, row
    <3>2. PrivatePositions \subseteq ReservedPositions
      <4> SUFFICES ASSUME NEW x \in PrivatePositions PROVE x \in ReservedPositions
        OBVIOUS
      <4>1. x \in Slot \X Positions /\ SharedPages(x[1]) < x[2] /\ x[2] <= AllocatedPages(x[1])
        BY DEF PrivatePositions
      <4>2. AllocatedPages(x[1]) \in Nat /\ DivCeil(maximum_tokens[x[1]]) \in Nat
            /\ AllocatedPages(x[1]) <= DivCeil(maximum_tokens[x[1]])
        BY <4>1, SlotFacts DEF PageInv
      <4>. QED
        BY <4>1, <4>2 DEF ReservedPositions, Positions
    <3>. QED
      BY <1>6, <3>1, <3>2
  <2>3. IsFiniteSet(before)
    BY PlacesFinite DEF ReservedPositions
  <2>4. Cardinality(mine) = Cardinality(M)
    BY <1>3, RowCardinality
  <2>5. (ReservedPositions \ PublishedPositions)' = before \ mine
    BY <1>14, <2>1
  <2>6. /\ Cardinality(before \ mine) = Cardinality(before) - Cardinality(M)
        /\ Cardinality(before) \in Nat
    BY <2>2, <2>3, <2>4, SubsetDifference
  <2>7. total_pages \in Nat /\ total_pages' = total_pages
    BY PageAssumption, FS_CardinalityType DEF total_pages
  <2>8. Cardinality((ReservedPositions \ PublishedPositions)')
          = Cardinality(before) - Cardinality(M)
    BY <2>5, <2>6
  <2>9. Cardinality(before) + cached_pages <= total_pages /\ cached_pages \in Nat
    BY DEF PageInv, Budget, CacheTypeOK
  <2> HIDE DEF before
  <2>. QED
    BY <1>3, <1>12, <2>6, <2>7, <2>8, <2>9 DEF Budget
<1>23. IsFiniteSet(radix_nodes)'
  BY <1>4, <1>10, FS_Union DEF PageInv
<1>. QED
  BY <1>16, <1>17, <1>18, <1>19, <1>20, <1>21, <1>22, <1>23 DEF PageInv

-----------------------------------------------------------------------------
(* The accounting holds in every reachable state.                          *)

\* The accounting holds in the empty cache,
LEMMA InitInv == CacheInit => PageInv
<1> SUFFICES ASSUME CacheInit PROVE PageInv
  OBVIOUS
<1>1. CacheTypeOK
  BY InitType
<1>2. radix_nodes = {} /\ CachedPageSet = {}
  <2>1. DOMAIN << >> = {}
    OBVIOUS
  <2>. QED
    BY <2>1 DEF CacheInit, RadixInit, radix_nodes, CachedPageSet
<1>3. \A s \in Slot : /\ AllocatedPages(s) = 0 /\ SharedPages(s) = 0
                      /\ DivCeil(maximum_tokens[s]) = 0 /\ reservations[s] = 0
                      /\ allocated_tokens[s] = 0 /\ tokens[s] = << >>
                      /\ maximum_tokens[s] = 0 /\ ~Occupied(s)
                      /\ \A i \in Positions : block_table[s][i] = NoPage
  BY DivCeilZero DEF CacheInit, AllocatedPages, SharedPages, Occupied, EmptyRow
<1>4. ReservedPositions = {} /\ PrivatePositions = {}
  BY <1>3 DEF ReservedPositions, PrivatePositions, Positions
<1>5. \A p \in Page : TableRefs(p) = {}
  BY <1>3, PageAssumption DEF TableRefs
<1>6. Cardinality({}) = 0 /\ IsFiniteSet({})
  BY FS_EmptySet
<1>7. total_pages \in Nat
  BY PageAssumption, FS_CardinalityType DEF total_pages
<1>8. SlotShape
  <2>1. \A s \in Slot : SharedPages(s) * PageSize = 0
    BY <1>3, PageSizeAssumption
  <2>2. PagesPerSlot \in Nat
    BY RowLength
  <2>. QED
    BY <1>3, <2>1, <2>2, PageAssumption DEF SlotShape, Positions
<1>9. PrivateUnique /\ SharedCached /\ NodesDistinct /\ NodeMatch
  BY <1>2, <1>3, <1>4 DEF PrivateUnique, SharedCached, NodesDistinct, NodeMatch
<1>10. RefsExact /\ FreeIffUnreferenced
  <2>1. \A p \in Page : page_refs[p] = 0 /\ p \in free_pages
    BY DEF CacheInit, AllocatorInit
  <2>2. \A p \in Page : Cardinality(TableRefs(p)) = 0
    BY <1>5, <1>6
  <2>. QED
    BY <1>2, <2>1, <2>2 DEF RefsExact, FreeIffUnreferenced
<1>11. CountersExact
  BY <1>2, <1>4, <1>6 DEF CacheInit, AllocatorInit, CountersExact
<1>12. Budget
  <2>1. ReservedPositions \ PublishedPositions = {}
    BY <1>4
  <2>2. Cardinality(ReservedPositions \ PublishedPositions) = 0
    BY <1>6, <2>1
  <2>3. cached_pages = 0
    BY DEF CacheInit, AllocatorInit
  <2>. QED
    BY <1>7, <2>2, <2>3 DEF Budget
<1>. QED
  BY <1>2, <1>6, <1>8, <1>9, <1>10, <1>11, <1>12 DEF PageInv

\* and after any step,
LEMMA NextInv == CacheTypeOK /\ PageInv /\ [CacheNext]_cache_vars => PageInv'
<1> SUFFICES ASSUME CacheTypeOK, PageInv, [CacheNext]_cache_vars PROVE PageInv'
  OBVIOUS
<1>1. ASSUME NEW s \in Slot, NEW prompt \in Prompt, NEW new \in NewTokenLimit,
             NEW hit \in 0 .. ReusablePages(prompt),
             Admit(s, prompt, Len(prompt) + new, hit)
      PROVE  PageInv'
  BY <1>1, AdmitInv
<1>2. ASSUME NEW s \in Slot, NEW hit \in 1 .. ReusablePages(tokens[s]),
             ExtendAttachedPrefix(s, hit)
      PROVE  PageInv'
  BY <1>2, ExtendInv
<1>3. ASSUME NEW s \in Slot, NEW n \in 1 .. Len(tokens[s]) - allocated_tokens[s],
             PrepareTokens(s, n)
      PROVE  PageInv'
  BY <1>3, PrepareInv
<1>4. ASSUME NEW s \in Slot, NEW token \in Token, PushToken(s, token) PROVE PageInv'
  BY <1>4, PushInv
<1>5. ASSUME NEW s \in Slot, PublishPrefix(s) PROVE PageInv'
  BY <1>5, PublishInv
<1>6. ASSUME NEW s \in Slot, Release(s) PROVE PageInv'
  BY <1>6, ReleaseInv
<1>7. CASE UNCHANGED cache_vars
  BY <1>7
     DEF PageInv, SlotShape, PrivateUnique, SharedCached, NodesDistinct, NodeMatch, RefsExact,
         FreeIffUnreferenced, CountersExact, Budget, Occupied, AllocatedPages, SharedPages,
         TableRefs, CachedPageSet, ReservedPositions, PrivatePositions, PublishedPositions,
         total_pages, radix_nodes, cache_vars, allocator_vars, radix_vars, table_vars,
         request_vars, data_vars
<1>. QED
  BY <1>1, <1>2, <1>3, <1>4, <1>5, <1>6, <1>7 DEF CacheNext

\* The inductive invariant of the page accounting: rows, nodes, counts, free
\* stack, counters and budget agree after every step (src/cache/allocator.rs,
\* src/cache/radix.rs, src/model/lfm2.rs).
THEOREM PageInvariant == CacheSpec => [](CacheTypeOK /\ PageInv)
<1>1. CacheInit => CacheTypeOK /\ PageInv
  BY InitType, InitInv
<1>2. CacheTypeOK /\ PageInv /\ [CacheNext]_cache_vars => (CacheTypeOK /\ PageInv)'
  BY NextType, NextInv
<1>. QED
  BY <1>1, <1>2, PTL DEF CacheSpec

\* In every reachable state a page's reference count is the number of
\* block-table entries and radix nodes that refer to it (allocator.rs
\* retain_pages, pin_cached_pages, grow_sequence, release_page).
THEOREM ReferenceCountsExact == CacheSpec => []RefsExact
<1>1. CacheTypeOK /\ PageInv => RefsExact
  BY DEF PageInv
<1>. QED
  BY <1>1, PageInvariant, PTL

\* In every reachable state a page can be handed out exactly when nothing
\* refers to it: no leak, no page in use on the free stack.
THEOREM NoLeakNoDoubleUse == CacheSpec => []FreeIffUnreferenced
<1>1. CacheTypeOK /\ PageInv => FreeIffUnreferenced
  BY DEF PageInv
<1>. QED
  BY <1>1, PageInvariant, PTL

\* and implies that every admitted request can grow to its end.
LEMMA GrowthFromInv == CacheTypeOK /\ PageInv => GrowthCovered
<1> SUFFICES ASSUME CacheTypeOK, PageInv PROVE GrowthCovered
  OBVIOUS
<1> DEFINE U == PrivatePositions \ PublishedPositions
           B == ReservedPositions \ PublishedPositions
           place(x) == block_table[x[1]][x[2]]
           grown == {place(x) : x \in U}
<1>1. PrivatePositions \subseteq ReservedPositions
  <2> SUFFICES ASSUME NEW x \in PrivatePositions PROVE x \in ReservedPositions
    OBVIOUS
  <2>1. x \in Slot \X Positions /\ SharedPages(x[1]) < x[2] /\ x[2] <= AllocatedPages(x[1])
    BY DEF PrivatePositions
  <2>2. AllocatedPages(x[1]) \in Nat /\ DivCeil(maximum_tokens[x[1]]) \in Nat
        /\ AllocatedPages(x[1]) <= DivCeil(maximum_tokens[x[1]])
    BY <2>1, SlotFacts DEF PageInv
  <2>. QED
    BY <2>1, <2>2 DEF ReservedPositions, Positions
<1>2. IsFiniteSet(B) /\ U \in SUBSET B /\ IsFiniteSet(U)
  BY <1>1, PlacesFinite DEF ReservedPositions, PrivatePositions
<1>3. IsFiniteSet(grown) /\ Cardinality(grown) = Cardinality(U)
  <2> DEFINE f == [x \in U |-> place(x)]
  <2>1. grown = {f[x] : x \in U} /\ \A x, y \in U : f[x] = f[y] => x = y
    BY DEF PageInv, PrivateUnique
  <2> HIDE DEF f, grown, U
  <2>. QED
    BY <1>2, <2>1, ImageCardinality
<1>4. grown \subseteq Page /\ grown \cap CachedPageSet = {}
  <2> SUFFICES ASSUME NEW x \in U PROVE place(x) \in Page /\ place(x) \notin CachedPageSet
    OBVIOUS
  <2>1. x \in Slot \X Positions /\ x[2] <= AllocatedPages(x[1])
    BY DEF PrivatePositions
  <2>. QED
    BY <2>1, SlotFacts DEF PageInv, PublishedPositions
<1>5. Page \ free_pages = grown \cup CachedPageSet
  <2>1. ASSUME NEW p \in Page, p \notin free_pages, p \notin CachedPageSet
        PROVE  p \in grown
    <3>1. PICK x \in Slot \X Positions : place(x) = p
      BY <2>1, FreeMeansUnused DEF PageInv, TableRefs
    <3>2. /\ SharedPages(x[1]) \in Nat /\ AllocatedPages(x[1]) \in Nat
          /\ AllocatedPages(x[1]) <= PagesPerSlot /\ PagesPerSlot \in Nat
      BY <3>1, SlotFacts, RowLength DEF PageInv
    <3>3. x[2] <= AllocatedPages(x[1])
      BY <3>1 DEF PageInv, SlotShape
    <3>4. SharedPages(x[1]) < x[2]
      BY <2>1, <3>1, <3>2 DEF PageInv, SharedCached, Positions
    <3>. QED
      BY <2>1, <3>1, <3>3, <3>4 DEF PrivatePositions, PublishedPositions
  <2>2. ASSUME NEW p \in grown PROVE p \in Page \ free_pages
    <3>1. PICK x \in U : place(x) = p
      OBVIOUS
    <3>2. p \in Page /\ x \in TableRefs(p)
      BY <1>4, <3>1 DEF PrivatePositions, TableRefs
    <3>. QED
      BY <3>2, ReferredInUse DEF PageInv
  <2>3. ASSUME NEW p \in CachedPageSet PROVE p \in Page \ free_pages
    BY ReferredInUse DEF PageInv, CachedPageSet, CacheTypeOK
  <2>. QED
    BY <2>1, <2>2, <2>3
<1>6. IsFiniteSet(CachedPageSet) /\ Cardinality(CachedPageSet) = cached_pages
  BY ImageCardinality DEF PageInv, NodesDistinct, CachedPageSet, CountersExact
<1> HIDE DEF grown, U, B
<1>7. Cardinality(Page \ free_pages) = Cardinality(U) + cached_pages
  BY <1>3, <1>4, <1>5, <1>6, DisjointUnion
<1>8. /\ Cardinality(Page \ free_pages) = total_pages - Cardinality(free_pages)
      /\ total_pages \in Nat /\ Cardinality(free_pages) \in Nat
  BY PageAssumption, SubsetDifference DEF total_pages, CacheTypeOK
<1>9. /\ Cardinality(B \ U) = Cardinality(B) - Cardinality(U)
      /\ Cardinality(B) \in Nat /\ Cardinality(U) \in Nat
  BY <1>2, SubsetDifference
<1>10. ReservedPositions \ PrivatePositions = B \ U
  BY DEF B, U, PublishedPositions
<1>11. Cardinality(B) + cached_pages <= total_pages /\ cached_pages \in Nat
  BY DEF PageInv, Budget, B, CacheTypeOK
<1>12. Cardinality(ReservedPositions \ PrivatePositions) = Cardinality(B) - Cardinality(U)
  BY <1>9, <1>10
<1>. QED
  BY <1>7, <1>8, <1>9, <1>11, <1>12 DEF GrowthCovered

\* In every reachable state the free pages cover everything that the admitted
\* requests may still need, all of them at once: the check for free pages in
\* grow_sequence cannot fail, although publication counts a page both as
\* reserved and as cached until its publisher finishes (allocator.rs
\* try_reserve_pages).
THEOREM AdmissionIsSufficient == CacheSpec => []GrowthCovered
  BY PageInvariant, GrowthFromInv, PTL

-----------------------------------------------------------------------------
(* Positions: token j lies at Offset(j) of page DivCeil(j) of its row.     *)

\* Where the j-th token of a sequence lies.
LEMMA PlaceOfToken ==
  ASSUME NEW j \in Nat \ {0}
  PROVE  /\ DivCeil(j) \in Nat \ {0}
         /\ Offset(j) \in 1 .. PageSize
         /\ j = DivCeil(j) * PageSize - PageSize + Offset(j)
         /\ j <= DivCeil(j) * PageSize
<1> DEFINE k == DivCeil(j)
<1>1. k \in Nat /\ k > 0
  BY DivCeilType, DivCeilPositive
<1>2. j <= k * PageSize
  BY <1>1, DivCeilBelow, DivMulType
<1>3. (k - 1) * PageSize < j
  <2>1. k - 1 \in Nat /\ k - 1 < k
    BY <1>1
  <2> HIDE DEF k
  <2>. QED
    BY <2>1, DivCeilBelow DEF k
<1>4. k * PageSize = (k - 1) * PageSize + PageSize
  BY <1>1, PageSizeAssumption
<1>5. /\ k * PageSize \in Nat /\ (k - 1) * PageSize \in Nat
      /\ Offset(j) = j - (k - 1) * PageSize
  BY <1>1, DivMulType DEF Offset
<1> HIDE DEF k
<1>. QED
  BY <1>1, <1>2, <1>3, <1>4, <1>5, PageSizeAssumption DEF k

\* Which token lies at a place.
LEMMA TokenOfPlace ==
  ASSUME NEW i \in Nat \ {0}, NEW o \in 1 .. PageSize
  PROVE  LET j == i * PageSize - PageSize + o
         IN  j \in Nat \ {0} /\ j <= i * PageSize /\ DivCeil(j) = i /\ Offset(j) = o
<1> DEFINE j == i * PageSize - PageSize + o
<1>1. i - 1 \in Nat /\ i * PageSize = (i - 1) * PageSize + PageSize
  BY PageSizeAssumption
<1>2. (i - 1) * PageSize \in Nat /\ i * PageSize \in Nat
  BY <1>1, DivMulType
<1>3. /\ j \in Nat \ {0} /\ j <= i * PageSize
      /\ (i - 1) * PageSize < j /\ j = (i - 1) * PageSize + o
  BY <1>1, <1>2, PageSizeAssumption
<1> HIDE DEF j
<1>4. i - 1 < DivCeil(j) /\ ~(i < DivCeil(j)) /\ DivCeil(j) \in Nat
  BY <1>1, <1>2, <1>3, DivCeilBelow, DivCeilType
<1>5. DivCeil(j) = i
  BY <1>4
<1>6. Offset(j) = o
  BY <1>2, <1>3, <1>5 DEF Offset
<1>. QED
  BY <1>3, <1>5, <1>6 DEF j

-----------------------------------------------------------------------------
(* Beginnings of token sequences.                                          *)

\* Before token j, a prefix and its sequence agree.
LEMMA PrefixOfPrefix ==
  ASSUME NEW seq \in Seq(Token), NEW k \in Nat, k * PageSize <= Len(seq),
         NEW j \in 1 .. k * PageSize
  PROVE  SubSeq(Prefix(seq, k), 1, j) = SubSeq(seq, 1, j)
<1>1. k * PageSize \in Nat /\ Len(seq) \in Nat
  BY DivMulType
<1>2. k * PageSize \in 1 .. Len(seq) /\ 1 \in 1 .. Len(seq)
      /\ 1 \in 1 .. k * PageSize - 1 + 1 /\ j \in 1 .. k * PageSize - 1 + 1
  BY <1>1
<1>3. SubSeq(SubSeq(seq, 1, k * PageSize), 1, j) = SubSeq(seq, 1 + 1 - 1, 1 + j - 1)
  BY <1>2, SubSeqOfSubSeq
<1>4. 1 + 1 - 1 = 1 /\ 1 + j - 1 = j
  BY <1>1
<1>. QED
  BY <1>3, <1>4 DEF Prefix

\* A page-sized prefix of a page-sized prefix is one of the sequence.
LEMMA PrefixesNest ==
  ASSUME NEW seq \in Seq(Token), NEW k \in Nat, k * PageSize <= Len(seq),
         NEW j \in Nat \ {0}, j <= k
  PROVE  Prefix(Prefix(seq, k), j) = Prefix(seq, j)
<1>1. j * PageSize \in 1 .. k * PageSize
  BY MulMono, DivMulType, PageSizeAssumption
<1>. QED
  BY <1>1, PrefixOfPrefix DEF Prefix

\* A prefix of k pages has k pages.
LEMMA PagesOfPrefix ==
  ASSUME NEW seq \in Seq(Token), NEW k \in Nat, k * PageSize <= Len(seq)
  PROVE  Len(Prefix(seq, k)) \div PageSize = k
<1>1. Len(Prefix(seq, k)) = k * PageSize
  BY PrefixType
<1>2. (k * PageSize) \div PageSize = k
  BY PageSizeAssumption
<1>. QED
  BY <1>1, <1>2

\* A token more at the end changes no beginning.
LEMMA BeginningOfAppend ==
  ASSUME NEW seq \in Seq(Token), NEW token \in Token, NEW j \in 0 .. Len(seq)
  PROVE  SubSeq(Append(seq, token), 1, j) = SubSeq(seq, 1, j)
<1> DEFINE longer == Append(seq, token)
<1>1. /\ longer \in Seq(Token) /\ Len(longer) = Len(seq) + 1 /\ Len(seq) \in Nat
      /\ \A i \in 1 .. Len(seq) : longer[i] = seq[i]
  BY AppendProperties
<1> HIDE DEF longer
<1>2. \A i \in 1 .. j : seq[i] \in Token /\ longer[i] \in Token /\ longer[i] = seq[i]
  BY <1>1, ElementOfSeq
<1>3. /\ SubSeq(seq, 1, j) \in Seq(Token)
      /\ Len(SubSeq(seq, 1, j)) = IF 1 <= j THEN j - 1 + 1 ELSE 0
      /\ \A i \in 1 .. j - 1 + 1 : SubSeq(seq, 1, j)[i] = seq[1 + i - 1]
  BY <1>1, <1>2, SubSeqProperties
<1>4. /\ SubSeq(longer, 1, j) \in Seq(Token)
      /\ Len(SubSeq(longer, 1, j)) = IF 1 <= j THEN j - 1 + 1 ELSE 0
      /\ \A i \in 1 .. j - 1 + 1 : SubSeq(longer, 1, j)[i] = longer[1 + i - 1]
  BY <1>1, <1>2, SubSeqProperties
<1>5. j \in Nat /\ Len(SubSeq(seq, 1, j)) = Len(SubSeq(longer, 1, j))
      /\ Len(SubSeq(seq, 1, j)) = j
  BY <1>1, <1>3, <1>4
<1>6. \A i \in 1 .. j : SubSeq(longer, 1, j)[i] = SubSeq(seq, 1, j)[i]
  BY <1>2, <1>3, <1>4, <1>5
<1>. QED
  BY <1>3, <1>4, <1>5, <1>6, SeqEqual DEF longer

-----------------------------------------------------------------------------
(* What a forward pass writes.                                             *)

\* The tokens of a pass are written to pages of the slot alone, which the radix
\* cache does not own, each at a place of its own.
LEMMA WrittenPrivate ==
  ASSUME CacheTypeOK, PageInv, NEW s \in Slot, NEW n \in Nat, PrepareTokens(s, n),
         NEW j \in allocated_tokens[s] + 1 .. allocated_tokens[s] + n
  PROVE  /\ DivCeil(j) \in Positions
         /\ block_table'[s][DivCeil(j)] \in Page
         /\ block_table'[s][DivCeil(j)] \notin CachedPageSet'
         /\ \A x \in Slot \X Positions :
              block_table'[x[1]][x[2]] = block_table'[s][DivCeil(j)] => x = <<s, DivCeil(j)>>
<1> DEFINE current == AllocatedPages(s)
           upto == allocated_tokens[s] + n
           I == NewPositions(s, n)
           i == DivCeil(j)
           p == block_table'[s][i]
<1>1. PICK fresh \in FreshRows(I) : PrepareEffect(s, n, fresh)
  BY DEF PrepareTokens
<1>2. /\ allocated_tokens[s] \in Nat /\ upto \in Nat /\ DivCeil(upto) <= PagesPerSlot
      /\ PagesPerSlot \in Nat /\ j \in Nat \ {0} /\ j <= upto
  BY RowLength DEF PrepareTokens, CanPrepare, CacheTypeOK
<1>3. i \in Nat \ {0} /\ j <= i * PageSize /\ i * PageSize \in Nat
  BY <1>2, PlaceOfToken, DivMulType
<1>4. i <= DivCeil(upto) /\ DivCeil(upto) \in Nat
  BY <1>2, DivCeilMono, DivCeilType
<1>5. i \in Positions
  BY <1>2, <1>3, <1>4 DEF Positions
<1>6. current \in Nat /\ I = current + 1 .. DivCeil(upto)
  BY <1>2, SlotFacts DEF PageInv, NewPositions
<1>7. /\ block_table' = [block_table EXCEPT ![s] =
                            [x \in Positions |-> IF x \in I THEN fresh[x] ELSE block_table[s][x]]]
      /\ allocated_tokens' = [allocated_tokens EXCEPT ![s] = upto]
      /\ node_page' = node_page
  BY <1>1 DEF PrepareEffect, radix_vars
<1>8. CachedPageSet' = CachedPageSet
  BY <1>7 DEF CachedPageSet, radix_nodes
<1>9. PageInv' /\ CacheTypeOK'
  BY PrepareInv, PrepareType
<1> HIDE DEF current, upto, I, i
<1>10. p \in Page /\ p \notin CachedPageSet
  <2>1. CASE i \in I
    <3>1. p = fresh[i] /\ fresh[i] \in free_pages
      BY <1>5, <1>7, <2>1 DEF CacheTypeOK, FreshRows
    <3>. QED
      BY <3>1, FreeMeansUnused DEF PageInv, CacheTypeOK
  <2>2. CASE i \notin I
    <3>1. p = block_table[s][i]
      BY <1>5, <1>7, <2>2 DEF CacheTypeOK
    <3>2. i <= current
      BY <1>3, <1>4, <1>6, <2>2
    <3>3. p \in Page
      BY <1>5, <3>1, <3>2, SlotFacts DEF PageInv, current
    <3>4. ASSUME NEW m \in radix_nodes, node_page[m] = p PROVE FALSE
      <4>1. i \in 1 .. current
        BY <1>3, <1>6, <3>2
      <4>2. i * PageSize <= allocated_tokens[s]
        BY <3>1, <3>4, <4>1 DEF PageInv, NodeMatch, current
      <4>. QED
        BY <1>2, <1>3, <4>2
    <3>. QED
      BY <3>3, <3>4 DEF CachedPageSet
  <2>. QED
    BY <2>1, <2>2
<1>11. \A x \in Slot \X Positions : block_table'[x[1]][x[2]] = p => x \in PrivatePositions'
  <2> SUFFICES ASSUME NEW x \in Slot \X Positions, block_table'[x[1]][x[2]] = p
               PROVE  x \in PrivatePositions'
    OBVIOUS
  <2>1. x[2] <= AllocatedPages(x[1])'
    BY <1>9, <1>10 DEF PageInv, SlotShape
  <2>2. SharedPages(x[1])' \in Int /\ x[2] \in Nat /\ 1 <= x[2]
    <3>1. DivCeil(maximum_tokens'[x[1]]) \in Nat /\ reservations'[x[1]] \in Nat
      BY <1>9, DivCeilType DEF CacheTypeOK
    <3>. QED
      BY <3>1, RowLength DEF SharedPages, Positions
  <2>3. ~(x[2] <= SharedPages(x[1])')
    <3> SUFFICES ASSUME x[2] <= SharedPages(x[1])' PROVE FALSE
      OBVIOUS
    <3>1. x[2] \in 1 .. SharedPages(x[1])'
      BY <2>2
    <3>2. p \in CachedPageSet'
      BY <1>9, <3>1 DEF PageInv, SharedCached
    <3>. QED
      BY <1>8, <1>10, <3>2
  <2>. QED
    BY <2>1, <2>2, <2>3 DEF PrivatePositions
<1>12. \A x \in Slot \X Positions : block_table'[x[1]][x[2]] = p => x = <<s, i>>
  <2> SUFFICES ASSUME NEW x \in Slot \X Positions, block_table'[x[1]][x[2]] = p
               PROVE  x = <<s, i>>
    OBVIOUS
  <2>1. <<s, i>> \in PrivatePositions' /\ x \in PrivatePositions'
    BY <1>5, <1>11
  <2>. QED
    BY <1>9, <2>1 DEF PageInv, PrivateUnique
<1>. QED
  BY <1>5, <1>8, <1>10, <1>12 DEF i

\* What a forward pass writes: at the place of each of its tokens what that
\* token saw, and nothing anywhere else.
LEMMA PrepareWrites ==
  ASSUME CacheTypeOK, PageInv, NEW s \in Slot, NEW n \in Nat, PrepareTokens(s, n),
         NEW p \in Page, NEW o \in 1 .. PageSize
  PROVE  LET J == {j \in allocated_tokens[s] + 1 .. allocated_tokens[s] + n :
                     block_table'[s][DivCeil(j)] = p /\ Offset(j) = o}
         IN  /\ J = {} => kv_page'[p][o] = kv_page[p][o]
             /\ \A j \in J : kv_page'[p][o] = SubSeq(tokens[s], 1, j)
<1> DEFINE from == allocated_tokens[s] + 1
           upto == allocated_tokens[s] + n
           I == NewPositions(s, n)
           J == {j \in from .. upto : block_table'[s][DivCeil(j)] = p /\ Offset(j) = o}
<1>1. PICK fresh \in FreshRows(I) : PrepareEffect(s, n, fresh)
  BY DEF PrepareTokens
<1> DEFINE row == [i \in Positions |-> IF i \in I THEN fresh[i] ELSE block_table[s][i]]
           writes == Written(row, from, upto, p, o)
<1>2. block_table'[s] = row
  BY <1>1 DEF PrepareEffect, CacheTypeOK
<1>3. writes = J
  BY <1>2 DEF Written
<1>4. kv_page'[p][o] = IF writes = {} THEN kv_page[p][o]
                       ELSE SubSeq(tokens[s], 1, CHOOSE j \in writes : TRUE)
  BY <1>1 DEF PrepareEffect
<1>5. allocated_tokens[s] \in Nat
  BY DEF CacheTypeOK
<1> HIDE DEF writes, row, I
<1>6. ASSUME NEW j \in J, NEW l \in J PROVE j = l
  <2>1. DivCeil(j) = DivCeil(l)
    <3>1. <<s, DivCeil(l)>> \in Slot \X Positions
      BY WrittenPrivate
    <3>2. block_table'[s][DivCeil(l)] = block_table'[s][DivCeil(j)]
      OBVIOUS
    <3>3. <<s, DivCeil(l)>> = <<s, DivCeil(j)>>
      BY <3>1, <3>2, WrittenPrivate
    <3>. QED
      BY <3>3
  <2>2. j \in Nat \ {0} /\ l \in Nat \ {0}
    BY <1>5
  <2>3. /\ j = DivCeil(j) * PageSize - PageSize + Offset(j)
        /\ l = DivCeil(l) * PageSize - PageSize + Offset(l)
    BY <2>2, PlaceOfToken
  <2>4. Offset(j) = Offset(l)
    OBVIOUS
  <2>. QED
    BY <2>1, <2>3, <2>4
<1> HIDE DEF J
<1>7. \A j \in J : (CHOOSE l \in J : TRUE) = j
  BY <1>6
<1>. QED
  BY <1>3, <1>4, <1>7 DEF J

-----------------------------------------------------------------------------
(* The contents after every action.                                        *)

\* The pages of a path hold the K/V of the sequence the path spells.
LEMMA PathContent ==
  ASSUME CacheTypeOK, NodeContent, NEW seq \in Seq(Token), NEW hit \in Nat,
         hit * PageSize <= Len(seq), \A i \in 1 .. hit : Prefix(seq, i) \in radix_nodes,
         NEW j \in 1 .. hit * PageSize
  PROVE  /\ DivCeil(j) \in 1 .. hit
         /\ kv_page[node_page[Prefix(seq, DivCeil(j))]][Offset(j)] = SubSeq(seq, 1, j)
<1> DEFINE i == DivCeil(j)
<1>1. hit * PageSize \in Nat /\ Len(seq) \in Nat /\ j \in Nat \ {0}
  <2>1. hit * PageSize \in Nat
    BY DivMulType
  <2>. QED
    BY <2>1
<1>2. /\ i \in Nat \ {0} /\ Offset(j) \in 1 .. PageSize
      /\ j = i * PageSize - PageSize + Offset(j) /\ j <= i * PageSize
  BY <1>1, PlaceOfToken
<1>3. i \in 1 .. hit
  <2>1. ~(hit < i)
    BY <1>1, DivCeilBelow
  <2>. QED
    BY <1>2, <2>1
<1> HIDE DEF i
<1>4. i * PageSize \in Nat /\ i * PageSize <= Len(seq)
  <2>1. i * PageSize <= hit * PageSize
    BY <1>3, MulMono
  <2>. QED
    BY <1>1, <1>2, <2>1, DivMulType
<1>5. Prefix(seq, i) \in radix_nodes /\ Len(Prefix(seq, i)) = i * PageSize
  BY <1>2, <1>3, <1>4, PrefixType
<1>6. kv_page[node_page[Prefix(seq, i)]][Offset(j)] = SubSeq(Prefix(seq, i), 1, j)
  BY <1>2, <1>5 DEF NodeContent
<1>7. j \in 1 .. i * PageSize
  BY <1>1, <1>2, <1>4
<1>8. SubSeq(Prefix(seq, i), 1, j) = SubSeq(seq, 1, j)
  BY <1>2, <1>4, <1>7, PrefixOfPrefix
<1>. QED
  BY <1>3, <1>6, <1>8 DEF i

\* What the radix cache holds stays right while its nodes, checkpoints and
\* pages stay.
LEMMA RadixContentKept ==
  ASSUME PathClosed, NodeContent, CheckpointContent,
         UNCHANGED <<node_page, node_checkpoint, free_checkpoints, checkpoint_state, kv_page>>
  PROVE  PathClosed' /\ NodeContent' /\ CheckpointContent'
  BY DEF PathClosed, NodeContent, CheckpointContent, radix_nodes

\* Admission attaches pages computed from the request's own tokens, with the
\* state that belongs to them.
LEMMA AdmitContent ==
  ASSUME CacheTypeOK, PageInv, ContentInv, NEW s \in Slot, NEW prompt \in Prompt,
         NEW new \in NewTokenLimit, NEW hit, Admit(s, prompt, Len(prompt) + new, hit)
  PROVE  ContentInv'
<1> DEFINE total == Len(prompt) + new
           path == PathPages(prompt, hit)
<1>1. prompt \in Seq(Token) /\ prompt # << >> /\ Len(prompt) \in Nat /\ new \in Nat
  BY AdmittedPrompt
<1>2. /\ hit \in Nat /\ hit * PageSize < Len(prompt) /\ hit * PageSize \in Nat
      /\ \A j \in 1 .. hit : Prefix(prompt, j) \in radix_nodes
      /\ hit # 0 => HasCheckpoint(prompt, hit)
  <2>1. IsDeepestCheckpoint(prompt, ReusablePages(prompt), hit)
    BY DEF Admit, CanAdmit
  <2>. QED
    BY <1>1, <2>1, HitShape, DivMulType DEF IsDeepestCheckpoint
<1>3. /\ tokens' = [tokens EXCEPT ![s] = prompt]
      /\ block_table' = [block_table EXCEPT ![s] =
                           [i \in Positions |-> IF i \in 1 .. hit THEN path[i] ELSE @[i]]]
      /\ allocated_tokens' = [allocated_tokens EXCEPT ![s] = hit * PageSize]
      /\ conv_state' = [conv_state EXCEPT ![s] =
                          IF hit = 0 THEN @
                          ELSE checkpoint_state[node_checkpoint[Prefix(prompt, hit)]]]
      /\ UNCHANGED <<node_page, node_checkpoint, free_checkpoints, checkpoint_state, kv_page>>
      /\ tokens[s] = << >> /\ DivCeil(total) <= PagesPerSlot
  BY DEF Admit, CanAdmit, Occupied, radix_vars
<1>4. 1 .. hit \subseteq Positions
  <2>1. total \in Nat /\ hit * PageSize < total
    BY <1>1, <1>2
  <2>2. hit < DivCeil(total) /\ DivCeil(total) \in Nat
    BY <1>2, <2>1, DivCeilBelow, DivCeilType
  <2>. QED
    BY <1>2, <1>3, <2>2, RowLength DEF Positions
<1>5. \A i \in 1 .. hit : block_table'[s][i] = node_page[Prefix(prompt, i)]
  BY <1>3, <1>4 DEF PathPages, CacheTypeOK
<1> HIDE DEF total, path
<1>6. KvMatchesTokens'
  <2>1. ASSUME NEW j \in 1 .. hit * PageSize
        PROVE  kv_page[block_table'[s][DivCeil(j)]][Offset(j)] = SubSeq(prompt, 1, j)
    BY <1>1, <1>2, <1>5, PathContent DEF ContentInv
  <2>2. ASSUME NEW t \in Slot \ {s}, NEW j \in 1 .. allocated_tokens[t]
        PROVE  kv_page[block_table'[t][DivCeil(j)]][Offset(j)] = SubSeq(tokens'[t], 1, j)
    BY <1>3 DEF ContentInv, KvMatchesTokens
  <2>. QED
    BY <1>3, <2>1, <2>2 DEF KvMatchesTokens, CacheTypeOK
<1>7. ConvMatchesTokens'
  <2>1. conv_state'[s] = SubSeq(prompt, 1, hit * PageSize)
    <3>1. CASE hit = 0
      <4>1. hit * PageSize = 0
        BY <3>1, PageSizeAssumption
      <4>2. allocated_tokens[s] = 0
        BY <1>3, DivCeilZero DEF PageInv, SlotShape, Occupied, CacheTypeOK
      <4>3. conv_state[s] = << >>
        BY <1>3, <4>2, SubSeqEmpty DEF ContentInv, ConvMatchesTokens
      <4>. QED
        BY <1>3, <3>1, <4>1, <4>3, SubSeqEmpty DEF CacheTypeOK
    <3>2. CASE hit # 0
      <4>1. /\ Prefix(prompt, hit) \in radix_nodes
            /\ node_checkpoint[Prefix(prompt, hit)] # NoCheckpoint
        BY <1>2, <3>2 DEF HasCheckpoint
      <4>2. checkpoint_state[node_checkpoint[Prefix(prompt, hit)]] = Prefix(prompt, hit)
        BY <4>1 DEF ContentInv, CheckpointContent
      <4>. QED
        BY <1>3, <3>2, <4>2 DEF Prefix, CacheTypeOK
    <3>. QED
      BY <3>1, <3>2
  <2>. QED
    BY <1>3, <2>1 DEF ContentInv, ConvMatchesTokens, CacheTypeOK
<1>8. PathClosed' /\ NodeContent' /\ CheckpointContent'
  BY <1>3, RadixContentKept DEF ContentInv
<1>. QED
  BY <1>6, <1>7, <1>8 DEF ContentInv

\* Attaching a deeper prefix does the same later.
LEMMA ExtendContent ==
  ASSUME CacheTypeOK, PageInv, ContentInv, NEW s \in Slot, NEW hit, ExtendAttachedPrefix(s, hit)
  PROVE  ContentInv'
<1> DEFINE current == AllocatedPages(s)
           added == current + 1 .. hit
           path == PathPages(tokens[s], hit)
<1>1. tokens[s] \in Seq(Token) /\ tokens[s] # << >> /\ Len(tokens[s]) \in Nat
  BY DEF ExtendAttachedPrefix, Untouched, Occupied, CacheTypeOK
<1>2. /\ hit \in Nat /\ hit * PageSize < Len(tokens[s]) /\ hit * PageSize \in Nat
      /\ \A j \in 1 .. hit : Prefix(tokens[s], j) \in radix_nodes
      /\ current \in Nat /\ hit > current /\ HasCheckpoint(tokens[s], hit)
  <2>1. IsDeepestCheckpoint(tokens[s], ReusablePages(tokens[s]), hit) /\ hit > current
    BY DEF ExtendAttachedPrefix, DeeperHit
  <2>2. current \in Nat
    BY SlotFacts DEF PageInv
  <2>3. /\ hit \in Nat /\ hit * PageSize < Len(tokens[s])
        /\ \A j \in 1 .. hit : Prefix(tokens[s], j) \in radix_nodes
    BY <1>1, <2>1, HitShape
  <2>4. hit * PageSize \in Nat /\ hit # 0
    BY <2>1, <2>2, <2>3, DivMulType
  <2>. QED
    BY <2>1, <2>2, <2>3, <2>4 DEF IsDeepestCheckpoint
<1>3. /\ block_table' = [block_table EXCEPT ![s] =
                           [i \in Positions |-> IF i \in added THEN path[i] ELSE @[i]]]
      /\ allocated_tokens' = [allocated_tokens EXCEPT ![s] = hit * PageSize]
      /\ conv_state' = [conv_state EXCEPT ![s] =
                          checkpoint_state[node_checkpoint[Prefix(tokens[s], hit)]]]
      /\ tokens' = tokens
      /\ UNCHANGED <<node_page, node_checkpoint, free_checkpoints, checkpoint_state, kv_page>>
      /\ \A i \in 1 .. current : block_table[s][i] = path[i]
  BY DEF ExtendAttachedPrefix, ExtendEffect, CanExtend, radix_vars, request_vars
<1>4. 1 .. hit \subseteq Positions
  <2>1. /\ maximum_tokens[s] \in Nat /\ Len(tokens[s]) <= maximum_tokens[s]
        /\ DivCeil(maximum_tokens[s]) <= PagesPerSlot
    BY DEF PageInv, SlotShape, CacheTypeOK
  <2>2. hit < DivCeil(maximum_tokens[s]) /\ DivCeil(maximum_tokens[s]) \in Nat
    <3>1. hit * PageSize < maximum_tokens[s]
      BY <1>1, <1>2, <2>1
    <3>. QED
      BY <1>2, <2>1, <3>1, DivCeilBelow, DivCeilType
  <2>. QED
    BY <1>2, <2>1, <2>2, RowLength DEF Positions
<1>5. \A i \in 1 .. hit : block_table'[s][i] = node_page[Prefix(tokens[s], i)]
  <2>1. \A i \in 1 .. hit : i \in added \/ i \in 1 .. current
    BY <1>2
  <2>2. \A i \in 1 .. hit : path[i] = node_page[Prefix(tokens[s], i)]
    BY DEF PathPages
  <2> HIDE DEF added, path
  <2>. QED
    BY <1>3, <1>4, <2>1, <2>2 DEF CacheTypeOK
<1> HIDE DEF current, added, path
<1>6. KvMatchesTokens'
  <2>1. ASSUME NEW j \in 1 .. hit * PageSize
        PROVE  kv_page[block_table'[s][DivCeil(j)]][Offset(j)] = SubSeq(tokens[s], 1, j)
    BY <1>1, <1>2, <1>5, PathContent DEF ContentInv
  <2>2. ASSUME NEW t \in Slot \ {s}, NEW j \in 1 .. allocated_tokens[t]
        PROVE  kv_page[block_table'[t][DivCeil(j)]][Offset(j)] = SubSeq(tokens[t], 1, j)
    BY <1>3 DEF ContentInv, KvMatchesTokens
  <2>. QED
    BY <1>3, <2>1, <2>2 DEF KvMatchesTokens, CacheTypeOK
<1>7. ConvMatchesTokens'
  <2>1. /\ Prefix(tokens[s], hit) \in radix_nodes
        /\ node_checkpoint[Prefix(tokens[s], hit)] # NoCheckpoint
    BY <1>2 DEF HasCheckpoint
  <2>2. checkpoint_state[node_checkpoint[Prefix(tokens[s], hit)]] = Prefix(tokens[s], hit)
    BY <2>1 DEF ContentInv, CheckpointContent
  <2>. QED
    BY <1>3, <2>2 DEF ContentInv, ConvMatchesTokens, CacheTypeOK, Prefix
<1>8. PathClosed' /\ NodeContent' /\ CheckpointContent'
  BY <1>3, RadixContentKept DEF ContentInv
<1>. QED
  BY <1>6, <1>7, <1>8 DEF ContentInv

\* A forward pass attends to the sequence's own tokens and writes no page of
\* another.
LEMMA PrepareContent ==
  ASSUME CacheTypeOK, PageInv, ContentInv, NEW s \in Slot, NEW n \in Nat, PrepareTokens(s, n)
  PROVE  ContentInv'
<1> DEFINE from == allocated_tokens[s] + 1
           upto == allocated_tokens[s] + n
           I == NewPositions(s, n)
           writes(p, o) == {j \in from .. upto :
                              block_table'[s][DivCeil(j)] = p /\ Offset(j) = o}
<1>1. PICK fresh \in FreshRows(I) : PrepareEffect(s, n, fresh)
  BY DEF PrepareTokens
<1>2. /\ allocated_tokens[s] \in Nat /\ upto \in Nat /\ tokens[s] \in Seq(Token)
      /\ Len(tokens[s]) \in Nat /\ upto <= Len(tokens[s]) /\ allocated_tokens[s] <= upto
  BY DEF PrepareTokens, CacheTypeOK
<1>3. /\ block_table' = [block_table EXCEPT ![s] =
                            [x \in Positions |-> IF x \in I THEN fresh[x] ELSE block_table[s][x]]]
      /\ allocated_tokens' = [allocated_tokens EXCEPT ![s] = upto]
      /\ conv_state' = [conv_state EXCEPT ![s] = @ \o SubSeq(tokens[s], from, upto)]
      /\ tokens' = tokens
      /\ UNCHANGED <<node_page, node_checkpoint, free_checkpoints, checkpoint_state>>
  BY <1>1 DEF PrepareEffect, radix_vars, request_vars
<1>4. CacheTypeOK' /\ PageInv'
  BY PrepareType, PrepareInv
<1>5. \A p \in Page, o \in 1 .. PageSize :
        /\ writes(p, o) = {} => kv_page'[p][o] = kv_page[p][o]
        /\ \A j \in writes(p, o) : kv_page'[p][o] = SubSeq(tokens[s], 1, j)
  BY PrepareWrites
<1> HIDE DEF I
<1>6. ASSUME NEW t \in Slot, NEW j \in 1 .. allocated_tokens'[t]
      PROVE  kv_page'[block_table'[t][DivCeil(j)]][Offset(j)] = SubSeq(tokens[t], 1, j)
  <2> DEFINE i == DivCeil(j)
             o == Offset(j)
             p == block_table'[t][i]
  <2>1. allocated_tokens'[t] \in Nat /\ j \in Nat \ {0} /\ j <= allocated_tokens'[t]
    BY <1>4 DEF CacheTypeOK
  <2>2. i \in Nat \ {0} /\ o \in 1 .. PageSize /\ j = i * PageSize - PageSize + o
    BY <2>1, PlaceOfToken
  <2>3. i \in Positions /\ i <= AllocatedPages(t)' /\ p \in Page
    <3>1. /\ maximum_tokens'[t] \in Nat /\ Len(tokens'[t]) \in Nat
          /\ allocated_tokens'[t] <= Len(tokens'[t]) /\ Len(tokens'[t]) <= maximum_tokens'[t]
          /\ DivCeil(maximum_tokens'[t]) <= PagesPerSlot
      BY <1>4 DEF PageInv, SlotShape, CacheTypeOK
    <3>2. j <= maximum_tokens'[t]
      BY <2>1, <3>1
    <3>3. i <= DivCeil(allocated_tokens'[t]) /\ i <= DivCeil(maximum_tokens'[t])
          /\ DivCeil(maximum_tokens'[t]) \in Nat
      BY <2>1, <3>1, <3>2, DivCeilMono, DivCeilType
    <3>4. i \in Positions /\ i <= AllocatedPages(t)'
      BY <2>2, <3>1, <3>3, RowLength DEF Positions, AllocatedPages
    <3>. QED
      BY <1>4, <3>4 DEF PageInv, SlotShape
  <2>4. CASE writes(p, o) = {}
    <3>1. j \in 1 .. allocated_tokens[t] /\ p = block_table[t][i]
      <4>1. CASE t # s
        BY <1>3, <4>1 DEF CacheTypeOK
      <4>2. CASE t = s
        <5>1. j \notin from .. upto /\ allocated_tokens'[s] = upto
          BY <1>3, <2>4, <4>2 DEF CacheTypeOK
        <5>2. j \in 1 .. allocated_tokens[s]
          BY <1>2, <2>1, <4>2, <5>1
        <5>3. i <= AllocatedPages(s) /\ AllocatedPages(s) \in Nat
          <6>1. j \in Nat /\ j <= allocated_tokens[s]
            BY <1>2, <2>1, <5>2
          <6>. QED
            BY <1>2, <6>1, DivCeilMono, DivCeilType DEF AllocatedPages
        <5>4. i \notin I
          BY <2>2, <5>3 DEF I, NewPositions
        <5>. QED
          BY <1>3, <2>3, <4>2, <5>2, <5>4 DEF CacheTypeOK
      <4>. QED
        BY <4>1, <4>2
    <3>2. kv_page[block_table[t][i]][o] = SubSeq(tokens[t], 1, j)
      BY <3>1 DEF ContentInv, KvMatchesTokens
    <3>3. kv_page'[p][o] = kv_page[p][o]
      BY <1>5, <2>2, <2>3, <2>4
    <3>. QED
      BY <3>1, <3>2, <3>3
  <2>5. CASE writes(p, o) # {}
    <3>1. PICK l \in writes(p, o) : TRUE
      BY <2>5
    <3>2. l \in from .. upto /\ block_table'[s][DivCeil(l)] = p /\ Offset(l) = o
      BY <3>1
    <3>3. <<t, i>> = <<s, DivCeil(l)>>
      <4>1. <<t, i>> \in Slot \X Positions
        BY <2>3
      <4> HIDE DEF i, o
      <4>. QED
        BY <3>2, <4>1, WrittenPrivate
    <3>4. l \in Nat \ {0}
      BY <1>2, <3>2
    <3>5. l = DivCeil(l) * PageSize - PageSize + Offset(l)
      BY <3>4, PlaceOfToken
    <3>6. t = s /\ l = j
      BY <2>2, <3>2, <3>3, <3>5
    <3>. QED
      BY <1>5, <2>2, <2>3, <3>1, <3>6
  <2>. QED
    BY <2>4, <2>5
<1>7. KvMatchesTokens'
  BY <1>3, <1>6 DEF KvMatchesTokens
<1>8. ConvMatchesTokens'
  <2>1. conv_state[s] = SubSeq(tokens[s], 1, allocated_tokens[s])
    BY DEF ContentInv, ConvMatchesTokens
  <2>2. SubSeq(tokens[s], 1, allocated_tokens[s]) \o SubSeq(tokens[s], from, upto)
          = SubSeq(tokens[s], 1, upto)
    <3>1. /\ 1 \in 1 .. Len(tokens[s]) + 1
          /\ allocated_tokens[s] \in 1 - 1 .. Len(tokens[s])
          /\ upto \in allocated_tokens[s] .. Len(tokens[s])
      BY <1>2
    <3>. QED
      BY <1>2, <3>1, ConcatAdjacentSubSeq
  <2>3. conv_state'[s] = SubSeq(tokens[s], 1, upto) /\ allocated_tokens'[s] = upto
    BY <1>3, <2>1, <2>2 DEF CacheTypeOK
  <2>4. \A t \in Slot \ {s} : /\ conv_state'[t] = conv_state[t]
                              /\ allocated_tokens'[t] = allocated_tokens[t]
    BY <1>3 DEF CacheTypeOK
  <2>. QED
    BY <1>3, <2>3, <2>4 DEF ContentInv, ConvMatchesTokens
<1>9. PathClosed' /\ CheckpointContent'
  BY <1>3 DEF ContentInv, PathClosed, CheckpointContent, radix_nodes
<1>10. NodeContent'
  <2>1. radix_nodes' = radix_nodes /\ node_page' = node_page
    BY <1>3 DEF radix_nodes
  <2>2. ASSUME NEW m \in radix_nodes, NEW o \in 1 .. PageSize
        PROVE  kv_page'[node_page[m]][o] = kv_page[node_page[m]][o]
    <3>1. node_page[m] \in Page /\ node_page[m] \in CachedPageSet'
      BY <2>1 DEF CacheTypeOK, CachedPageSet
    <3>2. writes(node_page[m], o) = {}
      BY <3>1, WrittenPrivate
    <3>. QED
      BY <1>5, <3>1, <3>2
  <2>. QED
    BY <2>1, <2>2 DEF ContentInv, NodeContent
<1>. QED
  BY <1>7, <1>8, <1>9, <1>10 DEF ContentInv

\* A sampled token is not in the cache yet.
LEMMA PushContent ==
  ASSUME CacheTypeOK, PageInv, ContentInv, NEW s \in Slot, NEW token \in Token,
         PushToken(s, token)
  PROVE  ContentInv'
<1>1. /\ tokens' = [tokens EXCEPT ![s] = Append(tokens[s], token)]
      /\ UNCHANGED <<block_table, allocated_tokens, conv_state, node_page, node_checkpoint,
                     free_checkpoints, checkpoint_state, kv_page>>
  BY DEF PushToken, PushEffect, radix_vars, table_vars, data_vars
<1>2. ASSUME NEW t \in Slot, NEW j \in 0 .. allocated_tokens[t]
      PROVE  SubSeq(tokens'[t], 1, j) = SubSeq(tokens[t], 1, j)
  <2>1. /\ tokens[t] \in Seq(Token) /\ allocated_tokens[t] \in Nat /\ Len(tokens[t]) \in Nat
        /\ allocated_tokens[t] <= Len(tokens[t])
    BY DEF CacheTypeOK, PageInv, SlotShape
  <2>2. j \in 0 .. Len(tokens[t])
    BY <2>1
  <2>. QED
    BY <1>1, <2>1, <2>2, BeginningOfAppend DEF CacheTypeOK
<1>3. \A t \in Slot : allocated_tokens[t] \in 0 .. allocated_tokens[t]
                      /\ 1 .. allocated_tokens[t] \subseteq 0 .. allocated_tokens[t]
  BY DEF CacheTypeOK
<1>4. KvMatchesTokens'
  <2>1. \A t \in Slot : \A j \in 1 .. allocated_tokens[t] :
          kv_page[block_table[t][DivCeil(j)]][Offset(j)] = SubSeq(tokens[t], 1, j)
    BY DEF ContentInv, KvMatchesTokens
  <2>2. \A t \in Slot : \A j \in 1 .. allocated_tokens[t] :
          SubSeq(tokens'[t], 1, j) = SubSeq(tokens[t], 1, j)
    BY <1>2, <1>3
  <2>. QED
    BY <1>1, <2>1, <2>2 DEF KvMatchesTokens
<1>5. ConvMatchesTokens'
  <2>1. \A t \in Slot : conv_state[t] = SubSeq(tokens[t], 1, allocated_tokens[t])
    BY DEF ContentInv, ConvMatchesTokens
  <2>2. \A t \in Slot : SubSeq(tokens'[t], 1, allocated_tokens[t])
                            = SubSeq(tokens[t], 1, allocated_tokens[t])
    BY <1>2, <1>3
  <2>. QED
    BY <1>1, <2>1, <2>2 DEF ConvMatchesTokens
<1>6. PathClosed' /\ NodeContent' /\ CheckpointContent'
  BY <1>1, RadixContentKept DEF ContentInv
<1>. QED
  BY <1>4, <1>5, <1>6 DEF ContentInv

\* Releasing a slot leaves every page that others or the radix cache use.
LEMMA ReleaseContent ==
  ASSUME CacheTypeOK, PageInv, ContentInv, NEW s \in Slot, Release(s)
  PROVE  ContentInv'
<1> DEFINE I == 1 .. AllocatedPages(s)
           gone == Reclaimed(block_table[s], I)
<1>1. /\ block_table' = [block_table EXCEPT ![s] =
                            [i \in Positions |-> IF i \in I THEN NoPage ELSE @[i]]]
      /\ page_refs' = RefsAfterRelease(block_table[s], I)
      /\ allocated_tokens' = [allocated_tokens EXCEPT ![s] = 0]
      /\ tokens' = [tokens EXCEPT ![s] = << >>]
      /\ conv_state' = [conv_state EXCEPT ![s] = << >>]
      /\ kv_page' = [p \in Page |-> IF p \in gone THEN EmptyPage ELSE kv_page[p]]
      /\ UNCHANGED <<node_page, node_checkpoint, free_checkpoints, checkpoint_state>>
  BY DEF Release, radix_vars
<1>2. CacheTypeOK' /\ PageInv'
  BY ReleasesType, ReleaseInv
<1>3. \A p \in gone : p \in Page /\ page_refs'[p] = 0
  BY <1>1 DEF Reclaimed
<1> HIDE DEF I, gone
<1>4. \A p \in gone : TableRefs(p)' = {} /\ p \notin CachedPageSet'
  <2> SUFFICES ASSUME NEW p \in gone PROVE TableRefs(p)' = {} /\ p \notin CachedPageSet'
    OBVIOUS
  <2>1. /\ page_refs'[p] = Cardinality(TableRefs(p)') + (IF p \in CachedPageSet' THEN 1 ELSE 0)
        /\ page_refs'[p] = 0
    BY <1>2, <1>3 DEF PageInv, RefsExact
  <2>2. IsFiniteSet(TableRefs(p)') /\ Cardinality(TableRefs(p)') \in Nat
    BY PlacesFinite DEF TableRefs
  <2>3. Cardinality(TableRefs(p)') = 0 /\ p \notin CachedPageSet'
    BY <2>1, <2>2
  <2>. QED
    BY <2>2, <2>3, FS_EmptySet
<1>5. KvMatchesTokens'
  <2> SUFFICES ASSUME NEW t \in Slot, NEW j \in 1 .. allocated_tokens'[t]
               PROVE  kv_page'[block_table'[t][DivCeil(j)]][Offset(j)] = SubSeq(tokens'[t], 1, j)
    BY DEF KvMatchesTokens
  <2>1. t # s
    BY <1>1 DEF CacheTypeOK
  <2>2. /\ allocated_tokens'[t] = allocated_tokens[t] /\ tokens'[t] = tokens[t]
        /\ block_table'[t] = block_table[t]
    BY <1>1, <2>1 DEF CacheTypeOK
  <2>3. j \in Nat \ {0} /\ allocated_tokens[t] \in Nat /\ j <= allocated_tokens[t]
    BY <2>2 DEF CacheTypeOK
  <2>4. DivCeil(j) \in Nat \ {0} /\ DivCeil(j) <= AllocatedPages(t)
    BY <2>3, PlaceOfToken, DivCeilMono DEF AllocatedPages
  <2>5. DivCeil(j) \in Positions /\ block_table[t][DivCeil(j)] \in Page
    <3>1. /\ AllocatedPages(t) \in Nat /\ AllocatedPages(t) <= DivCeil(maximum_tokens[t])
          /\ DivCeil(maximum_tokens[t]) \in Nat /\ DivCeil(maximum_tokens[t]) <= PagesPerSlot
      BY SlotFacts DEF PageInv
    <3>2. DivCeil(j) \in Positions
      BY <2>4, <3>1, RowLength DEF Positions
    <3>. QED
      BY <2>4, <3>2, SlotFacts DEF PageInv
  <2>6. block_table[t][DivCeil(j)] \notin gone
    <3>1. \A p \in gone : \A x \in Slot \X Positions : block_table'[x[1]][x[2]] # p
      BY <1>4 DEF TableRefs
    <3>2. <<t, DivCeil(j)>> \in Slot \X Positions
      BY <2>5
    <3>. QED
      BY <2>2, <3>1, <3>2
  <2>7. kv_page[block_table[t][DivCeil(j)]][Offset(j)] = SubSeq(tokens[t], 1, j)
    BY <2>2 DEF ContentInv, KvMatchesTokens
  <2>. QED
    BY <1>1, <2>2, <2>5, <2>6, <2>7
<1>6. ConvMatchesTokens'
  BY <1>1, SubSeqEmpty DEF ContentInv, ConvMatchesTokens, CacheTypeOK
<1>7. PathClosed' /\ CheckpointContent'
  BY <1>1 DEF ContentInv, PathClosed, CheckpointContent, radix_nodes
<1>8. NodeContent'
  <2>1. radix_nodes' = radix_nodes /\ node_page' = node_page
    BY <1>1 DEF radix_nodes
  <2>2. \A m \in radix_nodes : node_page[m] \in Page /\ node_page[m] \in CachedPageSet'
    BY <2>1 DEF CacheTypeOK, CachedPageSet
  <2>3. \A m \in radix_nodes : kv_page'[node_page[m]] = kv_page[node_page[m]]
    BY <1>1, <1>4, <2>2
  <2>. QED
    BY <2>1, <2>3 DEF ContentInv, NodeContent
<1>. QED
  BY <1>5, <1>6, <1>7, <1>8 DEF ContentInv

\* After an insertion the sequence is a path of the tree, and only its last node
\* has got a checkpoint.
LEMMA InsertedPath ==
  ASSUME CacheTypeOK, NEW seq \in Seq(Token), NEW k \in Nat \ {0}, k * PageSize <= Len(seq),
         NEW row, NEW checkpoint \in Checkpoint, InsertCheckpoint(seq, k, row, checkpoint)
  PROVE  /\ \A j \in 1 .. k : Prefix(seq, j) \in radix_nodes'
         /\ node_checkpoint'[Prefix(seq, k)] = checkpoint
         /\ \A m \in radix_nodes : m # Prefix(seq, k) => node_checkpoint'[m] = node_checkpoint[m]
         /\ \A m \in radix_nodes' \ radix_nodes :
              m # Prefix(seq, k) => node_checkpoint'[m] = NoCheckpoint
<1> DEFINE missing == MissingPages(seq, k)
           all == radix_nodes \cup {Prefix(seq, j) : j \in missing}
<1>1. radix_nodes' = all
  BY InsertedPages
<1>2. \A j \in 1 .. k : Prefix(seq, j) \in all
  BY DEF MissingPages
<1>3. node_checkpoint' = [m \in all |->
                            IF m = Prefix(seq, k) THEN checkpoint
                            ELSE IF m \in radix_nodes THEN node_checkpoint[m]
                            ELSE NoCheckpoint]
  BY DEF InsertCheckpoint
<1>4. k \in 1 .. k
  OBVIOUS
<1> HIDE DEF missing, all
<1>5. \A m \in radix_nodes : m \in all
  BY DEF all
<1>. QED
  BY <1>1, <1>2, <1>3, <1>4, <1>5

\* What is published was computed from the tokens that name it.
LEMMA PublishContent ==
  ASSUME CacheTypeOK, PageInv, ContentInv, NEW s \in Slot, PublishPrefix(s)
  PROVE  ContentInv'
<1> DEFINE k == AllocatedPages(s)
           row == block_table[s]
           M == MissingPages(tokens[s], k)
<1>1. PICK checkpoint \in free_checkpoints :
        /\ free_checkpoints' = free_checkpoints \ {checkpoint}
        /\ checkpoint_state' = [checkpoint_state EXCEPT ![checkpoint] = conv_state[s]]
        /\ InsertCheckpoint(tokens[s], k, row, checkpoint)
        /\ UNCHANGED <<table_vars, request_vars, conv_state, kv_page>>
  BY DEF PublishPrefix, PublishEffect
<1>2. /\ tokens[s] \in Seq(Token) /\ k \in Nat \ {0} /\ k * PageSize <= Len(tokens[s])
      /\ allocated_tokens[s] = k * PageSize /\ checkpoint \in Checkpoint
  BY SlotFacts DEF PageInv, PublishPrefix, WillPublish, CanPublish, CacheTypeOK
<1>3. /\ block_table' = block_table /\ allocated_tokens' = allocated_tokens
      /\ tokens' = tokens /\ conv_state' = conv_state /\ kv_page' = kv_page
  BY <1>1 DEF table_vars, request_vars
<1>4. /\ \A j \in M : j \in 1 .. k /\ j * PageSize <= Len(tokens[s])
      /\ radix_nodes' = radix_nodes \cup {Prefix(tokens[s], j) : j \in M}
      /\ \A m \in radix_nodes : node_page'[m] = node_page[m]
      /\ \A j \in M : node_page'[Prefix(tokens[s], j)] = row[j]
  <2>1. \A j \in M : j \in 1 .. k
    BY DEF MissingPages
  <2>. QED
    BY <1>1, <1>2, <2>1, InsertedPages
<1>5. /\ \A j \in 1 .. k : Prefix(tokens[s], j) \in radix_nodes'
      /\ node_checkpoint'[Prefix(tokens[s], k)] = checkpoint
      /\ \A m \in radix_nodes :
           m # Prefix(tokens[s], k) => node_checkpoint'[m] = node_checkpoint[m]
      /\ \A m \in radix_nodes' \ radix_nodes :
           m # Prefix(tokens[s], k) => node_checkpoint'[m] = NoCheckpoint
  BY <1>1, <1>2, InsertedPath
<1> HIDE DEF k, row, M
<1>6. KvMatchesTokens' /\ ConvMatchesTokens'
  BY <1>3 DEF ContentInv, KvMatchesTokens, ConvMatchesTokens
<1>7. PathClosed'
  <2> SUFFICES ASSUME NEW m \in radix_nodes', NEW j \in 1 .. Len(m) \div PageSize
               PROVE  Prefix(m, j) \in radix_nodes'
    BY DEF PathClosed
  <2>1. CASE m \in radix_nodes
    BY <1>4, <2>1 DEF ContentInv, PathClosed
  <2>2. CASE m \notin radix_nodes
    <3>1. PICK i \in M : m = Prefix(tokens[s], i)
      BY <1>4, <2>2
    <3>2. i \in Nat /\ i \in 1 .. k /\ i * PageSize <= Len(tokens[s])
      BY <1>2, <1>4, <3>1
    <3>3. j \in 1 .. i
      BY <1>2, <3>1, <3>2, PagesOfPrefix
    <3>4. j \in Nat \ {0} /\ j <= i /\ j \in 1 .. k
      BY <1>2, <3>2, <3>3
    <3>5. Prefix(m, j) = Prefix(tokens[s], j)
      BY <1>2, <3>1, <3>2, <3>4, PrefixesNest
    <3>. QED
      BY <1>5, <3>4, <3>5
  <2>. QED
    BY <2>1, <2>2
<1>8. NodeContent'
  <2> SUFFICES ASSUME NEW m \in radix_nodes', NEW o \in 1 .. PageSize
               PROVE  /\ PageSize <= Len(m)
                      /\ kv_page[node_page'[m]][o] = SubSeq(m, 1, Len(m) - PageSize + o)
    BY <1>3 DEF NodeContent
  <2>1. CASE m \in radix_nodes
    BY <1>4, <2>1 DEF ContentInv, NodeContent
  <2>2. CASE m \notin radix_nodes
    <3>1. PICK i \in M : m = Prefix(tokens[s], i)
      BY <1>4, <2>2
    <3> DEFINE j == i * PageSize - PageSize + o
    <3>2. i \in Nat \ {0} /\ i \in 1 .. k /\ i * PageSize <= Len(tokens[s])
      BY <1>2, <1>4, <3>1
    <3>3. node_page'[m] = row[i] /\ Len(m) = i * PageSize
      BY <1>2, <1>4, <3>1, <3>2, PrefixType
    <3>4. j \in Nat \ {0} /\ j <= i * PageSize /\ DivCeil(j) = i /\ Offset(j) = o
      BY <3>2, TokenOfPlace
    <3> HIDE DEF j
    <3>5. /\ i * PageSize \in Nat /\ k * PageSize \in Nat /\ i * PageSize <= k * PageSize
          /\ PageSize <= i * PageSize
      <4>1. PageSize = 1 * PageSize
        BY PageSizeAssumption
      <4>. QED
        BY <1>2, <3>2, <4>1, MulMono, DivMulType
    <3>6. j \in 1 .. i * PageSize /\ j \in 1 .. allocated_tokens[s]
      BY <1>2, <3>4, <3>5
    <3>7. kv_page[row[i]][o] = SubSeq(tokens[s], 1, j)
      BY <3>4, <3>6 DEF ContentInv, KvMatchesTokens, row
    <3>8. SubSeq(m, 1, j) = SubSeq(tokens[s], 1, j)
      BY <1>2, <3>1, <3>2, <3>6, PrefixOfPrefix
    <3>. QED
      BY <3>3, <3>5, <3>7, <3>8 DEF j
  <2>. QED
    BY <2>1, <2>2
<1>9. CheckpointContent'
  <2> SUFFICES ASSUME NEW m \in radix_nodes', node_checkpoint'[m] # NoCheckpoint
               PROVE  /\ node_checkpoint'[m] \notin free_checkpoints'
                      /\ checkpoint_state'[node_checkpoint'[m]] = m
    BY DEF CheckpointContent
  <2>1. CASE m = Prefix(tokens[s], k)
    <3>1. conv_state[s] = m
      BY <1>2, <2>1 DEF ContentInv, ConvMatchesTokens, Prefix
    <3>. QED
      BY <1>1, <1>2, <1>5, <2>1, <3>1 DEF CacheTypeOK
  <2>2. CASE m # Prefix(tokens[s], k)
    <3>1. m \in radix_nodes /\ node_checkpoint'[m] = node_checkpoint[m]
      BY <1>5, <2>2
    <3>2. /\ node_checkpoint[m] \notin free_checkpoints
          /\ checkpoint_state[node_checkpoint[m]] = m
          /\ node_checkpoint[m] \in Checkpoint
      BY <3>1 DEF ContentInv, CheckpointContent, CacheTypeOK
    <3>. QED
      BY <1>1, <3>1, <3>2 DEF CacheTypeOK
  <2>. QED
    BY <2>1, <2>2
<1>. QED
  BY <1>6, <1>7, <1>8, <1>9 DEF ContentInv

\* The empty cache holds nothing wrong,
LEMMA InitContent == CacheInit => ContentInv
<1> SUFFICES ASSUME CacheInit PROVE ContentInv
  OBVIOUS
<1>1. radix_nodes = {}
  <2>1. DOMAIN << >> = {}
    OBVIOUS
  <2>. QED
    BY <2>1 DEF CacheInit, RadixInit, radix_nodes
<1>2. KvMatchesTokens
  BY DEF CacheInit, KvMatchesTokens
<1>3. ConvMatchesTokens
  BY SubSeqEmpty DEF CacheInit, ConvMatchesTokens
<1>. QED
  BY <1>1, <1>2, <1>3 DEF ContentInv, PathClosed, NodeContent, CheckpointContent

\* and no step puts anything wrong into it.
LEMMA NextContent ==
  CacheTypeOK /\ PageInv /\ ContentInv /\ [CacheNext]_cache_vars => ContentInv'
<1> SUFFICES ASSUME CacheTypeOK, PageInv, ContentInv, [CacheNext]_cache_vars PROVE ContentInv'
  OBVIOUS
<1>1. ASSUME NEW s \in Slot, NEW prompt \in Prompt, NEW new \in NewTokenLimit,
             NEW hit \in 0 .. ReusablePages(prompt),
             Admit(s, prompt, Len(prompt) + new, hit)
      PROVE  ContentInv'
  BY <1>1, AdmitContent
<1>2. ASSUME NEW s \in Slot, NEW hit \in 1 .. ReusablePages(tokens[s]),
             ExtendAttachedPrefix(s, hit)
      PROVE  ContentInv'
  BY <1>2, ExtendContent
<1>3. ASSUME NEW s \in Slot, NEW n \in 1 .. Len(tokens[s]) - allocated_tokens[s],
             PrepareTokens(s, n)
      PROVE  ContentInv'
  BY <1>3, PrepareContent
<1>4. ASSUME NEW s \in Slot, NEW token \in Token, PushToken(s, token) PROVE ContentInv'
  BY <1>4, PushContent
<1>5. ASSUME NEW s \in Slot, PublishPrefix(s) PROVE ContentInv'
  BY <1>5, PublishContent
<1>6. ASSUME NEW s \in Slot, Release(s) PROVE ContentInv'
  BY <1>6, ReleaseContent
<1>7. CASE UNCHANGED cache_vars
  BY <1>7
     DEF ContentInv, KvMatchesTokens, ConvMatchesTokens, PathClosed, NodeContent,
         CheckpointContent, radix_nodes, cache_vars, allocator_vars, radix_vars, table_vars,
         request_vars, data_vars
<1>. QED
  BY <1>1, <1>2, <1>3, <1>4, <1>5, <1>6, <1>7 DEF CacheNext

\* The inductive invariant of the whole cache: pages are counted exactly and
\* hold what the rows, the nodes and the checkpoints that lead to them say
\* (src/model/lfm2.rs, src/cache/radix.rs, src/model/prefix.rs).
THEOREM CacheInvariant == CacheSpec => [](CacheTypeOK /\ CacheInv)
<1>1. CacheInit => CacheTypeOK /\ CacheInv
  BY InitType, InitInv, InitContent DEF CacheInv
<1>2. CacheTypeOK /\ CacheInv /\ [CacheNext]_cache_vars => (CacheTypeOK /\ CacheInv)'
  BY NextType, NextInv, NextContent DEF CacheInv
<1>. QED
  BY <1>1, <1>2, PTL DEF CacheSpec

\* Whatever prefix a request attached or took over, and whoever computed it, the
\* K/V it attends to was computed from its own tokens.
THEOREM AttendsToOwnTokens == CacheSpec => []KvMatchesTokens
<1>1. CacheTypeOK /\ CacheInv => KvMatchesTokens
  BY DEF CacheInv, ContentInv
<1>. QED
  BY <1>1, CacheInvariant, PTL

\* A slot's convolution state has absorbed exactly the tokens whose K/V it
\* holds, also after a checkpoint was restored into it.
THEOREM ConvolutionFollowsKv == CacheSpec => []ConvMatchesTokens
<1>1. CacheTypeOK /\ CacheInv => ConvMatchesTokens
  BY DEF CacheInv, ContentInv
<1>. QED
  BY <1>1, CacheInvariant, PTL

-----------------------------------------------------------------------------
(* The checks that would end the owner thread.                             *)

\* A refresh with a deeper hit passes the checks of extend_attached_prefix.
LEMMA RefreshChecked ==
  ASSUME CacheTypeOK, PageInv, NEW s \in Slot, NEW hit, Untouched(s), DeeperHit(s, hit)
  PROVE  CanExtend(s, hit)
<1> DEFINE path == PathPages(tokens[s], hit)
           current == AllocatedPages(s)
<1>1. /\ tokens[s] \in Seq(Token) /\ tokens[s] # << >> /\ Len(tokens[s]) \in Nat
      /\ maximum_tokens[s] \in Nat /\ Len(tokens[s]) <= maximum_tokens[s]
  BY DEF Untouched, Occupied, CacheTypeOK, PageInv, SlotShape
<1>2. /\ hit \in Nat /\ hit * PageSize < Len(tokens[s])
      /\ \A j \in 1 .. hit : Prefix(tokens[s], j) \in radix_nodes
  BY <1>1, HitShape DEF DeeperHit
<1>3. /\ current \in Nat /\ SharedPages(s) \in Nat /\ DivCeil(maximum_tokens[s]) \in Nat
      /\ DivCeil(maximum_tokens[s]) <= PagesPerSlot /\ PagesPerSlot \in Nat
      /\ reservations[s] = DivCeil(maximum_tokens[s]) - SharedPages(s)
      /\ hit > current
  BY SlotFacts, RowLength DEF PageInv, SharedPages, DeeperHit, CacheTypeOK
<1>4. current = SharedPages(s)
  BY <1>3, DivCeilExact DEF Untouched, AllocatedPages
<1>5. hit < DivCeil(maximum_tokens[s])
  <2>1. hit * PageSize \in Nat
    BY <1>2, DivMulType
  <2>2. hit * PageSize < maximum_tokens[s]
    BY <1>1, <1>2, <2>1
  <2>. QED
    BY <1>1, <1>2, <2>2, DivCeilBelow
<1> HIDE DEF current
<1>6. 1 .. hit \subseteq Positions
  BY <1>2, <1>3, <1>5 DEF Positions
<1>7. reservations[s] >= hit - current
  BY <1>2, <1>3, <1>4, <1>5
<1>8. ASSUME NEW i \in 1 .. current PROVE block_table[s][i] = path[i]
  <2>1. i \in 1 .. hit
    BY <1>2, <1>3
  <2>2. PICK m \in radix_nodes : node_page[m] = block_table[s][i]
    BY <1>4 DEF PageInv, SharedCached, CachedPageSet
  <2>3. m = Prefix(tokens[s], i)
    BY <2>2 DEF PageInv, NodeMatch, current
  <2>. QED
    BY <2>1, <2>2, <2>3 DEF PathPages
<1>9. \A i \in current + 1 .. hit : block_table[s][i] = NoPage
  <2> SUFFICES ASSUME NEW i \in current + 1 .. hit PROVE block_table[s][i] = NoPage
    OBVIOUS
  <2>1. i \in Positions /\ i > current
    BY <1>2, <1>3, <1>6
  <2>. QED
    BY <2>1, SlotFacts DEF PageInv, current
<1>10. AllInUse(path, current + 1 .. hit)
  <2> SUFFICES ASSUME NEW i \in current + 1 .. hit
               PROVE  path[i] \in Page /\ page_refs[path[i]] # 0
    BY DEF AllInUse
  <2>1. i \in 1 .. hit
    BY <1>2, <1>3
  <2>2. path[i] \in CachedPageSet /\ path[i] \in Page
    BY <1>2, <2>1 DEF PathPages, CachedPageSet, CacheTypeOK
  <2>3. page_refs[path[i]] > 0
    BY <2>2, ReferredInUse DEF PageInv
  <2>. QED
    BY <2>2, <2>3 DEF CacheTypeOK
<1>. QED
  BY <1>7, <1>8, <1>9, <1>10 DEF CanExtend, current

\* A plan within the sequence passes the checks of prepare_tokens.
LEMMA GrowthChecked ==
  ASSUME CacheTypeOK, PageInv, NEW s \in Slot,
         NEW n \in 1 .. Len(tokens[s]) - allocated_tokens[s]
  PROVE  CanPrepare(s, n)
<1> DEFINE upto == allocated_tokens[s] + n
           limit == DivCeil(maximum_tokens[s])
           mine == {s} \X NewPositions(s, n)
<1>1. /\ allocated_tokens[s] \in Nat /\ maximum_tokens[s] \in Nat /\ Len(tokens[s]) \in Nat
      /\ Len(tokens[s]) <= maximum_tokens[s] /\ n \in Nat /\ n > 0
      /\ upto \in Nat /\ upto <= maximum_tokens[s] /\ allocated_tokens[s] < maximum_tokens[s]
  BY DEF CacheTypeOK, PageInv, SlotShape
<1>2. /\ AllocatedPages(s) \in Nat /\ SharedPages(s) \in Nat /\ limit \in Nat
      /\ limit <= PagesPerSlot /\ PagesPerSlot \in Nat
      /\ SharedPages(s) <= AllocatedPages(s)
      /\ reservations[s] = limit - SharedPages(s)
  BY SlotFacts, RowLength DEF PageInv, SharedPages, CacheTypeOK
<1>3. DivCeil(upto) \in Nat /\ DivCeil(upto) <= limit
  BY <1>1, DivCeilMono, DivCeilType
<1>4. SharedPages(s) < limit
  <2>1. /\ SharedPages(s) * PageSize \in Nat
        /\ SharedPages(s) * PageSize <= allocated_tokens[s]
    BY <1>2, DivMulType DEF PageInv, SlotShape
  <2>2. SharedPages(s) * PageSize < maximum_tokens[s]
    BY <1>1, <2>1
  <2>. QED
    BY <1>1, <1>2, <2>2, DivCeilBelow
<1>5. mine \in SUBSET (ReservedPositions \ PrivatePositions)
  BY <1>2, <1>3 DEF ReservedPositions, PrivatePositions, NewPositions, Positions
<1>6. IsFiniteSet(NewPositions(s, n))
  BY <1>2, <1>3, FS_Interval DEF NewPositions
<1>7. Cardinality(mine) = Cardinality(NewPositions(s, n)) /\ Cardinality(mine) \in Nat
  BY <1>6, RowCardinality, FS_CardinalityType
<1>8. /\ IsFiniteSet(ReservedPositions \ PrivatePositions)
      /\ Cardinality(ReservedPositions \ PrivatePositions) \in Nat
  BY PlacesFinite DEF ReservedPositions
<1> HIDE DEF mine
<1>9. Cardinality(mine) <= Cardinality(ReservedPositions \ PrivatePositions)
  BY <1>5, <1>8, FS_Subset
<1>10. Cardinality(free_pages) \in Nat
  BY PageAssumption, FS_Subset, FS_CardinalityType DEF CacheTypeOK
<1>11. CanGrow(NewPositions(s, n))
  BY <1>7, <1>8, <1>9, <1>10, GrowthFromInv DEF GrowthCovered, CanGrow
<1>. QED
  BY <1>2, <1>3, <1>4, <1>11 DEF CanPrepare

\* A publication passes the checks of publish_prefix.
LEMMA PublicationChecked ==
  ASSUME CacheTypeOK, PageInv, NEW s \in Slot, WillPublish(s)
  PROVE  PublishSound(s)
<1> DEFINE k == AllocatedPages(s)
           row == block_table[s]
           M == MissingPages(tokens[s], k)
           mine == {s} \X M
           unpublished == ReservedPositions \ PublishedPositions
<1>1. /\ k \in Nat /\ k <= PagesPerSlot /\ PagesPerSlot \in Nat /\ SharedPages(s) \in Nat
      /\ k <= DivCeil(maximum_tokens[s]) /\ DivCeil(maximum_tokens[s]) \in Nat
  BY SlotFacts, RowLength DEF PageInv
<1>2. M \subseteq Positions /\ M \subseteq 1 .. k /\ 1 .. k \subseteq Positions
  BY <1>1 DEF MissingPages, Positions
<1>3. ASSUME NEW j \in 1 .. k
      PROVE  row[j] \in Page /\ page_refs[row[j]] > 0
  <2>1. row[j] \in Page /\ j \in Positions
    BY <1>1, <1>2, SlotFacts DEF PageInv
  <2>2. <<s, j>> \in TableRefs(row[j])
    BY <2>1 DEF TableRefs
  <2>. QED
    BY <2>1, <2>2, ReferredInUse DEF PageInv
<1>4. ASSUME NEW j \in M PROVE row[j] \notin CachedPageSet
  <2>1. j \in 1 .. k /\ Prefix(tokens[s], j) \notin radix_nodes
    BY <1>2 DEF MissingPages
  <2>2. ASSUME NEW m \in radix_nodes, node_page[m] = row[j] PROVE FALSE
    BY <2>1, <2>2 DEF PageInv, NodeMatch
  <2>. QED
    BY <2>2 DEF CachedPageSet
<1>5. mine \in SUBSET unpublished
  <2> SUFFICES ASSUME NEW j \in M PROVE <<s, j>> \in unpublished
    OBVIOUS
  <2>1. j \in Nat /\ 1 <= j /\ j <= k /\ j \in Positions
    BY <1>1, <1>2
  <2>2. ~(j <= SharedPages(s))
    BY <1>1, <1>4, <2>1 DEF PageInv, SharedCached
  <2>3. <<s, j>> \notin PublishedPositions
    BY <1>4 DEF PublishedPositions
  <2>. QED
    BY <1>1, <2>1, <2>2, <2>3 DEF ReservedPositions
<1>6. IsFiniteSet(unpublished) /\ Cardinality(unpublished) \in Nat
  BY PlacesFinite DEF ReservedPositions
<1>7. IsFiniteSet(M)
  <2>1. IsFiniteSet(1 .. k)
    BY <1>1, FS_Interval
  <2>. QED
    BY <1>2, <2>1, FS_Subset
<1>8. Cardinality(mine) = Cardinality(M) /\ Cardinality(M) \in Nat
  BY <1>7, RowCardinality, FS_CardinalityType
<1> HIDE DEF mine, unpublished, M
<1>9. Cardinality(M) <= Cardinality(unpublished)
  BY <1>5, <1>6, <1>8, FS_Subset
<1>10. Cardinality(unpublished) + cached_pages <= total_pages /\ cached_pages \in Nat
       /\ total_pages \in Nat
  BY PageAssumption, FS_CardinalityType
     DEF PageInv, Budget, CacheTypeOK, total_pages, unpublished
<1>11. cached_pages + Cardinality(M) <= total_pages
  BY <1>6, <1>8, <1>9, <1>10
<1>12. AllInUse(row, M)
  BY <1>2, <1>3 DEF AllInUse, CacheTypeOK
<1>13. \A i \in 1 .. k : row[i] # NoPage
  BY <1>3, PageAssumption
<1>. QED
  BY <1>11, <1>12, <1>13 DEF PublishSound, CanPin, M

\* The checks in extend_attached_prefix, publish_prefix_checkpoint and
\* grow_sequence, each of which would end the owner thread, never fail for a
\* request that gets that far, whatever the pool's size and the prompts.
THEOREM OwnerNeverRefused == CacheSpec => []ChecksHold
<1>1. CacheTypeOK /\ CacheInv => ChecksHold
  <2> SUFFICES ASSUME CacheTypeOK, PageInv PROVE ChecksHold
    BY DEF CacheInv
  <2>1. ASSUME NEW s \in Slot, NEW hit \in 1 .. ReusablePages(tokens[s])
        PROVE  Untouched(s) /\ DeeperHit(s, hit) => CanExtend(s, hit)
    BY RefreshChecked
  <2>2. ASSUME NEW s \in Slot, NEW n \in 1 .. Len(tokens[s]) - allocated_tokens[s]
        PROVE  CanPrepare(s, n)
    BY GrowthChecked
  <2>3. ASSUME NEW s \in Slot PROVE WillPublish(s) => PublishSound(s)
    BY PublicationChecked
  <2>. QED
    BY <2>1, <2>2, <2>3 DEF ChecksHold
<1>. QED
  BY <1>1, CacheInvariant, PTL

-----------------------------------------------------------------------------
(* What no step does.                                                      *)

\* A forward pass writes only pages that its sequence alone references,
LEMMA PrepareWritesOwn ==
  ASSUME CacheTypeOK, PageInv, NEW s \in Slot, NEW n \in Nat, PrepareTokens(s, n)
  PROVE  WritesOwnPagesOnly
<1> SUFFICES ASSUME NEW p \in Page, kv_page'[p] # kv_page[p]
             PROVE  p \notin CachedPageSet' /\ Cardinality(TableRefs(p)') = 1
  BY DEF WritesOwnPagesOnly
<1>1. PICK o \in 1 .. PageSize : kv_page'[p][o] # kv_page[p][o]
  <2>1. /\ kv_page[p] = [o \in 1 .. PageSize |-> kv_page[p][o]]
        /\ kv_page'[p] = [o \in 1 .. PageSize |-> kv_page'[p][o]]
    BY PrepareType DEF CacheTypeOK
  <2>2. ASSUME \A o \in 1 .. PageSize : kv_page'[p][o] = kv_page[p][o] PROVE FALSE
    BY <2>1, <2>2, Zenon
  <2>. QED
    BY <2>2
<1>2. PICK j \in allocated_tokens[s] + 1 .. allocated_tokens[s] + n :
        block_table'[s][DivCeil(j)] = p
  BY <1>1, PrepareWrites
<1>3. /\ DivCeil(j) \in Positions /\ p \notin CachedPageSet'
      /\ \A x \in Slot \X Positions : block_table'[x[1]][x[2]] = p => x = <<s, DivCeil(j)>>
  BY <1>2, WrittenPrivate
<1>4. TableRefs(p)' = {<<s, DivCeil(j)>>}
  BY <1>2, <1>3 DEF TableRefs
<1>5. Cardinality(TableRefs(p)') = 1
  BY <1>4, FS_Singleton
<1>. QED
  BY <1>3, <1>5

\* and no other step writes any.
LEMMA NextWritesOwn ==
  CacheTypeOK /\ CacheInv /\ [CacheNext]_cache_vars => WritesOwnPagesOnly
<1> SUFFICES ASSUME CacheTypeOK, PageInv, [CacheNext]_cache_vars PROVE WritesOwnPagesOnly
  BY DEF CacheInv
<1>1. ASSUME kv_page' = kv_page PROVE WritesOwnPagesOnly
  BY <1>1 DEF WritesOwnPagesOnly
<1>2. ASSUME NEW s \in Slot, NEW prompt \in Prompt, NEW new \in NewTokenLimit,
             NEW hit \in 0 .. ReusablePages(prompt),
             Admit(s, prompt, Len(prompt) + new, hit)
      PROVE  WritesOwnPagesOnly
  BY <1>1, <1>2 DEF Admit
<1>3. ASSUME NEW s \in Slot, NEW hit \in 1 .. ReusablePages(tokens[s]),
             ExtendAttachedPrefix(s, hit)
      PROVE  WritesOwnPagesOnly
  BY <1>1, <1>3 DEF ExtendAttachedPrefix, ExtendEffect
<1>4. ASSUME NEW s \in Slot, NEW n \in 1 .. Len(tokens[s]) - allocated_tokens[s],
             PrepareTokens(s, n)
      PROVE  WritesOwnPagesOnly
  BY <1>4, PrepareWritesOwn
<1>5. ASSUME NEW s \in Slot, NEW token \in Token, PushToken(s, token)
      PROVE  WritesOwnPagesOnly
  BY <1>1, <1>5 DEF PushToken, PushEffect, data_vars
<1>6. ASSUME NEW s \in Slot, PublishPrefix(s) PROVE WritesOwnPagesOnly
  BY <1>1, <1>6 DEF PublishPrefix, PublishEffect
<1>7. ASSUME NEW s \in Slot, Release(s) PROVE WritesOwnPagesOnly
  BY <1>7 DEF Release, FreeAfterRelease, WritesOwnPagesOnly
<1>8. CASE UNCHANGED cache_vars
  BY <1>1, <1>8 DEF cache_vars, data_vars
<1>. QED
  BY <1>2, <1>3, <1>4, <1>5, <1>6, <1>7, <1>8 DEF CacheNext

\* No step writes K/V into a page that another request or the radix cache
\* refers to: an attached prefix is immutable while it is shared.
THEOREM AttachedPagesImmutable == CacheSpec => SharedPagesImmutable
  BY NextWritesOwn, CacheInvariant, PTL DEF CacheSpec, SharedPagesImmutable

\* Publication replaces no node and no checkpoint,
LEMMA PublishKeeps ==
  ASSUME CacheTypeOK, PageInv, ContentInv, NEW s \in Slot, PublishPrefix(s)
  PROVE  KeepsRadix
<1> DEFINE k == AllocatedPages(s)
           last == Prefix(tokens[s], k)
<1>1. PICK checkpoint \in free_checkpoints :
        /\ checkpoint_state' = [checkpoint_state EXCEPT ![checkpoint] = conv_state[s]]
        /\ InsertCheckpoint(tokens[s], k, block_table[s], checkpoint)
  BY DEF PublishPrefix, PublishEffect
<1>2. /\ tokens[s] \in Seq(Token) /\ k \in Nat \ {0} /\ k * PageSize <= Len(tokens[s])
      /\ checkpoint \in Checkpoint /\ ~HasCheckpoint(tokens[s], k)
  BY SlotFacts DEF PageInv, PublishPrefix, WillPublish, CanPublish, CacheTypeOK
<1>3. /\ radix_nodes \subseteq radix_nodes'
      /\ \A m \in radix_nodes : node_page'[m] = node_page[m]
      /\ \A m \in radix_nodes : m # last => node_checkpoint'[m] = node_checkpoint[m]
  BY <1>1, <1>2, InsertedPages, InsertedPath
<1> HIDE DEF k
<1>4. last \in radix_nodes => node_checkpoint[last] = NoCheckpoint
  <2> SUFFICES ASSUME last \in radix_nodes PROVE HasPath(tokens[s], k)
    BY <1>2 DEF HasCheckpoint
  <2>1. Len(last) \div PageSize = k
    BY <1>2, PagesOfPrefix
  <2>2. ASSUME NEW j \in 1 .. k PROVE Prefix(tokens[s], j) \in radix_nodes
    <3>1. Prefix(last, j) \in radix_nodes
      BY <2>1 DEF ContentInv, PathClosed
    <3>2. j \in Nat \ {0} /\ j <= k
      BY <1>2
    <3>. QED
      BY <1>2, <3>1, <3>2, PrefixesNest
  <2>. QED
    BY <2>2 DEF HasPath
<1>5. ASSUME NEW m \in radix_nodes, node_checkpoint[m] # NoCheckpoint
      PROVE  checkpoint_state'[node_checkpoint[m]] = checkpoint_state[node_checkpoint[m]]
  BY <1>1, <1>5 DEF ContentInv, CheckpointContent, CacheTypeOK
<1>. QED
  BY <1>3, <1>4, <1>5 DEF KeepsRadix

\* and no other step does.
LEMMA NextKeeps ==
  CacheTypeOK /\ CacheInv /\ [CacheNext]_cache_vars => KeepsRadix
<1> SUFFICES ASSUME CacheTypeOK, PageInv, ContentInv, [CacheNext]_cache_vars PROVE KeepsRadix
  BY DEF CacheInv
<1>1. ASSUME UNCHANGED <<node_page, node_checkpoint, checkpoint_state>> PROVE KeepsRadix
  BY <1>1 DEF KeepsRadix, radix_nodes
<1>2. ASSUME NEW s \in Slot, NEW prompt \in Prompt, NEW new \in NewTokenLimit,
             NEW hit \in 0 .. ReusablePages(prompt),
             Admit(s, prompt, Len(prompt) + new, hit)
      PROVE  KeepsRadix
  BY <1>1, <1>2 DEF Admit, radix_vars
<1>3. ASSUME NEW s \in Slot, NEW hit \in 1 .. ReusablePages(tokens[s]),
             ExtendAttachedPrefix(s, hit)
      PROVE  KeepsRadix
  BY <1>1, <1>3 DEF ExtendAttachedPrefix, ExtendEffect, radix_vars
<1>4. ASSUME NEW s \in Slot, NEW n \in 1 .. Len(tokens[s]) - allocated_tokens[s],
             PrepareTokens(s, n)
      PROVE  KeepsRadix
  BY <1>1, <1>4 DEF PrepareTokens, PrepareEffect, radix_vars
<1>5. ASSUME NEW s \in Slot, NEW token \in Token, PushToken(s, token) PROVE KeepsRadix
  BY <1>1, <1>5 DEF PushToken, PushEffect, radix_vars, data_vars
<1>6. ASSUME NEW s \in Slot, PublishPrefix(s) PROVE KeepsRadix
  BY <1>6, PublishKeeps
<1>7. ASSUME NEW s \in Slot, Release(s) PROVE KeepsRadix
  BY <1>1, <1>7 DEF Release, radix_vars
<1>8. CASE UNCHANGED cache_vars
  BY <1>1, <1>8 DEF cache_vars, radix_vars, data_vars
<1>. QED
  BY <1>2, <1>3, <1>4, <1>5, <1>6, <1>7, <1>8 DEF CacheNext

\* The radix cache only learns: no step takes a node away, gives a node another
\* page, replaces its checkpoint or overwrites the state a checkpoint holds.
THEOREM RadixOnlyGrows == CacheSpec => RadixIsStable
  BY NextKeeps, CacheInvariant, PTL DEF CacheSpec, RadixIsStable
=============================================================================
