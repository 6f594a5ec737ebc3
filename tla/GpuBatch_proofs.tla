------------------------------ MODULE GpuBatch_proofs ------------------------------
(***************************************************************************)
(* Proofs about GpuBatch, for every size of the batch: the rows of the     *)
(* requests and their device copies agree (RowsSound), a step is packed    *)
(* and read as it is (UploadDelivers), and K/V is stored where it is read  *)
(* (StepStores).                                                           *)
(***************************************************************************)
EXTENDS GpuBatch, Extrema_proofs, FiniteSetTheorems, SequenceTheorems, TLAPS

--------------------------------------------------------------------------------
(* Pages and addresses *)

\* What the constants say.
LEMMA Sizes ==
  /\ PageSize \in Nat \ {0} /\ BlockTableStride \in Nat \ {0} /\ RequestSlots \in Nat \ {0}
  /\ MaximumTokens \in Nat \ {0} /\ PhysicalPages \in Nat \ {0} /\ RequestSlots <= MaximumTokens
BY BatchAssumption DEF BatchAssumption

\* A quotient by the page size, by its bounds.
LEMMA Quotient ==
  ASSUME NEW x \in Nat, NEW d \in Nat \ {0}
  PROVE  /\ x \div d \in Nat /\ (x \div d) * d <= x /\ x < (x \div d + 1) * d
         /\ x % d \in Nat /\ x % d < d /\ x = (x \div d) * d + (x % d)
         /\ \A k \in Nat : x \div d < k <=> x < k * d
<1>1. /\ x \div d \in Nat /\ x % d \in Nat /\ x % d < d /\ x = d * (x \div d) + (x % d)
  OBVIOUS
<1> DEFINE q == x \div d
           r == x % d
<1>2. q \in Nat /\ r \in Nat /\ r < d /\ x = d * q + r
  BY <1>1
<1> HIDE DEF q, r
<1>3. d * q = q * d /\ q * d \in Nat /\ (q + 1) * d = q * d + d
  BY <1>2
<1>4. q * d <= x /\ x < (q + 1) * d /\ x = q * d + r
  BY <1>2, <1>3
<1>5. ASSUME NEW k \in Nat PROVE q < k <=> x < k * d
  <2>1. k * d \in Nat /\ (q + 1) * d \in Nat /\ q + 1 \in Nat
    BY <1>2
  <2>2. ASSUME q < k PROVE x < k * d
    <3>1. q + 1 <= k
      BY <1>2, <2>2
    <3>2. (q + 1) * d <= k * d
      BY <2>1, <3>1, ScaleUp
    <3>. QED
      BY <1>4, <2>1, <3>2
  <2>3. ASSUME ~(q < k) PROVE ~(x < k * d)
    <3>1. k <= q
      BY <1>2, <2>3
    <3>2. k * d <= q * d
      BY <1>2, <3>1, ScaleUp
    <3>. QED
      BY <1>3, <1>4, <2>1, <3>2
  <2>. QED
    BY <2>2, <2>3
<1>. QED
  BY <1>2, <1>4, <1>5 DEF q, r

\* How many pages tokens take.
LEMMA PagesFor ==
  ASSUME NEW n \in Nat
  PROVE  /\ DivCeil(n) \in Nat
         /\ \A k \in Nat : DivCeil(n) <= k <=> n <= k * PageSize
<1>1. PageSize \in Nat \ {0} /\ n + PageSize - 1 \in Nat
  BY Sizes
<1>2. DivCeil(n) \in Nat /\ \A k \in Nat : DivCeil(n) < k <=> n + PageSize - 1 < k * PageSize
  BY <1>1, Quotient DEF DivCeil
<1>3. ASSUME NEW k \in Nat PROVE DivCeil(n) <= k <=> n <= k * PageSize
  <2>1. k + 1 \in Nat /\ (k + 1) * PageSize = k * PageSize + PageSize /\ k * PageSize \in Nat
    BY <1>1
  <2>2. DivCeil(n) < k + 1 <=> n + PageSize - 1 < (k + 1) * PageSize
    BY <1>2, <2>1
  <2>. QED
    BY <1>1, <1>2, <2>1, <2>2
<1>. QED
  BY <1>2, <1>3

\* The page of a position is one of the pages of any n tokens that include it.
LEMMA PageOfPosition ==
  ASSUME NEW n \in Nat, NEW p \in Nat
  PROVE  /\ p \div PageSize \in Nat /\ p % PageSize \in Nat /\ p % PageSize < PageSize
         /\ p < n => p \div PageSize + 1 \in 1 .. DivCeil(n)
         /\ p >= n /\ p \div PageSize + 1 <= DivCeil(n) =>
              n % PageSize # 0 /\ p \div PageSize + 1 = DivCeil(n)
<1> DEFINE q == p \div PageSize
           c == DivCeil(n)
<1>1. PageSize \in Nat \ {0}
  BY Sizes
<1>2. /\ q \in Nat /\ q * PageSize <= p /\ p < (q + 1) * PageSize
      /\ \A k \in Nat : q < k <=> p < k * PageSize
  BY <1>1, Quotient
<1>3. p % PageSize \in Nat /\ p % PageSize < PageSize
  BY <1>1, Quotient
<1>4. c \in Nat /\ \A k \in Nat : c <= k <=> n <= k * PageSize
  BY PagesFor
<1> HIDE DEF q, c
<1>5. q * PageSize \in Nat /\ (q + 1) * PageSize = q * PageSize + PageSize /\ q + 1 \in Nat
  BY <1>1, <1>2
<1>6. ASSUME p < n PROVE q + 1 \in 1 .. c
  <2>1. ~(n <= q * PageSize)
    BY <1>2, <1>5, <1>6
  <2>2. ~(c <= q)
    BY <1>2, <1>4, <2>1
  <2>. QED
    BY <1>2, <1>4, <2>2
<1>7. ASSUME p >= n, q + 1 <= c PROVE n % PageSize # 0 /\ q + 1 = c
  <2>1. n <= (q + 1) * PageSize
    BY <1>1, <1>2, <1>5, <1>7
  <2>2. c <= q + 1
    BY <1>4, <1>5, <2>1
  <2>3. ~(n <= q * PageSize)
    BY <1>2, <1>4, <1>7
  <2>4. ASSUME n % PageSize = 0 PROVE FALSE
    <3> DEFINE m == n \div PageSize
    <3>1. m \in Nat /\ n = m * PageSize + (n % PageSize)
      BY <1>1, Quotient
    <3> HIDE DEF m
    <3>2. n = m * PageSize
      BY <1>1, <2>4, <3>1
    <3>3. q < m
      <4>1. ASSUME m <= q PROVE FALSE
        <5>1. m * PageSize <= q * PageSize
          BY <1>1, <1>2, <3>1, <4>1, ScaleUp
        <5>. QED
          BY <2>3, <3>2, <5>1
      <4>. QED
        BY <1>2, <3>1, <4>1
    <3>4. (q + 1) * PageSize <= m * PageSize
      BY <1>1, <1>2, <1>5, <3>1, <3>3, ScaleUp
    <3>. QED
      BY <1>1, <1>2, <1>5, <1>7, <3>2, <3>4
  <2>. QED
    BY <1>2, <1>4, <1>7, <2>2, <2>4
<1>. QED
  BY <1>2, <1>3, <1>6, <1>7 DEF q, c

\* Whole pages hold no more and no less.
LEMMA WholePages ==
  /\ DivCeil(0) = 0
  /\ \A k \in Nat : k * PageSize \in Nat /\ DivCeil(k * PageSize) = k /\ (k * PageSize) % PageSize = 0
<1>1. PageSize \in Nat \ {0}
  BY Sizes
<1>2. ASSUME NEW k \in Nat
      PROVE  k * PageSize \in Nat /\ DivCeil(k * PageSize) = k /\ (k * PageSize) % PageSize = 0
  <2> DEFINE x == k * PageSize
             q == x \div PageSize
             c == DivCeil(x)
  <2>1. x \in Nat
    BY <1>1
  <2>2. c \in Nat /\ \A j \in Nat : c <= j <=> x <= j * PageSize
    BY <2>1, PagesFor
  <2>3. /\ q \in Nat /\ x % PageSize \in Nat /\ x = q * PageSize + (x % PageSize)
        /\ \A j \in Nat : q < j <=> x < j * PageSize
    BY <1>1, <2>1, Quotient
  <2>4. c <= k
    <3>1. x <= k * PageSize
      BY <2>1
    <3> HIDE DEF c, x
    <3>. QED
      BY <2>2, <3>1
  <2>5. x <= c * PageSize
    BY <2>2
  <2>6. k <= c
    <3> HIDE DEF c
    <3>. QED
      BY <1>1, <2>2, <2>5, ScaleDown
  <2>7. q = k
    <3>1. ~(q < k) /\ q < k + 1
      <4>1. k + 1 \in Nat /\ (k + 1) * PageSize = x + PageSize
        BY <1>1
      <4> HIDE DEF x, q
      <4>2. ~(x < x) /\ x < x + PageSize
        BY <1>1, <2>1
      <4>3. q < k <=> x < x
        BY <2>3 DEF x
      <4>4. q < k + 1 <=> x < x + PageSize
        BY <2>3, <4>1
      <4>. QED
        BY <4>2, <4>3, <4>4
    <3> HIDE DEF q
    <3>. QED
      BY <2>3, <3>1
  <2>8. x % PageSize = 0
    <3>1. x = k * PageSize + (x % PageSize)
      BY <2>3, <2>7
    <3>2. x = x + (x % PageSize)
      BY <3>1
    <3> HIDE DEF x
    <3>. QED
      BY <2>1, <2>3, <3>2
  <2>. QED
    BY <2>1, <2>2, <2>4, <2>6, <2>8
<1>3. 0 * PageSize = 0 /\ 0 \in Nat
  BY <1>1
<1>. QED
  BY <1>2, <1>3

\* A place of a row has an address of its own.
LEMMA Address ==
  ASSUME NEW s \in Slots, NEW at \in 1 .. BlockTableStride
  PROVE  /\ s * BlockTableStride + at \in 1 .. RequestSlots * BlockTableStride
         /\ (s * BlockTableStride + at - 1) \div BlockTableStride = s
         /\ ((s * BlockTableStride + at - 1) % BlockTableStride) + 1 = at
         /\ \A t \in Slots : t # s =>
              s * BlockTableStride + at - t * BlockTableStride \notin 1 .. BlockTableStride
<1> DEFINE K == BlockTableStride
           b == s * K
           x == b + at - 1
           q == x \div K
<1>1. K \in Nat \ {0} /\ RequestSlots \in Nat \ {0} /\ s \in Nat /\ s + 1 <= RequestSlots /\ at \in Nat
      /\ 1 <= at /\ at <= K
  BY Sizes DEF Slots
<1> HIDE DEF K
<1>2. b \in Nat /\ (s + 1) * K = b + K /\ s + 1 \in Nat
  BY <1>1
<1>3. (s + 1) * K <= RequestSlots * K /\ RequestSlots * K \in Nat
  BY <1>1, <1>2, ScaleUp
<1> HIDE DEF b
<1>4. x \in Nat /\ x < b + K /\ ~(x < b)
  BY <1>1, <1>2
<1>5. /\ q \in Nat /\ x % K \in Nat /\ x = q * K + (x % K)
      /\ \A j \in Nat : q < j <=> x < j * K
  BY <1>1, <1>4, Quotient
<1>6. q = s
  <2>1. q < s + 1 /\ ~(q < s)
    BY <1>1, <1>2, <1>4, <1>5 DEF b
  <2> HIDE DEF q
  <2>. QED
    BY <1>1, <1>5, <2>1
<1>7. (x % K) + 1 = at
  <2>1. x = b + (x % K)
    BY <1>5, <1>6 DEF b
  <2>2. at \in Nat /\ b \in Nat /\ x % K \in Nat /\ x = b + at - 1
    BY <1>1, <1>2, <1>5
  <2> HIDE DEF x
  <2>. QED
    BY <2>1, <2>2
<1>8. ASSUME NEW t \in Slots, t # s PROVE b + at - t * K \notin 1 .. K
  <2>1. t \in Nat /\ t * K \in Nat /\ (t + 1) * K = t * K + K /\ t + 1 \in Nat
    BY <1>1 DEF Slots
  <2>2. CASE t < s
    <3>1. (t + 1) * K <= s * K
      BY <1>1, <2>1, <2>2, ScaleUp
    <3>2. t * K + K <= b
      BY <2>1, <3>1 DEF b
    <3>. QED
      BY <1>1, <1>2, <2>1, <3>2
  <2>3. CASE s < t
    <3>1. (s + 1) * K <= t * K
      BY <1>1, <1>2, <2>1, <2>3, ScaleUp
    <3>2. b + K <= t * K
      BY <1>2, <3>1
    <3>. QED
      BY <1>1, <1>2, <2>1, <3>2
  <2>. QED
    BY <1>1, <1>8, <2>1, <2>2, <2>3
<1>9. b + at \in 1 .. RequestSlots * K
  BY <1>1, <1>2, <1>3
<1>. QED
  BY <1>6, <1>7, <1>8, <1>9 DEF K, b

--------------------------------------------------------------------------------
(* Rows and their device copies *)

\* The types of the rows.
RowTypes ==
  /\ table \in [Slots -> [1 .. BlockTableStride -> Pages \cup {NoPage}]]
  /\ allocated \in [Slots -> 0 .. BlockTableStride * PageSize]
  /\ published \subseteq Pages
  /\ block_tables \in [1 .. RequestSlots * BlockTableStride -> Pages]

\* What holds of the rows, whatever step is being run.
RowsSound == RowTypes /\ RowsFilled /\ OpenPagePrivate /\ DeviceRowsMatch

\* A row has as many pages as its tokens take, and they fit.
LEMMA AllocatedPages ==
  ASSUME RowTypes, NEW s \in Slots
  PROVE  allocated[s] \in Nat /\ DivCeil(allocated[s]) \in 0 .. BlockTableStride
<1>1. BlockTableStride \in Nat /\ PageSize \in Nat
  BY Sizes
<1>2. BlockTableStride * PageSize \in Nat
  BY <1>1
<1>3. allocated[s] \in Nat /\ allocated[s] <= BlockTableStride * PageSize
  BY <1>2 DEF RowTypes
<1>4. DivCeil(allocated[s]) \in Nat /\ DivCeil(allocated[s]) <= BlockTableStride
  BY <1>1, <1>3, PagesFor
<1>. QED
  BY <1>1, <1>3, <1>4

\* A piece of a row in its place, and nothing else changed.
RowSent(new, old, s, row, from, upto) ==
  /\ new \in [1 .. RequestSlots * BlockTableStride -> Pages]
  /\ \A at \in 1 .. BlockTableStride :
       new[s * BlockTableStride + at]
         = IF at \in from + 1 .. upto THEN row[at] ELSE old[s * BlockTableStride + at]
  /\ \A t \in Slots \ {s} : \A at \in 1 .. BlockTableStride :
       new[t * BlockTableStride + at] = old[t * BlockTableStride + at]

\* An upload sends the piece of the row it is for.
LEMMA RowPieceSent ==
  ASSUME RowTypes, NEW s \in Slots, NEW row \in [1 .. BlockTableStride -> Pages \cup {NoPage}],
         NEW from \in Nat, NEW upto \in Nat, from <= upto, upto <= BlockTableStride,
         \A i \in from + 1 .. upto : row[i] \in Pages
  PROVE  RowSent(UploadRange(block_tables, s, from, SubSeq(row, from + 1, upto)),
                 block_tables, s, row, from, upto)
<1> DEFINE entries == SubSeq(row, from + 1, upto)
           result == UploadRange(block_tables, s, from, entries)
           K == BlockTableStride
           n == upto - from
           c == s * K
<1>1. entries = [i \in 1 .. n |-> row[i + from]]
  <2>1. entries = [i \in 1 .. upto - (from + 1) + 1 |-> row[i + (from + 1) - 1]]
    OBVIOUS
  <2>2. upto - (from + 1) + 1 = upto - from /\ \A i \in 1 .. upto - from : i + (from + 1) - 1 = i + from
    OBVIOUS
  <2>. QED
    BY <2>1, <2>2
<1>2. K \in Nat /\ n \in Nat /\ c \in Nat /\ \A t \in Slots : t \in Nat /\ t * K \in Nat
  BY Sizes DEF Slots
<1> HIDE DEF entries
<1>3. Len(entries) = n
  BY <1>1, <1>2
<1>4. /\ DOMAIN result = 1 .. RequestSlots * K
      /\ \A i \in 1 .. RequestSlots * K :
           result[i] = IF i - c - from \in 1 .. n THEN row[(i - c - from) + from] ELSE block_tables[i]
  BY <1>1, <1>3 DEF UploadRange, RowTypes
<1>5. \A t \in Slots : \A at \in 1 .. K : t * K + at \in 1 .. RequestSlots * K
  BY Address
<1>6. \A t \in Slots \ {s} : \A at \in 1 .. K : t * K + at - c \notin 1 .. K
  BY Address
<1> HIDE DEF c, result, n
<1>7. ASSUME NEW at \in 1 .. K, c + at \in 1 .. RequestSlots * K
      PROVE  result[c + at] = IF at \in from + 1 .. upto THEN row[at] ELSE block_tables[c + at]
  <2>1. (c + at) - c - from = at - from /\ (at - from) + from = at
    BY <1>2
  <2>2. at - from \in 1 .. n <=> at \in from + 1 .. upto
    BY <1>2 DEF n
  <2>. QED
    BY <1>4, <1>7, <2>1, <2>2
<1>8. ASSUME NEW b \in Nat, NEW at \in 1 .. K, b + at \in 1 .. RequestSlots * K, b + at - c \notin 1 .. K
      PROVE  result[b + at] = block_tables[b + at]
  <2>1. (b + at) - c - from \notin 1 .. n
    BY <1>2, <1>8 DEF n
  <2>. QED
    BY <1>4, <1>8, <2>1
<1>9. result \in [1 .. RequestSlots * K -> Pages]
  <2>1. ASSUME NEW i \in 1 .. RequestSlots * K PROVE result[i] \in Pages
    <3>1. CASE i - c - from \in 1 .. n
      <4>1. i \in Int /\ (i - c - from) + from \in from + 1 .. upto
        BY <1>2, <3>1 DEF n
      <4>. QED
        BY <1>4, <3>1, <4>1
    <3>2. CASE ~(i - c - from \in 1 .. n)
      BY <1>4, <3>2 DEF RowTypes
    <3>. QED
      BY <3>1, <3>2
  <2>. QED
    BY <1>4, <2>1 DEF result, UploadRange
<1>10. \A at \in 1 .. K : c + at \in 1 .. RequestSlots * K
  BY <1>5 DEF c
<1>11. \A at \in 1 .. K : result[s * K + at] = IF at \in from + 1 .. upto THEN row[at] ELSE block_tables[s * K + at]
  BY <1>7, <1>10 DEF c
<1>12. ASSUME NEW t \in Slots \ {s}, NEW at \in 1 .. K PROVE result[t * K + at] = block_tables[t * K + at]
  <2>1. t * K \in Nat /\ t * K + at \in 1 .. RequestSlots * K /\ t * K + at - c \notin 1 .. K
    BY <1>2, <1>5, <1>6
  <2>. QED
    BY <1>8, <2>1
<1>. QED
  BY <1>9, <1>11, <1>12 DEF RowSent, result, entries

\* A row that keeps its first pages, gets others behind them, and is filled by them.
LEMMA RowReplaced ==
  ASSUME RowsSound, NEW s \in Slots, NEW row \in [1 .. BlockTableStride -> Pages \cup {NoPage}],
         NEW from \in Nat, NEW tokens \in 0 .. BlockTableStride * PageSize, from <= DivCeil(tokens),
         table' = [table EXCEPT ![s] = row], allocated' = [allocated EXCEPT ![s] = tokens],
         block_tables' = UploadRange(block_tables, s, from, SubSeq(row, from + 1, DivCeil(tokens))),
         UNCHANGED published, from = DivCeil(allocated[s]),
         \A i \in 1 .. from : row[i] = table[s][i],
         \A i \in from + 1 .. DivCeil(tokens) : row[i] \in Pages,
         \A i \in 1 .. BlockTableStride : i > DivCeil(tokens) => row[i] = NoPage,
         \A i, j \in 1 .. DivCeil(tokens) : row[i] = row[j] => i = j,
         \* the new pages are no one's open page
         \A t \in Slots \ {s}, i \in from + 1 .. DivCeil(tokens) :
           allocated[t] % PageSize # 0 => row[i] # table[t][DivCeil(allocated[t])],
         \* and the last one is private, if there is room in it
         tokens % PageSize # 0 => /\ row[DivCeil(tokens)] \notin published
                                  /\ \A t \in Slots \ {s} : row[DivCeil(tokens)] \notin Range(table[t])
  PROVE  RowsSound'
<1> DEFINE upto == DivCeil(tokens)
<1>1. RowTypes /\ RowsFilled /\ OpenPagePrivate /\ DeviceRowsMatch
  BY DEF RowsSound
<1>2. BlockTableStride \in Nat /\ PageSize \in Nat /\ tokens \in Nat /\ BlockTableStride * PageSize \in Nat
  BY Sizes
<1>3. upto \in Nat /\ upto <= BlockTableStride
  BY <1>2, PagesFor
<1>4. /\ DOMAIN table = Slots /\ DOMAIN allocated = Slots
      /\ table'[s] = row /\ allocated'[s] = tokens
      /\ \A t \in Slots \ {s} : table'[t] = table[t] /\ allocated'[t] = allocated[t]
  BY <1>1 DEF RowTypes
<1>5. RowSent(block_tables', block_tables, s, row, from, upto)
  BY <1>1, <1>3, RowPieceSent
<1> HIDE DEF upto
<1>6. RowTypes'
  BY <1>1, <1>4, <1>5 DEF RowTypes, RowSent
<1>7. RowsFilled'
  <2>1. ASSUME NEW t \in Slots, NEW i \in 1 .. BlockTableStride
        PROVE  /\ table'[t][i] # NoPage <=> i <= DivCeil(allocated'[t])
               /\ \A j \in 1 .. DivCeil(allocated'[t]) : table'[t][i] = table'[t][j] => i = j
    <3>1. CASE t # s
      BY <1>1, <1>4, <3>1 DEF RowsFilled
    <3>2. CASE t = s
      <4>1. table'[t] = row /\ DivCeil(allocated'[t]) = upto
        BY <1>4, <3>2 DEF upto
      <4>2. \A p \in Pages : p # NoPage
        BY Sizes DEF Pages, NoPage
      <4>3. \A j \in 1 .. upto : row[j] # NoPage
        <5>1. ASSUME NEW j \in 1 .. upto PROVE row[j] # NoPage
          <6>1. CASE j <= from
            <7>1. j \in 1 .. from /\ j \in 1 .. BlockTableStride /\ j <= DivCeil(allocated[s])
              BY <1>2, <1>3, <6>1
            <7>. QED
              BY <1>1, <7>1 DEF RowsFilled
          <6>2. CASE ~(j <= from)
            <7>1. j \in from + 1 .. upto
              BY <1>3, <6>2
            <7>. QED
              BY <4>2, <7>1 DEF upto
          <6>. QED
            BY <6>1, <6>2
        <5>. QED
          BY <5>1
      <4>4. i <= upto \/ i > upto
        BY <1>3
      <4>5. CASE i <= upto
        <5>1. i \in 1 .. upto
          BY <1>3, <4>5
        <5>2. \A j \in 1 .. upto : row[i] = row[j] => i = j
          BY <5>1 DEF upto
        <5>. QED
          BY <4>1, <4>3, <4>5, <5>1, <5>2
      <4>6. CASE i > upto
        <5>1. row[i] = NoPage /\ ~(i <= upto)
          BY <1>3, <4>6 DEF upto
        <5>. QED
          BY <4>1, <4>3, <5>1
      <4>. QED
        BY <4>4, <4>5, <4>6
    <3>. QED
      BY <3>1, <3>2
  <2>. QED
    BY <2>1 DEF RowsFilled
<1>8. OpenPagePrivate'
  <2>1. ASSUME NEW t \in Slots, allocated'[t] % PageSize # 0
        PROVE  /\ table'[t][DivCeil(allocated'[t])] \notin published'
               /\ \A r \in Slots \ {t} : table'[t][DivCeil(allocated'[t])] \notin Range(table'[r])
    <3>1. CASE t = s
      BY <1>4, <2>1, <3>1
    <3>2. CASE t # s
      <4> DEFINE page == table[t][DivCeil(allocated[t])]
      <4>1. /\ table'[t][DivCeil(allocated'[t])] = page /\ allocated[t] % PageSize # 0
            /\ page \notin published /\ \A r \in Slots \ {t} : page \notin Range(table[r])
        BY <1>1, <1>4, <2>1, <3>2 DEF OpenPagePrivate
      <4>2. page \notin Range(row)
        <5>1. DivCeil(allocated[t]) \in 1 .. BlockTableStride
          <6>1. allocated[t] \in Nat /\ DivCeil(allocated[t]) \in 0 .. BlockTableStride
            BY <1>1, AllocatedPages
          <6>2. allocated[t] # 0
            BY <1>2, <4>1, Sizes
          <6>3. ~(DivCeil(allocated[t]) <= 0)
            <7>1. ~(allocated[t] <= 0 * PageSize)
              BY <1>2, <6>1, <6>2
            <7>. QED
              BY <6>1, <7>1, PagesFor
          <6>. QED
            BY <6>1, <6>3
        <5>2. page # NoPage
          BY <1>1, <5>1 DEF RowsFilled
        <5>3. ASSUME NEW i \in 1 .. BlockTableStride PROVE row[i] # page
          <6>1. CASE i \in 1 .. from
            <7>1. row[i] \in Range(table[s])
              BY <1>1, <6>1 DEF Range, RowTypes
            <7>. QED
              BY <3>2, <4>1, <7>1
          <6>2. CASE i \in from + 1 .. upto
            BY <3>2, <4>1, <6>2 DEF upto
          <6>3. CASE i > upto
            BY <5>2, <6>3 DEF upto
          <6>4. i \in 1 .. from \/ i \in from + 1 .. upto \/ i > upto
            BY <1>3
          <6>. QED
            BY <6>1, <6>2, <6>3, <6>4
        <5>. QED
          BY <5>3 DEF Range
      <4>3. \A r \in Slots \ {t} : page \notin Range(table'[r])
        BY <1>4, <4>1, <4>2
      <4>. QED
        BY <4>1, <4>3
    <3>. QED
      BY <3>1, <3>2
  <2>. QED
    BY <2>1 DEF OpenPagePrivate
<1>9. DeviceRowsMatch'
  <2>1. ASSUME NEW t \in Slots, NEW i \in 1 .. DivCeil(allocated'[t])
        PROVE  block_tables'[t * BlockTableStride + i] = table'[t][i]
    <3>1. CASE t = s
      <4>1. i \in 1 .. upto /\ i \in 1 .. BlockTableStride
        BY <1>2, <1>3, <1>4, <3>1 DEF upto
      <4>2. block_tables'[s * BlockTableStride + i]
              = IF i \in from + 1 .. upto THEN row[i] ELSE block_tables[s * BlockTableStride + i]
        BY <1>5, <4>1 DEF RowSent
      <4>3. CASE i \in from + 1 .. upto
        BY <1>4, <3>1, <4>2, <4>3
      <4>4. CASE ~(i \in from + 1 .. upto)
        <5>1. i \in 1 .. from
          BY <1>3, <4>1, <4>4
        <5>2. block_tables[s * BlockTableStride + i] = table[s][i]
          BY <1>1, <5>1 DEF DeviceRowsMatch
        <5>. QED
          BY <1>4, <3>1, <4>2, <4>4, <5>1, <5>2
      <4>. QED
        BY <4>3, <4>4
    <3>2. CASE t # s
      <4>1. i \in 1 .. DivCeil(allocated[t]) /\ i \in 1 .. BlockTableStride
        <5>1. DivCeil(allocated[t]) \in 0 .. BlockTableStride
          BY <1>1, AllocatedPages
        <5>2. i \in 1 .. DivCeil(allocated[t])
          BY <1>4, <3>2
        <5>. QED
          BY <1>2, <5>1, <5>2
      <4>2. block_tables'[t * BlockTableStride + i] = block_tables[t * BlockTableStride + i]
        BY <1>5, <3>2, <4>1 DEF RowSent
      <4>3. block_tables[t * BlockTableStride + i] = table[t][i]
        BY <1>1, <4>1 DEF DeviceRowsMatch
      <4>. QED
        BY <1>4, <3>2, <4>2, <4>3
    <3>. QED
      BY <3>1, <3>2
  <2>. QED
    BY <2>1 DEF DeviceRowsMatch
<1>. QED
  BY <1>6, <1>7, <1>8, <1>9 DEF RowsSound

\* An open page is a page of its row.
LEMMA OpenPageIs ==
  ASSUME RowTypes, RowsFilled, NEW t \in Slots, allocated[t] % PageSize # 0
  PROVE  /\ DivCeil(allocated[t]) \in 1 .. BlockTableStride
         /\ table[t][DivCeil(allocated[t])] \in Pages
         /\ table[t][DivCeil(allocated[t])] # NoPage
<1>1. allocated[t] \in Nat /\ DivCeil(allocated[t]) \in 0 .. BlockTableStride
  BY AllocatedPages
<1>2. PageSize \in Nat \ {0} /\ BlockTableStride \in Nat
  BY Sizes
<1>3. allocated[t] # 0
  BY <1>2
<1>4. ~(DivCeil(allocated[t]) <= 0)
  <2>1. ~(allocated[t] <= 0 * PageSize)
    BY <1>1, <1>2, <1>3
  <2>. QED
    BY <1>1, <2>1, PagesFor
<1>5. DivCeil(allocated[t]) \in 1 .. BlockTableStride
  BY <1>1, <1>2, <1>4
<1>6. ASSUME NEW i \in 1 .. BlockTableStride, i <= DivCeil(allocated[t])
      PROVE  table[t][i] \in Pages /\ table[t][i] # NoPage
  <2>1. table[t] \in [1 .. BlockTableStride -> Pages \cup {NoPage}]
    BY DEF RowTypes
  <2>2. table[t][i] # NoPage
    BY <1>6 DEF RowsFilled
  <2>3. table[t][i] \in Pages \cup {NoPage}
    BY <2>1
  <2>. QED
    BY <2>2, <2>3
<1>7. DivCeil(allocated[t]) <= DivCeil(allocated[t])
  BY <1>1
<1>. QED
  BY <1>5, <1>6, <1>7

\* Sharing cached pages.
LEMMA AttachPrefixSound ==
  ASSUME RowsSound, NEW s \in Slots, NEW pages \in SeqOf(published, BlockTableStride),
         IsInjective(pages), AttachPrefix(s, pages)
  PROVE  RowsSound'
<1> DEFINE have == allocated[s] \div PageSize
           m == Len(pages)
           row == [i \in 1 .. BlockTableStride |->
                     IF i \in have + 1 .. m THEN pages[i] ELSE table[s][i]]
<1>1. RowTypes /\ RowsFilled /\ OpenPagePrivate
  BY DEF RowsSound
<1>2. BlockTableStride \in Nat /\ PageSize \in Nat \ {0}
  BY Sizes
<1>3. /\ m \in 0 .. BlockTableStride /\ DOMAIN pages = 1 .. m
      /\ \A i \in 1 .. m : pages[i] \in published
  <2>1. PICK k \in 0 .. BlockTableStride : pages \in [1 .. k -> published]
    BY DEF SeqOf
  <2>2. Len(pages) = k
    BY <2>1
  <2>. QED
    BY <2>1, <2>2
<1>4. allocated[s] \in Nat /\ have \in Nat
  BY <1>1, <1>2, AllocatedPages, Quotient
<1>5. /\ allocated[s] = have * PageSize /\ have < m
      /\ SubSeq(pages, 1, have) = SubSeq(table[s], 1, have)
      /\ table' = [table EXCEPT ![s] = row]
      /\ allocated' = [allocated EXCEPT ![s] = m * PageSize]
      /\ block_tables' = UploadRange(block_tables, s, have, SubSeq(row, have + 1, m))
      /\ UNCHANGED published
  BY DEF AttachPrefix
<1>6. row \in [1 .. BlockTableStride -> Pages \cup {NoPage}]
  <2>1. table[s] \in [1 .. BlockTableStride -> Pages \cup {NoPage}] /\ published \subseteq Pages
    BY <1>1 DEF RowTypes
  <2>2. ASSUME NEW i \in have + 1 .. m PROVE pages[i] \in Pages
    <3>1. i \in 1 .. m
      BY <1>3, <1>4
    <3>2. pages[i] \in published
      BY <1>3, <3>1
    <3>. QED
      BY <2>1, <3>2
  <2>3. ASSUME NEW i \in 1 .. BlockTableStride
        PROVE  (IF i \in have + 1 .. m THEN pages[i] ELSE table[s][i]) \in Pages \cup {NoPage}
    BY <2>1, <2>2
  <2>. QED
    BY <2>3
<1>7. /\ \A i \in 1 .. BlockTableStride : row[i] = IF i \in have + 1 .. m THEN pages[i] ELSE table[s][i]
  OBVIOUS
<1> HIDE DEF have, m, row
<1>8. DivCeil(allocated[s]) = have /\ DivCeil(m * PageSize) = m /\ (m * PageSize) % PageSize = 0
      /\ m * PageSize \in Nat
  <2>1. m \in Nat
    BY <1>3
  <2>. QED
    BY <1>4, <1>5, <2>1, WholePages
<1>9. m * PageSize \in 0 .. BlockTableStride * PageSize
  <2>1. m * PageSize <= BlockTableStride * PageSize /\ BlockTableStride * PageSize \in Nat
    BY <1>2, <1>3, ScaleUp
  <2>. QED
    BY <1>8, <2>1
<1>10. \A i \in 1 .. have : pages[i] = table[s][i]
  <2>1. ASSUME NEW i \in 1 .. have PROVE pages[i] = table[s][i]
    <3>1. SubSeq(pages, 1, have)[i] = pages[i] /\ SubSeq(table[s], 1, have)[i] = table[s][i]
      BY <1>4
    <3>. QED
      BY <1>5, <3>1
  <2>. QED
    BY <2>1
<1>12. ASSUME NEW i \in 1 .. have PROVE i \in 1 .. BlockTableStride /\ row[i] = table[s][i]
  <2>1. i \in 1 .. BlockTableStride /\ i \notin have + 1 .. m
    BY <1>2, <1>3, <1>4, <1>5
  <2>. QED
    BY <1>7, <2>1
<1>11. ASSUME NEW i \in 1 .. m PROVE row[i] = pages[i]
  <2>1. i \in 1 .. BlockTableStride /\ (i \in 1 .. have \/ i \in have + 1 .. m)
    BY <1>2, <1>3, <1>4
  <2>2. CASE i \in 1 .. have
    BY <1>10, <1>12, <2>2
  <2>3. CASE i \in have + 1 .. m
    BY <1>7, <2>1, <2>3
  <2>. QED
    BY <2>1, <2>2, <2>3
<1>13. \A i \in have + 1 .. m : row[i] \in Pages /\ row[i] \in published
  <2>1. \A i \in have + 1 .. m : i \in 1 .. m
    BY <1>4
  <2>. QED
    BY <1>1, <1>3, <1>11, <2>1 DEF RowTypes
<1>14. \A i \in 1 .. BlockTableStride : i > m => row[i] = NoPage
  <2>1. ASSUME NEW i \in 1 .. BlockTableStride, i > m PROVE row[i] = NoPage
    <3>1. row[i] = table[s][i] /\ ~(i <= have)
      BY <1>3, <1>4, <1>5, <1>7, <2>1
    <3>. QED
      BY <1>1, <1>8, <3>1 DEF RowsFilled
  <2>. QED
    BY <2>1
<1>15. \A i, j \in 1 .. m : row[i] = row[j] => i = j
  BY <1>3, <1>11 DEF IsInjective
<1>16. \A t \in Slots \ {s}, i \in have + 1 .. m :
         allocated[t] % PageSize # 0 => row[i] # table[t][DivCeil(allocated[t])]
  BY <1>1, <1>13 DEF OpenPagePrivate
<1>17. have <= m
  BY <1>3, <1>4, <1>5
<1> DEFINE tokens == m * PageSize
<1>18. /\ DivCeil(tokens) = m /\ ~(tokens % PageSize # 0) /\ tokens \in 0 .. BlockTableStride * PageSize
       /\ allocated' = [allocated EXCEPT ![s] = tokens]
  BY <1>5, <1>8, <1>9
<1> HIDE DEF tokens
<1>19. block_tables' = UploadRange(block_tables, s, have, SubSeq(row, have + 1, DivCeil(tokens)))
  BY <1>5, <1>18
<1>20. /\ \A i \in 1 .. have : row[i] = table[s][i]
       /\ \A i \in have + 1 .. DivCeil(tokens) : row[i] \in Pages
       /\ \A i \in 1 .. BlockTableStride : i > DivCeil(tokens) => row[i] = NoPage
       /\ \A i, j \in 1 .. DivCeil(tokens) : row[i] = row[j] => i = j
       /\ \A t \in Slots \ {s}, i \in have + 1 .. DivCeil(tokens) :
            allocated[t] % PageSize # 0 => row[i] # table[t][DivCeil(allocated[t])]
       /\ have <= DivCeil(tokens)
  BY <1>12, <1>13, <1>14, <1>15, <1>16, <1>17, <1>18
<1>21. table' = [table EXCEPT ![s] = row] /\ UNCHANGED published /\ have = DivCeil(allocated[s])
  BY <1>5, <1>8
<1>. QED
  BY <1>4, <1>6, <1>18, <1>19, <1>20, <1>21, RowReplaced

\* A primed context takes free pages.
LEMMA PrimeContextSound ==
  ASSUME RowsSound, NEW s \in Slots, NEW tokens \in 1 .. BlockTableStride * PageSize,
         NEW fresh \in Taken(1 .. DivCeil(tokens)), PrimeContext(s, tokens, fresh)
  PROVE  RowsSound'
<1> DEFINE upto == DivCeil(tokens)
           row == [i \in 1 .. BlockTableStride |-> IF i <= upto THEN fresh[i] ELSE table[s][i]]
<1>1. RowTypes /\ RowsFilled /\ OpenPagePrivate
  BY DEF RowsSound
<1>2. BlockTableStride \in Nat /\ PageSize \in Nat \ {0} /\ BlockTableStride * PageSize \in Nat
  BY Sizes
<1>3. upto \in Nat /\ upto <= BlockTableStride
  BY <1>2, PagesFor
<1>4. /\ \A i \in 1 .. upto : fresh[i] \in Pages /\ fresh[i] \notin published
                            /\ \A t \in Slots : fresh[i] \notin Range(table[t])
      /\ \A i, j \in 1 .. upto : fresh[i] = fresh[j] => i = j
  BY DEF Taken, Free, Held
<1>5. /\ allocated[s] = 0
      /\ table' = [table EXCEPT ![s] = row]
      /\ allocated' = [allocated EXCEPT ![s] = tokens]
      /\ block_tables' = UploadRange(block_tables, s, 0, SubSeq(row, 0 + 1, upto))
      /\ UNCHANGED published
  BY DEF PrimeContext
<1>6. \A i \in 1 .. BlockTableStride : row[i] = IF i <= upto THEN fresh[i] ELSE table[s][i]
  OBVIOUS
<1>7. row \in [1 .. BlockTableStride -> Pages \cup {NoPage}]
  <2>1. table[s] \in [1 .. BlockTableStride -> Pages \cup {NoPage}]
    BY <1>1 DEF RowTypes
  <2>2. ASSUME NEW i \in 1 .. BlockTableStride, i <= upto PROVE fresh[i] \in Pages
    <3>1. i \in 1 .. upto
      BY <1>3, <2>2
    <3>. QED
      BY <1>4, <3>1
  <2>3. ASSUME NEW i \in 1 .. BlockTableStride
        PROVE  (IF i <= upto THEN fresh[i] ELSE table[s][i]) \in Pages \cup {NoPage}
    BY <2>1, <2>2
  <2>. QED
    BY <2>3
<1> HIDE DEF upto, row
<1>8. DivCeil(allocated[s]) = 0 /\ 0 \in Nat /\ 0 <= upto /\ tokens \in 0 .. BlockTableStride * PageSize
  BY <1>2, <1>3, <1>5, WholePages
<1>9. \A i \in 1 .. upto : i \in 1 .. BlockTableStride /\ row[i] = fresh[i]
  BY <1>2, <1>3, <1>6
<1>10. \A i \in 0 + 1 .. upto : row[i] \in Pages
  BY <1>4, <1>9
<1>11. \A i \in 1 .. BlockTableStride : i > upto => row[i] = NoPage
  <2>1. ASSUME NEW i \in 1 .. BlockTableStride, i > upto PROVE row[i] = NoPage
    <3>1. row[i] = table[s][i] /\ ~(i <= 0)
      BY <1>3, <1>6, <2>1
    <3>. QED
      BY <1>1, <1>8, <3>1 DEF RowsFilled
  <2>. QED
    BY <2>1
<1>12. \A i, j \in 1 .. upto : row[i] = row[j] => i = j
  BY <1>4, <1>9
<1>13. \A t \in Slots \ {s}, i \in 0 + 1 .. upto :
         allocated[t] % PageSize # 0 => row[i] # table[t][DivCeil(allocated[t])]
  <2>1. ASSUME NEW t \in Slots \ {s}, NEW i \in 0 + 1 .. upto, allocated[t] % PageSize # 0
        PROVE  row[i] # table[t][DivCeil(allocated[t])]
    <3>1. DivCeil(allocated[t]) \in 1 .. BlockTableStride
      BY <1>1, <2>1, OpenPageIs
    <3>2. table[t][DivCeil(allocated[t])] \in Range(table[t])
      BY <1>1, <3>1 DEF RowTypes, Range
    <3>3. row[i] = fresh[i] /\ i \in 1 .. upto
      BY <1>9
    <3>. QED
      BY <1>4, <3>2, <3>3
  <2>. QED
    BY <2>1
<1>14. /\ row[upto] \notin published
       /\ \A t \in Slots \ {s} : row[upto] \notin Range(table[t])
  <2>1. upto \in 1 .. upto
    <3>1. ~(tokens <= 0 * PageSize) /\ tokens \in Nat
      BY <1>2
    <3>2. ~(upto <= 0)
      BY <3>1, PagesFor DEF upto
    <3>. QED
      BY <1>3, <3>2
  <2>. QED
    BY <1>4, <1>9, <2>1
<1>15. \A i \in 1 .. 0 : row[i] = table[s][i]
  OBVIOUS
<1>. QED
  BY <1>5, <1>7, <1>8, <1>10, <1>11, <1>12, <1>13, <1>14, <1>15, RowReplaced DEF upto

\* Publishing full pages makes no open page public.
LEMMA PublishSound ==
  ASSUME RowsSound, NEW s \in Slots, Publish(s)
  PROVE  RowsSound'
<1>1. RowTypes /\ RowsFilled /\ OpenPagePrivate /\ DeviceRowsMatch
  BY DEF RowsSound
<1>2. /\ allocated[s] % PageSize = 0 /\ published' = published \cup (Range(table[s]) \ {NoPage})
      /\ table' = table /\ allocated' = allocated /\ block_tables' = block_tables
  BY DEF Publish
<1>3. RowTypes'
  <2>1. Range(table[s]) \subseteq Pages \cup {NoPage}
    BY <1>1 DEF RowTypes, Range
  <2>. QED
    BY <1>1, <1>2, <2>1 DEF RowTypes
<1>4. RowsFilled' /\ DeviceRowsMatch'
  BY <1>1, <1>2 DEF RowsFilled, DeviceRowsMatch
<1>5. OpenPagePrivate'
  BY <1>1, <1>2 DEF OpenPagePrivate
<1>. QED
  BY <1>3, <1>4, <1>5 DEF RowsSound

\* A released row is empty.
LEMMA ReleaseSound ==
  ASSUME RowsSound, NEW s \in Slots, Release(s)
  PROVE  RowsSound'
<1> DEFINE row == [i \in 1 .. BlockTableStride |-> NoPage]
<1>1. RowTypes /\ RowsFilled /\ OpenPagePrivate /\ DeviceRowsMatch
  BY DEF RowsSound
<1>2. /\ table' = [table EXCEPT ![s] = row] /\ allocated' = [allocated EXCEPT ![s] = 0]
      /\ published' = published /\ block_tables' = block_tables
  BY DEF Release
<1>3. DivCeil(0) = 0 /\ 0 \in 0 .. BlockTableStride * PageSize /\ 0 % PageSize = 0
  <2>1. BlockTableStride * PageSize \in Nat /\ PageSize \in Nat \ {0}
    BY Sizes
  <2>. QED
    BY <2>1, WholePages
<1>4. /\ table'[s] = row /\ allocated'[s] = 0
      /\ \A t \in Slots \ {s} : table'[t] = table[t] /\ allocated'[t] = allocated[t]
  BY <1>1, <1>2 DEF RowTypes
<1>5. \A i \in 1 .. BlockTableStride : row[i] = NoPage
  OBVIOUS
<1>6. RowTypes'
  BY <1>1, <1>2, <1>3 DEF RowTypes
<1> HIDE DEF row
<1>7. RowsFilled'
  <2>1. ASSUME NEW t \in Slots, NEW i \in 1 .. BlockTableStride
        PROVE  /\ table'[t][i] # NoPage <=> i <= DivCeil(allocated'[t])
               /\ \A j \in 1 .. DivCeil(allocated'[t]) : table'[t][i] = table'[t][j] => i = j
    <3>1. CASE t = s
      BY <1>3, <1>4, <1>5, <3>1
    <3>2. CASE t # s
      BY <1>1, <1>4, <3>2 DEF RowsFilled
    <3>. QED
      BY <3>1, <3>2
  <2>. QED
    BY <2>1 DEF RowsFilled
<1>8. DeviceRowsMatch'
  <2>1. ASSUME NEW t \in Slots, NEW i \in 1 .. DivCeil(allocated'[t])
        PROVE  block_tables'[t * BlockTableStride + i] = table'[t][i]
    <3>1. t # s
      BY <1>3, <1>4
    <3>. QED
      BY <1>1, <1>2, <1>4, <3>1 DEF DeviceRowsMatch
  <2>. QED
    BY <2>1 DEF DeviceRowsMatch
<1>9. OpenPagePrivate'
  <2>1. ASSUME NEW t \in Slots, allocated'[t] % PageSize # 0
        PROVE  /\ table'[t][DivCeil(allocated'[t])] \notin published'
               /\ \A r \in Slots \ {t} : table'[t][DivCeil(allocated'[t])] \notin Range(table'[r])
    <3>1. t # s
      BY <1>3, <1>4, <2>1
    <3> DEFINE page == table[t][DivCeil(allocated[t])]
    <3>2. /\ table'[t][DivCeil(allocated'[t])] = page /\ allocated[t] % PageSize # 0
          /\ page \notin published /\ \A r \in Slots \ {t} : page \notin Range(table[r])
      BY <1>1, <1>4, <2>1, <3>1 DEF OpenPagePrivate
    <3>3. page # NoPage
      BY <1>1, <3>2, OpenPageIs
    <3>4. page \notin Range(row)
      BY <1>5, <3>3 DEF Range, row
    <3>. QED
      BY <1>2, <1>4, <3>2, <3>4
  <2>. QED
    BY <2>1 DEF OpenPagePrivate
<1>. QED
  BY <1>6, <1>7, <1>8, <1>9 DEF RowsSound

--------------------------------------------------------------------------------
(* The rows of a step *)

\* A step: a few segments of different slots.
LEMMA StepShape ==
  ASSUME NEW segments \in Steps
  PROVE  /\ Len(segments) \in 1 .. RequestSlots /\ DOMAIN segments = 1 .. Len(segments)
         /\ \A k \in 1 .. Len(segments) : segments[k].slot \in Slots /\ segments[k].tokens \in 1 .. MaximumTokens
         /\ \A i, j \in 1 .. Len(segments) : segments[i].slot = segments[j].slot => i = j
         /\ \A k \in 1 .. Len(segments) :
              DivCeil(allocated[segments[k].slot] + segments[k].tokens) <= BlockTableStride
         /\ TokensOfStep(segments) <= MaximumTokens
         /\ segments \in Seq([slot : Slots, tokens : 1 .. MaximumTokens])
         /\ segments # << >>
<1> DEFINE R == [slot : Slots, tokens : 1 .. MaximumTokens]
<1>1. segments \in SeqOf(R, RequestSlots) /\ Fits(segments)
  BY DEF Steps
<1> HIDE DEF R
<1>2. PICK n \in 0 .. RequestSlots : segments \in [1 .. n -> R]
  BY <1>1 DEF SeqOf
<1>3. segments \in Seq(R) /\ Len(segments) = n /\ DOMAIN segments = 1 .. n
  BY <1>2
<1>4. segments # << >>
  BY <1>1 DEF Fits
<1>5. n # 0
  <2>1. ASSUME n = 0 PROVE FALSE
    <3>1. Len(segments) = 0
      BY <1>3, <2>1
    <3>. QED
      BY <1>3, <1>4, <3>1, EmptySeq
  <2>. QED
    BY <2>1
<1>6. ASSUME NEW k \in 1 .. n PROVE segments[k].slot \in Slots /\ segments[k].tokens \in 1 .. MaximumTokens
  <2>1. segments[k] \in R
    BY <1>2
  <2>. QED
    BY <2>1 DEF R
<1>7. /\ TokensOfStep(segments) <= MaximumTokens
      /\ \A i, j \in 1 .. n : segments[i].slot = segments[j].slot => i = j
      /\ \A i \in 1 .. n : DivCeil(allocated[segments[i].slot] + segments[i].tokens) <= BlockTableStride
  BY <1>1, <1>3 DEF Fits
<1>8. n \in 1 .. RequestSlots
  BY <1>5
<1>. QED
  BY <1>3, <1>4, <1>6, <1>7, <1>8 DEF R

\* The tokens that a step brings to a slot.
LEMMA TokensBrought ==
  ASSUME NEW segments \in Steps
  PROVE  /\ \A k \in 1 .. Len(segments) : NewTokens(segments, segments[k].slot) = segments[k].tokens
         /\ \A s : (\A k \in 1 .. Len(segments) : segments[k].slot # s) => NewTokens(segments, s) = 0
         /\ \A s : NewTokens(segments, s) \in Nat
<1>1. /\ DOMAIN segments = 1 .. Len(segments)
      /\ \A i, j \in 1 .. Len(segments) : segments[i].slot = segments[j].slot => i = j
      /\ \A k \in 1 .. Len(segments) : segments[k].tokens \in Nat
  BY StepShape
<1>2. ASSUME NEW k \in 1 .. Len(segments)
      PROVE  NewTokens(segments, segments[k].slot) = segments[k].tokens
  <2> DEFINE c == CHOOSE j \in 1 .. Len(segments) : segments[j].slot = segments[k].slot
  <2>1. c \in 1 .. Len(segments) /\ segments[c].slot = segments[k].slot
    OBVIOUS
  <2>2. c = k
    BY <1>1, <2>1
  <2>. QED
    BY <1>1, <2>2 DEF NewTokens
<1>3. ASSUME NEW s, \A k \in 1 .. Len(segments) : segments[k].slot # s
      PROVE  NewTokens(segments, s) = 0
  BY <1>1, <1>3 DEF NewTokens
<1>4. \A s : NewTokens(segments, s) \in Nat
  <2>1. ASSUME NEW s, NEW k \in 1 .. Len(segments), segments[k].slot = s PROVE NewTokens(segments, s) \in Nat
    BY <1>1, <1>2, <2>1
  <2>. QED
    BY <1>3, <2>1
<1>. QED
  BY <1>2, <1>3, <1>4

\* Pages of a row before and after a step.
Had(s) == DivCeil(allocated[s])
Has(segments, s) == DivCeil(allocated[s] + NewTokens(segments, s))
Gains(segments, s, i) == i \in Had(s) + 1 .. Has(segments, s)

\* Rows grow at their end, and they have room.
LEMMA RowsGrow ==
  ASSUME RowTypes, NEW segments \in Steps, NEW s \in Slots
  PROVE  /\ allocated[s] \in Nat /\ NewTokens(segments, s) \in Nat
         /\ Had(s) \in Nat /\ Has(segments, s) \in Nat
         /\ Had(s) <= Has(segments, s) /\ Has(segments, s) <= BlockTableStride
         /\ allocated[s] + NewTokens(segments, s) \in 0 .. BlockTableStride * PageSize
<1>1. allocated[s] \in Nat /\ DivCeil(allocated[s]) \in 0 .. BlockTableStride
  BY AllocatedPages
<1>2. NewTokens(segments, s) \in Nat
  BY TokensBrought
<1> DEFINE a == allocated[s]
           n == NewTokens(segments, s)
<1> HIDE DEF a, n
<1>3. a \in Nat /\ n \in Nat /\ a + n \in Nat
  BY <1>1, <1>2 DEF a, n
<1>4. BlockTableStride \in Nat /\ PageSize \in Nat /\ BlockTableStride * PageSize \in Nat
  BY Sizes
<1>5. DivCeil(a + n) \in Nat /\ \A k \in Nat : DivCeil(a + n) <= k <=> a + n <= k * PageSize
  BY <1>3, PagesFor
<1>6. DivCeil(a) \in Nat /\ \A k \in Nat : DivCeil(a) <= k <=> a <= k * PageSize
  BY <1>3, PagesFor
<1>7. DivCeil(a) <= DivCeil(a + n)
  <2> DEFINE k == DivCeil(a + n)
  <2>1. k \in Nat /\ k * PageSize \in Nat /\ a + n <= k * PageSize
    BY <1>4, <1>5
  <2> HIDE DEF k
  <2>2. a <= k * PageSize
    BY <1>3, <2>1
  <2>. QED
    BY <1>6, <2>1, <2>2 DEF k
<1>8. DivCeil(a + n) <= BlockTableStride
  <2>1. CASE \E k \in 1 .. Len(segments) : segments[k].slot = s
    <3>1. PICK k \in 1 .. Len(segments) : segments[k].slot = s
      BY <2>1
    <3>2. n = segments[k].tokens
      BY <3>1, TokensBrought DEF n
    <3>. QED
      BY <3>1, <3>2, StepShape DEF a
  <2>2. CASE ~(\E k \in 1 .. Len(segments) : segments[k].slot = s)
    <3>1. n = 0
      BY <2>2, TokensBrought DEF n
    <3>2. a + n = a
      BY <1>3, <3>1
    <3>. QED
      BY <1>1, <3>2 DEF a
  <2>. QED
    BY <2>1, <2>2
<1>9. a + n <= BlockTableStride * PageSize
  BY <1>4, <1>5, <1>8
<1>. QED
  BY <1>3, <1>4, <1>5, <1>6, <1>7, <1>8, <1>9 DEF Had, Has, a, n

\* The places that a step fills are the new ends of the rows.
LEMMA PlacesFilled ==
  ASSUME RowTypes, NEW segments \in Steps, NEW s \in Slots, NEW i \in 1 .. BlockTableStride
  PROVE  <<s, i>> \in NewPages(segments) <=> Gains(segments, s, i)
<1> USE DEF Gains
<1>1. DOMAIN segments = 1 .. Len(segments)
  BY StepShape
<1>2. <<s, i>> \in NewPages(segments) <=>
        \E k \in 1 .. Len(segments) :
          segments[k].slot = s /\ i \in Had(s) + 1 .. DivCeil(allocated[s] + segments[k].tokens)
  BY <1>1 DEF NewPages, Had
<1>3. Had(s) \in Nat /\ Has(segments, s) \in Nat /\ allocated[s] \in Nat
  BY RowsGrow
<1>4. ASSUME NEW k \in 1 .. Len(segments), segments[k].slot = s
      PROVE  DivCeil(allocated[s] + segments[k].tokens) = Has(segments, s)
  BY <1>4, TokensBrought DEF Has
<1>5. ASSUME ~\E k \in 1 .. Len(segments) : segments[k].slot = s
      PROVE  Has(segments, s) = Had(s)
  <2>1. NewTokens(segments, s) = 0
    BY <1>5, TokensBrought
  <2>2. allocated[s] + NewTokens(segments, s) = allocated[s]
    BY <1>3, <2>1
  <2>. QED
    BY <2>2 DEF Has, Had
<1>6. CASE \E k \in 1 .. Len(segments) : segments[k].slot = s
  BY <1>2, <1>4, <1>6
<1>7. CASE ~\E k \in 1 .. Len(segments) : segments[k].slot = s
  BY <1>2, <1>3, <1>5, <1>7
<1>. QED
  BY <1>6, <1>7

\* Pages that are free before a step: different ones, and in nobody's hands.
LEMMA PagesTaken ==
  ASSUME NEW needed, NEW fresh \in Taken(needed)
  PROVE  /\ DOMAIN fresh = needed
         /\ \A x \in needed : /\ fresh[x] \in Pages /\ fresh[x] \notin published
                              /\ \A t \in Slots : fresh[x] \notin Range(table[t])
         /\ \A x, y \in needed : fresh[x] = fresh[y] => x = y
BY DEF Taken, Free, Held

\* A row after a step: the old row, and free pages at the end.
LEMMA RowAfter ==
  ASSUME RowTypes, NEW segments \in Steps, NEW fresh \in Taken(NewPages(segments)),
         NEW s \in Slots, NEW i \in 1 .. BlockTableStride
  PROVE  /\ Gains(segments, s, i) =>
              /\ RowsAfter(fresh)[s][i] = fresh[<<s, i>>] /\ <<s, i>> \in NewPages(segments)
              /\ RowsAfter(fresh)[s][i] \in Pages /\ RowsAfter(fresh)[s][i] \notin published
              /\ \A t \in Slots : RowsAfter(fresh)[s][i] \notin Range(table[t])
         /\ ~Gains(segments, s, i) => RowsAfter(fresh)[s][i] = table[s][i]
         /\ RowsAfter(fresh)[s][i] \in Pages \cup {NoPage}
<1>1. <<s, i>> \in NewPages(segments) <=> Gains(segments, s, i)
  BY PlacesFilled
<1>2. RowsAfter(fresh)[s][i] = IF <<s, i>> \in NewPages(segments) THEN fresh[<<s, i>>] ELSE table[s][i]
  BY PagesTaken DEF RowsAfter
<1>3. table[s][i] \in Pages \cup {NoPage}
  BY DEF RowTypes
<1>4. CASE <<s, i>> \in NewPages(segments)
  BY <1>1, <1>2, <1>4, PagesTaken
<1>5. CASE <<s, i>> \notin NewPages(segments)
  BY <1>1, <1>2, <1>3, <1>5
<1>. QED
  BY <1>4, <1>5

\* A place that the step does not fill keeps its page.
LEMMA PlaceKept ==
  ASSUME RowTypes, NEW segments \in Steps, NEW fresh \in Taken(NewPages(segments)),
         NEW s \in Slots, NEW i \in 1 .. BlockTableStride, ~Gains(segments, s, i)
  PROVE  RowsAfter(fresh)[s][i] = table[s][i] /\ table[s][i] \in Range(table[s])
<1>1. RowsAfter(fresh)[s][i] = table[s][i]
  <2>1. ~(<<s, i>> \in NewPages(segments))
    BY PlacesFilled
  <2>2. DOMAIN fresh = NewPages(segments)
    BY PagesTaken
  <2>. QED
    BY <2>1, <2>2 DEF RowsAfter
<1>2. table[s] \in [1 .. BlockTableStride -> Pages \cup {NoPage}]
  BY DEF RowTypes
<1>. QED
  BY <1>1, <1>2 DEF Range

\* A place that it fills gets a page that was free.
LEMMA PlaceTaken ==
  ASSUME RowTypes, NEW segments \in Steps, NEW fresh \in Taken(NewPages(segments)),
         NEW s \in Slots, NEW i \in 1 .. BlockTableStride, Gains(segments, s, i)
  PROVE  /\ RowsAfter(fresh)[s][i] \in Pages /\ RowsAfter(fresh)[s][i] \notin published
         /\ \A t \in Slots : RowsAfter(fresh)[s][i] \notin Range(table[t])
BY RowAfter

\* New pages of different places differ.
LEMMA NewPagesDiffer ==
  ASSUME RowTypes, NEW segments \in Steps, NEW fresh \in Taken(NewPages(segments)),
         NEW s \in Slots, NEW i \in 1 .. BlockTableStride, Gains(segments, s, i),
         NEW t \in Slots, NEW j \in 1 .. BlockTableStride,
         RowsAfter(fresh)[s][i] = RowsAfter(fresh)[t][j]
  PROVE  s = t /\ i = j
<1>1. /\ RowsAfter(fresh)[s][i] = fresh[<<s, i>>] /\ <<s, i>> \in NewPages(segments)
      /\ RowsAfter(fresh)[s][i] \notin Range(table[t])
  BY RowAfter
<1>2. CASE Gains(segments, t, j)
  <2>1. RowsAfter(fresh)[t][j] = fresh[<<t, j>>] /\ <<t, j>> \in NewPages(segments)
    BY <1>2, RowAfter
  <2>2. \A x, y \in NewPages(segments) : fresh[x] = fresh[y] => x = y
    BY PagesTaken
  <2>3. <<s, i>> = <<t, j>>
    BY <1>1, <2>1, <2>2
  <2>. QED
    BY <2>3
<1>3. CASE ~Gains(segments, t, j)
  <2>1. RowsAfter(fresh)[t][j] = table[t][j] /\ table[t][j] \in Range(table[t])
    BY <1>3, PlaceKept
  <2>. QED
    BY <1>1, <2>1
<1>. QED
  BY <1>2, <1>3

\* The pages that a step writes to are the row's own.
LEMMA WrittenPagePrivate ==
  ASSUME RowsSound, NEW segments \in Steps, NEW fresh \in Taken(NewPages(segments)),
         NEW s \in Slots, NEW i \in 1 .. Has(segments, s),
         i > Had(s) \/ (i = Had(s) /\ allocated[s] % PageSize # 0)
  PROVE  /\ RowsAfter(fresh)[s][i] \notin published
         /\ \A r \in Slots \ {s} : RowsAfter(fresh)[s][i] \notin Range(RowsAfter(fresh)[r])
<1>1. RowTypes /\ RowsFilled /\ OpenPagePrivate
  BY DEF RowsSound
<1>2. /\ Had(s) \in Nat /\ Has(segments, s) \in Nat /\ Has(segments, s) <= BlockTableStride
      /\ BlockTableStride \in Nat
  BY <1>1, RowsGrow, Sizes
<1>3. i \in 1 .. BlockTableStride
  BY <1>2
<1>4. \A r \in Slots : DOMAIN RowsAfter(fresh)[r] = 1 .. BlockTableStride
  BY DEF RowsAfter
<1>5. CASE i > Had(s)
  <2>1. Gains(segments, s, i)
    BY <1>2, <1>5 DEF Gains
  <2>2. RowsAfter(fresh)[s][i] \notin published
    BY <1>1, <1>3, <2>1, RowAfter
  <2>3. ASSUME NEW r \in Slots \ {s}, NEW j \in 1 .. BlockTableStride,
               RowsAfter(fresh)[s][i] = RowsAfter(fresh)[r][j]
        PROVE  FALSE
    BY <1>1, <1>3, <2>1, <2>3, NewPagesDiffer
  <2>. QED
    BY <1>4, <2>2, <2>3 DEF Range
<1>6. CASE i = Had(s) /\ allocated[s] % PageSize # 0
  <2>1. ~Gains(segments, s, i)
    BY <1>2, <1>6 DEF Gains
  <2>2. RowsAfter(fresh)[s][i] = table[s][i]
    BY <1>1, <1>3, <2>1, PlaceKept
  <2>3. table[s][i] \notin published /\ \A r \in Slots \ {s} : table[s][i] \notin Range(table[r])
    BY <1>1, <1>6 DEF OpenPagePrivate, Had
  <2>4. table[s][i] \in Range(table[s])
    BY <1>1, <1>3 DEF RowTypes, Range
  <2>5. ASSUME NEW r \in Slots \ {s}, NEW j \in 1 .. BlockTableStride,
               RowsAfter(fresh)[r][j] = table[s][i]
        PROVE  FALSE
    <3>1. CASE Gains(segments, r, j)
      BY <1>1, <2>4, <2>5, <3>1, PlaceTaken
    <3>2. CASE ~Gains(segments, r, j)
      <4>1. RowsAfter(fresh)[r][j] = table[r][j] /\ table[r][j] \in Range(table[r])
        BY <1>1, <3>2, PlaceKept
      <4>. QED
        BY <2>3, <2>5, <4>1
    <3>. QED
      BY <3>1, <3>2
  <2>. QED
    BY <1>4, <2>2, <2>3, <2>5 DEF Range
<1>. QED
  BY <1>5, <1>6

\* A row that gets no page and is not full behind its last token was not full before.
LEMMA StaysOpen ==
  ASSUME NEW a \in Nat, NEW n \in Nat, DivCeil(a + n) = DivCeil(a), (a + n) % PageSize # 0
  PROVE  a % PageSize # 0
<1>1. PageSize \in Nat \ {0} /\ a + n \in Nat
  BY Sizes
<1>2. ASSUME a % PageSize = 0 PROVE FALSE
  <2> DEFINE m == a \div PageSize
  <2>1. m \in Nat /\ a = m * PageSize + (a % PageSize)
    BY <1>1, Quotient
  <2> HIDE DEF m
  <2>2. a = m * PageSize
    BY <1>1, <1>2, <2>1
  <2>3. DivCeil(a) = m
    BY <2>1, <2>2, WholePages
  <2>4. a + n <= m * PageSize
    <3>1. DivCeil(a + n) <= m
      BY <2>1, <2>3
    <3>. QED
      BY <1>1, <2>1, <3>1, PagesFor
  <2>5. n = 0
    BY <2>2, <2>4
  <2>6. a + n = a
    BY <2>5
  <2>. QED
    BY <1>2, <2>6
<1>. QED
  BY <1>2

\* What a step does to the rows.
LEMMA PrepareTokensSound ==
  ASSUME RowsSound, NEW segments \in Steps, NEW fresh \in Taken(NewPages(segments)),
         table' = RowsAfter(fresh), UNCHANGED published,
         allocated' = [s \in Slots |-> allocated[s] + NewTokens(segments, s)],
         block_tables' = TablesAfter(segments, RowsAfter(fresh))
  PROVE  RowsSound'
<1> DEFINE rows == RowsAfter(fresh)
<1>1. RowTypes /\ RowsFilled /\ OpenPagePrivate /\ DeviceRowsMatch
  BY DEF RowsSound
<1>2. ASSUME NEW s \in Slots
      PROVE  /\ Had(s) \in Nat /\ Has(segments, s) \in Nat /\ Had(s) <= Has(segments, s)
             /\ Has(segments, s) <= BlockTableStride
             /\ allocated'[s] = allocated[s] + NewTokens(segments, s)
             /\ allocated'[s] \in 0 .. BlockTableStride * PageSize
             /\ DivCeil(allocated'[s]) = Has(segments, s)
  BY <1>1, RowsGrow DEF Has
<1>3. BlockTableStride \in Nat /\ DOMAIN block_tables = 1 .. RequestSlots * BlockTableStride
  BY <1>1, Sizes DEF RowTypes
<1>4. RowTypes'
  <2>1. table' \in [Slots -> [1 .. BlockTableStride -> Pages \cup {NoPage}]]
    <3>1. \A s \in Slots, i \in 1 .. BlockTableStride : rows[s][i] \in Pages \cup {NoPage}
      BY <1>1, RowAfter
    <3>. QED
      BY <3>1 DEF RowsAfter
  <2>2. allocated' \in [Slots -> 0 .. BlockTableStride * PageSize]
    BY <1>2
  <2>3. block_tables' \in [1 .. RequestSlots * BlockTableStride -> Pages]
    <3>1. ASSUME NEW s, NEW i, <<s, i>> \in NewPages(segments) PROVE rows[s][i] \in Pages
      <4>1. s \in Slots /\ i \in 1 .. BlockTableStride
        BY <3>1 DEF NewPages
      <4>2. Gains(segments, s, i)
        BY <1>1, <3>1, <4>1, PlacesFilled
      <4>. QED
        BY <1>1, <4>1, <4>2, PlaceTaken
    <3>2. block_tables \in [1 .. RequestSlots * BlockTableStride -> Pages]
      BY <1>1 DEF RowTypes
    <3>3. ASSUME NEW i \in DOMAIN block_tables PROVE TablesAfter(segments, rows)[i] \in Pages
      <4> DEFINE s == (i - 1) \div BlockTableStride
                 at == ((i - 1) % BlockTableStride) + 1
      <4>1. TablesAfter(segments, rows)[i]
              = IF <<s, at>> \in NewPages(segments) THEN rows[s][at] ELSE block_tables[i]
        BY DEF TablesAfter
      <4> HIDE DEF s, at, rows
      <4>. QED
        BY <1>3, <3>1, <3>2, <4>1
    <3>4. DOMAIN TablesAfter(segments, rows) = DOMAIN block_tables
      BY DEF TablesAfter
    <3>5. TablesAfter(segments, rows) = [i \in DOMAIN block_tables |-> TablesAfter(segments, rows)[i]]
      BY DEF TablesAfter
    <3> HIDE DEF rows
    <3>. QED
      BY <1>3, <3>3, <3>5 DEF rows
  <2>. QED
    BY <1>1, <2>1, <2>2, <2>3 DEF RowTypes
<1>5. ASSUME NEW s \in Slots, NEW i \in 1 .. BlockTableStride
      PROVE  block_tables'[s * BlockTableStride + i]
               = IF Gains(segments, s, i) THEN rows[s][i] ELSE block_tables[s * BlockTableStride + i]
  <2> DEFINE n == s * BlockTableStride + i
  <2>1. /\ n \in DOMAIN block_tables
        /\ (n - 1) \div BlockTableStride = s /\ ((n - 1) % BlockTableStride) + 1 = i
    <3>1. s * BlockTableStride + i \in 1 .. RequestSlots * BlockTableStride
      BY Address
    <3>2. (s * BlockTableStride + i - 1) \div BlockTableStride = s
      BY Address
    <3>3. ((s * BlockTableStride + i - 1) % BlockTableStride) + 1 = i
      BY Address
    <3>4. DOMAIN block_tables = 1 .. RequestSlots * BlockTableStride
      BY <1>3
    <3>5. n - 1 = s * BlockTableStride + i - 1
      <4> DEFINE b == s * BlockTableStride
      <4>1. b \in Int /\ i \in Int
        BY <1>3 DEF Slots
      <4> HIDE DEF b
      <4>2. (b + i) - 1 = b + i - 1
        BY <4>1
      <4>. QED
        BY <4>2 DEF b
    <3>6. n \in DOMAIN block_tables
      BY <3>1, <3>4
    <3> HIDE DEF n
    <3>. QED
      BY <3>2, <3>3, <3>5, <3>6
  <2> HIDE DEF n, rows
  <2>2. block_tables'[n] = IF <<s, i>> \in NewPages(segments) THEN rows[s][i] ELSE block_tables[n]
    BY <2>1 DEF TablesAfter, rows
  <2>. QED
    BY <1>1, <2>2, PlacesFilled DEF n
<1>6. ASSUME NEW s \in Slots, NEW i \in 1 .. BlockTableStride
      PROVE  /\ Gains(segments, s, i) => rows[s][i] \in Pages
             /\ ~Gains(segments, s, i) => rows[s][i] = table[s][i]
             /\ rows[s][i] # NoPage <=> i <= Has(segments, s)
  <2>1. Gains(segments, s, i) <=> i > Had(s) /\ i <= Has(segments, s)
    BY <1>2 DEF Gains
  <2>2. Gains(segments, s, i) => rows[s][i] \in Pages /\ rows[s][i] # NoPage
    <3>1. NoPage \notin Pages
      BY DEF NoPage, Pages
    <3>. QED
      BY <1>1, <3>1, PlaceTaken
  <2>3. ~Gains(segments, s, i) => rows[s][i] = table[s][i]
    BY <1>1, PlaceKept
  <2>4. table[s][i] # NoPage <=> i <= Had(s)
    BY <1>1 DEF RowsFilled, Had
  <2> HIDE DEF rows
  <2>5. CASE Gains(segments, s, i)
    BY <2>1, <2>2, <2>5
  <2>6. CASE ~Gains(segments, s, i)
    <3>1. i <= Has(segments, s) <=> i <= Had(s)
      BY <1>2, <2>1, <2>6
    <3>. QED
      BY <2>3, <2>4, <2>6, <3>1
  <2>. QED
    BY <2>5, <2>6
<1>7. RowsFilled'
  <2>1. ASSUME NEW s \in Slots, NEW i \in 1 .. BlockTableStride, NEW j \in 1 .. Has(segments, s),
               rows[s][i] = rows[s][j]
        PROVE  i = j
    <3>1. j \in 1 .. BlockTableStride
      BY <1>2, <1>3
    <3>2. CASE Gains(segments, s, j)
      BY <1>1, <2>1, <3>1, <3>2, NewPagesDiffer
    <3>3. CASE Gains(segments, s, i)
      BY <1>1, <2>1, <3>1, <3>3, NewPagesDiffer
    <3>4. CASE ~Gains(segments, s, i) /\ ~Gains(segments, s, j)
      <4>1. table[s][i] = table[s][j]
        BY <1>6, <2>1, <3>1, <3>4
      <4>2. j \in 1 .. Had(s)
        BY <1>2, <3>4 DEF Gains
      <4>. QED
        BY <1>1, <4>1, <4>2 DEF RowsFilled, Had
    <3>. QED
      BY <3>2, <3>3, <3>4
  <2>2. ASSUME NEW s \in Slots, NEW i \in 1 .. BlockTableStride
        PROVE  /\ table'[s][i] # NoPage <=> i <= DivCeil(allocated'[s])
               /\ \A j \in 1 .. DivCeil(allocated'[s]) : table'[s][i] = table'[s][j] => i = j
    <3>1. rows[s][i] # NoPage <=> i <= Has(segments, s)
      BY <1>6
    <3>2. \A j \in 1 .. Has(segments, s) : rows[s][i] = rows[s][j] => i = j
      BY <2>1
    <3>. QED
      BY <1>2, <3>1, <3>2
  <2>. QED
    BY <2>2 DEF RowsFilled
<1>8. OpenPagePrivate'
  <2>1. ASSUME NEW s \in Slots, allocated'[s] % PageSize # 0
        PROVE  /\ rows[s][Has(segments, s)] \notin published
               /\ \A r \in Slots \ {s} : rows[s][Has(segments, s)] \notin Range(rows[r])
    <3> DEFINE a == allocated[s]
               n == NewTokens(segments, s)
               last == Has(segments, s)
    <3>1. a \in Nat /\ n \in Nat /\ allocated'[s] = a + n /\ last = DivCeil(a + n) /\ Had(s) = DivCeil(a)
      BY <1>1, <1>2, RowsGrow DEF Has, Had
    <3> HIDE DEF a, n, last
    <3>2. (a + n) % PageSize # 0 /\ a + n \in Nat
      BY <2>1, <3>1
    <3>3. last > Had(s) \/ (last = Had(s) /\ a % PageSize # 0)
      <4>1. CASE last = Had(s)
        BY <3>1, <3>2, <4>1, StaysOpen
      <4>2. CASE last # Had(s)
        BY <1>2, <4>2 DEF last
      <4>. QED
        BY <4>1, <4>2
    <3>4. last \in 1 .. last
      <4>1. ~(DivCeil(a + n) <= 0)
        <5>1. a + n # 0
          <6>1. 0 % PageSize = 0
            BY Sizes
          <6>. QED
            BY <3>2, <6>1
        <5>2. ~(a + n <= 0 * PageSize)
          BY <3>2, <5>1, Sizes
        <5>. QED
          BY <3>2, <5>2, PagesFor
      <4>. QED
        BY <1>2, <3>1, <4>1 DEF last
    <3>. QED
      BY <3>3, <3>4, WrittenPagePrivate DEF a, last
  <2>. QED
    BY <1>2, <2>1 DEF OpenPagePrivate
<1>9. DeviceRowsMatch'
  <2>1. ASSUME NEW s \in Slots, NEW i \in 1 .. Has(segments, s)
        PROVE  block_tables'[s * BlockTableStride + i] = rows[s][i]
    <3>1. i \in 1 .. BlockTableStride
      BY <1>2, <1>3
    <3>2. CASE Gains(segments, s, i)
      BY <1>5, <3>1, <3>2
    <3>3. CASE ~Gains(segments, s, i)
      <4>1. i \in 1 .. Had(s)
        BY <1>2, <3>3 DEF Gains
      <4>2. block_tables[s * BlockTableStride + i] = table[s][i]
        BY <1>1, <4>1 DEF DeviceRowsMatch, Had
      <4>. QED
        BY <1>5, <1>6, <3>1, <3>3, <4>2
    <3>. QED
      BY <3>2, <3>3
  <2>. QED
    BY <1>2, <2>1 DEF DeviceRowsMatch
<1>. QED
  BY <1>4, <1>7, <1>8, <1>9 DEF RowsSound

\* The rows of a step: the next tokens of each segment, one segment after another.
RowsInOrder(segments) ==
  /\ TokensOfStep(segments) \in Nat /\ DOMAIN RowsOf(segments) = 1 .. TokensOfStep(segments)
  /\ DOMAIN Offsets(segments) = 1 .. Len(segments) + 1
  /\ \A i \in 1 .. TokensOfStep(segments) : \E k \in 1 .. Len(segments), j \in Nat :
       /\ j \in 1 .. segments[k].tokens /\ i = Offsets(segments)[k] + j
       /\ RowsOf(segments)[i]
            = <<segments[k].slot, allocated[segments[k].slot] + (j - 1)>>
  /\ \A k \in 1 .. Len(segments) :
       /\ Offsets(segments)[k] \in Nat /\ Offsets(segments)[k] + 1 \in 1 .. TokensOfStep(segments)
       /\ RowsOf(segments)[Offsets(segments)[k] + 1]
            = <<segments[k].slot, allocated[segments[k].slot] + (1 - 1)>>
       /\ Offsets(segments)[k + 1] = Offsets(segments)[k] + segments[k].tokens

\* The rows of any step the engine makes are in order.
LEMMA StepRows ==
  ASSUME NEW segments \in Steps
  PROVE  RowsInOrder(segments)
<1> DEFINE n == Len(segments)
           count == Brought(segments)
           T == TokensOfStep(segments)
<1>1. /\ n \in Nat \ {0} /\ DOMAIN segments = 1 .. n
      /\ \A k \in 1 .. n : segments[k].tokens \in Nat /\ 1 <= segments[k].tokens
  <2>1. n \in 1 .. RequestSlots /\ RequestSlots \in Nat
    BY StepShape, Sizes
  <2>. QED
    BY <2>1, StepShape
<1>2. /\ count \in [1 .. n -> Nat] /\ \A k \in 1 .. n : count[k] = segments[k].tokens
      /\ DOMAIN Offsets(segments) = 1 .. n + 1
      /\ \A k \in 1 .. n + 1 : Offsets(segments)[k] = RowsBefore(count, k)
      /\ T = Offsets(segments)[n + 1]
  BY <1>1 DEF Brought, Offsets, TokensOfStep
<1> HIDE DEF n, count, T
<1>3. 1 .. n \subseteq Nat /\ IsFiniteSet(1 .. n)
  <2>1. 1 \in Int /\ n \in Int
    BY <1>1
  <2>2. IsFiniteSet(1 .. n)
    BY <2>1, FS_Interval, Zenon
  <2>. QED
    BY <1>1, <2>2
<1>4. LaidInOrder(1 .. n, count)
  BY <1>2, <1>3, LayoutIs
<1>5. T = Cardinality(RowTokens(count)) /\ T \in Nat
  <2>1. \A s \in 1 .. n : s < n + 1
    BY <1>1
  <2>2. RowsBefore(count, n + 1) = Cardinality(RowTokens(count))
    BY <1>2, <1>3, <2>1, RowsBeforeEnd
  <2>3. n + 1 \in 1 .. n + 1
    BY <1>1
  <2>. QED
    BY <1>2, <1>4, <2>2, <2>3 DEF LaidInOrder
<1>6. /\ DOMAIN Layout(count) = 1 .. T
      /\ \A i \in 1 .. T : \E s \in 1 .. n, k \in Nat :
           k \in 1 .. count[s] /\ Layout(count)[i] = <<s, k>> /\ i = RowsBefore(count, s) + k
      /\ \A s \in 1 .. n, k \in Nat : k \in 1 .. count[s] =>
           RowsBefore(count, s) + k \in 1 .. T /\ Layout(count)[RowsBefore(count, s) + k] = <<s, k>>
  BY <1>4, <1>5 DEF LaidInOrder
<1>7. /\ DOMAIN RowsOf(segments) = 1 .. T
      /\ \A i \in 1 .. T : \A s, k : Layout(count)[i] = <<s, k>> =>
           RowsOf(segments)[i] = <<segments[s].slot, allocated[segments[s].slot] + (k - 1)>>
  BY <1>6 DEF RowsOf, count
<1>8. ASSUME NEW i \in 1 .. T
      PROVE  \E k \in 1 .. n, j \in Nat :
               /\ j \in 1 .. segments[k].tokens /\ i = Offsets(segments)[k] + j
               /\ RowsOf(segments)[i] = <<segments[k].slot, allocated[segments[k].slot] + (j - 1)>>
  <2>1. PICK s \in 1 .. n, k \in Nat :
          k \in 1 .. count[s] /\ Layout(count)[i] = <<s, k>> /\ i = RowsBefore(count, s) + k
    BY <1>6
  <2>2. s \in 1 .. n + 1
    BY <1>1
  <2>. QED
    BY <1>2, <1>7, <2>1, <2>2
<1>9. ASSUME NEW k \in 1 .. n
      PROVE  /\ Offsets(segments)[k] \in Nat /\ Offsets(segments)[k] + 1 \in 1 .. T
             /\ RowsOf(segments)[Offsets(segments)[k] + 1]
                  = <<segments[k].slot, allocated[segments[k].slot] + (1 - 1)>>
             /\ Offsets(segments)[k + 1] = Offsets(segments)[k] + segments[k].tokens
  <2>1. k \in 1 .. n + 1 /\ k + 1 \in 1 .. n + 1 /\ k \in Nat /\ k + 1 \in Nat /\ k < k + 1
        /\ \A u \in 1 .. n : ~(k < u /\ u < k + 1)
    BY <1>1
  <2>2. RowsBefore(count, k) \in Nat
    BY <1>2, <1>3, RowsBeforeType
  <2>3. RowsBefore(count, k + 1) = RowsBefore(count, k) + count[k]
    BY <1>2, <1>3, <2>1, RowsBeforeStep
  <2>4. 1 \in Nat /\ 1 \in 1 .. count[k]
    BY <1>1, <1>2
  <2>5. RowsBefore(count, k) + 1 \in 1 .. T /\ Layout(count)[RowsBefore(count, k) + 1] = <<k, 1>>
    BY <1>6, <2>4
  <2> DEFINE first == RowsBefore(count, k) + 1
  <2>6. first \in 1 .. T /\ Layout(count)[first] = <<k, 1>> /\ first = Offsets(segments)[k] + 1
    BY <1>2, <2>1, <2>5
  <2> HIDE DEF first
  <2>7. RowsOf(segments)[first] = <<segments[k].slot, allocated[segments[k].slot] + (1 - 1)>>
    BY <1>7, <2>6
  <2>. QED
    BY <1>2, <2>1, <2>2, <2>3, <2>6, <2>7
<1>. QED
  BY <1>2, <1>5, <1>7, <1>8, <1>9 DEF RowsInOrder, n, T

--------------------------------------------------------------------------------
(* Words *)

\* The even number of words that n words take.
LEMMA Aligned ==
  ASSUME NEW n \in Nat
  PROVE  AlignUp8(n) \in Nat /\ n <= AlignUp8(n)
BY DEF AlignUp8

\* The words of a list.
LEMMA WordsOf ==
  ASSUME NEW V, NEW n \in Nat, NEW list, DOMAIN list = 1 .. n, \A i \in 1 .. n : list[i] \in V,
         NEW W, \A v \in V : U32(v) \in W
  PROVE  Words(list) \in Seq(W) /\ Len(Words(list)) = n
<1>1. Words(list) \in [1 .. n -> W]
  BY DEF Words
<1>. QED
  BY <1>1

\* A slice of the first part of two.
LEMMA SliceKept ==
  ASSUME NEW W, NEW s \in Seq(W), NEW t \in Seq(W), NEW base \in Nat, NEW n \in Nat,
         base + n <= Len(s)
  PROVE  SubSeq(s \o t, base + 1, base + n) = SubSeq(s, base + 1, base + n)
<1>1. /\ s \o t \in Seq(W) /\ Len(s \o t) = Len(s) + Len(t) /\ Len(s) \in Nat /\ Len(t) \in Nat
      /\ \A i \in 1 .. Len(s) : (s \o t)[i] = s[i]
  OBVIOUS
<1>. QED
  BY <1>1

\* The slice that is the second part.
LEMMA SliceEnd ==
  ASSUME NEW W, NEW s \in Seq(W), NEW t \in Seq(W), NEW base \in Nat, NEW n \in Nat,
         Len(s) = base, Len(t) = n
  PROVE  SubSeq(s \o t, base + 1, base + n) = t
<1>1. /\ s \o t \in Seq(W) /\ Len(s \o t) = base + n
      /\ \A i \in 1 .. n : (s \o t)[base + i] = t[i]
  OBVIOUS
<1>2. SubSeq(s \o t, base + 1, base + n) = [i \in 1 .. n |-> (s \o t)[base + i]]
  <2> DEFINE u == s \o t
             m == base + 1
             l == base + n
  <2>1. u \in Seq(W) /\ m \in Nat /\ l \in Nat
    BY <1>1
  <2> HIDE DEF u, m, l
  <2>2. SubSeq(u, m, l) = [i \in 1 .. l - m + 1 |-> u[i + m - 1]]
    BY <2>1
  <2>3. l - m + 1 = n /\ \A i \in 1 .. n : i + m - 1 = base + i
    BY DEF l, m
  <2>. QED
    BY <2>2, <2>3 DEF u, l, m
<1>3. t = [i \in 1 .. n |-> t[i]]
  OBVIOUS
<1>. QED
  BY <1>1, <1>2, <1>3

\* The words of 64-bit numbers, the low word of each before the high one.
LEMMA LongWordsOf ==
  ASSUME NEW V, NEW n \in Nat, NEW list \in Seq(V), Len(list) = n,
         NEW W, \A v \in V : <<"low", v>> \in W /\ <<"high", v>> \in W
  PROVE  /\ LongWords(list) \in Seq(W) /\ Len(LongWords(list)) = 2 * n
         /\ \A i \in 1 .. n : LongWords(list)[2 * (i - 1) + 1] = <<"low", list[i]>>
                              /\ LongWords(list)[2 * (i - 1) + 2] = <<"high", list[i]>>
<1>1. \A v : I64(v)[1] = <<"low", v>> /\ I64(v)[2] = <<"high", v>>
  BY DEF I64
<1>2. /\ DOMAIN LongWords(list) = 1 .. 2 * n
      /\ \A j \in 1 .. 2 * n : LongWords(list)[j] = I64(list[(j + 1) \div 2])[2 - (j % 2)]
      /\ LongWords(list) = [j \in 1 .. 2 * n |-> LongWords(list)[j]]
  BY DEF LongWords
<1>3. ASSUME NEW j \in 1 .. 2 * n
      PROVE  /\ (j + 1) \div 2 \in 1 .. n
             /\ 2 - (j % 2) = 1 \/ 2 - (j % 2) = 2
  OBVIOUS
<1>4. ASSUME NEW j \in 1 .. 2 * n PROVE LongWords(list)[j] \in W
  <2> DEFINE half == (j + 1) \div 2
             part == 2 - (j % 2)
  <2>1. half \in 1 .. n /\ (part = 1 \/ part = 2) /\ LongWords(list)[j] = I64(list[half])[part]
    BY <1>2, <1>3
  <2>2. list[half] \in V
    BY <2>1
  <2> HIDE DEF half, part
  <2>. QED
    BY <1>1, <2>1, <2>2
<1>5. ASSUME NEW i \in 1 .. n
      PROVE  /\ LongWords(list)[2 * (i - 1) + 1] = <<"low", list[i]>>
             /\ LongWords(list)[2 * (i - 1) + 2] = <<"high", list[i]>>
  <2> DEFINE low == 2 * (i - 1) + 1
             high == 2 * (i - 1) + 2
  <2>1. low \in 1 .. 2 * n /\ (low + 1) \div 2 = i /\ 2 - (low % 2) = 1
    OBVIOUS
  <2>2. high \in 1 .. 2 * n /\ (high + 1) \div 2 = i /\ 2 - (high % 2) = 2
    OBVIOUS
  <2> HIDE DEF low, high
  <2>3. LongWords(list)[low] = I64(list[i])[1]
    BY <1>2, <2>1
  <2>4. LongWords(list)[high] = I64(list[i])[2]
    BY <1>2, <2>2
  <2>. QED
    BY <1>1, <2>3, <2>4 DEF low, high
<1>6. LongWords(list) \in [1 .. 2 * n -> W] /\ 2 * n \in Nat
  BY <1>2, <1>4
<1> DEFINE words == LongWords(list)
           l == 2 * n
<1>7. words \in Seq(W) /\ Len(words) = l
  <2>1. words \in [1 .. l -> W] /\ l \in Nat
    BY <1>6
  <2> HIDE DEF words, l
  <2>. QED
    BY <2>1
<1>. QED
  BY <1>5, <1>7

\* Words that are a part of others, behind the first `base`.
PartAt(words, base, n, part) ==
  SubSeq(words, base + 1, base + n) = part /\ base + n <= Len(words)

\* Words to which a part is appended: the parts they have stay in place.
Appended(W, words, s, base, n, t) ==
  /\ \A b, m \in Nat : \A part : PartAt(s, b, m, part) => PartAt(words, b, m, part)
  /\ PartAt(words, base, n, t)
  /\ words \in Seq(W) /\ Len(words) = base + n

\* What was appended first stays where it was put.
LEMMA PartsKept ==
  ASSUME NEW W, NEW s \in Seq(W), NEW t \in Seq(W), NEW base \in Nat, NEW n \in Nat,
         Len(s) = base, Len(t) = n, NEW words, words = s \o t
  PROVE  Appended(W, words, s, base, n, t)
<1>1. words \in Seq(W) /\ Len(words) = base + n
  OBVIOUS
<1>2. ASSUME NEW b \in Nat, NEW m \in Nat, NEW part, PartAt(s, b, m, part)
      PROVE  PartAt(words, b, m, part)
  <2>1. b + m <= Len(s) /\ SubSeq(s, b + 1, b + m) = part
    BY <1>2 DEF PartAt
  <2>2. SubSeq(s \o t, b + 1, b + m) = SubSeq(s, b + 1, b + m)
    BY <2>1, SliceKept
  <2>3. b + m <= Len(words)
    BY <1>1, <2>1
  <2>. QED
    BY <2>1, <2>2, <2>3 DEF PartAt
<1>3. PartAt(words, base, n, t)
  <2>1. SubSeq(words, base + 1, base + n) = t
    BY SliceEnd
  <2>2. base + n <= Len(words)
    BY <1>1
  <2>. QED
    BY <2>1, <2>2 DEF PartAt
<1>. QED
  BY <1>1, <1>2, <1>3 DEF Appended

\* The parts of a packed step, where their lengths put them.
PackedAs(packed, T, n, physical, A, B, C, E, F, G, H) ==
  /\ PartAt(packed, 0, T, A) /\ PartAt(packed, T, T, B) /\ PartAt(packed, 2 * T, T, C)
  /\ PartAt(packed, physical, 2 * T, E)
  /\ PartAt(packed, physical + 2 * T, n + 1, F)
  /\ PartAt(packed, (physical + 2 * T) + n + 1, n, G)
  /\ PartAt(packed, ((physical + 2 * T) + n + 1) + n, n, H)

\* Eight parts in a row and their lengths.
PartsOfStep(W, packed, T, gap, n, physical, A, B, C, D, E, F, G, H) ==
  /\ A \in Seq(W) /\ B \in Seq(W) /\ C \in Seq(W) /\ D \in Seq(W)
  /\ E \in Seq(W) /\ F \in Seq(W) /\ G \in Seq(W) /\ H \in Seq(W)
  /\ Len(A) = T /\ Len(B) = T /\ Len(C) = T /\ Len(D) = gap
  /\ Len(E) = 2 * T /\ Len(F) = n + 1 /\ Len(G) = n /\ Len(H) = n
  /\ packed = A \o B \o C \o D \o E \o F \o G \o H /\ physical = 3 * T + gap

\* They are found there.
LEMMA Unpacked ==
  ASSUME NEW W, NEW packed, NEW T \in Nat, NEW gap \in Nat, NEW n \in Nat, NEW physical \in Nat,
         NEW A, NEW B, NEW C, NEW D, NEW E, NEW F, NEW G, NEW H,
         PartsOfStep(W, packed, T, gap, n, physical, A, B, C, D, E, F, G, H)
  PROVE  packed \in Seq(W) /\ PackedAs(packed, T, n, physical, A, B, C, E, F, G, H)
<1> DEFINE q2 == A \o B
           q3 == q2 \o C
           q4 == q3 \o D
           q5 == q4 \o E
           q6 == q5 \o F
           q7 == q6 \o G
           q8 == q7 \o H
           offsets == physical + 2 * T
           slots == offsets + n + 1
           rows == slots + n
<1> USE DEF PartsOfStep
<1>1. /\ 2 * T \in Nat /\ offsets \in Nat /\ n + 1 \in Nat /\ slots \in Nat /\ rows \in Nat
      /\ T + T = 2 * T /\ 2 * T + T = 3 * T /\ 0 \in Nat /\ 3 * T \in Nat
      /\ offsets + (n + 1) = slots /\ rows + n = physical + 2 * T + 3 * n + 1
  OBVIOUS
<1>2. packed = q8
  OBVIOUS
<1> HIDE DEF q2, q3, q4, q5, q6, q7, q8, offsets, slots, rows
<1>3. PartAt(A, 0, T, A)
  <2>1. SubSeq(A, 1, T) = A
    OBVIOUS
  <2>2. 0 + 1 = 1 /\ 0 + T = T /\ T <= T
    OBVIOUS
  <2>. QED
    BY <2>1, <2>2 DEF PartAt
<1>4. Appended(W, q2, A, T, T, B)
  BY PartsKept DEF q2
<1>5. Appended(W, q3, q2, 2 * T, T, C)
  <2>1. q2 \in Seq(W) /\ Len(q2) = 2 * T
    BY <1>1, <1>4 DEF Appended
  <2>. QED
    BY <1>1, <2>1, PartsKept DEF q3
<1>6. Appended(W, q4, q3, 3 * T, gap, D)
  <2>1. q3 \in Seq(W) /\ Len(q3) = 3 * T
    BY <1>1, <1>5 DEF Appended
  <2>. QED
    BY <1>1, <2>1, PartsKept DEF q4
<1>7. Appended(W, q5, q4, physical, 2 * T, E)
  <2>1. q4 \in Seq(W) /\ Len(q4) = physical
    BY <1>1, <1>6 DEF Appended
  <2>. QED
    BY <1>1, <2>1, PartsKept DEF q5
<1>8. Appended(W, q6, q5, offsets, n + 1, F)
  <2>1. q5 \in Seq(W) /\ Len(q5) = offsets
    BY <1>1, <1>7 DEF Appended, offsets
  <2>. QED
    BY <1>1, <2>1, PartsKept DEF q6
<1>9. Appended(W, q7, q6, slots, n, G)
  <2>1. q6 \in Seq(W) /\ Len(q6) = slots
    BY <1>1, <1>8 DEF Appended
  <2>. QED
    BY <1>1, <2>1, PartsKept DEF q7
<1>10. Appended(W, packed, q7, rows, n, H)
  <2>1. q7 \in Seq(W) /\ Len(q7) = rows
    BY <1>1, <1>9 DEF Appended, rows
  <2>. QED
    BY <1>1, <1>2, <2>1, PartsKept DEF q8
<1> USE DEF Appended
<1>11. PartAt(packed, 0, T, A)
  BY <1>1, <1>3, <1>4, <1>5, <1>6, <1>7, <1>8, <1>9, <1>10
<1>12. PartAt(packed, T, T, B)
  BY <1>4, <1>5, <1>6, <1>7, <1>8, <1>9, <1>10
<1>13. PartAt(packed, 2 * T, T, C)
  BY <1>1, <1>5, <1>6, <1>7, <1>8, <1>9, <1>10
<1>14. PartAt(packed, physical, 2 * T, E) /\ PartAt(packed, offsets, n + 1, F)
  BY <1>1, <1>7, <1>8, <1>9, <1>10
<1>15. PartAt(packed, slots, n, G)
  BY <1>1, <1>9, <1>10
<1>. QED
  BY <1>1, <1>10, <1>11, <1>12, <1>13, <1>14, <1>15 DEF PackedAs, offsets, slots, rows

--------------------------------------------------------------------------------
(* What the kernels read *)

\* Where the tokens of a step are stored.
LEMMA StoredAt ==
  ASSUME RowsSound, NEW segments \in Steps, NEW fresh \in Taken(NewPages(segments)),
         NEW i \in 1 .. TokensOfStep(segments)
  PROVE  \E s \in Slots, p \in Nat :
           /\ RowsOf(segments)[i] = <<s, p>> /\ p \div PageSize + 1 \in 1 .. Has(segments, s)
           /\ RowsAfter(fresh)[s][p \div PageSize + 1] \in Pages
           /\ RowsAfter(fresh)[s][p \div PageSize + 1] \notin published
           /\ \A r \in Slots \ {s} :
                RowsAfter(fresh)[s][p \div PageSize + 1] \notin Range(RowsAfter(fresh)[r])
<1>1. RowTypes /\ RowsFilled
  BY DEF RowsSound
<1>2. PICK k \in 1 .. Len(segments), j \in Nat :
        /\ j \in 1 .. segments[k].tokens
        /\ RowsOf(segments)[i] = <<segments[k].slot, allocated[segments[k].slot] + (j - 1)>>
  BY StepRows DEF RowsInOrder
<1> DEFINE s == segments[k].slot
           a == allocated[s]
           p == a + (j - 1)
           n == NewTokens(segments, s)
           at == p \div PageSize + 1
<1>3. s \in Slots
  BY StepShape
<1>4. n = segments[k].tokens
  BY TokensBrought
<1> HIDE DEF s, n
<1>5. /\ a \in Nat /\ n \in Nat /\ Had(s) = DivCeil(a) /\ Has(segments, s) = DivCeil(a + n)
      /\ Had(s) \in Nat /\ Has(segments, s) \in Nat /\ Has(segments, s) <= BlockTableStride
  BY <1>1, <1>3, RowsGrow DEF Had, Has, n
<1> HIDE DEF a
<1>6. p \in Nat /\ p >= a /\ p < a + n /\ a + n \in Nat
  BY <1>2, <1>4, <1>5
<1>7. RowsOf(segments)[i] = <<s, p>>
  BY <1>2 DEF s, a
<1> HIDE DEF p
<1>8. at \in 1 .. Has(segments, s)
  BY <1>5, <1>6, PageOfPosition
<1>9. at <= Had(s) => at = Had(s) /\ a % PageSize # 0
  BY <1>5, <1>6, PageOfPosition
<1> HIDE DEF at
<1>10. at > Had(s) \/ (at = Had(s) /\ a % PageSize # 0)
  BY <1>5, <1>8, <1>9
<1>11. /\ RowsAfter(fresh)[s][at] \notin published
       /\ \A r \in Slots \ {s} : RowsAfter(fresh)[s][at] \notin Range(RowsAfter(fresh)[r])
  BY <1>3, <1>8, <1>10, WrittenPagePrivate DEF a
<1>12. RowsAfter(fresh)[s][at] \in Pages
  <2>1. at \in 1 .. BlockTableStride
    BY <1>5, <1>8, Sizes
  <2>2. CASE Gains(segments, s, at)
    BY <1>1, <1>3, <2>1, <2>2, PlaceTaken
  <2>3. CASE ~Gains(segments, s, at)
    <3>1. at <= DivCeil(allocated[s])
      BY <1>5, <1>8, <2>3 DEF Gains, Had
    <3>2. table[s][at] # NoPage
      BY <1>1, <1>3, <2>1, <3>1 DEF RowsFilled
    <3>3. table[s] \in [1 .. BlockTableStride -> Pages \cup {NoPage}]
      BY <1>1, <1>3 DEF RowTypes
    <3>4. RowsAfter(fresh)[s][at] = table[s][at]
      BY <1>1, <1>3, <2>1, <2>3, PlaceKept
    <3>. QED
      BY <2>1, <3>2, <3>3, <3>4
  <2>. QED
    BY <2>2, <2>3
<1>. QED
  BY <1>3, <1>6, <1>7, <1>8, <1>11, <1>12 DEF at

\* The arrays of a step.
StepTypes(st, T, n) ==
  /\ st.token_ids \in [1 .. T -> Slots \X Nat] /\ st.positions \in [1 .. T -> Nat]
  /\ st.request_slots \in [1 .. T -> Slots] /\ st.physical_slots \in [1 .. T -> Nat]
  /\ st.segment_offsets \in [1 .. n + 1 -> Nat]
  /\ st.segment_slots \in [1 .. n -> Slots] /\ st.output_rows \in [1 .. n -> Int]

\* A step is of that shape, and says where its tokens go.
LEMMA StepOfIs ==
  ASSUME RowsSound, NEW segments \in Steps, NEW fresh \in Taken(NewPages(segments)),
         NEW st, st = StepOf(segments, RowsAfter(fresh))
  PROVE  /\ StepTypes(st, TokensOfStep(segments), Len(segments))
         /\ \A i \in 1 .. TokensOfStep(segments) : \A s, p : RowsOf(segments)[i] = <<s, p>> =>
              /\ st.positions[i] = p /\ st.request_slots[i] = s
              /\ st.physical_slots[i]
                   = RowsAfter(fresh)[s][p \div PageSize + 1] * PageSize + (p % PageSize)
<1> DEFINE T == TokensOfStep(segments)
           n == Len(segments)
           rows == RowsAfter(fresh)
           steps == RowsOf(segments)
<1>1. /\ T \in Nat /\ DOMAIN steps = 1 .. T
      /\ DOMAIN Offsets(segments) = 1 .. n + 1 /\ T = Offsets(segments)[n + 1]
      /\ \A k \in 1 .. n : Offsets(segments)[k] \in Nat
  BY StepRows DEF RowsInOrder, TokensOfStep
<1>2. n \in Nat /\ DOMAIN segments = 1 .. n /\ \A k \in 1 .. n : segments[k].slot \in Slots
  BY StepShape, Sizes
<1>3. ASSUME NEW i \in 1 .. T
      PROVE  \E s \in Slots, p \in Nat : steps[i] = <<s, p>> /\ rows[s][p \div PageSize + 1] \in Pages
  BY <1>3, StoredAt
<1> HIDE DEF T, n, rows, steps
<1>4. /\ st.token_ids = steps
      /\ st.positions = [i \in 1 .. T |-> steps[i][2]]
      /\ st.request_slots = [i \in 1 .. T |-> steps[i][1]]
      /\ st.physical_slots = [i \in 1 .. T |->
           rows[steps[i][1]][steps[i][2] \div PageSize + 1] * PageSize + (steps[i][2] % PageSize)]
      /\ st.segment_offsets = Offsets(segments)
      /\ st.segment_slots = [i \in 1 .. n |-> segments[i].slot]
      /\ st.output_rows = [i \in 1 .. n |-> Offsets(segments)[i + 1] - 1]
  BY <1>1, <1>2 DEF StepOf, PhysicalSlot, rows, steps
<1>5. \A i \in 1 .. T : \A s, p : steps[i] = <<s, p>> =>
        /\ st.positions[i] = p /\ st.request_slots[i] = s
        /\ st.physical_slots[i] = rows[s][p \div PageSize + 1] * PageSize + (p % PageSize)
  BY <1>4
<1>6. ASSUME NEW i \in 1 .. T
      PROVE  /\ steps[i] \in Slots \X Nat /\ st.positions[i] \in Nat /\ st.request_slots[i] \in Slots
             /\ st.physical_slots[i] \in Nat
  <2>1. PICK s \in Slots, p \in Nat : steps[i] = <<s, p>> /\ rows[s][p \div PageSize + 1] \in Pages
    BY <1>3
  <2> DEFINE page == rows[s][p \div PageSize + 1]
             r == p % PageSize
  <2>2. page \in Nat /\ r \in Nat /\ PageSize \in Nat
    BY <2>1, Quotient, Sizes DEF Pages
  <2>3. st.positions[i] = p /\ st.request_slots[i] = s /\ st.physical_slots[i] = page * PageSize + r
    BY <1>5, <2>1
  <2> HIDE DEF page, r
  <2>4. page * PageSize + r \in Nat
    BY <2>2
  <2>. QED
    BY <2>1, <2>3, <2>4
<1>7. \A k \in 1 .. n + 1 : Offsets(segments)[k] \in Nat
  BY <1>1, <1>2
<1>8. st.token_ids \in [1 .. T -> Slots \X Nat]
  <2>1. steps = [i \in 1 .. T |-> steps[i]]
    BY <1>1 DEF steps, RowsOf
  <2>. QED
    BY <1>4, <1>6, <2>1
<1>9. st.positions \in [1 .. T -> Nat] /\ st.request_slots \in [1 .. T -> Slots]
  BY <1>4, <1>6
<1>10. st.physical_slots \in [1 .. T -> Nat]
  <2>1. st.physical_slots = [i \in 1 .. T |-> st.physical_slots[i]]
    BY <1>4
  <2>. QED
    BY <1>6, <2>1
<1>11. st.segment_offsets \in [1 .. n + 1 -> Nat]
  <2>1. Offsets(segments) = [k \in 1 .. n + 1 |-> Offsets(segments)[k]]
    BY DEF Offsets, n
  <2>. QED
    BY <1>4, <1>7, <2>1
<1>12. st.segment_slots \in [1 .. n -> Slots]
  BY <1>2, <1>4
<1>13. st.output_rows \in [1 .. n -> Int]
  <2>1. ASSUME NEW i \in 1 .. n PROVE Offsets(segments)[i + 1] - 1 \in Int
    BY <1>2, <1>7
  <2>. QED
    BY <1>4, <2>1
<1>. QED
  BY <1>5, <1>8, <1>9, <1>10, <1>11, <1>12, <1>13 DEF StepTypes, T, n, rows, steps

\* An array of a step that is where its words are.
LEMMA ArrayRead ==
  ASSUME NEW a, NEW n \in Nat, NEW words, DOMAIN words = 1 .. n, words = [i \in 1 .. n |-> words[i]],
         shape'[a] = n, device'[a] = words
  PROVE  Logical(a)' = words
BY DEF Logical

\* Pairs of words that are 64-bit numbers.
PairsAt(packed, physical, n, list) ==
  \A i \in 1 .. n :
    SubSeq(packed, physical + 2 * (i - 1) + 1, physical + 2 * (i - 1) + 2) = I64(list[i])

\* The two words of each 64-bit number.
LEMMA PairsRead ==
  ASSUME NEW V, NEW n \in Nat, NEW list \in Seq(V), Len(list) = n,
         NEW W, \A v \in V : <<"low", v>> \in W /\ <<"high", v>> \in W,
         NEW packed \in Seq(W), NEW physical \in Nat,
         PartAt(packed, physical, 2 * n, LongWords(list))
  PROVE  PairsAt(packed, physical, n, list)
<1> DEFINE long == LongWords(list)
<1>1. /\ long \in Seq(W) /\ Len(long) = 2 * n
      /\ \A i \in 1 .. n : long[2 * (i - 1) + 1] = <<"low", list[i]>> /\ long[2 * (i - 1) + 2] = <<"high", list[i]>>
  BY LongWordsOf
<1> HIDE DEF long
<1>2. SubSeq(packed, physical + 1, physical + 2 * n) = long /\ physical + 2 * n <= Len(packed)
  BY DEF PartAt, long
<1>3. \A j \in 1 .. 2 * n : long[j] = packed[physical + j]
  <2> DEFINE m == physical + 1
             l == physical + 2 * n
  <2>1. m \in Nat /\ l \in Nat /\ l - m + 1 = 2 * n /\ \A j \in 1 .. 2 * n : j + m - 1 = physical + j
    OBVIOUS
  <2>2. SubSeq(packed, m, l) = long
    BY <1>2
  <2> HIDE DEF m, l
  <2>3. SubSeq(packed, m, l) = [j \in 1 .. l - m + 1 |-> packed[j + m - 1]]
    BY <2>1
  <2>. QED
    BY <2>1, <2>2, <2>3
<1>4. ASSUME NEW i \in 1 .. n
      PROVE  SubSeq(packed, physical + 2 * (i - 1) + 1, physical + 2 * (i - 1) + 2) = I64(list[i])
  <2> DEFINE b == 2 * (i - 1)
             m == physical + b + 1
             l == physical + b + 2
  <2>1. /\ b \in Nat /\ b + 1 \in 1 .. 2 * n /\ b + 2 \in 1 .. 2 * n
        /\ long[b + 1] = <<"low", list[i]>> /\ long[b + 2] = <<"high", list[i]>>
    BY <1>1
  <2> HIDE DEF b
  <2>2. /\ m \in Nat /\ l \in Nat /\ l - m + 1 = 2 /\ 1 + m - 1 = physical + (b + 1)
        /\ 2 + m - 1 = physical + (b + 2)
    BY <2>1
  <2>3. packed[physical + (b + 1)] = <<"low", list[i]>> /\ packed[physical + (b + 2)] = <<"high", list[i]>>
    BY <1>3, <2>1
  <2> HIDE DEF m, l
  <2>4. SubSeq(packed, m, l) = [j \in 1 .. l - m + 1 |-> packed[j + m - 1]]
    BY <2>2
  <2>5. 1 \in 1 .. 2 /\ 2 \in 1 .. 2 /\ \A j \in 1 .. 2 : j = 1 \/ j = 2
    OBVIOUS
  <2>6. SubSeq(packed, m, l) = [j \in 1 .. 2 |-> packed[j + m - 1]]
    BY <2>2, <2>4
  <2>7. [j \in 1 .. 2 |-> packed[j + m - 1]] = <<packed[1 + m - 1], packed[2 + m - 1]>>
    OBVIOUS
  <2>8. SubSeq(packed, m, l) = <<<<"low", list[i]>>, <<"high", list[i]>>>>
    BY <2>2, <2>3, <2>6, <2>7
  <2>. QED
    BY <2>8 DEF I64, b, m, l
<1>. QED
  BY <1>4 DEF PairsAt

\* Whatever its sizes, a step that is packed is read as it is.
LEMMA UploadDelivers ==
  ASSUME NEW st, NEW T \in Nat, NEW n \in Nat, StepTypes(st, T, n), T <= MaximumTokens,
         n <= RequestSlots, Upload(st)
  PROVE  /\ \A a \in Arrays \ {"physical_slots"} : Logical(a)' = Words(st[a])
         /\ Logical("physical_slots")' = [i \in DOMAIN st.physical_slots |-> I64(st.physical_slots[i])]
         /\ \A a \in Arrays : shape'[a] <= Capacity(a) /\ Len(device'[a]) <= Capacity(a)
<1> DEFINE V == (Slots \X Nat) \cup Int
           W == {"u32", "low", "high", "pad"} \X V
           A == Words(st.token_ids)
           B == Words(st.positions)
           C == Words(st.request_slots)
           gap == AlignUp8(3 * T) - 3 * T
           D == [i \in 1 .. gap |-> Padding]
           E == LongWords(st.physical_slots)
           F == Words(st.segment_offsets)
           G == Words(st.segment_slots)
           H == Words(st.output_rows)
           packed == A \o B \o C \o D \o E \o F \o G \o H
           physical == AlignUp8(3 * T)
           offsets == physical + 2 * T
           slots == offsets + n + 1
<1>1. /\ \A v \in V : U32(v) \in W /\ <<"low", v>> \in W /\ <<"high", v>> \in W
      /\ Padding \in W /\ Slots \X Nat \subseteq V /\ Nat \subseteq V /\ Int \subseteq V /\ Slots \subseteq V
  BY DEF U32, Padding, Slots
<1>2. 3 * T \in Nat /\ physical \in Nat /\ gap \in Nat /\ physical = 3 * T + gap /\ n + 1 \in Nat
  <2>1. 3 * T \in Nat
    OBVIOUS
  <2>2. AlignUp8(3 * T) \in Nat /\ 3 * T <= AlignUp8(3 * T)
    BY <2>1, Aligned
  <2>. QED
    BY <2>1, <2>2
<1> HIDE DEF V, W
<1>3. A \in Seq(W) /\ Len(A) = T
  BY <1>1, WordsOf DEF StepTypes
<1>4. B \in Seq(W) /\ Len(B) = T
  BY <1>1, WordsOf DEF StepTypes
<1>5. C \in Seq(W) /\ Len(C) = T
  BY <1>1, WordsOf DEF StepTypes
<1>6. D \in Seq(W) /\ Len(D) = gap
  <2>1. D \in [1 .. gap -> W]
    BY <1>1
  <2> HIDE DEF gap
  <2>. QED
    BY <1>2, <2>1
<1>7. st.physical_slots \in Seq(V) /\ Len(st.physical_slots) = T
  <2>1. st.physical_slots \in [1 .. T -> V]
    BY <1>1 DEF StepTypes
  <2>. QED
    BY <2>1
<1>8. E \in Seq(W) /\ Len(E) = 2 * T
  BY <1>1, <1>7, LongWordsOf
<1>9. F \in Seq(W) /\ Len(F) = n + 1
  BY <1>1, <1>2, WordsOf DEF StepTypes
<1>10. G \in Seq(W) /\ Len(G) = n
  BY <1>1, WordsOf DEF StepTypes
<1>11. H \in Seq(W) /\ Len(H) = n
  BY <1>1, WordsOf DEF StepTypes
<1>12. Len(st.token_ids) = T /\ Len(st.segment_slots) = n
  <2>1. st.token_ids \in [1 .. T -> Slots \X Nat] /\ st.segment_slots \in [1 .. n -> Slots]
    BY DEF StepTypes
  <2>. QED
    BY <2>1
<1>13. device' = Scattered(packed, T, n) /\ shape' = ShapesOf(T, n)
  <2>1. Len(A \o B \o C) = 3 * T
    <3> HIDE DEF A, B, C
    <3>. QED
      BY <1>3, <1>4, <1>5
  <2>2. PackTokens(st.token_ids, st.positions, st.request_slots, st.physical_slots)
          = A \o B \o C \o D \o E
    BY <2>1 DEF PackTokens
  <2>. QED
    BY <1>12, <2>2 DEF Upload
<1> HIDE DEF A, B, C, D, E, F, G, H, packed, physical, gap
<1>14. packed \in Seq(W) /\ PackedAs(packed, T, n, physical, A, B, C, E, F, G, H)
  <2>1. packed = A \o B \o C \o D \o E \o F \o G \o H
    BY DEF packed
  <2>2. PartsOfStep(W, packed, T, gap, n, physical, A, B, C, D, E, F, G, H)
    BY <1>2, <1>3, <1>4, <1>5, <1>6, <1>8, <1>9, <1>10, <1>11, <2>1 DEF PartsOfStep
  <2>. QED
    BY <1>2, <2>2, Unpacked
<1>15. /\ device'.token_ids = A /\ device'.positions = B /\ device'.request_slots = C
       /\ device'.segment_offsets = F /\ device'.segment_slots = G /\ device'.output_rows = H
       /\ device'.physical_slots
            = [i \in 1 .. T |-> SubSeq(packed, physical + 2 * (i - 1) + 1, physical + 2 * (i - 1) + 2)]
  BY <1>13, <1>14 DEF Scattered, PackedAs, PartAt, physical
<1>16. device'.physical_slots = [i \in 1 .. T |-> I64(st.physical_slots[i])]
  <2> DEFINE list == st.physical_slots
  <2>1. list \in Seq(V) /\ Len(list) = T /\ PartAt(packed, physical, 2 * T, LongWords(list))
    BY <1>7, <1>14 DEF PackedAs, E
  <2> HIDE DEF list
  <2>2. PairsAt(packed, physical, T, list)
    BY <1>1, <1>2, <1>14, <2>1, PairsRead
  <2>. QED
    BY <1>15, <2>2 DEF PairsAt, list
<1>17. /\ \A a \in PerToken : shape'[a] = T
       /\ \A a \in PerSegment : shape'[a] = n
       /\ shape'["segment_offsets"] = n + 1
  <2> DEFINE m == n + 1
  <2> HIDE DEF m
  <2>1. shape' = [a \in Arrays |-> CASE a \in PerToken -> T [] a \in PerSegment -> n [] OTHER -> m]
    BY <1>13 DEF ShapesOf, m
  <2>2. \A a \in PerSegment : a \in Arrays /\ a \notin PerToken
    BY DEF PerSegment, PerToken, Arrays
  <2>3. "segment_offsets" \in Arrays /\ "segment_offsets" \notin PerToken /\ "segment_offsets" \notin PerSegment
    BY DEF PerSegment, PerToken, Arrays
  <2>4. PerToken \subseteq Arrays
    BY DEF Arrays
  <2>. QED
    BY <2>1, <2>2, <2>3, <2>4 DEF m
<1>18. /\ DOMAIN A = 1 .. T /\ A = [i \in 1 .. T |-> A[i]]
       /\ DOMAIN B = 1 .. T /\ B = [i \in 1 .. T |-> B[i]]
       /\ DOMAIN C = 1 .. T /\ C = [i \in 1 .. T |-> C[i]]
  BY DEF StepTypes, Words, A, B, C
<1>19. /\ DOMAIN F = 1 .. n + 1 /\ F = [i \in 1 .. n + 1 |-> F[i]]
       /\ DOMAIN G = 1 .. n /\ G = [i \in 1 .. n |-> G[i]]
       /\ DOMAIN H = 1 .. n /\ H = [i \in 1 .. n |-> H[i]]
  BY DEF StepTypes, Words, F, G, H
<1>20. Logical("token_ids")' = A
  <2>1. shape'["token_ids"] = T
    BY <1>17 DEF PerToken
  <2>2. device'["token_ids"] = A /\ DOMAIN A = 1 .. T /\ A = [i \in 1 .. T |-> A[i]]
    BY <1>15, <1>18
  <2>. QED
    BY <2>1, <2>2, ArrayRead
<1>21. Logical("positions")' = B
  <2>1. shape'["positions"] = T
    BY <1>17 DEF PerToken
  <2>2. device'["positions"] = B /\ DOMAIN B = 1 .. T /\ B = [i \in 1 .. T |-> B[i]]
    BY <1>15, <1>18
  <2>. QED
    BY <2>1, <2>2, ArrayRead
<1>22. Logical("request_slots")' = C
  <2>1. shape'["request_slots"] = T
    BY <1>17 DEF PerToken
  <2>2. device'["request_slots"] = C /\ DOMAIN C = 1 .. T /\ C = [i \in 1 .. T |-> C[i]]
    BY <1>15, <1>18
  <2>. QED
    BY <2>1, <2>2, ArrayRead
<1>23. Logical("segment_offsets")' = F
  BY <1>2, <1>15, <1>17, <1>19, ArrayRead
<1>24. Logical("segment_slots")' = G
  BY <1>15, <1>17, <1>19, ArrayRead DEF PerSegment
<1>25. Logical("output_rows")' = H
  BY <1>15, <1>17, <1>19, ArrayRead DEF PerSegment
<1>26. ASSUME NEW a \in Arrays \ {"physical_slots"} PROVE Logical(a)' = Words(st[a])
  <2>1. \/ a = "token_ids" \/ a = "positions" \/ a = "request_slots"
        \/ a = "segment_offsets" \/ a = "segment_slots" \/ a = "output_rows"
    BY DEF Arrays, PerToken, PerSegment
  <2>2. CASE a = "token_ids"
    BY <1>20, <2>2 DEF A
  <2>3. CASE a = "positions"
    BY <1>21, <2>3 DEF B
  <2>4. CASE a = "request_slots"
    BY <1>22, <2>4 DEF C
  <2>5. CASE a = "segment_offsets"
    BY <1>23, <2>5 DEF F
  <2>6. CASE a = "segment_slots"
    BY <1>24, <2>6 DEF G
  <2>7. CASE a = "output_rows"
    BY <1>25, <2>7 DEF H
  <2>. QED
    BY <2>1, <2>2, <2>3, <2>4, <2>5, <2>6, <2>7
<1>27. Logical("physical_slots")' = [i \in DOMAIN st.physical_slots |-> I64(st.physical_slots[i])]
  <2> DEFINE pairs == [i \in 1 .. T |-> I64(st.physical_slots[i])]
  <2>1. DOMAIN pairs = 1 .. T /\ pairs = [i \in 1 .. T |-> pairs[i]] /\ device'["physical_slots"] = pairs
    BY <1>16
  <2>2. DOMAIN st.physical_slots = 1 .. T
    BY DEF StepTypes
  <2>3. shape'["physical_slots"] = T
    BY <1>17 DEF PerToken
  <2> HIDE DEF pairs
  <2>4. Logical("physical_slots")' = pairs
    BY <2>1, <2>3, ArrayRead
  <2>. QED
    BY <2>2, <2>4 DEF pairs
<1>28. ASSUME NEW a \in Arrays PROVE shape'[a] <= Capacity(a) /\ Len(device'[a]) <= Capacity(a)
  <2>1. Len(device'.physical_slots) = T
    BY <1>16
  <2>2. a \in PerToken => Len(device'[a]) = T
    BY <1>3, <1>4, <1>5, <1>15, <2>1 DEF PerToken
  <2>3. a \in PerSegment => Len(device'[a]) = n
    BY <1>10, <1>11, <1>15 DEF PerSegment
  <2>4. Len(device'["segment_offsets"]) = n + 1
    BY <1>9, <1>15
  <2>5. a \in PerToken \/ (a \in PerSegment /\ a \notin PerToken)
        \/ (a = "segment_offsets" /\ a \notin PerToken /\ a \notin PerSegment)
    BY DEF Arrays, PerToken, PerSegment
  <2>6. CASE a \in PerToken
    BY <1>17, <2>2, <2>6 DEF Capacity
  <2>7. CASE a \in PerSegment /\ a \notin PerToken
    BY <1>17, <2>3, <2>7 DEF Capacity
  <2>8. CASE a = "segment_offsets" /\ a \notin PerToken /\ a \notin PerSegment
    <3>1. Capacity(a) = RequestSlots + 1 /\ shape'[a] = n + 1 /\ Len(device'[a]) = n + 1
      BY <1>17, <2>4, <2>8 DEF Capacity
    <3>. QED
      BY <3>1, Sizes
  <2>. QED
    BY <2>5, <2>6, <2>7, <2>8
<1>. QED
  BY <1>26, <1>27, <1>28

--------------------------------------------------------------------------------
(* Steps and their order *)

\* What a step stores, and where.
StoresRight ==
  step' # << >> =>
    /\ \A i \in DOMAIN step'.token_ids :
         LET position == step'.positions[i]
             slot     == step'.request_slots[i]
             page     == block_tables'[slot * BlockTableStride + position \div PageSize + 1]
         IN  /\ step'.physical_slots[i] = page * PageSize + (position % PageSize)
             /\ page \notin published
             /\ \A s \in Slots \ {slot} : page \notin Range(table'[s])
    /\ IsInjective(step'.physical_slots)

\* Slots of different pages, or different slots of a page, differ.
LEMMA SlotsDiffer ==
  ASSUME NEW a \in Nat, NEW b \in Nat, NEW r \in Nat, NEW q \in Nat, r < PageSize, q < PageSize,
         a * PageSize + r = b * PageSize + q
  PROVE  a = b /\ r = q
<1>1. PageSize \in Nat \ {0}
  BY Sizes
<1>2. a * PageSize \in Nat /\ b * PageSize \in Nat
      /\ (a + 1) * PageSize = a * PageSize + PageSize /\ (b + 1) * PageSize = b * PageSize + PageSize
  BY <1>1
<1>3. ASSUME a < b PROVE FALSE
  <2>1. (a + 1) * PageSize <= b * PageSize
    BY <1>1, <1>3, ScaleUp
  <2>. QED
    BY <1>1, <1>2, <2>1
<1>4. ASSUME b < a PROVE FALSE
  <2>1. (b + 1) * PageSize <= a * PageSize
    BY <1>1, <1>4, ScaleUp
  <2>. QED
    BY <1>1, <1>2, <2>1
<1>5. a = b
  BY <1>3, <1>4
<1>. QED
  BY <1>2, <1>5

\* A row of a step belongs to one token.
LEMMA RowsDiffer ==
  ASSUME RowTypes, NEW segments \in Steps, NEW i \in 1 .. TokensOfStep(segments),
         NEW j \in 1 .. TokensOfStep(segments), RowsOf(segments)[i] = RowsOf(segments)[j]
  PROVE  i = j
<1>1. PICK k \in 1 .. Len(segments), x \in Nat :
        /\ x \in 1 .. segments[k].tokens /\ i = Offsets(segments)[k] + x
        /\ RowsOf(segments)[i] = <<segments[k].slot, allocated[segments[k].slot] + (x - 1)>>
  BY StepRows DEF RowsInOrder
<1>2. PICK l \in 1 .. Len(segments), y \in Nat :
        /\ y \in 1 .. segments[l].tokens /\ j = Offsets(segments)[l] + y
        /\ RowsOf(segments)[j] = <<segments[l].slot, allocated[segments[l].slot] + (y - 1)>>
  BY StepRows DEF RowsInOrder
<1>3. segments[k].slot = segments[l].slot
  BY <1>1, <1>2
<1>4. k = l
  BY <1>3, StepShape
<1>5. allocated[segments[k].slot] \in Nat
  BY StepShape, RowsGrow
<1>6. allocated[segments[k].slot] + (x - 1) = allocated[segments[k].slot] + (y - 1)
  BY <1>1, <1>2, <1>4
<1>7. x = y
  BY <1>5, <1>6
<1>. QED
  BY <1>1, <1>2, <1>4, <1>7

\* Attention looks for the K/V of a token where the step has stored it, in a
\* place of its own.
LEMMA StepStores ==
  ASSUME RowsSound, RowsSound', NEW segments \in Steps, NEW fresh \in Taken(NewPages(segments)),
         table' = RowsAfter(fresh), step' = StepOf(segments, RowsAfter(fresh)),
         \A s \in Slots : allocated'[s] = allocated[s] + NewTokens(segments, s)
  PROVE  StoresRight
<1> DEFINE T == TokensOfStep(segments)
           rows == RowsAfter(fresh)
           steps == RowsOf(segments)
           st == StepOf(segments, rows)
           at(p) == p \div PageSize + 1
<1>1. StepTypes(st, T, Len(segments))
  BY StepOfIs
<1>2. ASSUME NEW i \in 1 .. T, NEW s, NEW p, steps[i] = <<s, p>>
      PROVE  /\ st.positions[i] = p /\ st.request_slots[i] = s
             /\ st.physical_slots[i] = rows[s][at(p)] * PageSize + (p % PageSize)
  BY <1>2, StepOfIs
<1>3. ASSUME NEW i \in 1 .. T
      PROVE  \E s \in Slots, p \in Nat :
               /\ steps[i] = <<s, p>> /\ at(p) \in 1 .. Has(segments, s) /\ rows[s][at(p)] \in Pages
               /\ rows[s][at(p)] \notin published
               /\ \A r \in Slots \ {s} : rows[s][at(p)] \notin Range(rows[r])
  BY <1>3, StoredAt
<1>4. \A i, j \in 1 .. T : steps[i] = steps[j] => i = j
  BY RowsDiffer DEF RowsSound
<1>5. PageSize \in Nat \ {0} /\ BlockTableStride \in Nat
  BY Sizes
<1>6. ASSUME NEW s \in Slots
      PROVE  /\ Has(segments, s) = DivCeil(allocated'[s]) /\ Has(segments, s) \in Nat
             /\ Has(segments, s) <= BlockTableStride
  BY RowsGrow DEF Has, RowsSound
<1>7. DOMAIN st.token_ids = 1 .. T /\ DOMAIN st.physical_slots = 1 .. T
  BY <1>1 DEF StepTypes
<1> HIDE DEF T, rows, steps, st
<1>8. ASSUME NEW i \in 1 .. T
      PROVE  LET position == st.positions[i]
                 slot     == st.request_slots[i]
                 page     == block_tables'[slot * BlockTableStride + position \div PageSize + 1]
             IN  /\ st.physical_slots[i] = page * PageSize + (position % PageSize)
                 /\ page \notin published
                 /\ \A s \in Slots \ {slot} : page \notin Range(rows[s])
  <2>1. PICK s \in Slots, p \in Nat :
          /\ steps[i] = <<s, p>> /\ at(p) \in 1 .. Has(segments, s) /\ rows[s][at(p)] \in Pages
          /\ rows[s][at(p)] \notin published
          /\ \A r \in Slots \ {s} : rows[s][at(p)] \notin Range(rows[r])
    BY <1>3
  <2>2. /\ st.positions[i] = p /\ st.request_slots[i] = s
        /\ st.physical_slots[i] = rows[s][at(p)] * PageSize + (p % PageSize)
    BY <1>2, <2>1
  <2>3. block_tables'[s * BlockTableStride + at(p)] = rows[s][at(p)]
    BY <1>6, <2>1 DEF RowsSound, DeviceRowsMatch, rows
  <2>4. s * BlockTableStride + p \div PageSize + 1 = s * BlockTableStride + at(p)
    <3> DEFINE b == s * BlockTableStride
               q == p \div PageSize
    <3>1. b \in Int /\ q \in Int
      BY <1>5, Quotient DEF Slots
    <3> HIDE DEF b, q
    <3>2. b + q + 1 = b + (q + 1)
      BY <3>1
    <3>. QED
      BY <3>2 DEF b, q
  <2> HIDE DEF at
  <2>. QED
    BY <2>1, <2>2, <2>3, <2>4
<1>9. ASSUME NEW i \in 1 .. T, NEW j \in 1 .. T, st.physical_slots[i] = st.physical_slots[j]
      PROVE  i = j
  <2>1. PICK s \in Slots, p \in Nat :
          /\ steps[i] = <<s, p>> /\ at(p) \in 1 .. Has(segments, s) /\ rows[s][at(p)] \in Pages
          /\ rows[s][at(p)] \notin published
          /\ \A r \in Slots \ {s} : rows[s][at(p)] \notin Range(rows[r])
    BY <1>3
  <2>2. PICK t \in Slots, q \in Nat :
          /\ steps[j] = <<t, q>> /\ at(q) \in 1 .. Has(segments, t) /\ rows[t][at(q)] \in Pages
          /\ rows[t][at(q)] \notin published
          /\ \A r \in Slots \ {t} : rows[t][at(q)] \notin Range(rows[r])
    BY <1>3
  <2>3. rows[s][at(p)] * PageSize + (p % PageSize) = rows[t][at(q)] * PageSize + (q % PageSize)
    BY <1>2, <1>9, <2>1, <2>2
  <2>4. p % PageSize \in Nat /\ p % PageSize < PageSize /\ q % PageSize \in Nat /\ q % PageSize < PageSize
    BY <1>5, Quotient
  <2>5. rows[s][at(p)] = rows[t][at(q)] /\ p % PageSize = q % PageSize
    <3> DEFINE a == rows[s][at(p)]
               b == rows[t][at(q)]
               x == p % PageSize
               y == q % PageSize
    <3>1. a \in Nat /\ b \in Nat
      BY <2>1, <2>2 DEF Pages
    <3> HIDE DEF a, b, x, y
    <3>2. a = b /\ x = y
      BY <2>3, <2>4, <3>1, SlotsDiffer DEF a, b, x, y
    <3>. QED
      BY <3>2 DEF a, b, x, y
  <2>6. at(q) \in 1 .. BlockTableStride /\ at(p) \in 1 .. BlockTableStride
    BY <1>5, <1>6, <2>1, <2>2
  <2>7. s = t
    <3>1. rows[t][at(q)] \in Range(rows[t])
      BY <2>6 DEF Range, rows, RowsAfter
    <3>. QED
      BY <2>1, <2>5, <3>1
  <2>8. at(p) = at(q)
    <3>1. at(q) \in 1 .. DivCeil(allocated'[s])
      BY <1>6, <2>2, <2>7
    <3>2. rows[s][at(p)] = rows[s][at(q)]
      BY <2>5, <2>7
    <3> HIDE DEF at
    <3>. QED
      BY <2>6, <3>1, <3>2 DEF RowsSound, RowsFilled, rows
  <2>9. p = q
    <3> DEFINE x == p \div PageSize
               y == q \div PageSize
    <3>1. /\ x \in Nat /\ p = x * PageSize + (p % PageSize)
          /\ y \in Nat /\ q = y * PageSize + (q % PageSize)
      BY <1>5, Quotient
    <3>2. x + 1 = y + 1
      BY <2>8
    <3> HIDE DEF x, y
    <3>3. x = y
      BY <3>1, <3>2
    <3>. QED
      BY <2>5, <3>1, <3>3
  <2>. QED
    BY <1>4, <2>1, <2>2, <2>7, <2>9
<1>10. IsInjective(st.physical_slots)
  BY <1>7, <1>9 DEF IsInjective
<1>11. step' = st /\ table' = rows
  BY DEF st, rows
<1>. QED
  BY <1>7, <1>8, <1>10, <1>11 DEF StoresRight

\* The prefill kernels get whole sequences, and the longest is known.
LEMMA StepSeesAll ==
  ASSUME RowsSound, NEW segments \in Steps, NEW fresh \in Taken(NewPages(segments)),
         step' = StepOf(segments, RowsAfter(fresh)),
         prefill' = NoPrefill \/ prefill' = PrefillFlags(segments)
  PROVE  PrefillSeesWholeSequence'
<1> DEFINE st == StepOf(segments, RowsAfter(fresh))
           n == Len(segments)
           offsets == Offsets(segments)
           longest == Max({segments[k].tokens : k \in DOMAIN segments})
<1>1. RowTypes
  BY DEF RowsSound
<1>2. CASE prefill' = NoPrefill
  BY <1>2 DEF PrefillSeesWholeSequence, NoPrefill
<1>3. CASE prefill' = PrefillFlags(segments)
  <2>1. /\ n \in Nat /\ DOMAIN segments = 1 .. n
        /\ \A k \in 1 .. n : segments[k].slot \in Slots /\ segments[k].tokens \in Nat
    BY StepShape, Sizes
  <2>2. \A k \in 1 .. n :
          /\ offsets[k] \in Nat /\ offsets[k] + 1 \in 1 .. TokensOfStep(segments)
          /\ RowsOf(segments)[offsets[k] + 1]
               = <<segments[k].slot, allocated[segments[k].slot] + (1 - 1)>>
          /\ offsets[k + 1] = offsets[k] + segments[k].tokens
    BY StepRows DEF RowsInOrder
  <2>3. StepTypes(st, TokensOfStep(segments), n) /\ st.segment_offsets = offsets
    <3>1. st.segment_offsets = offsets
      BY DEF StepOf
    <3> HIDE DEF offsets
    <3>. QED
      BY <3>1, StepOfIs
  <2>4. ASSUME NEW k \in 1 .. n
        PROVE  st.positions[offsets[k] + 1] = allocated[segments[k].slot] + (1 - 1)
    <3> DEFINE i == offsets[k] + 1
               s == segments[k].slot
               p == allocated[s] + (1 - 1)
    <3>1. i \in 1 .. TokensOfStep(segments) /\ RowsOf(segments)[i] = <<s, p>>
      BY <2>2
    <3> HIDE DEF i, p
    <3>2. st.positions[i] = p
      BY <3>1, StepOfIs
    <3>. QED
      BY <3>2 DEF i, p
  <2>5. DOMAIN st.segment_slots = 1 .. n /\ Len(st.segment_slots) = n
    <3>1. st.segment_slots \in [1 .. n -> Slots]
      BY <2>3 DEF StepTypes
    <3>. QED
      BY <2>1, <3>1
  <2>6. /\ prefill'.contiguous => n = 1 /\ \A k \in 1 .. n : allocated[segments[k].slot] = 0
        /\ prefill'.segmented => prefill'.longest = longest /\ \A k \in 1 .. n : allocated[segments[k].slot] = 0
    BY <1>3, <2>1 DEF PrefillFlags
  <2>7. \A k \in 1 .. n : segments[k].tokens <= longest
    <3> DEFINE S == {segments[k].tokens : k \in 1 .. n}
               f == [k \in 1 .. n |-> segments[k].tokens]
    <3>1. S \subseteq Nat /\ f \in Surjection(1 .. n, S)
      BY <2>1 DEF Surjection
    <3>2. IsFiniteSet(1 .. n)
      <4>1. 1 \in Int /\ n \in Int
        BY <2>1
      <4>. QED
        BY <4>1, FS_Interval, Zenon
    <3>3. IsFiniteSet(S)
      BY <3>1, <3>2, FS_Surjection
    <3>4. ASSUME NEW k \in 1 .. n PROVE segments[k].tokens <= Max(S)
      <4>1. segments[k].tokens \in S
        OBVIOUS
      <4> HIDE DEF S
      <4>. QED
        BY <3>1, <3>3, <4>1, MaxOfFinite
    <3>. QED
      BY <2>1, <3>4
  <2> HIDE DEF st, n, offsets, longest
  <2>8. ASSUME prefill'.contiguous \/ prefill'.segmented, NEW k \in 1 .. n
        PROVE  /\ st.positions[st.segment_offsets[k] + 1] = 0
               /\ prefill'.contiguous => Len(st.segment_slots) = 1
               /\ prefill'.segmented =>
                    st.segment_offsets[k + 1] - st.segment_offsets[k] <= prefill'.longest
    <3>1. allocated[segments[k].slot] = 0
      BY <2>6, <2>8
    <3>2. st.positions[st.segment_offsets[k] + 1] = 0
      BY <2>3, <2>4, <3>1
    <3>3. st.segment_offsets[k + 1] - st.segment_offsets[k] = segments[k].tokens
      BY <2>1, <2>2, <2>3
    <3>. QED
      BY <2>5, <2>6, <2>7, <3>2, <3>3
  <2>9. step' = st
    BY DEF st
  <2>. QED
    BY <2>5, <2>8, <2>9 DEF PrefillSeesWholeSequence
<1>. QED
  BY <1>2, <1>3

\* The arrays and their shapes stay within the allocations.
ShapesFit == \A a \in Arrays : shape[a] <= Capacity(a) /\ Len(device[a]) <= Capacity(a)

\* The parts of StepSound, as the proof handles them.
LEMMA SoundParts == StepSound <=> RowsSound /\ ShapesFit /\ StepDelivered /\ PrefillSeesWholeSequence
BY DEF StepSound, BatchTypeOK, RowsSound, RowTypes, ShapesFit

\* A step leaves everything in order.
LEMMA PrepareSound ==
  ASSUME StepSound, NEW segments \in Steps, NEW decode \in BOOLEAN,
         NEW fresh \in Taken(NewPages(segments)), Prepare(segments, decode, fresh)
  PROVE  StepSound' /\ StoresRight
<1> DEFINE st == StepOf(segments, RowsAfter(fresh))
<1>1. RowsSound
  BY SoundParts
<1>2. /\ table' = RowsAfter(fresh) /\ UNCHANGED published
      /\ allocated' = [s \in Slots |-> allocated[s] + NewTokens(segments, s)]
      /\ block_tables' = TablesAfter(segments, RowsAfter(fresh))
      /\ step' = st
  BY DEF Prepare, PrepareTokens
<1>3. prefill' = NoPrefill \/ prefill' = PrefillFlags(segments)
  BY DEF Prepare
<1>4. RowsSound'
  BY <1>1, <1>2, PrepareTokensSound
<1>5. StoresRight
  <2>1. \A s \in Slots : allocated'[s] = allocated[s] + NewTokens(segments, s)
    BY <1>2
  <2>. QED
    BY <1>1, <1>2, <1>4, <2>1, StepStores
<1>6. PrefillSeesWholeSequence'
  BY <1>1, <1>2, <1>3, StepSeesAll
<1>7. /\ \A a \in Arrays \ {"physical_slots"} : Logical(a)' = Words(st[a])
      /\ Logical("physical_slots")' = [i \in DOMAIN st.physical_slots |-> I64(st.physical_slots[i])]
      /\ \A a \in Arrays : shape'[a] <= Capacity(a) /\ Len(device'[a]) <= Capacity(a)
  <2> DEFINE T == TokensOfStep(segments)
             n == Len(segments)
  <2>1. StepTypes(st, T, n)
    BY <1>1, StepOfIs
  <2>2. T \in Nat /\ n \in Nat /\ T <= MaximumTokens /\ n <= RequestSlots
    <3>1. T \in Nat
      BY StepRows DEF RowsInOrder
    <3>. QED
      BY <3>1, StepShape, Sizes
  <2>3. Upload(st)
    BY <1>2 DEF Prepare, Upload
  <2> HIDE DEF st, T, n
  <2>. QED
    BY <2>1, <2>2, <2>3, UploadDelivers
<1>8. StepDelivered' /\ ShapesFit'
  BY <1>2, <1>7 DEF StepDelivered, ShapesFit
<1>. QED
  BY <1>4, <1>5, <1>6, <1>8, SoundParts, PTL

\* Between steps there is nothing to read.
LEMMA StepOverSound ==
  ASSUME StepSound, StepOver
  PROVE  ShapesFit' /\ StepDelivered' /\ PrefillSeesWholeSequence' /\ StoresRight
<1>1. ShapesFit
  BY SoundParts
<1>2. step' = << >> /\ device' = Nothing /\ shape' = shape
  BY DEF StepOver
<1>3. ShapesFit'
  <2>1. ASSUME NEW a \in Arrays PROVE Len(device'[a]) <= Capacity(a)
    <3>1. device'[a] = << >>
      BY <1>2 DEF Nothing
    <3>2. Len(device'[a]) = 0
      BY <3>1
    <3>3. Capacity(a) \in Nat
      BY Sizes DEF Capacity
    <3>. QED
      BY <3>2, <3>3
  <2>. QED
    BY <1>1, <1>2, <2>1 DEF ShapesFit
<1>. QED
  BY <1>2, <1>3 DEF StepDelivered, PrefillSeesWholeSequence, StoresRight

\* The batch starts in order.
LEMMA InitSound == Init => StepSound
<1> SUFFICES ASSUME Init PROVE StepSound
  OBVIOUS
<1>1. /\ BlockTableStride \in Nat /\ PageSize \in Nat \ {0} /\ PhysicalPages \in Nat \ {0}
      /\ BlockTableStride * PageSize \in Nat
  BY Sizes
<1>2. /\ table = [s \in Slots |-> [i \in 1 .. BlockTableStride |-> NoPage]]
      /\ allocated = [s \in Slots |-> 0] /\ published = {} /\ step = << >>
      /\ block_tables = [i \in 1 .. RequestSlots * BlockTableStride |-> 0]
      /\ device = Nothing /\ shape = [a \in Arrays |-> Capacity(a)]
  BY DEF Init
<1>3. RowTypes
  <2>1. 0 \in 0 .. BlockTableStride * PageSize /\ 0 \in Pages
    BY <1>1 DEF Pages
  <2>. QED
    BY <1>2, <2>1 DEF RowTypes
<1>4. \A s \in Slots : DivCeil(allocated[s]) = 0 /\ ~(allocated[s] % PageSize # 0)
  <2>1. DivCeil(0) = 0 /\ 0 % PageSize = 0
    BY <1>1, WholePages
  <2>. QED
    BY <1>2, <2>1
<1>5. RowsFilled /\ OpenPagePrivate /\ DeviceRowsMatch
  BY <1>2, <1>4 DEF RowsFilled, OpenPagePrivate, DeviceRowsMatch
<1>6. ShapesFit
  <2>1. ASSUME NEW a \in Arrays PROVE shape[a] <= Capacity(a) /\ Len(device[a]) <= Capacity(a)
    <3>1. device[a] = << >> /\ shape[a] = Capacity(a)
      BY <1>2 DEF Nothing
    <3>2. Len(device[a]) = 0
      BY <3>1
    <3>3. Capacity(a) \in Nat
      BY Sizes DEF Capacity
    <3>. QED
      BY <3>1, <3>2, <3>3
  <2>. QED
    BY <2>1 DEF ShapesFit
<1>7. StepDelivered /\ PrefillSeesWholeSequence
  BY <1>2 DEF StepDelivered, PrefillSeesWholeSequence
<1>. QED
  BY <1>3, <1>5, <1>6, <1>7, SoundParts DEF RowsSound

\* and no action disturbs the order.
LEMMA NextSound ==
  ASSUME StepSound, Next
  PROVE  StepSound' /\ StoresRight
<1>1. RowsSound
  BY SoundParts
<1>2. ASSUME RowsSound', StepOver PROVE StepSound' /\ StoresRight
  <2>1. ShapesFit' /\ StepDelivered' /\ PrefillSeesWholeSequence' /\ StoresRight
    BY <1>2, StepOverSound
  <2>. QED
    BY <1>2, <2>1, SoundParts, PTL
<1>3. ASSUME NEW s \in Slots, NEW pages \in SeqOf(published, BlockTableStride),
             IsInjective(pages), AttachPrefix(s, pages)
      PROVE  StepSound' /\ StoresRight
  <2>1. RowsSound'
    BY <1>1, <1>3, AttachPrefixSound
  <2>2. StepOver
    BY <1>3 DEF AttachPrefix
  <2>. QED
    BY <1>2, <2>1, <2>2
<1>4. ASSUME NEW s \in Slots, Publish(s) PROVE StepSound' /\ StoresRight
  <2>1. RowsSound'
    BY <1>1, <1>4, PublishSound
  <2>2. StepOver
    BY <1>4 DEF Publish
  <2>. QED
    BY <1>2, <2>1, <2>2
<1>5. ASSUME NEW s \in Slots, Release(s) PROVE StepSound' /\ StoresRight
  <2>1. RowsSound'
    BY <1>1, <1>5, ReleaseSound
  <2>2. StepOver
    BY <1>5 DEF Release
  <2>. QED
    BY <1>2, <2>1, <2>2
<1>6. ASSUME NEW s \in Slots, NEW tokens \in 1 .. BlockTableStride * PageSize,
             NEW fresh \in Taken(1 .. DivCeil(tokens)), PrimeContext(s, tokens, fresh)
      PROVE  StepSound' /\ StoresRight
  <2>1. RowsSound'
    BY <1>1, <1>6, PrimeContextSound
  <2>2. StepOver
    BY <1>6 DEF PrimeContext
  <2>. QED
    BY <1>2, <2>1, <2>2
<1>7. CASE PrepareStep
  <2>1. PICK segments \in Steps : \E decode \in BOOLEAN, fresh \in Taken(NewPages(segments)) :
          Prepare(segments, decode, fresh)
    BY <1>7 DEF PrepareStep
  <2>2. PICK decode \in BOOLEAN, fresh \in Taken(NewPages(segments)) : Prepare(segments, decode, fresh)
    BY <2>1
  <2>. QED
    BY <2>2, PrepareSound
<1>. QED
  BY <1>3, <1>4, <1>5, <1>6, <1>7 DEF Next

\* Standing still disturbs nothing.
LEMMA StutterSound ==
  ASSUME StepSound, UNCHANGED vars
  PROVE  StepSound'
BY DEF vars, row_vars, batch_vars, StepSound, BatchTypeOK, RowsFilled, OpenPagePrivate, StepDelivered,
       DeviceRowsMatch, PrefillSeesWholeSequence, Logical

\* The kernels of every step see the step that was prepared, in full, and the
\* rows of its requests, for all sizes of the batch (BatchMetadata::update_step
\* and update_segments, MetadataKernels and the table updates of
\* Lfm2BatchModelCache).
THEOREM StepIsSound == Spec => []StepSound
<1>1. Init => StepSound
  BY InitSound
<1>2. StepSound /\ [Next]_vars => StepSound'
  BY NextSound, StutterSound
<1>. QED
  BY <1>1, <1>2, PTL DEF Spec

\* The K/V of a token is stored in a place of its own, where attention will look
\* for it, and never in a page that somebody else can read (prepare_tokens and
\* grow_sequence).
THEOREM StoredIsRead == Spec => StoredWhereRead
<1>1. StepSound /\ Next => StoresRight
  BY NextSound
<1>. QED
  BY <1>1, StepIsSound, PTL DEF Spec, StoredWhereRead, StoresRight
=====================================================================================
