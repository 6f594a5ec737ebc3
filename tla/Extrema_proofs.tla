---------------------------- MODULE Extrema_proofs ----------------------------
(***************************************************************************)
(* Least and greatest elements of sets of natural numbers.  They take the  *)
(* place of induction in the other proofs: of the numbers for which a      *)
(* claim could fail the least is looked at.  And the layout of the rows of *)
(* a step, which attention and the batch metadata share.                   *)
(***************************************************************************)
EXTENDS StepLayout, FiniteSetsExt, FiniteSetTheorems, WellFoundedInduction, TLAPS

\* A non-empty set of natural numbers has a least element.
LEMMA LeastExists ==
  ASSUME NEW S, S \subseteq Nat, S # {}
  PROVE  \E m \in S : \A n \in S : m <= n
<1> DEFINE R == OpToRel(<, Nat)
<1>1. IsWellFoundedOn(R, Nat)
  BY NatLessThanWellFounded
<1>2. \A x, y \in Nat : x < y => <<x, y>> \in R
  BY DEF OpToRel
<1> HIDE DEF R
<1>3. PICK m \in S : \A n \in S : ~(<<n, m>> \in R)
  BY <1>1, WFMin
<1>4. \A n \in S : n \in Nat /\ m \in Nat /\ ~(n < m)
  BY <1>2, <1>3
<1>5. \A n \in S : m <= n
  BY <1>4
<1>. QED
  BY <1>5

\* One that is bounded has a greatest element.
LEMMA GreatestExists ==
  ASSUME NEW S, S \subseteq Nat, S # {}, NEW b \in Nat, \A n \in S : n <= b
  PROVE  \E m \in S : \A n \in S : n <= m
<1> DEFINE D == {d \in Nat : b - d \in S}
<1>1. \A n \in S : b - n \in D
  <2>1. ASSUME NEW n \in S PROVE n \in Nat /\ b - n \in Nat /\ b - (b - n) = n
    OBVIOUS
  <2>. QED
    BY <2>1
<1>2. D \subseteq Nat /\ D # {}
  BY <1>1
<1> HIDE DEF D
<1>3. PICK d \in D : \A e \in D : d <= e
  BY <1>2, LeastExists
<1>4. d \in Nat /\ b - d \in S
  BY DEF D
<1>5. ASSUME NEW n \in S PROVE n <= b - d
  <2>1. n \in Nat /\ d <= b - n
    BY <1>1, <1>3
  <2>. QED
    BY <1>4, <2>1
<1>. QED
  BY <1>4, <1>5

\* Finitely many numbers have a bound.
LEMMA FiniteBounded ==
  ASSUME NEW S, IsFiniteSet(S), S \subseteq Nat
  PROVE  \E b \in Nat : \A n \in S : n <= b
<1> DEFINE D == {k \in Nat : \E T \in SUBSET S : Cardinality(T) = k /\ \A b \in Nat : \E n \in T : ~(n <= b)}
<1>1. SUFFICES ASSUME D # {} PROVE FALSE
  <2>1. Cardinality(S) \in Nat /\ S \in SUBSET S
    BY FS_CardinalityType
  <2>2. Cardinality(S) \notin D
    BY <1>1
  <2>. QED
    BY <2>1, <2>2
<1>2. D \subseteq Nat
  OBVIOUS
<1>3. \A k : k \in D <=> k \in Nat /\ \E T \in SUBSET S :
                           Cardinality(T) = k /\ \A b \in Nat : \E n \in T : ~(n <= b)
  OBVIOUS
<1> HIDE DEF D
<1>4. PICK k \in D : \A j \in D : k <= j
  BY <1>1, <1>2, LeastExists
<1>5. PICK T \in SUBSET S : Cardinality(T) = k /\ \A b \in Nat : \E n \in T : ~(n <= b)
  BY <1>3
<1>6. PICK m \in T : TRUE
  BY <1>5
<1>7. m \in Nat
  OBVIOUS
<1>8. IsFiniteSet(T)
  BY FS_Subset
<1>9. T \ {m} \in SUBSET S /\ Cardinality(T \ {m}) = k - 1
  BY <1>5, <1>8, FS_RemoveElement
<1>10. Cardinality(T \ {m}) \in Nat
  BY <1>8, FS_RemoveElement, FS_CardinalityType
<1>11. k - 1 \notin D
  BY <1>2, <1>4
<1>12. PICK b \in Nat : \A n \in T \ {m} : n <= b
  BY <1>3, <1>9, <1>10, <1>11
<1> DEFINE c == b + m
<1>13. c \in Nat /\ \A n \in T : n <= c
  <2>1. \A n \in T : n \in Nat
    OBVIOUS
  <2>. QED
    BY <1>7, <1>12, <2>1
<1>. QED
  BY <1>5, <1>13

\* The greatest element of a finite set of numbers is one.
LEMMA MaxOfFinite ==
  ASSUME NEW S, IsFiniteSet(S), S \subseteq Nat, S # {}
  PROVE  Max(S) \in S /\ \A n \in S : n <= Max(S)
<1>1. PICK b \in Nat : \A n \in S : n <= b
  BY FiniteBounded
<1>2. \E m \in S : \A n \in S : n <= m
  BY <1>1, GreatestExists
<1>3. \A m, n \in S : m >= n <=> n <= m
  OBVIOUS
<1>. QED
  BY <1>2, <1>3 DEF Max

\* Products of positive numbers are positive.
LEMMA TimesPositive == \A m, n \in Nat \ {0} : m * n \in Nat \ {0}
OBVIOUS

\* Products of numbers are numbers.
LEMMA TimesNat == \A m, n \in Nat : m * n \in Nat
OBVIOUS

\* Scaling by a number keeps an order.
LEMMA ScaleUp == \A m, n, s \in Nat : m <= n => m * s <= n * s
<1> SUFFICES ASSUME NEW m \in Nat, NEW n \in Nat, NEW s \in Nat, m <= n PROVE m * s <= n * s
  OBVIOUS
<1>1. n - m \in Nat
  OBVIOUS
<1>2. (n - m) * s \in Nat
  BY <1>1, TimesNat
<1>3. (n - m) * s = n * s - m * s
  OBVIOUS
<1>. QED
  BY <1>2, <1>3

\* A positive factor can be taken away.
LEMMA ScaleDown == \A m, n \in Nat, s \in Nat \ {0} : m * s <= n * s => m <= n
<1> SUFFICES ASSUME NEW m \in Nat, NEW n \in Nat, NEW s \in Nat \ {0}, ~(m <= n)
             PROVE  ~(m * s <= n * s)
  OBVIOUS
<1>1. m - n \in Nat \ {0}
  OBVIOUS
<1>2. (m - n) * s \in Nat \ {0}
  BY <1>1, TimesPositive
<1>3. (m - n) * s = m * s - n * s
  OBVIOUS
<1>4. m * s \in Nat /\ n * s \in Nat
  OBVIOUS
<1>. QED
  BY <1>2, <1>3, <1>4

--------------------------------------------------------------------------------
(* The rows of a step *)

\* A segment of n tokens has n tokens.
LEMMA SegmentTokens ==
  ASSUME NEW s, NEW n \in Nat
  PROVE  IsFiniteSet({s} \X (1 .. n)) /\ Cardinality({s} \X (1 .. n)) = n
<1>1. 1 \in Int /\ n \in Int /\ (1 > n => n = 0) /\ n - 1 + 1 = n
  OBVIOUS
<1>2. IsFiniteSet(1 .. n) /\ Cardinality(1 .. n) = IF 1 > n THEN 0 ELSE n - 1 + 1
  BY <1>1, FS_Interval, Zenon
<1>3. IsFiniteSet(1 .. n) /\ Cardinality(1 .. n) = n
  BY <1>1, <1>2
<1>4. IsFiniteSet({s}) /\ Cardinality({s}) = 1
  BY FS_Singleton
<1>5. IsFiniteSet({s} \X (1 .. n)) /\ Cardinality({s} \X (1 .. n)) = Cardinality({s}) * Cardinality(1 .. n)
  BY <1>3, <1>4, FS_Product
<1>. QED
  BY <1>3, <1>4, <1>5

\* Finitely many segments have finitely many tokens.
LEMMA RowTokensFinite ==
  ASSUME NEW S, IsFiniteSet(S), NEW count \in [S -> Nat]
  PROVE  IsFiniteSet(RowTokens(count))
<1> DEFINE T == {{s} \X (1 .. count[s]) : s \in S}
           f == [s \in S |-> {s} \X (1 .. count[s])]
<1>1. f \in Surjection(S, T)
  BY DEF Surjection
<1>2. IsFiniteSet(T)
  BY <1>1, FS_Surjection
<1>3. \A t \in T : IsFiniteSet(t)
  BY SegmentTokens
<1>4. IsFiniteSet(UNION T)
  <2> HIDE DEF T
  <2>. QED
    BY <1>2, <1>3, FS_UNION
<1>. QED
  BY <1>4 DEF RowTokens

\* The rows before a segment are counted by a natural number, at most all rows.
LEMMA RowsBeforeType ==
  ASSUME NEW S, IsFiniteSet(S), NEW count \in [S -> Nat], NEW t
  PROVE  /\ RowsBefore(count, t) \in Nat
         /\ Cardinality(RowTokens(count)) \in Nat
         /\ RowsBefore(count, t) <= Cardinality(RowTokens(count))
         /\ IsFiniteSet({token \in RowTokens(count) : token[1] < t})
<1>1. IsFiniteSet(RowTokens(count))
  BY RowTokensFinite
<1>2. {token \in RowTokens(count) : token[1] < t} \in SUBSET RowTokens(count)
  OBVIOUS
<1>. QED
  BY <1>1, <1>2, FS_Subset, FS_CardinalityType DEF RowsBefore

\* A segment's rows come after those before it: directly, if none is in between.
LEMMA RowsBeforeStep ==
  ASSUME NEW S, IsFiniteSet(S), S \subseteq Nat, NEW count \in [S -> Nat],
         NEW s \in S, NEW t \in Nat, s < t
  PROVE  /\ RowsBefore(count, s) + count[s] <= RowsBefore(count, t)
         /\ (\A u \in S : ~(s < u /\ u < t)) =>
              RowsBefore(count, t) = RowsBefore(count, s) + count[s]
<1> DEFINE A == {token \in RowTokens(count) : token[1] < s}
           B == {s} \X (1 .. count[s])
           C == {token \in RowTokens(count) : token[1] < t}
<1>0. \A x : x \in RowTokens(count) <=> \E u \in S, k \in Nat : k \in 1 .. count[u] /\ x = <<u, k>>
  BY DEF RowTokens
<1>1. IsFiniteSet(A) /\ Cardinality(A) = RowsBefore(count, s) /\ Cardinality(A) \in Nat
  BY RowsBeforeType DEF RowsBefore
<1>2. IsFiniteSet(C) /\ Cardinality(C) = RowsBefore(count, t) /\ Cardinality(C) \in Nat
  BY RowsBeforeType DEF RowsBefore
<1>3. count[s] \in Nat /\ IsFiniteSet(B) /\ Cardinality(B) = count[s]
  BY SegmentTokens
<1>4. \A x \in A : \E u \in S : \E k \in 1 .. count[u] : x = <<u, k>> /\ u < s
  BY <1>0
<1>5. \A x \in B : x[1] = s
  OBVIOUS
<1>6. A \cap B = {}
  <2>1. \A u \in S : u < s => u # s
    OBVIOUS
  <2>. QED
    BY <1>4, <1>5, <2>1
<1>7. \A x \in A : x \in C
  <2>1. \A u \in S : u < s => u < t
    OBVIOUS
  <2>. QED
    BY <1>4, <2>1
<1>8. \A x \in B : x \in C
  BY <1>0
<1>9. IsFiniteSet(A \cup B) /\ Cardinality(A \cup B) = Cardinality(A) + Cardinality(B) - Cardinality(A \cap B)
  BY <1>1, <1>3, FS_Union
<1>10. Cardinality(A \cap B) = 0
  BY <1>6, FS_EmptySet
<1>11. Cardinality(A \cup B) = RowsBefore(count, s) + count[s]
  BY <1>1, <1>3, <1>9, <1>10
<1>12. A \cup B \in SUBSET C
  BY <1>7, <1>8
<1>13. Cardinality(A \cup B) <= Cardinality(C)
  BY <1>2, <1>12, FS_Subset
<1>14. ASSUME \A u \in S : ~(s < u /\ u < t) PROVE A \cup B = C
  <2>1. ASSUME NEW x \in C PROVE x \in A \cup B
    <3>1. PICK u \in S : \E k \in 1 .. count[u] : x = <<u, k>> /\ u < t
      BY <1>0, x \in RowTokens(count) /\ x[1] < t
    <3>2. u < s \/ u = s
      BY <1>14, <3>1
    <3>. QED
      BY <3>1, <3>2
  <2>. QED
    BY <1>12, <2>1
<1>. QED
  BY <1>2, <1>11, <1>13, <1>14

\* A number greater than all segments has all rows before it, and no segment ends later.
LEMMA RowsBeforeEnd ==
  ASSUME NEW S, IsFiniteSet(S), S \subseteq Nat, NEW count \in [S -> Nat]
  PROVE  /\ \A t : (\A s \in S : s < t) => RowsBefore(count, t) = Cardinality(RowTokens(count))
         /\ \A s \in S : RowsBefore(count, s) + count[s] <= Cardinality(RowTokens(count))
<1>0. \A x : x \in RowTokens(count) <=> \E u \in S, k \in Nat : k \in 1 .. count[u] /\ x = <<u, k>>
  BY DEF RowTokens
<1>1. ASSUME NEW t, \A s \in S : s < t
      PROVE  RowsBefore(count, t) = Cardinality(RowTokens(count))
  <2>1. \A token \in RowTokens(count) : token[1] < t
    BY <1>0, <1>1
  <2>2. {token \in RowTokens(count) : token[1] < t} = RowTokens(count)
    BY <2>1
  <2>. QED
    BY <2>2 DEF RowsBefore
<1>2. ASSUME NEW s \in S PROVE RowsBefore(count, s) + count[s] <= Cardinality(RowTokens(count))
  <2>1. s \in Nat /\ s + 1 \in Nat /\ s < s + 1
    OBVIOUS
  <2>2. RowsBefore(count, s) + count[s] <= RowsBefore(count, s + 1)
    BY <2>1, RowsBeforeStep
  <2>3. RowsBefore(count, s + 1) <= Cardinality(RowTokens(count))
    BY RowsBeforeType
  <2>4. /\ RowsBefore(count, s) \in Nat /\ RowsBefore(count, s + 1) \in Nat
        /\ Cardinality(RowTokens(count)) \in Nat /\ count[s] \in Nat
    BY RowsBeforeType
  <2>. QED
    BY <2>2, <2>3, <2>4
<1>. QED
  BY <1>1, <1>2

\* Every row belongs to exactly one token, and every token has its row.
LaidInOrder(S, count) ==
  /\ DOMAIN Layout(count) = 1 .. Cardinality(RowTokens(count))
  /\ Cardinality(RowTokens(count)) \in Nat
  /\ \A i \in DOMAIN Layout(count) : \E s \in S, k \in Nat :
       k \in 1 .. count[s] /\ Layout(count)[i] = <<s, k>> /\ i = RowsBefore(count, s) + k
  /\ \A s \in S, k \in Nat : k \in 1 .. count[s] =>
       /\ RowsBefore(count, s) + k \in DOMAIN Layout(count)
       /\ Layout(count)[RowsBefore(count, s) + k] = <<s, k>>

\* The layout of any finite number of segments is of that kind.
LEMMA LayoutIs ==
  ASSUME NEW S, IsFiniteSet(S), S \subseteq Nat, NEW count \in [S -> Nat]
  PROVE  LaidInOrder(S, count)
<1> DEFINE N == Cardinality(RowTokens(count))
           before == [s \in S |-> RowsBefore(count, s)]
           segment(i) == CHOOSE s \in S : i - before[s] \in 1 .. count[s]
<1>1. N \in Nat /\ before \in [S -> Nat] /\ \A s \in S : before[s] = RowsBefore(count, s)
  BY RowsBeforeType
<1>2. DOMAIN Layout(count) = 1 .. N
      /\ \A i \in 1 .. N : Layout(count)[i] = <<segment(i), i - before[segment(i)]>>
  BY DEF Layout
<1>3. \A s, t \in S : s < t => before[s] + count[s] <= before[t]
  <2>1. S \subseteq Nat
    OBVIOUS
  <2>. QED
    BY <1>1, <2>1, RowsBeforeStep
<1>4. \A s \in S : before[s] + count[s] <= N
  BY <1>1, RowsBeforeEnd
<1>5. \A s \in S : s \in Nat /\ before[s] \in Nat /\ count[s] \in Nat
  BY <1>1
<1>6. ASSUME NEW i \in 1 .. N
      PROVE  \E s \in S : i - before[s] \in 1 .. count[s]
  <2> DEFINE A == {s \in S : before[s] < i}
  <2>1. S # {}
    <3>1. SUFFICES ASSUME S = {} PROVE FALSE
      OBVIOUS
    <3>2. RowTokens(count) = {}
      BY <3>1 DEF RowTokens
    <3>3. N = 0
      BY <3>2, FS_EmptySet
    <3>. QED
      BY <3>3
  <2>2. PICK first \in S : \A s \in S : first <= s
    BY <2>1, LeastExists
  <2>3. before[first] = 0
    <3>1. \A token \in RowTokens(count) : ~(token[1] < first)
      <4>1. \A s \in S : ~(s < first)
        BY <1>5, <2>2
      <4>. QED
        BY <4>1 DEF RowTokens
    <3>2. {token \in RowTokens(count) : token[1] < first} = {}
      BY <3>1
    <3>. QED
      BY <1>1, <3>2, FS_EmptySet DEF RowsBefore
  <2>4. first \in A /\ A \subseteq Nat
    <3>1. 0 < i
      BY <1>1
    <3>. QED
      BY <1>5, <2>3, <3>1
  <2>5. \E b \in Nat : \A s \in A : s <= b
    <3>1. IsFiniteSet(S) /\ S \subseteq Nat
      OBVIOUS
    <3>. QED
      BY <3>1, FiniteBounded
  <2>6. PICK s \in A : \A u \in A : u <= s
    <3>1. PICK b \in Nat : \A u \in A : u <= b
      BY <2>5
    <3> HIDE DEF A
    <3>. QED
      BY <2>4, <3>1, GreatestExists
  <2>7. s \in S /\ before[s] < i
    OBVIOUS
  <2>8. i <= before[s] + count[s]
    <3> DEFINE B == {u \in S : s < u}
    <3>1. CASE B = {}
      <4>1. \A u \in S : u < s + 1
        BY <1>5, <2>7, <3>1
      <4>2. RowsBefore(count, s + 1) = N
        BY <4>1, RowsBeforeEnd
      <4>3. s + 1 \in Nat /\ s < s + 1 /\ \A u \in S : ~(s < u /\ u < s + 1)
        BY <1>5, <2>7
      <4>4. RowsBefore(count, s + 1) = RowsBefore(count, s) + count[s]
        BY <2>7, <4>3, RowsBeforeStep
      <4>. QED
        BY <1>1, <2>7, <4>2, <4>4
    <3>2. CASE B # {}
      <4>1. B \subseteq Nat
        OBVIOUS
      <4>2. PICK t \in B : \A u \in B : t <= u
        BY <3>2, <4>1, LeastExists
      <4>3. t \in S /\ s < t /\ t \in Nat
        OBVIOUS
      <4>4. \A u \in S : ~(s < u /\ u < t)
        BY <1>5, <4>2
      <4>5. RowsBefore(count, t) = RowsBefore(count, s) + count[s]
        BY <2>7, <4>3, <4>4, RowsBeforeStep
      <4>6. t \notin A
        BY <1>5, <2>6, <2>7, <4>3
      <4>7. ~(before[t] < i)
        BY <4>3, <4>6
      <4>. QED
        BY <1>1, <1>5, <2>7, <4>3, <4>5, <4>7
    <3>. QED
      BY <3>1, <3>2
  <2>9. i - before[s] \in 1 .. count[s]
    BY <1>5, <2>7, <2>8
  <2>. QED
    BY <2>7, <2>9
<1>7. ASSUME NEW i \in 1 .. N
      PROVE  segment(i) \in S /\ i - before[segment(i)] \in 1 .. count[segment(i)]
  BY <1>6
<1>8. ASSUME NEW s \in S, NEW k \in 1 .. count[s]
      PROVE  before[s] + k \in 1 .. N /\ segment(before[s] + k) = s
  <2>1. before[s] + k \in 1 .. N
    BY <1>1, <1>4, <1>5
  <2>2. ASSUME NEW t \in S, (before[s] + k) - before[t] \in 1 .. count[t] PROVE t = s
    <3>1. before[s] + k > before[t] /\ before[s] + k <= before[t] + count[t]
      BY <1>5, <2>2
    <3>2. ~(s < t)
      BY <1>3, <1>5, <3>1
    <3>3. ~(t < s)
      BY <1>3, <1>5, <3>1
    <3>. QED
      BY <1>5, <3>2, <3>3
  <2>3. segment(before[s] + k) \in S /\ (before[s] + k) - before[segment(before[s] + k)] \in 1 .. count[segment(before[s] + k)]
    BY <1>7, <2>1
  <2>. QED
    BY <2>1, <2>2, <2>3
<1>9. ASSUME NEW i \in 1 .. N
      PROVE  \E s \in S, k \in Nat :
               k \in 1 .. count[s] /\ Layout(count)[i] = <<s, k>> /\ i = RowsBefore(count, s) + k
  <2> DEFINE s == segment(i)
             k == i - before[s]
  <2>1. s \in S /\ k \in 1 .. count[s] /\ Layout(count)[i] = <<s, k>>
    BY <1>2, <1>7
  <2>2. i = before[s] + k
    <3>1. s \in S
      BY <2>1
    <3> HIDE DEF s, before
    <3>2. before[s] \in Nat /\ i \in Nat
      BY <1>1, <3>1
    <3>. QED
      BY <3>2
  <2> HIDE DEF s, k
  <2>3. k \in Nat
    BY <1>1, <2>1
  <2>. QED
    BY <1>1, <2>1, <2>2, <2>3
<1>10. ASSUME NEW s \in S, NEW k \in 1 .. count[s]
       PROVE  /\ RowsBefore(count, s) + k \in 1 .. N
              /\ Layout(count)[RowsBefore(count, s) + k] = <<s, k>>
  <2>1. before[s] + k \in 1 .. N /\ segment(before[s] + k) = s
    BY <1>8
  <2>2. (before[s] + k) - before[s] = k
    BY <1>5
  <2>. QED
    BY <1>1, <1>2, <2>1, <2>2
<1> HIDE DEF N, before, segment
<1>. QED
  BY <1>1, <1>2, <1>9, <1>10 DEF N, LaidInOrder
================================================================================
