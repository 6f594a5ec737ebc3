----------------------------- MODULE Planner_proofs -----------------------------
(***************************************************************************)
(* Whatever the measured latencies, the number of slots and the requests,  *)
(* the planner's plans keep within the step budget and fit the device      *)
(* batch.                                                                  *)
(***************************************************************************)
EXTENDS Planner, Extrema_proofs, FiniteSetTheorems, FunctionTheorems, TLAPS

(* Numbers *)

\* The least element is one.
LEMMA LeastIn ==
  ASSUME NEW S, S \subseteq Nat, S # {}
  PROVE  Least(S) \in S /\ \A n \in S : Least(S) <= n
BY LeastExists DEF Least

\* The greatest element of a bounded set is one.
LEMMA GreatestIn ==
  ASSUME NEW S, S \subseteq Nat, S # {}, NEW b \in Nat, \A n \in S : n <= b
  PROVE  Greatest(S) \in S /\ \A n \in S : n <= Greatest(S)
<1>1. \E m \in S : \A n \in S : n <= m
  BY GreatestExists
<1>2. \A m, n \in S : m >= n <=> n <= m
  OBVIOUS
<1>. QED
  BY <1>1, <1>2 DEF Greatest

\* The values at finitely many places have a bound.
LEMMA ValuesBounded ==
  ASSUME NEW n \in Nat, NEW f, \A i \in 1 .. n : f[i] \in Nat
  PROVE  \E b \in Nat : \A i \in 1 .. n : f[i] <= b
<1> DEFINE Unbounded == {k \in 0 .. n : \A b \in Nat : \E i \in 1 .. k : ~(f[i] <= b)}
<1>1. SUFFICES ASSUME Unbounded # {} PROVE FALSE
  <2>1. n \in 0 .. n
    OBVIOUS
  <2>2. n \notin Unbounded
    BY <1>1
  <2>. QED
    BY <2>1, <2>2
<1>2. Unbounded \subseteq Nat
  OBVIOUS
<1>3. \A k : k \in Unbounded <=> k \in 0 .. n /\ \A b \in Nat : \E i \in 1 .. k : ~(f[i] <= b)
  OBVIOUS
<1> HIDE DEF Unbounded
<1>4. PICK k \in Unbounded : \A j \in Unbounded : k <= j
  BY <1>1, <1>2, LeastExists
<1>5. k \in 0 .. n /\ \A b \in Nat : \E i \in 1 .. k : ~(f[i] <= b)
  BY <1>3
<1>6. k # 0
  BY <1>5
<1>7. k - 1 \in 0 .. n /\ ~(k <= k - 1)
  BY <1>5, <1>6
<1>8. k - 1 \notin Unbounded
  BY <1>4, <1>7
<1>9. PICK b \in Nat : \A i \in 1 .. k - 1 : f[i] <= b
  BY <1>7, <1>3, <1>8
<1>10. f[k] \in Nat
  BY <1>5, <1>6
<1> DEFINE c == IF f[k] <= b THEN b ELSE f[k]
<1>11. c \in Nat /\ b <= c /\ f[k] <= c
  BY <1>10
<1> HIDE DEF c
<1>12. ASSUME NEW i \in 1 .. k PROVE f[i] <= c
  <2>1. CASE i = k
    BY <1>11, <2>1
  <2>2. CASE i # k
    <3>1. i \in 1 .. k - 1 /\ i \in 1 .. n
      BY <1>5, <2>2
    <3>2. f[i] <= b /\ f[i] \in Nat
      BY <1>9, <3>1
    <3>. QED
      BY <1>11, <3>2
  <2>. QED
    BY <2>1, <2>2
<1>. QED
  BY <1>5, <1>11, <1>12

--------------------------------------------------------------------------------
(* Predictions are fractions *)

Fraction == [num : Nat, den : Nat \ {0}]

\* A prediction from two has a positive denominator again.
LEMMA FracType == \A n \in Nat, d \in Nat \ {0} : Frac(n, d) \in Fraction
BY DEF Frac, Fraction

\* Whole numbers are fractions.
LEMMA WholeType == \A n \in Nat : Whole(n) \in Fraction
BY FracType DEF Whole

\* What is known of a fraction.
LEMMA FractionParts ==
  ASSUME NEW a \in Fraction
  PROVE  a.num \in Nat /\ a.den \in Nat /\ a.den # 0 /\ a.den \in Nat \ {0}
BY DEF Fraction

\* Sums of fractions are fractions.
LEMMA Sum2Type ==
  ASSUME NEW a \in Fraction, NEW b \in Fraction
  PROVE  Sum2(a, b) \in Fraction
<1>1. /\ a.num \in Nat /\ a.den \in Nat /\ a.den \in Nat \ {0}
      /\ b.num \in Nat /\ b.den \in Nat /\ b.den \in Nat \ {0}
  BY FractionParts
<1>2. a.num + b.num \in Nat /\ a.num * b.den \in Nat /\ b.num * a.den \in Nat
  BY <1>1, TimesNat
<1>3. a.num * b.den + b.num * a.den \in Nat
  BY <1>2
<1>4. a.den * b.den \in Nat \ {0}
  BY <1>1, TimesPositive
<1>5. Frac(a.num + b.num, a.den) \in Fraction
  BY <1>1, <1>2, FracType
<1>6. Frac(a.num * b.den + b.num * a.den, a.den * b.den) \in Fraction
  BY <1>3, <1>4, FracType
<1>. QED
  BY <1>5, <1>6, Zenon DEF Sum2

\* So is what lies between two, at an offset within the span.
LEMMA BetweenType ==
  ASSUME NEW a \in Fraction, NEW b \in Fraction, NEW offset \in Nat, NEW span \in Nat,
         offset <= span
  PROVE  Between(a, b, offset, span) \in Fraction
<1>1. CASE offset = 0
  BY <1>1, Zenon DEF Between
<1>2. CASE offset # 0
  <2>1. a.num \in Nat /\ a.den \in Nat \ {0} /\ b.num \in Nat /\ b.den \in Nat \ {0}
    BY FractionParts
  <2>2. span \in Nat \ {0} /\ span - offset \in Nat
    BY <1>2
  <2>3. /\ a.num * (span - offset) \in Nat /\ b.num * offset \in Nat
        /\ a.den * span \in Nat \ {0} /\ b.den * span \in Nat \ {0}
    BY <2>1, <2>2, TimesNat, TimesPositive
  <2>4. /\ Frac(a.num * (span - offset), a.den * span) \in Fraction
        /\ Frac(b.num * offset, b.den * span) \in Fraction
    BY <2>3, FracType
  <2>5. Sum2(Frac(a.num * (span - offset), a.den * span), Frac(b.num * offset, b.den * span))
          \in Fraction
    BY <2>4, Sum2Type
  <2>. QED
    BY <1>2, <2>5, Zenon DEF Between
<1>. QED
  BY <1>1, <1>2

\* Of two fractions one is at most the other.
LEMMA Comparable ==
  ASSUME NEW a \in Fraction, NEW b \in Fraction
  PROVE  /\ AtMost(a, b) \/ AtMost(b, a)
         /\ AtMost(a, a)
         /\ Under(a, b) => AtMost(a, b)
<1>1. /\ a.num \in Nat /\ a.den \in Nat
      /\ b.num \in Nat /\ b.den \in Nat
  BY FractionParts
<1> DEFINE x == a.num * b.den
           y == b.num * a.den
           z == a.num * a.den
<1>2. x \in Nat /\ y \in Nat /\ z \in Nat
  BY <1>1, TimesNat
<1>3. /\ AtMost(a, b) = (x <= y)
      /\ AtMost(b, a) = (y <= x)
      /\ AtMost(a, a) = (z <= z)
      /\ Under(a, b) = (x < y)
  BY DEF AtMost, Under
<1> HIDE DEF x, y, z
<1>4. (x <= y \/ y <= x) /\ z <= z /\ (x < y => x <= y)
  BY <1>2
<1>. QED
  BY <1>3, <1>4, Zenon

\* Fractions are compared transitively.
LEMMA AtMostTransitive ==
  ASSUME NEW a \in Fraction, NEW b \in Fraction, NEW c \in Fraction,
         AtMost(a, b), AtMost(b, c)
  PROVE  AtMost(a, c)
<1>1. /\ a.num \in Nat /\ a.den \in Nat
      /\ b.num \in Nat /\ b.den \in Nat /\ b.den \in Nat \ {0}
      /\ c.num \in Nat /\ c.den \in Nat
  BY FractionParts
<1>2. a.num * b.den <= b.num * a.den /\ b.num * c.den <= c.num * b.den
  BY DEF AtMost
<1> DEFINE p == a.num
           q == a.den
           r == b.num
           s == b.den
           t == c.num
           u == c.den
<1>3. p \in Nat /\ q \in Nat /\ r \in Nat /\ s \in Nat /\ s \in Nat \ {0} /\ t \in Nat /\ u \in Nat
  BY <1>1
<1>4. p * s <= r * q /\ r * u <= t * s
  BY <1>2
<1>5. SUFFICES p * u <= t * q
  BY DEF AtMost
<1> HIDE DEF p, q, r, s, t, u
<1>6. /\ p * s \in Nat /\ r * q \in Nat /\ r * u \in Nat /\ t * s \in Nat
      /\ p * u \in Nat /\ t * q \in Nat
  BY <1>3, TimesNat
<1>7. (p * s) * u <= (r * q) * u
  BY <1>3, <1>4, <1>6, ScaleUp
<1>8. (r * u) * q <= (t * s) * q
  BY <1>3, <1>4, <1>6, ScaleUp
<1>9. /\ (p * s) * u = (p * u) * s
      /\ (r * q) * u = (r * u) * q
      /\ (t * s) * q = (t * q) * s
  BY <1>3
<1>10. (p * u) * s \in Nat /\ (r * u) * q \in Nat /\ (t * q) * s \in Nat
  BY <1>3, <1>6, TimesNat
<1>11. (p * u) * s <= (t * q) * s
  BY <1>7, <1>8, <1>9, <1>10
<1>. QED
  BY <1>3, <1>6, <1>11, ScaleDown

\* Of finitely many fractions one is at most every other.
LEMMA BestExists ==
  ASSUME NEW n \in Nat \ {0}, NEW d, \A i \in 1 .. n : d[i] \in Fraction
  PROVE  \E i \in 1 .. n : \A k \in 1 .. n : AtMost(d[i], d[k])
<1> DEFINE Best(i, m) == \A k \in 1 .. m : AtMost(d[i], d[k])
           Without == {m \in 1 .. n : ~ \E i \in 1 .. m : Best(i, m)}
<1>1. \A m : m \in Without <=> m \in 1 .. n /\ ~ \E i \in 1 .. m : Best(i, m)
  OBVIOUS
<1>2. Without \subseteq Nat /\ n \in 1 .. n
  OBVIOUS
<1> HIDE DEF Without
<1>3. SUFFICES ASSUME Without # {} PROVE FALSE
  BY <1>1, <1>2
<1>4. PICK m \in Without : \A k \in Without : m <= k
  BY <1>2, <1>3, LeastExists
<1>5. m \in 1 .. n /\ ~ \E i \in 1 .. m : Best(i, m)
  BY <1>1, <1>4
<1>6. m # 1
  <2>1. d[1] \in Fraction /\ 1 \in 1 .. 1
    OBVIOUS
  <2>2. AtMost(d[1], d[1])
    BY <2>1, Comparable
  <2>3. Best(1, 1)
    BY <2>2
  <2>. QED
    BY <1>5, <2>1, <2>3
<1>7. m - 1 \in 1 .. n /\ ~(m <= m - 1)
  BY <1>5, <1>6
<1>8. PICK i \in 1 .. m - 1 : Best(i, m - 1)
  BY <1>1, <1>4, <1>7
<1>9. i \in 1 .. n /\ i \in 1 .. m /\ m \in 1 .. m /\ d[i] \in Fraction /\ d[m] \in Fraction
  BY <1>5, <1>7, <1>8
<1>10. \A k \in 1 .. m : k \in 1 .. m - 1 \/ k = m
  BY <1>5
<1>11. CASE AtMost(d[i], d[m])
  <2>1. Best(i, m)
    BY <1>8, <1>10, <1>11
  <2>. QED
    BY <1>5, <1>9, <2>1
<1>12. CASE ~AtMost(d[i], d[m])
  <2>1. AtMost(d[m], d[i]) /\ AtMost(d[m], d[m])
    BY <1>9, <1>12, Comparable
  <2>2. ASSUME NEW k \in 1 .. m - 1 PROVE AtMost(d[m], d[k])
    <3>1. k \in 1 .. n /\ d[k] \in Fraction
      BY <1>5, <2>2
    <3>2. AtMost(d[i], d[k])
      BY <1>8
    <3>. QED
      BY <1>9, <2>1, <3>1, <3>2, AtMostTransitive
  <2>3. Best(m, m)
    BY <1>10, <2>1, <2>2
  <2>. QED
    BY <1>5, <1>9, <2>3
<1>. QED
  BY <1>11, <1>12

\* What a measured point holds.
LEMMA PointType ==
  ASSUME NEW curve, ValidCurve(curve)
  PROVE  /\ DOMAIN curve = 1 .. Len(curve) /\ Len(curve) \in Nat \ {0}
         /\ \A i \in DOMAIN curve :
              /\ curve[i].batch \in Nat \ {0} /\ curve[i].tokens \in Nat \ {0}
              /\ curve[i].context \in Nat \ {0} /\ curve[i].ms \in Nat
<1> DEFINE Measured == [batch : Nat \ {0}, tokens : Nat \ {0}, context : Nat \ {0}, ms : Nat]
<1>1. curve \in Seq(Measured) /\ curve # << >>
  BY DEF ValidCurve
<1>2. \A p \in Measured :
        /\ p.batch \in Nat \ {0} /\ p.tokens \in Nat \ {0}
        /\ p.context \in Nat \ {0} /\ p.ms \in Nat
  OBVIOUS
<1> HIDE DEF Measured
<1>3. DOMAIN curve = 1 .. Len(curve) /\ Len(curve) \in Nat \ {0}
  BY <1>1
<1>4. \A i \in DOMAIN curve : curve[i] \in Measured
  BY <1>1, <1>3
<1>. QED
  BY <1>2, <1>3, <1>4

\* The greatest of two, and the least, are one of them.
LEMMA LargerSmaller == \A m, n \in Nat \ {0} : Larger(m, n) \in Nat \ {0} /\ Smaller(m, n) \in Nat \ {0}
BY DEF Larger, Smaller

\* A distance is a fraction.
LEMMA DistanceType ==
  ASSUME NEW curve, ValidCurve(curve), NEW i \in DOMAIN curve, NEW batch \in Nat \ {0},
         NEW tokens \in Nat \ {0}, NEW context \in Nat \ {0}
  PROVE  Distance(curve[i], batch, tokens, context) \in Fraction
<1>1. /\ curve[i].batch \in Nat \ {0} /\ curve[i].tokens \in Nat \ {0}
      /\ curve[i].context \in Nat \ {0}
  BY PointType
<1>2. /\ Larger(curve[i].batch, batch) \in Nat \ {0} /\ Smaller(curve[i].batch, batch) \in Nat \ {0}
      /\ Larger(curve[i].tokens, tokens) \in Nat \ {0} /\ Smaller(curve[i].tokens, tokens) \in Nat \ {0}
      /\ Larger(curve[i].context, context) \in Nat \ {0}
      /\ Smaller(curve[i].context, context) \in Nat \ {0}
  BY <1>1, LargerSmaller
<1>3. /\ Larger(curve[i].batch, batch) * Larger(curve[i].tokens, tokens) \in Nat \ {0}
      /\ Smaller(curve[i].batch, batch) * Smaller(curve[i].tokens, tokens) \in Nat \ {0}
  BY <1>2, TimesPositive
<1>4. /\ Larger(curve[i].batch, batch) * Larger(curve[i].tokens, tokens)
           * Larger(curve[i].context, context) \in Nat \ {0}
      /\ Smaller(curve[i].batch, batch) * Smaller(curve[i].tokens, tokens)
           * Smaller(curve[i].context, context) \in Nat \ {0}
  BY <1>2, <1>3, TimesPositive
<1>5. \A n, m \in Nat \ {0} : Frac(n, m) \in Fraction
  BY FracType
<1>. QED
  BY <1>4, <1>5 DEF Distance

\* Beyond what was measured a prediction is a fraction.
LEMMA ExtrapolatedType ==
  ASSUME NEW curve, ValidCurve(curve), NEW batch \in Nat \ {0}, NEW tokens \in Nat \ {0},
         NEW context \in Nat \ {0}
  PROVE  Extrapolated(curve, batch, tokens, context) \in Fraction
<1> DEFINE D(i) == Distance(curve[i], batch, tokens, context)
           S == {n \in DOMAIN curve : \A k \in DOMAIN curve : AtMost(D(n), D(k))}
           d == [i \in DOMAIN curve |-> D(i)]
           i == Least(S)
           p == curve[i]
<1>1. DOMAIN curve = 1 .. Len(curve) /\ Len(curve) \in Nat \ {0}
  BY PointType
<1>2. \A n \in 1 .. Len(curve) : d[n] \in Fraction
  BY <1>1, DistanceType
<1>3. PICK n \in 1 .. Len(curve) : \A k \in 1 .. Len(curve) : AtMost(d[n], d[k])
  BY <1>1, <1>2, BestExists
<1>4. n \in S
  BY <1>1, <1>3
<1>5. S # {} /\ S \subseteq Nat /\ S \subseteq DOMAIN curve
  BY <1>1, <1>4
<1> HIDE DEF S
<1>6. i \in DOMAIN curve
  BY <1>5, LeastIn
<1> HIDE DEF i
<1>7. /\ p.batch \in Nat \ {0} /\ p.tokens \in Nat \ {0} /\ p.context \in Nat \ {0} /\ p.ms \in Nat
  BY <1>6, PointType
<1> HIDE DEF p
<1>8. /\ Larger(batch, p.batch) \in Nat /\ Larger(tokens, p.tokens) \in Nat
      /\ Larger(context, p.context) \in Nat
  BY <1>7, LargerSmaller
<1>9. p.ms * Larger(batch, p.batch) \in Nat
  BY <1>7, <1>8, TimesNat
<1>10. p.ms * Larger(batch, p.batch) * Larger(tokens, p.tokens) \in Nat
  BY <1>8, <1>9, TimesNat
<1>11. p.ms * Larger(batch, p.batch) * Larger(tokens, p.tokens) * Larger(context, p.context) \in Nat
  BY <1>8, <1>10, TimesNat
<1>12. p.batch * p.tokens \in Nat \ {0}
  BY <1>7, TimesPositive
<1>13. Volume(p) \in Nat \ {0}
  BY <1>7, <1>12, TimesPositive DEF Volume
<1>14. Frac(p.ms * Larger(batch, p.batch) * Larger(tokens, p.tokens) * Larger(context, p.context),
            Volume(p)) \in Fraction
  BY <1>11, <1>13, FracType
<1>. QED
  BY <1>14, Zenon DEF Extrapolated, S, i, p

\* A prediction is a fraction.
LEMMA PredictType ==
  ASSUME NEW curve, ValidCurve(curve), NEW batch \in Nat \ {0}, NEW tokens \in Nat \ {0},
         NEW context \in Nat \ {0}
  PROVE  Predict(curve, batch, tokens, context) \in Fraction
<1> DEFINE exact == {i \in DOMAIN curve :
                       curve[i].batch = batch /\ curve[i].tokens = tokens
                       /\ curve[i].context = context}
           above == Dominating(curve, batch, tokens, context)
<1>1. DOMAIN curve = 1 .. Len(curve) /\ Len(curve) \in Nat
  BY PointType
<1>2. exact \subseteq DOMAIN curve /\ exact \subseteq Nat
  BY <1>1
<1>3. above \subseteq DOMAIN curve
  BY DEF Dominating
<1> HIDE DEF exact, above
<1>4. ASSUME exact # {} PROVE Whole(curve[Least(exact)].ms) \in Fraction
  <2>1. Least(exact) \in DOMAIN curve
    BY <1>2, <1>4, LeastIn
  <2>. QED
    BY <2>1, PointType, WholeType
<1>5. ASSUME above # {} PROVE Whole(NearestDominating(curve, above)) \in Fraction
  <2> DEFINE volumes == {Volume(curve[i]) : i \in above}
             nearest == {j \in above : Volume(curve[j]) = Least(volumes)}
             times == {curve[i].ms : i \in nearest}
  <2>1. \A i \in above : Volume(curve[i]) \in Nat
    <3>1. TAKE i \in above
    <3>2. curve[i].batch \in Nat /\ curve[i].tokens \in Nat /\ curve[i].context \in Nat
      BY <1>3, PointType
    <3>3. curve[i].batch * curve[i].tokens \in Nat
      BY <3>2, TimesNat
    <3>. QED
      BY <3>2, <3>3, TimesNat DEF Volume
  <2>2. volumes \subseteq Nat /\ volumes # {}
    BY <1>5, <2>1
  <2>3. Least(volumes) \in volumes
    BY <2>2, LeastIn
  <2>4. nearest # {} /\ nearest \subseteq DOMAIN curve
    BY <1>3, <2>3
  <2>5. \A i \in nearest : curve[i].ms \in Nat
    BY <2>4, PointType
  <2>6. times # {} /\ times \subseteq Nat
    BY <2>4, <2>5
  <2> DEFINE ms == [i \in DOMAIN curve |-> curve[i].ms]
  <2>7. \A i \in 1 .. Len(curve) : ms[i] \in Nat
    BY <1>1, PointType
  <2>8. PICK b \in Nat : \A i \in 1 .. Len(curve) : ms[i] <= b
    BY <1>1, <2>7, ValuesBounded
  <2>9. \A n \in times : n <= b
    BY <1>1, <2>4, <2>8
  <2> HIDE DEF times
  <2>10. Greatest(times) \in Nat
    BY <2>6, <2>9, GreatestIn
  <2>. QED
    BY <2>10, WholeType DEF NearestDominating, times
<1>6. Extrapolated(curve, batch, tokens, context) \in Fraction
  BY ExtrapolatedType
<1>. QED
  BY <1>4, <1>5, <1>6, Zenon DEF Predict, exact, above

\* The nearest of a set of numbers below a number and above it.
LEMMA Neighbours ==
  ASSUME NEW S, S \subseteq Nat, NEW n \in Nat
  PROVE  /\ {m \in S : m <= n} # {} =>
              Greatest({m \in S : m <= n}) \in S /\ Greatest({m \in S : m <= n}) <= n
         /\ {m \in S : m >= n} # {} =>
              Least({m \in S : m >= n}) \in S /\ Least({m \in S : m >= n}) >= n
<1> DEFINE below == {m \in S : m <= n}
           over == {m \in S : m >= n}
<1>1. \A m : /\ m \in below <=> m \in S /\ m <= n
             /\ m \in over <=> m \in S /\ m >= n
  OBVIOUS
<1>2. below \subseteq Nat /\ over \subseteq Nat
  OBVIOUS
<1> HIDE DEF below, over
<1>3. ASSUME below # {} PROVE Greatest(below) \in below
  <2>1. \A m \in below : m <= n
    BY <1>1
  <2>. QED
    BY <1>2, <1>3, <2>1, GreatestIn
<1>4. ASSUME over # {} PROVE Least(over) \in over
  BY <1>2, <1>4, LeastIn
<1>. QED
  BY <1>1, <1>3, <1>4 DEF below, over

\* Interpolated over the batches, at a context that has measurements.
LEMMA InterpolateBatchType ==
  ASSUME NEW curve, ValidCurve(curve), NEW batch \in Nat \ {0}, NEW context,
         Row(curve, context) # {}
  PROVE  InterpolateBatch(curve, batch, context) \in Fraction
<1> DEFINE row == Row(curve, context)
           Ms(b) == Whole(curve[Least({i \in row : curve[i].batch = b})].ms)
           sizes == {curve[i].batch : i \in row}
           below == {b \in sizes : b <= batch}
           over == {b \in sizes : b >= batch}
           lower == Greatest(below)
           upper == Least(over)
<1>1. DOMAIN curve = 1 .. Len(curve) /\ row \subseteq DOMAIN curve /\ row \subseteq Nat
  <2>1. DOMAIN curve = 1 .. Len(curve) /\ Len(curve) \in Nat
    BY PointType
  <2>. QED
    BY <2>1 DEF Row
<1>2. \A i \in row : curve[i].batch \in Nat \ {0}
  BY <1>1, PointType
<1>3. sizes \subseteq Nat \ {0} /\ sizes \subseteq Nat /\ sizes # {}
  BY <1>2
<1>4. ASSUME NEW b \in sizes PROVE Ms(b) \in Fraction
  <2> DEFINE at == {i \in row : curve[i].batch = b}
  <2>1. at # {} /\ at \subseteq Nat /\ at \subseteq row
    BY <1>1
  <2> HIDE DEF at
  <2>2. Least(at) \in DOMAIN curve
    BY <1>1, <2>1, LeastIn
  <2>3. curve[Least(at)].ms \in Nat
    BY <2>2, PointType
  <2>. QED
    BY <2>3, WholeType DEF at
<1> HIDE DEF row, Ms
<1>5. /\ below # {} => lower \in sizes /\ lower <= batch
      /\ over # {} => upper \in sizes /\ upper >= batch
  <2> HIDE DEF sizes
  <2>. QED
    BY <1>3, Neighbours
<1>6. below = {} => over # {}
  <2>1. PICK b \in sizes : TRUE
    BY <1>3
  <2>2. b \in Nat
    BY <1>3, <2>1
  <2>3. b <= batch \/ b >= batch
    BY <2>2
  <2>. QED
    BY <2>1, <2>3
<1> HIDE DEF sizes, below, over, lower, upper
<1>7. CASE below = {}
  <2>1. Ms(upper) \in Fraction
    BY <1>4, <1>5, <1>6, <1>7
  <2>. QED
    BY <1>7, <2>1, Zenon DEF InterpolateBatch, row, Ms, sizes, below, over, upper
<1>8. CASE below # {} /\ over = {}
  <2>1. Ms(lower) \in Fraction /\ lower \in Nat \ {0}
    BY <1>3, <1>4, <1>5, <1>8
  <2>2. Ms(lower).num \in Nat
    BY <2>1, FractionParts
  <2>3. BatchRatio(batch, lower) = Frac(Larger(batch, lower), lower)
    BY DEF BatchRatio
  <2>4. Larger(batch, lower) \in Nat
    BY <2>1, LargerSmaller
  <2>5. BatchRatio(batch, lower) \in Fraction
    BY <2>1, <2>3, <2>4, FracType
  <2>6. BatchRatio(batch, lower).num \in Nat /\ BatchRatio(batch, lower).den \in Nat \ {0}
    BY <2>5, FractionParts
  <2>7. Ms(lower).num * BatchRatio(batch, lower).num \in Nat
    BY <2>2, <2>6, TimesNat
  <2>8. Frac(Ms(lower).num * BatchRatio(batch, lower).num, BatchRatio(batch, lower).den) \in Fraction
    BY <2>6, <2>7, FracType
  <2>. QED
    BY <1>8, <2>8, Zenon DEF InterpolateBatch, row, Ms, sizes, below, over, lower
<1>9. CASE below # {} /\ over # {}
  <2>1. Ms(lower) \in Fraction /\ Ms(upper) \in Fraction
    BY <1>4, <1>5, <1>9
  <2>2. lower \in Nat /\ upper \in Nat /\ lower <= batch /\ batch <= upper
    BY <1>3, <1>5, <1>9
  <2>3. batch - lower \in Nat /\ upper - lower \in Nat /\ batch - lower <= upper - lower
    BY <2>2
  <2>4. Between(Ms(lower), Ms(upper), BatchWeight(batch, lower, upper), upper - lower)
          \in Fraction
    BY <2>1, <2>3, BetweenType DEF BatchWeight
  <2>. QED
    BY <1>9, <2>4, Zenon DEF InterpolateBatch, row, Ms, sizes, below, over, lower, upper
<1>. QED
  BY <1>7, <1>8, <1>9

\* The predicted time of a decode step is a fraction.
LEMMA PredictDecodeType ==
  ASSUME NEW curve, ValidCurve(curve), NEW batch \in Nat \ {0}, NEW context \in Nat \ {0}
  PROVE  PredictDecode(curve, batch, context) \in Fraction
<1> DEFINE contexts == {curve[i].context : i \in {j \in DOMAIN curve : curve[j].tokens = 1}}
           below == {c \in contexts : c <= context}
           over == {c \in contexts : c >= context}
           At(c) == InterpolateBatch(curve, batch, c)
           lower == Greatest(below)
           upper == Least(over)
<1>1. contexts \subseteq Nat \ {0} /\ contexts \subseteq Nat
  <2>1. \A i \in {j \in DOMAIN curve : curve[j].tokens = 1} : curve[i].context \in Nat \ {0}
    BY PointType
  <2>. QED
    BY <2>1
<1>2. ASSUME NEW c \in contexts PROVE At(c) \in Fraction
  <2>1. Row(curve, c) # {}
    BY DEF Row
  <2>. QED
    BY <2>1, InterpolateBatchType
<1> HIDE DEF At
<1>3. /\ below # {} => lower \in contexts /\ lower <= context
      /\ over # {} => upper \in contexts /\ upper >= context
  <2> HIDE DEF contexts
  <2>. QED
    BY <1>1, Neighbours
<1>4. contexts # {} /\ below = {} => over # {}
  BY <1>1
<1> HIDE DEF contexts, below, over, lower, upper
<1>5. CASE contexts = {}
  <2>1. Predict(curve, batch, 1, context) \in Fraction
    BY PredictType
  <2>. QED
    BY <1>5, <2>1, Zenon DEF PredictDecode, contexts
<1>6. CASE contexts # {} /\ below = {}
  <2>1. At(upper) \in Fraction
    BY <1>2, <1>3, <1>4, <1>6
  <2>. QED
    BY <1>6, <2>1, Zenon DEF PredictDecode, contexts, below, over, upper, At
<1>7. CASE contexts # {} /\ below # {} /\ over = {}
  <2>1. At(lower) \in Fraction /\ lower \in Nat \ {0}
    BY <1>1, <1>2, <1>3, <1>7
  <2>2. At(lower).num \in Nat /\ At(lower).den \in Nat \ {0}
    BY <2>1, FractionParts
  <2>3. At(lower).num * context \in Nat /\ At(lower).den * lower \in Nat \ {0}
    BY <2>1, <2>2, TimesNat, TimesPositive
  <2>4. Frac(At(lower).num * context, At(lower).den * lower) \in Fraction
    BY <2>3, FracType
  <2>. QED
    BY <1>7, <2>4, Zenon DEF PredictDecode, contexts, below, over, lower, At
<1>8. CASE contexts # {} /\ below # {} /\ over # {}
  <2>1. At(lower) \in Fraction /\ At(upper) \in Fraction
    BY <1>2, <1>3, <1>8
  <2>2. lower \in Nat /\ upper \in Nat /\ lower <= context /\ context <= upper
    BY <1>1, <1>3, <1>8
  <2>3. /\ context - lower \in Nat /\ upper - lower \in Nat /\ context - lower <= upper - lower
        /\ ContextWeight(context, lower, upper) = context - lower
    BY <2>2 DEF ContextWeight
  <2>4. Between(At(lower), At(upper), ContextWeight(context, lower, upper), upper - lower)
          \in Fraction
    BY <2>1, <2>3, BetweenType
  <2>. QED
    BY <1>8, <2>4, Zenon DEF PredictDecode, contexts, below, over, lower, upper, At
<1>. QED
  BY <1>5, <1>6, <1>7, <1>8

--------------------------------------------------------------------------------
(* Adding up the tokens of a plan *)

\* There are k numbers from 1 to k.
LEMMA UpTo == ASSUME NEW k \in Nat PROVE IsFiniteSet(1 .. k) /\ Cardinality(1 .. k) = k
<1>1. 1 \in Int /\ k \in Int
  OBVIOUS
<1>2. IsFiniteSet(1 .. k) /\ Cardinality(1 .. k) = IF 1 > k THEN 0 ELSE k - 1 + 1
  BY <1>1, FS_Interval
<1>. QED
  BY <1>2

\* The tokens of the first n are finitely many.
LEMMA TokensFinite ==
  ASSUME NEW n \in Nat, NEW given, \A i \in 1 .. n : given[i] \in Nat
  PROVE  IsFiniteSet(TokensOf(given, n)) /\ Total(given, n) \in Nat
<1> DEFINE T(i) == {i} \X (1 .. given[i])
           family == {T(i) : i \in 1 .. n}
           f == [i \in 1 .. n |-> T(i)]
<1>1. IsFiniteSet(1 .. n)
  BY FS_Interval
<1>2. \A i \in 1 .. n : IsFiniteSet(T(i))
  <2>1. TAKE i \in 1 .. n
  <2>2. given[i] \in Nat
    OBVIOUS
  <2>3. IsFiniteSet(1 .. given[i]) /\ IsFiniteSet({i})
    BY <2>2, UpTo, FS_Singleton
  <2>. QED
    BY <2>3, FS_Product
<1> HIDE DEF T
<1>3. f \in Surjection(1 .. n, family)
  BY Fun_IsSurj
<1>4. IsFiniteSet(family)
  BY <1>1, <1>3, FS_Surjection
<1>5. \A t \in family : IsFiniteSet(t)
  BY <1>2
<1>6. IsFiniteSet(UNION family)
  BY <1>4, <1>5, FS_UNION
<1>7. TokensOf(given, n) = UNION family
  BY DEF TokensOf, T
<1>. QED
  BY <1>6, <1>7, FS_CardinalityType DEF Total

\* The first none have no tokens.
LEMMA TotalOfNone == ASSUME NEW given PROVE Total(given, 0) = 0
<1>1. TokensOf(given, 0) = {}
  BY DEF TokensOf
<1>. QED
  BY <1>1, FS_EmptySet DEF Total

\* One more adds its tokens.
LEMMA TotalStep ==
  ASSUME NEW n \in Nat \ {0}, NEW given, \A i \in 1 .. n : given[i] \in Nat
  PROVE  Total(given, n) = Total(given, n - 1) + given[n]
<1> DEFINE before == TokensOf(given, n - 1)
           own == {n} \X (1 .. given[n])
<1>1. n - 1 \in Nat /\ n \in 1 .. n /\ given[n] \in Nat
  OBVIOUS
<1>2. \A i \in 1 .. n - 1 : given[i] \in Nat /\ i # n
  OBVIOUS
<1>3. IsFiniteSet(before) /\ Cardinality(before) \in Nat
  BY <1>1, <1>2, TokensFinite DEF Total
<1>4. IsFiniteSet(own) /\ Cardinality(own) = given[n]
  <2>1. IsFiniteSet(1 .. given[n]) /\ Cardinality(1 .. given[n]) = given[n]
    BY <1>1, UpTo
  <2>2. IsFiniteSet({n}) /\ Cardinality({n}) = 1
    BY FS_Singleton
  <2>3. IsFiniteSet(own) /\ Cardinality(own) = 1 * given[n]
    BY <2>1, <2>2, FS_Product
  <2>. QED
    BY <1>1, <2>3
<1>5. TokensOf(given, n) = before \cup own
  <2>1. \A i : i \in 1 .. n <=> i \in 1 .. n - 1 \/ i = n
    BY <1>1
  <2>. QED
    BY <2>1 DEF TokensOf
<1>6. before \cap own = {}
  <2>1. ASSUME NEW x \in before, x \in own PROVE FALSE
    <3>1. PICK i \in 1 .. n - 1 : x \in {i} \X (1 .. given[i])
      BY DEF TokensOf
    <3>2. x[1] = i /\ x[1] = n
      BY <2>1, <3>1
    <3>. QED
      BY <1>2, <3>2
  <2>. QED
    BY <2>1
<1> HIDE DEF before, own
<1>7. Cardinality(before \cup own) = Cardinality(before) + Cardinality(own) - Cardinality({})
  BY <1>3, <1>4, <1>6, FS_Union
<1>8. Cardinality({}) = 0
  BY FS_EmptySet
<1>9. Total(given, n - 1) = Cardinality(before) /\ Total(given, n) = Cardinality(before \cup own)
  BY <1>5, Zenon DEF Total, before
<1>. QED
  BY <1>1, <1>3, <1>4, <1>7, <1>8, <1>9

\* The total depends on what the first n are given only.
LEMMA TotalSame ==
  ASSUME NEW n \in Nat, NEW f, NEW g, \A i \in 1 .. n : f[i] = g[i]
  PROVE  Total(f, n) = Total(g, n)
<1>1. {{i} \X (1 .. f[i]) : i \in 1 .. n} = {{i} \X (1 .. g[i]) : i \in 1 .. n}
  OBVIOUS
<1>. QED
  BY <1>1, Zenon DEF Total, TokensOf

\* One token each.
LEMMA TotalOfOnes ==
  ASSUME NEW n \in Nat, NEW f, \A i \in 1 .. n : f[i] = 1
  PROVE  Total(f, n) = n
<1> DEFINE Wrong == {k \in 0 .. n : Total(f, k) # k}
<1>1. \A k : k \in Wrong <=> k \in 0 .. n /\ Total(f, k) # k
  OBVIOUS
<1>2. Wrong \subseteq Nat /\ n \in 0 .. n
  OBVIOUS
<1> HIDE DEF Wrong
<1>3. SUFFICES ASSUME Wrong # {} PROVE FALSE
  BY <1>1, <1>2
<1>4. PICK k \in Wrong : \A j \in Wrong : k <= j
  BY <1>2, <1>3, LeastExists
<1>5. k \in 0 .. n /\ Total(f, k) # k
  BY <1>1, <1>4
<1>6. k # 0
  BY <1>5, TotalOfNone
<1>7. k \in Nat \ {0} /\ k - 1 \in 0 .. n /\ ~(k <= k - 1) /\ f[k] = 1
  BY <1>5, <1>6
<1>8. Total(f, k - 1) = k - 1
  BY <1>1, <1>4, <1>7
<1>9. \A i \in 1 .. k : f[i] \in Nat
  BY <1>5
<1>10. Total(f, k) = Total(f, k - 1) + f[k]
  BY <1>7, <1>9, TotalStep
<1>. QED
  BY <1>5, <1>7, <1>8, <1>10

--------------------------------------------------------------------------------
(* What the planner sees *)

\* What is known of a slot.
LEMMA SlotFacts ==
  ASSUME PlannerTypeOK, NEW s \in Slot
  PROVE  /\ requests[s] \in Request
         /\ requests[s].phase \in {"Free", "QueuedPrefill", "Decoding"}
         /\ requests[s].prompt_len \in Nat /\ requests[s].prefilled \in Nat
         /\ requests[s].generated \in Nat /\ requests[s].limit \in Nat
         /\ requests[s].age \in 0 .. TtftSlo
         /\ requests[s].prefilled <= requests[s].prompt_len
         /\ requests[s].phase = "QueuedPrefill" => requests[s].generated = 0
         /\ requests[s].phase = "Decoding" =>
              /\ requests[s].prefilled = requests[s].prompt_len
              /\ requests[s].generated < requests[s].limit
         /\ requests[s].phase # "Free" =>
              \E shape \in Shape :
                requests[s].prompt_len = shape.prompt /\ requests[s].limit = shape.limit
<1>1. requests[s] \in Request
  BY DEF PlannerTypeOK
<1>2. /\ requests[s].phase \in {"Free", "QueuedPrefill", "Decoding"}
      /\ requests[s].prompt_len \in Nat /\ requests[s].prefilled \in Nat
      /\ requests[s].generated \in Nat /\ requests[s].limit \in Nat
      /\ requests[s].age \in 0 .. TtftSlo
  BY <1>1 DEF Request
<1>. QED
  BY <1>1, <1>2 DEF PlannerTypeOK

\* A prompt and its limit are within the longest context.
LEMMA WithinLongest ==
  ASSUME NEW shape \in Shape
  PROVE  /\ shape.prompt \in Nat /\ shape.limit \in Nat \ {0}
         /\ LongestContext \in Nat /\ shape.prompt + shape.limit <= LongestContext
<1> DEFINE lengths == {sh.prompt + sh.limit : sh \in Shape}
           f == [sh \in Shape |-> sh.prompt + sh.limit]
<1>1. \A sh \in Shape : sh.prompt \in Nat /\ sh.limit \in Nat \ {0}
  BY PlannerAssumption
<1>2. lengths \subseteq Nat /\ lengths # {} /\ shape.prompt + shape.limit \in lengths
  BY <1>1
<1>3. f \in Surjection(Shape, lengths)
  BY Fun_IsSurj
<1>4. IsFiniteSet(lengths)
  BY <1>3, FS_Surjection, PlannerAssumption
<1> HIDE DEF lengths
<1>5. PICK b \in Nat : \A n \in lengths : n <= b
  BY <1>2, <1>4, FiniteBounded
<1>6. Greatest(lengths) \in lengths /\ \A n \in lengths : n <= Greatest(lengths)
  BY <1>2, <1>5, GreatestIn
<1>. QED
  BY <1>1, <1>2, <1>6 DEF LongestContext, lengths

\* The decoding and the waiting requests are different slots.
LEMMA SlotCounts ==
  ASSUME NEW slots, slots \subseteq Waiting
  PROVE  /\ IsFiniteSet(Decoding) /\ Cardinality(Decoding) \in Nat
         /\ IsFiniteSet(slots) /\ Cardinality(slots) \in Nat
         /\ Decoding \cap slots = {}
         /\ Cardinality(Decoding \cup slots) = Cardinality(Decoding) + Cardinality(slots)
         /\ Cardinality(Slot) \in Nat
         /\ Cardinality(Decoding) + Cardinality(slots) <= Cardinality(Slot)
<1>1. Decoding \subseteq Slot /\ slots \subseteq Slot /\ Decoding \cap slots = {}
  BY DEF Decoding, Waiting
<1>2. IsFiniteSet(Slot)
  BY PlannerAssumption
<1>3. IsFiniteSet(Decoding) /\ IsFiniteSet(slots)
  BY <1>1, <1>2, FS_Subset
<1>4. Cardinality(Decoding) \in Nat /\ Cardinality(slots) \in Nat /\ Cardinality(Slot) \in Nat
  BY <1>2, <1>3, FS_CardinalityType
<1>5. Cardinality(Decoding \cup slots)
        = Cardinality(Decoding) + Cardinality(slots) - Cardinality(Decoding \cap slots)
  BY <1>3, FS_Union
<1>6. Cardinality(Decoding \cap slots) = 0
  BY <1>1, FS_EmptySet
<1>7. Cardinality(Decoding \cup slots) <= Cardinality(Slot)
  <2>1. Decoding \cup slots \in SUBSET Slot
    BY <1>1
  <2>. QED
    BY <1>2, <2>1, FS_Subset
<1>8. Cardinality(Decoding \cup slots) = Cardinality(Decoding) + Cardinality(slots)
  BY <1>4, <1>5, <1>6
<1>. QED
  BY <1>1, <1>3, <1>4, <1>7, <1>8

\* The context of a decode step is one that can come up.
LEMMA MaximumContextType ==
  ASSUME PlannerTypeOK
  PROVE  /\ MaximumContext \in Nat \ {0}
         /\ Decoding # {} => LongestContext \in Nat /\ MaximumContext <= LongestContext
<1> DEFINE contexts == {1} \cup {ContextOf(s) : s \in Decoding}
<1>1. ASSUME NEW s \in Decoding
      PROVE  /\ ContextOf(s) \in Nat /\ LongestContext \in Nat
             /\ ContextOf(s) <= LongestContext /\ 1 <= LongestContext
  <2>1. s \in Slot /\ requests[s].phase = "Decoding" /\ requests[s].phase # "Free"
    BY DEF Decoding
  <2>2. /\ requests[s].prompt_len \in Nat /\ requests[s].generated \in Nat
        /\ requests[s].limit \in Nat /\ requests[s].generated < requests[s].limit
    BY <2>1, SlotFacts
  <2>3. PICK shape \in Shape :
          requests[s].prompt_len = shape.prompt /\ requests[s].limit = shape.limit
    BY <2>1, SlotFacts
  <2>4. /\ shape.prompt \in Nat /\ shape.limit \in Nat \ {0}
        /\ LongestContext \in Nat /\ shape.prompt + shape.limit <= LongestContext
    BY WithinLongest
  <2>. QED
    BY <2>2, <2>3, <2>4 DEF ContextOf
<1>2. contexts \subseteq Nat /\ 1 \in contexts
  BY <1>1
<1>3. CASE Decoding = {}
  <2>1. \A n \in contexts : n <= 1
    BY <1>3
  <2> HIDE DEF contexts
  <2>2. Greatest(contexts) \in contexts /\ \A n \in contexts : n <= Greatest(contexts)
    BY <1>2, <2>1, GreatestIn
  <2>. QED
    BY <1>2, <1>3, <2>2 DEF MaximumContext, contexts
<1>4. CASE Decoding # {}
  <2>1. LongestContext \in Nat
    BY <1>1, <1>4
  <2>2. \A n \in contexts : n <= LongestContext
    BY <1>1, <1>4
  <2> HIDE DEF contexts
  <2>3. Greatest(contexts) \in contexts /\ \A n \in contexts : n <= Greatest(contexts)
    BY <1>2, <2>1, <2>2, GreatestIn
  <2>4. MaximumContext = Greatest(contexts)
    BY Zenon DEF MaximumContext, contexts
  <2>5. MaximumContext \in Nat /\ 1 <= MaximumContext /\ MaximumContext <= LongestContext
    BY <1>2, <2>2, <2>3, <2>4
  <2>. QED
    BY <2>1, <2>5
<1>. QED
  BY <1>3, <1>4

\* Predictions looked up in the tables are fractions.
LEMMA DecodeMsType ==
  ASSUME NEW count \in 0 .. Cardinality(Slot), NEW context,
         count # 0 => LongestContext \in Nat /\ context \in 1 .. LongestContext
  PROVE  DecodeMs(count, context) \in Fraction
<1>1. CASE count = 0
  <2>1. Whole(0) \in Fraction
    BY WholeType
  <2>. QED
    BY <1>1, <2>1 DEF DecodeMs
<1>2. CASE count # 0
  <2>1. Cardinality(Slot) \in Nat
    BY PlannerAssumption, FS_CardinalityType
  <2>2. count \in 1 .. Cardinality(Slot) /\ context \in 1 .. LongestContext
    BY <1>2, <2>1
  <2>3. count \in Nat \ {0} /\ context \in Nat \ {0}
    BY <2>1, <2>2, <1>2
  <2>4. PredictDecode(DecodeCurve, count, context) \in Fraction
    BY <2>3, PredictDecodeType, PlannerAssumption
  <2>5. DecodeTable[count][context] = PredictDecode(DecodeCurve, count, context)
    BY <2>2 DEF DecodeTable
  <2>. QED
    BY <1>2, <2>4, <2>5 DEF DecodeMs
<1>. QED
  BY <1>1, <1>2

\* So are those of a prefill.
LEMMA PrefillTableType ==
  ASSUME NEW n \in 1 .. MaxPrefillTokens
  PROVE  PrefillTable[n] \in Fraction
<1>1. n \in Nat \ {0}
  BY PlannerAssumption
<1>2. PredictPrefill(PrefillCurve, n) \in Fraction
  BY <1>1, PredictType, PlannerAssumption DEF PredictPrefill
<1>. QED
  BY <1>2 DEF PrefillTable

\* An order lists the slots, each of them once.
LEMMA OrderFacts ==
  ASSUME NEW slots, IsFiniteSet(slots), NEW order \in OrdersOf(slots)
  PROVE  /\ Len(order) = Cardinality(slots) /\ Len(order) \in Nat
         /\ \A i \in 1 .. Len(order) : order[i] \in slots
         /\ \A i, j \in 1 .. Len(order) : i # j => order[i] # order[j]
         /\ \A s \in slots : \E i \in 1 .. Len(order) : order[i] = s
         /\ \A i, j \in 1 .. Len(order) :
              i < j => Urgency(requests[order[i]].age) <= Urgency(requests[order[j]].age)
<1> DEFINE c == Cardinality(slots)
<1>1. c \in Nat
  BY FS_CardinalityType
<1>2. order \in [1 .. c -> slots] /\ \A i, j \in 1 .. c : i # j => order[i] # order[j]
  BY DEF OrdersOf, SetToSeqs
<1>3. \A i, j \in 1 .. Len(order) :
        i < j => Urgency(requests[order[i]].age) <= Urgency(requests[order[j]].age)
  BY Zenon DEF OrdersOf
<1> HIDE DEF c
<1>4. order \in Seq(slots) /\ Len(order) = c
  BY <1>1, <1>2
<1>5. order \in Injection(1 .. c, slots)
  BY <1>2, Fun_IsInj
<1>6. IsFiniteSet(1 .. c) /\ Cardinality(1 .. c) = c
  BY <1>1, UpTo
<1>7. order \in Surjection(1 .. c, slots)
  BY <1>5, <1>6, FS_Injection DEF c
<1>8. \A s \in slots : \E i \in 1 .. c : order[i] = s
  BY <1>7 DEF Surjection
<1>. QED
  BY <1>1, <1>2, <1>3, <1>4, <1>8 DEF c

--------------------------------------------------------------------------------
(* A plan *)

\* What a plan has to be for the owner, the device batch and the step budget.
GoodPlan(p) ==
  /\ p.decodes = Decoding
  /\ Len(p.work) \in Nat /\ DOMAIN p.work = 1 .. Len(p.work)
  /\ \A i \in 1 .. Len(p.work) :
       /\ p.work[i].slot \in Waiting /\ p.work[i].tokens \in Nat \ {0}
       /\ p.work[i].tokens <= Remaining(p.work[i].slot)
  /\ \A i, j \in 1 .. Len(p.work) : i # j => p.work[i].slot # p.work[j].slot
  /\ Cardinality(Decoding) + PlannedTokens(p) <= MaxBatchTokens
  /\ p.work # << >> => AtMost(p.predicted, Whole(StepBudget))

\* The batch has room for all slots and one prefill chunk besides.
LEMMA BatchRoom ==
  /\ Cardinality(Slot) \in Nat /\ MaxPrefillTokens \in Nat /\ MaxBatchTokens \in Nat
  /\ Cardinality(Slot) + MaxPrefillTokens <= MaxBatchTokens
BY PlannerAssumption, FS_CardinalityType

\* What is known of a waiting request.
LEMMA WaitingFacts ==
  ASSUME PlannerTypeOK, NEW s \in Waiting
  PROVE  /\ s \in Slot /\ requests[s].prompt_len \in Nat /\ requests[s].prefilled \in Nat
         /\ requests[s].prefilled < requests[s].prompt_len
         /\ Remaining(s) \in Nat \ {0}
         /\ LongestContext \in Nat /\ requests[s].prompt_len <= LongestContext
<1>1. /\ s \in Slot /\ requests[s].phase # "Free"
      /\ requests[s].prefilled < requests[s].prompt_len
  BY DEF Waiting
<1>2. requests[s].prompt_len \in Nat /\ requests[s].prefilled \in Nat
  BY <1>1, SlotFacts
<1>3. PICK shape \in Shape : requests[s].prompt_len = shape.prompt
  BY <1>1, SlotFacts
<1>4. /\ shape.prompt \in Nat /\ shape.limit \in Nat \ {0}
      /\ LongestContext \in Nat /\ shape.prompt + shape.limit <= LongestContext
  BY WithinLongest
<1>. QED
  BY <1>1, <1>2, <1>3, <1>4 DEF Remaining

\* Decodes alone are a good plan.
LEMMA EmptyPlanGood ==
  ASSUME NEW ms
  PROVE  GoodPlan([work |-> << >>, decodes |-> Decoding, predicted |-> ms])
<1> DEFINE p == [work |-> << >>, decodes |-> Decoding, predicted |-> ms]
<1>1. p.work = << >> /\ p.decodes = Decoding
  OBVIOUS
<1> HIDE DEF p
<1>2. Len(p.work) = 0 /\ DOMAIN p.work = 1 .. 0
  BY <1>1
<1>3. PlannedTokens(p) = 0
  BY <1>2, TotalOfNone DEF PlannedTokens
<1>4. Cardinality(Decoding) \in Nat /\ Cardinality(Decoding) <= Cardinality(Slot)
  <2>1. IsFiniteSet(Slot) /\ Decoding \in SUBSET Slot
    BY PlannerAssumption DEF Decoding
  <2>. QED
    BY <2>1, FS_Subset, FS_CardinalityType
<1>5. Cardinality(Decoding) + PlannedTokens(p) <= MaxBatchTokens
  BY <1>3, <1>4, BatchRoom
<1>6. GoodPlan(p)
  BY <1>1, <1>2, <1>5 DEF GoodPlan
<1>. QED
  BY <1>6 DEF p

\* The prediction for decodes and tails is a fraction.
LEMMA SingletonType ==
  ASSUME PlannerTypeOK, NEW slots, slots \subseteq Waiting, NEW tails \in OrdersOf(slots),
         NEW n \in 1 .. Len(tails)
  PROVE  SingletonMs(tails, n) \in Fraction
<1> DEFINE contexts == {MaximumContext} \cup {requests[tails[i]].prefilled + 1 : i \in 1 .. n}
           context == Greatest(contexts)
<1>1. IsFiniteSet(slots)
  BY SlotCounts
<1>2. Len(tails) = Cardinality(slots) /\ Len(tails) \in Nat
  BY <1>1, OrderFacts
<1>3. \A i \in 1 .. n : i \in 1 .. Len(tails) /\ tails[i] \in Waiting
  <2>1. TAKE i \in 1 .. n
  <2>2. i \in 1 .. Len(tails)
    BY <1>2
  <2>. QED
    BY <1>1, <2>2, OrderFacts
<1>4. \A i \in 1 .. n :
        /\ requests[tails[i]].prefilled + 1 \in Nat
        /\ LongestContext \in Nat /\ requests[tails[i]].prefilled + 1 <= LongestContext
  <2>1. TAKE i \in 1 .. n
  <2>2. /\ requests[tails[i]].prompt_len \in Nat /\ requests[tails[i]].prefilled \in Nat
        /\ requests[tails[i]].prefilled < requests[tails[i]].prompt_len
        /\ LongestContext \in Nat /\ requests[tails[i]].prompt_len <= LongestContext
    BY <1>3, WaitingFacts
  <2>. QED
    BY <2>2
<1>5. 1 \in 1 .. n
  BY <1>2
<1>6. LongestContext \in Nat /\ 1 <= LongestContext
  <2>1. /\ requests[tails[1]].prompt_len \in Nat /\ requests[tails[1]].prefilled \in Nat
        /\ requests[tails[1]].prefilled < requests[tails[1]].prompt_len
        /\ LongestContext \in Nat /\ requests[tails[1]].prompt_len <= LongestContext
    BY <1>3, <1>5, WaitingFacts
  <2>. QED
    BY <2>1
<1>7. MaximumContext \in Nat \ {0} /\ MaximumContext <= LongestContext
  <2>1. CASE Decoding = {}
    <3>1. {1} \cup {ContextOf(s) : s \in Decoding} = {1}
      BY <2>1
    <3>2. MaximumContext = Greatest({1})
      BY <3>1, Zenon DEF MaximumContext
    <3>3. Greatest({1}) \in {1}
      <4>1. {1} \subseteq Nat /\ {1} # {} /\ \A m \in {1} : m <= 1
        OBVIOUS
      <4>. QED
        BY <4>1, GreatestIn
    <3>. QED
      BY <1>6, <3>2, <3>3
  <2>2. CASE Decoding # {}
    BY <2>2, MaximumContextType
  <2>. QED
    BY <2>1, <2>2
<1>8. contexts \subseteq Nat /\ MaximumContext \in contexts /\ \A m \in contexts : m <= LongestContext
  BY <1>4, <1>7
<1> HIDE DEF contexts
<1>9. context \in contexts /\ MaximumContext <= context
  BY <1>6, <1>8, GreatestIn
<1> HIDE DEF context
<1>10. context \in 1 .. LongestContext
  <2>1. context \in Nat /\ context <= LongestContext
    BY <1>8, <1>9
  <2>. QED
    BY <1>6, <1>7, <1>9, <2>1
<1>11. Cardinality(Decoding) + n \in 0 .. Cardinality(Slot)
  <2>1. /\ Cardinality(Decoding) \in Nat /\ Cardinality(Slot) \in Nat
        /\ Cardinality(Decoding) + Cardinality(slots) <= Cardinality(Slot)
    BY SlotCounts
  <2>. QED
    BY <1>2, <2>1
<1>12. DecodeMs(Cardinality(Decoding) + n, context) \in Fraction
  BY <1>6, <1>10, <1>11, DecodeMsType
<1>. QED
  BY <1>12, Zenon DEF SingletonMs, context, contexts

\* Tails are a good plan.
LEMMA TailPlanGood ==
  ASSUME PlannerTypeOK, NEW slots, slots \subseteq Waiting, NEW tails \in OrdersOf(slots)
  PROVE  GoodPlan(TailPlan(tails))
<1> DEFINE fits == {k \in 0 .. Len(tails) : \A i \in 1 .. k : SingletonFits(tails, i)}
           n == Greatest(fits)
           work == [i \in 1 .. n |-> [slot |-> tails[i], tokens |-> 1]]
           p == [work |-> work, decodes |-> Decoding, predicted |-> SingletonMs(tails, n)]
<1>1. IsFiniteSet(slots)
  BY SlotCounts
<1>2. /\ Len(tails) = Cardinality(slots) /\ Len(tails) \in Nat
      /\ \A i \in 1 .. Len(tails) : tails[i] \in slots
      /\ \A i, j \in 1 .. Len(tails) : i # j => tails[i] # tails[j]
  BY <1>1, OrderFacts
<1>3. fits \subseteq Nat /\ 0 \in fits /\ \A k \in fits : k <= Len(tails)
  BY <1>2
<1>4. \A k \in fits : k \in 0 .. Len(tails) /\ \A i \in 1 .. k : SingletonFits(tails, i)
  OBVIOUS
<1> HIDE DEF fits
<1>5. n \in fits
  BY <1>2, <1>3, GreatestIn
<1>6. n \in 0 .. Len(tails) /\ \A i \in 1 .. n : SingletonFits(tails, i)
  BY <1>4, <1>5
<1> HIDE DEF n
<1>7. n \in Nat /\ n <= Cardinality(slots)
  BY <1>2, <1>6
<1>8. /\ p.work = work /\ p.decodes = Decoding /\ p.predicted = SingletonMs(tails, n)
      /\ Len(work) = n /\ DOMAIN work = 1 .. n
  BY <1>7
<1>9. \A i \in 1 .. n : work[i].slot = tails[i] /\ work[i].tokens = 1
  OBVIOUS
<1> HIDE DEF work, p
<1>10. ASSUME NEW i \in 1 .. n
       PROVE  /\ work[i].slot \in Waiting /\ work[i].tokens \in Nat \ {0}
              /\ work[i].tokens <= Remaining(work[i].slot)
  <2>1. tails[i] \in Waiting
    BY <1>2, <1>6
  <2>2. Remaining(tails[i]) \in Nat \ {0}
    BY <2>1, WaitingFacts
  <2>. QED
    BY <1>9, <2>1, <2>2
<1>11. \A i, j \in 1 .. n : i # j => work[i].slot # work[j].slot
  BY <1>2, <1>6, <1>9
<1>12. PlannedTokens(p) = n
  <2> DEFINE f == [i \in 1 .. n |-> work[i].tokens]
  <2>1. \A i \in 1 .. n : f[i] = 1
    BY <1>9
  <2>2. PlannedTokens(p) = Total(f, n)
    BY <1>8 DEF PlannedTokens
  <2> HIDE DEF f
  <2>. QED
    BY <1>7, <2>1, <2>2, TotalOfOnes
<1>13. Cardinality(Decoding) + PlannedTokens(p) <= MaxBatchTokens
  <2>1. /\ Cardinality(Decoding) \in Nat /\ Cardinality(slots) \in Nat
        /\ Cardinality(Decoding) + Cardinality(slots) <= Cardinality(Slot)
    BY SlotCounts
  <2>. QED
    BY <1>7, <1>12, <2>1, BatchRoom
<1>14. ASSUME p.work # << >> PROVE AtMost(p.predicted, Whole(StepBudget))
  <2>1. n # 0
    BY <1>8, <1>14
  <2>2. n \in 1 .. n /\ n \in 1 .. Len(tails)
    BY <1>2, <1>6, <2>1
  <2>3. Under(SingletonMs(tails, n), Whole(StepBudget))
    BY <1>6, <2>2 DEF SingletonFits
  <2>4. SingletonMs(tails, n) \in Fraction
    BY <2>2, SingletonType
  <2>5. StepBudget \in Nat
    BY PlannerAssumption
  <2>. QED
    BY <1>8, <2>3, <2>4, <2>5, WholeType, Comparable
<1>15. GoodPlan(p)
  BY <1>7, <1>8, <1>10, <1>11, <1>13, <1>14 DEF GoodPlan
<1>. QED
  BY <1>15, Zenon DEF TailPlan, p, work, n, fits

\* The granted are the first of the order, each with a chunk that fits after
\* those before it.
LEMMA GrantFacts ==
  ASSUME PlannerTypeOK, NEW slots, slots \subseteq Waiting, NEW order \in OrdersOf(slots),
         NEW budget, NEW given \in Grants(order, budget)
  PROVE  LET n == Cardinality({i \in DOMAIN given : given[i] > 0})
         IN  /\ n \in 0 .. Len(order) /\ Len(order) \in Nat
             /\ DOMAIN given = 1 .. Len(order)
             /\ \A i \in 1 .. Len(order) : given[i] \in Nat
             /\ \A i \in 1 .. n : given[i] \in Fitting(order, given, i, budget)
             /\ \A i \in 1 .. Len(order) : given[i] > 0 <=> i \in 1 .. n
<1> DEFINE granted == {i \in DOMAIN given : given[i] > 0}
           n == Cardinality(granted)
<1>1. IsFiniteSet(slots)
  BY SlotCounts
<1>2. /\ Len(order) = Cardinality(slots) /\ Len(order) \in Nat
      /\ \A i \in 1 .. Len(order) : order[i] \in slots
  BY <1>1, OrderFacts
<1>3. given \in [1 .. Len(order) -> Chunk \cup {0}]
  BY DEF Grants
<1>4. \A i \in 1 .. Len(order) :
        given[i] = IF (\E m \in 1 .. i - 1 : given[m] = 0) \/ Fitting(order, given, i, budget) = {}
                   THEN 0 ELSE Greatest(Fitting(order, given, i, budget))
  BY Zenon DEF Grants
<1>5. \A i \in 1 .. Len(order) : given[i] \in Nat
  <2>1. Chunk \cup {0} \subseteq Nat
    BY PlannerAssumption
  <2>. QED
    BY <1>3, <2>1
<1>6. DOMAIN given = 1 .. Len(order)
  BY <1>3
<1>7. \A i : i \in granted <=> i \in 1 .. Len(order) /\ given[i] > 0
  BY <1>6
<1> HIDE DEF granted
<1>8. \A i \in granted : i \in 1 .. Len(order) /\ given[i] # 0
  BY <1>5, <1>7
<1>9. ASSUME NEW i \in granted, NEW m \in 1 .. i PROVE m \in granted
  <2>1. i \in 1 .. Len(order) /\ given[i] # 0
    BY <1>8
  <2>2. CASE m = i
    BY <2>2
  <2>3. CASE m # i
    <3>1. m \in 1 .. i - 1 /\ m \in 1 .. Len(order)
      BY <1>2, <2>1, <2>3
    <3>2. given[m] # 0
      BY <1>4, <2>1, <3>1
    <3>3. given[m] > 0
      BY <1>5, <3>1, <3>2
    <3>. QED
      BY <1>7, <3>1, <3>3
  <2>. QED
    BY <2>2, <2>3
<1>10. granted = 1 .. n /\ n \in 0 .. Len(order)
  <2>1. CASE granted = {}
    <3>1. n = 0
      BY <2>1, FS_EmptySet
    <3>. QED
      BY <1>2, <2>1, <3>1
  <2>2. CASE granted # {}
    <3>1. granted \subseteq Nat /\ \A i \in granted : i <= Len(order)
      BY <1>2, <1>8
    <3>2. PICK g \in granted : \A i \in granted : i <= g
      BY <1>2, <2>2, <3>1, GreatestExists
    <3>3. g \in Nat /\ g \in 0 .. Len(order)
      BY <1>2, <1>8, <3>2
    <3>4. granted \subseteq 1 .. g
      <4>1. ASSUME NEW i \in granted PROVE i \in 1 .. g
        <5>1. i \in 1 .. Len(order) /\ i <= g
          BY <1>8, <3>2
        <5>. QED
          BY <1>2, <3>3, <5>1
      <4>. QED
        BY <4>1
    <3>5. 1 .. g \subseteq granted
      BY <1>9, <3>2
    <3>6. granted = 1 .. g
      BY <3>4, <3>5
    <3>7. n = g
      BY <3>3, <3>6, UpTo
    <3>. QED
      BY <3>3, <3>6, <3>7
  <2>. QED
    BY <2>1, <2>2
<1> HIDE DEF n
<1>11. ASSUME NEW i \in 1 .. n PROVE given[i] \in Fitting(order, given, i, budget)
  <2> DEFINE fits == Fitting(order, given, i, budget)
  <2>1. i \in granted /\ i \in 1 .. Len(order) /\ given[i] # 0
    BY <1>8, <1>10
  <2>2. fits # {} /\ given[i] = Greatest(fits)
    BY <1>4, <2>1
  <2>3. Remaining(order[i]) \in Nat
    BY <1>2, <2>1, WaitingFacts
  <2>4. fits \subseteq Nat /\ \A c \in fits : c <= Remaining(order[i])
    BY PlannerAssumption DEF Fitting
  <2> HIDE DEF fits
  <2>. QED
    BY <2>2, <2>3, <2>4, GreatestIn DEF fits
<1>12. \A i \in 1 .. Len(order) : given[i] > 0 <=> i \in 1 .. n
  BY <1>7, <1>10
<1>. QED
  BY <1>2, <1>5, <1>6, <1>10, <1>11, <1>12 DEF n, granted

\* What fits into what the decodes leave keeps the sum within the budget.
LEMMA SumWithinBudget ==
  ASSUME NEW d \in Fraction, NEW p \in Fraction, AtMost(p, Left(d))
  PROVE  AtMost(Sum2(d, p), Whole(StepBudget))
<1>1. /\ d.num \in Nat /\ d.den \in Nat /\ d.den \in Nat \ {0}
      /\ p.num \in Nat /\ p.den \in Nat /\ p.den \in Nat \ {0}
  BY FractionParts
<1>2. StepBudget \in Nat
  BY PlannerAssumption
<1> DEFINE B == StepBudget
           a == d.num
           b == d.den
           x == p.num
           y == p.den
<1>3. a \in Nat /\ b \in Nat /\ b \in Nat \ {0} /\ x \in Nat /\ y \in Nat /\ y \in Nat \ {0} /\ B \in Nat
  BY <1>1, <1>2
<1>4. x * b <= (B * b - a) * y
  BY DEF AtMost, Left, Frac
<1>5. /\ Whole(StepBudget).num = B /\ Whole(StepBudget).den = 1
      /\ b = y => Sum2(d, p).num = a + x /\ Sum2(d, p).den = b
      /\ b # y => Sum2(d, p).num = a * y + x * b /\ Sum2(d, p).den = b * y
  BY DEF Whole, Frac, Sum2
<1> HIDE DEF B, a, b, x, y
<1>6. a * y \in Nat /\ x * b \in Nat /\ B * b \in Nat /\ b * y \in Nat /\ (B * b) * y \in Nat
  BY <1>3, TimesNat
<1>7. (B * b - a) * y = (B * b) * y - a * y
  BY <1>3, <1>6
<1>8. x * b + a * y <= (B * b) * y
  BY <1>4, <1>6, <1>7
<1>9. CASE b = y
  <2>1. (x + a) * b <= (B * b) * b
    BY <1>3, <1>6, <1>8, <1>9
  <2>2. x + a \in Nat
    BY <1>3
  <2>3. x + a <= B * b
    BY <1>3, <1>6, <2>1, <2>2, ScaleDown
  <2>4. (a + x) * 1 <= B * b
    BY <1>3, <1>6, <2>3
  <2>. QED
    BY <1>5, <1>9, <2>4 DEF AtMost
<1>10. CASE b # y
  <2>1. (B * b) * y = B * (b * y)
    BY <1>3
  <2>2. (a * y + x * b) * 1 <= B * (b * y)
    BY <1>6, <1>8, <2>1
  <2>. QED
    BY <1>5, <1>10, <2>2 DEF AtMost
<1>. QED
  BY <1>9, <1>10

\* Granted chunks are a good plan.
LEMMA PackedPlanGood ==
  ASSUME PlannerTypeOK, NEW order \in OrdersOf(Waiting), NEW ms \in Fraction,
         NEW given \in Grants(order, Left(ms))
  PROVE  GoodPlan(PackedPlan(order, given, ms))
<1> DEFINE n == Cardinality({i \in DOMAIN given : given[i] > 0})
           total == Total(given, n)
           work == [i \in 1 .. n |-> [slot |-> order[i], tokens |-> given[i]]]
           time == IF total = 0 THEN ms ELSE Sum2(ms, PrefillTable[total])
           p == [work |-> work, decodes |-> Decoding, predicted |-> time]
<1>1. /\ Cardinality(Decoding) \in Nat /\ IsFiniteSet(Waiting)
      /\ Cardinality(Decoding) + Cardinality(Waiting) <= Cardinality(Slot)
      /\ Cardinality(Waiting) \in Nat
  BY SlotCounts
<1>2. /\ \A i \in 1 .. Len(order) : order[i] \in Waiting
      /\ \A i, j \in 1 .. Len(order) : i # j => order[i] # order[j]
  BY <1>1, OrderFacts
<1>3. /\ n \in 0 .. Len(order) /\ Len(order) \in Nat
      /\ \A i \in 1 .. Len(order) : given[i] \in Nat
      /\ \A i \in 1 .. n : given[i] \in Fitting(order, given, i, Left(ms))
      /\ \A i \in 1 .. Len(order) : given[i] > 0 <=> i \in 1 .. n
  BY GrantFacts
<1> HIDE DEF n
<1>4. n \in Nat /\ \A i \in 1 .. n : i \in 1 .. Len(order)
  BY <1>3
<1>5. /\ p.work = work /\ p.decodes = Decoding /\ p.predicted = time
      /\ Len(work) = n /\ DOMAIN work = 1 .. n
  BY <1>4
<1>6. \A i \in 1 .. n : work[i].slot = order[i] /\ work[i].tokens = given[i]
  OBVIOUS
<1> HIDE DEF work, p, time, total
<1>7. ASSUME NEW i \in 1 .. n
      PROVE  /\ given[i] \in Nat \ {0} /\ given[i] <= Remaining(order[i])
             /\ Total(given, i - 1) + given[i] <= MaxPrefillTokens
             /\ AtMost(PrefillTable[Total(given, i - 1) + given[i]], Left(ms))
  <2>1. given[i] \in Fitting(order, given, i, Left(ms))
    BY <1>3
  <2>. QED
    BY <2>1, PlannerAssumption DEF Fitting, ChunkFits
<1>8. ASSUME NEW i \in 1 .. n
      PROVE  /\ work[i].slot \in Waiting /\ work[i].tokens \in Nat \ {0}
             /\ work[i].tokens <= Remaining(work[i].slot)
  BY <1>2, <1>4, <1>6, <1>7
<1>9. \A i, j \in 1 .. n : i # j => work[i].slot # work[j].slot
  BY <1>2, <1>4, <1>6
<1>10. PlannedTokens(p) = total
  <2> DEFINE f == [i \in 1 .. n |-> work[i].tokens]
  <2>1. \A i \in 1 .. n : f[i] = given[i]
    BY <1>6
  <2>2. PlannedTokens(p) = Total(f, n)
    BY <1>5 DEF PlannedTokens
  <2> HIDE DEF f
  <2>. QED
    BY <1>4, <2>1, <2>2, TotalSame DEF total
<1>11. n # 0 =>
         /\ total \in 1 .. MaxPrefillTokens
         /\ AtMost(PrefillTable[total], Left(ms))
  <2>1. SUFFICES ASSUME n # 0
                 PROVE  /\ total \in 1 .. MaxPrefillTokens
                        /\ AtMost(PrefillTable[total], Left(ms))
    OBVIOUS
  <2>2. n \in 1 .. n /\ n \in Nat \ {0} /\ n - 1 \in Nat
    BY <1>4, <2>1
  <2>3. \A i \in 1 .. n : given[i] \in Nat
    BY <1>7
  <2>4. total = Total(given, n - 1) + given[n]
    BY <2>2, <2>3, TotalStep DEF total
  <2>5. Total(given, n - 1) \in Nat
    <3>1. \A i \in 1 .. n - 1 : given[i] \in Nat
      BY <2>2, <2>3
    <3>. QED
      BY <2>2, <3>1, TokensFinite
  <2>6. given[n] \in Nat \ {0} /\ total <= MaxPrefillTokens /\ AtMost(PrefillTable[total], Left(ms))
    BY <1>7, <2>2, <2>4
  <2>. QED
    BY <2>4, <2>5, <2>6, BatchRoom
<1>12. n = 0 => total = 0
  BY TotalOfNone DEF total
<1>13. Cardinality(Decoding) + PlannedTokens(p) <= MaxBatchTokens
  <2>1. total \in Nat /\ total <= MaxPrefillTokens
    BY <1>11, <1>12, BatchRoom
  <2>. QED
    BY <1>1, <1>10, <2>1, BatchRoom
<1>14. ASSUME p.work # << >> PROVE AtMost(p.predicted, Whole(StepBudget))
  <2>1. n # 0
    BY <1>5, <1>14
  <2>2. total \in 1 .. MaxPrefillTokens /\ total # 0 /\ AtMost(PrefillTable[total], Left(ms))
    BY <1>11, <2>1, BatchRoom
  <2>3. PrefillTable[total] \in Fraction
    BY <2>2, PrefillTableType
  <2>4. p.predicted = Sum2(ms, PrefillTable[total])
    BY <1>5, <2>2 DEF time
  <2>. QED
    BY <2>2, <2>3, <2>4, SumWithinBudget
<1>15. GoodPlan(p)
  BY <1>4, <1>5, <1>8, <1>9, <1>13, <1>14 DEF GoodPlan
<1>. QED
  BY <1>15, Zenon DEF PackedPlan, p, work, time, total, n

\* The decodes of a turn, predicted.
DecodesMs == DecodeMs(Cardinality(Decoding), MaximumContext)

\* It is a fraction.
LEMMA DecodesMsType ==
  ASSUME PlannerTypeOK
  PROVE  DecodesMs \in Fraction
<1>1. /\ Cardinality(Decoding) \in Nat /\ IsFiniteSet(Decoding) /\ Cardinality(Slot) \in Nat
      /\ Cardinality(Decoding) <= Cardinality(Slot)
  <2>1. IsFiniteSet(Slot) /\ Decoding \in SUBSET Slot
    BY PlannerAssumption DEF Decoding
  <2>. QED
    BY <2>1, FS_Subset, FS_CardinalityType
<1>2. Cardinality(Decoding) # 0 => LongestContext \in Nat /\ MaximumContext \in 1 .. LongestContext
  <2>1. Cardinality(Decoding) # 0 => Decoding # {}
    BY FS_EmptySet
  <2>2. Decoding # {} =>
          /\ LongestContext \in Nat /\ MaximumContext \in Nat \ {0}
          /\ MaximumContext <= LongestContext
    BY MaximumContextType
  <2>. QED
    BY <2>1, <2>2
<1>3. Cardinality(Decoding) \in 0 .. Cardinality(Slot)
  BY <1>1
<1>. QED
  BY <1>2, <1>3, DecodeMsType DEF DecodesMs

\* A plan is made in one of three ways.
LEMMA PlanCases ==
  ASSUME NEW p \in Plans
  PROVE  \/ p = [work |-> << >>, decodes |-> Decoding, predicted |-> DecodesMs]
         \/ TailPressure /\ \E tails \in OrdersOf({s \in Waiting : IsTail(s)}) : p = TailPlan(tails)
         \/ \E order \in OrdersOf(Waiting) : \E given \in Grants(order, Left(DecodesMs)) :
              p = PackedPlan(order, given, DecodesMs)
BY DEF Plans, DecodesMs

\* Every plan is good.
LEMMA PlansGood ==
  ASSUME PlannerTypeOK, NEW p \in Plans
  PROVE  GoodPlan(p)
<1>1. CASE p = [work |-> << >>, decodes |-> Decoding, predicted |-> DecodesMs]
  BY <1>1, EmptyPlanGood
<1>2. CASE \E tails \in OrdersOf({s \in Waiting : IsTail(s)}) : p = TailPlan(tails)
  <2>1. {s \in Waiting : IsTail(s)} \subseteq Waiting
    OBVIOUS
  <2>. QED
    BY <1>2, <2>1, TailPlanGood
<1>3. CASE \E order \in OrdersOf(Waiting) : \E given \in Grants(order, Left(DecodesMs)) :
             p = PackedPlan(order, given, DecodesMs)
  BY <1>3, DecodesMsType, PackedPlanGood
<1>. QED
  BY <1>1, <1>2, <1>3, PlanCases

\* What the runs check of plans follows.
LEMMA GoodIsSound ==
  ASSUME PlannerTypeOK
  PROVE  WithinBudget /\ PlanFitsBatch /\ PlansAsOwnerAssumes
<1>1. \A p \in Plans : GoodPlan(p)
  BY PlansGood
<1>2. WithinBudget
  BY <1>1 DEF WithinBudget, GoodPlan
<1>3. PlansAsOwnerAssumes
  BY <1>1 DEF PlansAsOwnerAssumes, GoodPlan
<1>4. ASSUME NEW p \in Plans
      PROVE  /\ Cardinality(p.decodes) + PlannedTokens(p) <= MaxBatchTokens
             /\ Cardinality(p.decodes \cup PlannedSlots(p)) = Cardinality(p.decodes) + Len(p.work)
  <2> DEFINE n == Len(p.work)
             f == [i \in 1 .. n |-> p.work[i].slot]
  <2>1. /\ p.decodes = Decoding /\ n \in Nat /\ DOMAIN p.work = 1 .. n
        /\ \A i \in 1 .. n : p.work[i].slot \in Waiting
        /\ \A i, j \in 1 .. n : i # j => p.work[i].slot # p.work[j].slot
        /\ Cardinality(Decoding) + PlannedTokens(p) <= MaxBatchTokens
    BY <1>1 DEF GoodPlan
  <2> HIDE DEF n
  <2>2. PlannedSlots(p) \subseteq Waiting
    BY <2>1 DEF PlannedSlots
  <2>3. f \in [1 .. n -> PlannedSlots(p)]
    BY <2>1 DEF PlannedSlots
  <2>4. \A s \in PlannedSlots(p) : \E i \in 1 .. n : f[i] = s
    BY <2>1 DEF PlannedSlots
  <2>5. \A i, j \in 1 .. n : f[i] = f[j] => i = j
    BY <2>1
  <2> HIDE DEF f
  <2>6. f \in Injection(1 .. n, PlannedSlots(p)) /\ f \in Surjection(1 .. n, PlannedSlots(p))
    BY <2>3, <2>4, <2>5, Fun_IsInj, Fun_IsSurj
  <2>7. IsFiniteSet(1 .. n) /\ Cardinality(1 .. n) = n
    BY <2>1, UpTo
  <2>8. Cardinality(PlannedSlots(p)) = n
    BY <2>6, <2>7, FS_Surjection
  <2>9. Cardinality(Decoding \cup PlannedSlots(p)) = Cardinality(Decoding) + Cardinality(PlannedSlots(p))
    BY <2>2, SlotCounts
  <2>. QED
    BY <2>1, <2>8, <2>9 DEF n
<1>5. PlanFitsBatch
  BY <1>4 DEF PlanFitsBatch
<1>. QED
  BY <1>2, <1>3, <1>5

--------------------------------------------------------------------------------
(* The invariant *)

\* One request's part of the type invariant.
RequestFits(r) ==
  /\ r \in Request
  /\ r.prefilled <= r.prompt_len
  /\ r.phase # "Free" => \E shape \in Shape : r.prompt_len = shape.prompt /\ r.limit = shape.limit
  /\ r.phase = "QueuedPrefill" => r.generated = 0
  /\ r.phase = "Decoding" => r.prefilled = r.prompt_len /\ r.generated < r.limit

\* The type invariant is that of each request.
LEMMA TypeByRequest ==
  PlannerTypeOK <=> /\ requests = [s \in Slot |-> requests[s]]
                    /\ \A s \in Slot : RequestFits(requests[s])
                    /\ cached_left \in 0 .. CachedArrivals /\ turn \in {0, 1}
BY DEF PlannerTypeOK, RequestFits

\* A free slot is as it should be.
LEMMA VacantFits == RequestFits(Vacant)
<1>1. TtftSlo \in Nat
  BY PlannerAssumption
<1>2. Vacant \in Request
  BY <1>1 DEF Vacant, Request
<1>. QED
  BY <1>2 DEF Vacant, RequestFits

\* Changing fields of a request leaves a request.
LEMMA RequestUpdates ==
  ASSUME NEW r \in Request, NEW m \in Nat, NEW n \in Nat, NEW k \in Nat, NEW age \in 0 .. TtftSlo
  PROVE  /\ [r EXCEPT !.prefilled = n, !.age = age] \in Request
         /\ [r EXCEPT !.phase = "Decoding", !.prefilled = n, !.generated = k, !.age = age] \in Request
         /\ [r EXCEPT !.phase = "QueuedPrefill", !.prompt_len = m, !.prefilled = n, !.limit = k]
              \in Request
<1>1. [r EXCEPT !.prefilled = n, !.age = age] \in Request
  BY DEF Request
<1>2. [r EXCEPT !.phase = "Decoding", !.prefilled = n, !.generated = k, !.age = age] \in Request
  BY DEF Request
<1>3. [r EXCEPT !.phase = "QueuedPrefill", !.prompt_len = m, !.prefilled = n, !.limit = k] \in Request
  BY DEF Request
<1>. QED
  BY <1>1, <1>2, <1>3

\* What a good plan has a slot compute is what is left of its prompt at most,
\* and not nothing if the slot is in the plan.
LEMMA ChunkFacts ==
  ASSUME PlannerTypeOK, NEW p, GoodPlan(p), NEW s \in Slot
  PROVE  /\ ChunkOf(p, s) \in Nat
         /\ ChunkOf(p, s) # 0 => s \in Waiting /\ ChunkOf(p, s) <= Remaining(s)
         /\ ChunkOf(p, s) # 0 <=> \E i \in 1 .. Len(p.work) : p.work[i].slot = s
<1> DEFINE places == {j \in DOMAIN p.work : p.work[j].slot = s}
           n == {p.work[i].tokens : i \in places}
<1>1. DOMAIN p.work = 1 .. Len(p.work)
  BY DEF GoodPlan
<1>2. CASE places = {}
  <2>1. n = {}
    BY <1>2
  <2>2. ChunkOf(p, s) = 0
    BY <2>1 DEF ChunkOf
  <2>3. ~ \E i \in 1 .. Len(p.work) : p.work[i].slot = s
    BY <1>1, <1>2
  <2>. QED
    BY <2>2, <2>3
<1>3. CASE places # {}
  <2>1. PICK i \in places : TRUE
    BY <1>3
  <2>2. i \in 1 .. Len(p.work) /\ p.work[i].slot = s
    BY <1>1, <2>1
  <2>3. \A j \in places : j = i
    BY <1>1, <2>2 DEF GoodPlan
  <2> DEFINE k == p.work[i].tokens
  <2>4. n = {k}
    BY <2>1, <2>3
  <2>5. k \in Nat \ {0} /\ s \in Waiting /\ k <= Remaining(s)
    BY <2>2 DEF GoodPlan
  <2> HIDE DEF k
  <2>6. Greatest({k}) = k
    <3>1. {k} \subseteq Nat /\ {k} # {} /\ k \in Nat /\ \A m \in {k} : m <= k
      BY <2>5
    <3>. QED
      BY <3>1, GreatestIn
  <2>7. ChunkOf(p, s) = SplitAtBoundary(s, k)
    <3>1. n # {} /\ Greatest(n) = k
      BY <2>4, <2>6
    <3>. QED
      BY <3>1, Zenon DEF ChunkOf
  <2> DEFINE boundary == ((requests[s].prompt_len - 1) \div PageSize) * PageSize
  <2>8. requests[s].prompt_len \in Nat /\ requests[s].prefilled \in Nat
    BY SlotFacts
  <2>9. boundary \in Int
    <3>1. PageSize \in Nat \ {0}
      BY PlannerAssumption
    <3>2. (requests[s].prompt_len - 1) \div PageSize \in Int
      BY <2>8, <3>1
    <3>. QED
      BY <3>1, <3>2
  <2>10. SplitAtBoundary(s, k)
           = IF requests[s].prefilled < boundary /\ requests[s].prefilled + k > boundary
             THEN boundary - requests[s].prefilled ELSE k
    BY Zenon DEF SplitAtBoundary
  <2> HIDE DEF boundary
  <2>11. SplitAtBoundary(s, k) \in Nat \ {0} /\ SplitAtBoundary(s, k) <= k
    BY <2>5, <2>8, <2>9, <2>10
  <2>12. Remaining(s) \in Nat
    BY <2>5, WaitingFacts
  <2>13. SplitAtBoundary(s, k) <= Remaining(s)
    BY <2>5, <2>11, <2>12
  <2>. QED
    BY <2>2, <2>5, <2>7, <2>11, <2>13
<1>. QED
  BY <1>2, <1>3

\* A request after a turn is as it should be.
LEMMA AfterFits ==
  ASSUME PlannerTypeOK, NEW s \in Slot, NEW chunk \in Nat,
         chunk # 0 => s \in Waiting /\ chunk <= Remaining(s)
  PROVE  RequestFits(After(s, chunk))
<1> DEFINE r == requests[s]
           next == [r EXCEPT !.phase = "Decoding", !.prefilled = r.prompt_len,
                             !.generated = r.generated + 1, !.age = 0]
           later == [r EXCEPT !.prefilled = r.prefilled + chunk, !.age = Smaller(r.age + 1, TtftSlo)]
           samples == \/ r.phase = "Decoding"
                      \/ r.phase = "QueuedPrefill" /\ r.prefilled + chunk = r.prompt_len
<1>1. /\ r \in Request /\ r.phase \in {"Free", "QueuedPrefill", "Decoding"}
      /\ r.prompt_len \in Nat /\ r.prefilled \in Nat /\ r.generated \in Nat /\ r.limit \in Nat
      /\ r.age \in 0 .. TtftSlo /\ r.prefilled <= r.prompt_len
      /\ r.phase = "QueuedPrefill" => r.generated = 0
      /\ r.phase # "Free" =>
           \E shape \in Shape : r.prompt_len = shape.prompt /\ r.limit = shape.limit
  BY SlotFacts
<1>2. RequestFits(r)
  BY TypeByRequest
<1>3. TtftSlo \in Nat
  BY PlannerAssumption
<1>4. chunk # 0 => chunk <= r.prompt_len - r.prefilled
  BY DEF Remaining
<1> HIDE DEF r
<1>5. CASE samples /\ r.generated + 1 >= r.limit
  <2>1. After(s, chunk) = Vacant
    BY <1>5, Zenon DEF After, r
  <2>. QED
    BY <2>1, VacantFits
<1>6. CASE samples /\ ~(r.generated + 1 >= r.limit)
  <2>1. After(s, chunk) = next
    BY <1>6, Zenon DEF After, r
  <2>2. next \in Request
    <3>1. r.generated + 1 \in Nat /\ 0 \in 0 .. TtftSlo /\ r.prompt_len \in Nat /\ r \in Request
      BY <1>1, <1>3
    <3>. QED
      BY <3>1, RequestUpdates
  <2>3. /\ next.phase = "Decoding" /\ next.prefilled = r.prompt_len /\ next.prompt_len = r.prompt_len
        /\ next.generated = r.generated + 1 /\ next.limit = r.limit
    BY <1>1 DEF Request
  <2>4. r.phase # "Free"
    BY <1>6
  <2>5. next.generated < next.limit /\ next.prefilled <= next.prompt_len
    BY <1>1, <1>6, <2>3
  <2>6. \E shape \in Shape : next.prompt_len = shape.prompt /\ next.limit = shape.limit
    BY <1>1, <2>3, <2>4
  <2> HIDE DEF next
  <2>7. RequestFits(next)
    BY <2>2, <2>3, <2>5, <2>6 DEF RequestFits
  <2>. QED
    BY <2>1, <2>7
<1>7. CASE ~samples /\ r.phase = "Free"
  <2>1. After(s, chunk) = r
    BY <1>7, Zenon DEF After, r
  <2>. QED
    BY <1>2, <2>1
<1>8. CASE ~samples /\ r.phase # "Free"
  <2>1. After(s, chunk) = later
    BY <1>8, Zenon DEF After, r
  <2>2. r.phase = "QueuedPrefill"
    BY <1>1, <1>8
  <2>3. Smaller(r.age + 1, TtftSlo) \in 0 .. TtftSlo
    BY <1>1, <1>3 DEF Smaller
  <2>4. later \in Request
    <3>1. r.prefilled + chunk \in Nat /\ r \in Request
      BY <1>1
    <3>. QED
      BY <2>3, <3>1, RequestUpdates
  <2>5. /\ later.phase = r.phase /\ later.prefilled = r.prefilled + chunk
        /\ later.prompt_len = r.prompt_len /\ later.generated = r.generated
        /\ later.limit = r.limit
    BY <1>1 DEF Request
  <2> HIDE DEF later
  <2>6. later.prefilled <= later.prompt_len
    BY <1>1, <1>4, <2>5
  <2>7. RequestFits(later)
    BY <1>1, <2>2, <2>4, <2>5, <2>6 DEF RequestFits
  <2>. QED
    BY <2>1, <2>7
<1>9. \/ samples /\ r.generated + 1 >= r.limit
      \/ samples /\ ~(r.generated + 1 >= r.limit)
      \/ ~samples /\ r.phase = "Free"
      \/ ~samples /\ r.phase # "Free"
  OBVIOUS
<1> HIDE DEF samples
<1>. QED
  BY <1>5, <1>6, <1>7, <1>8, <1>9, Zenon

\* Whatever is measured and requested, the plans are sound.
LEMMA TypeInitially == PlannerInit => PlannerTypeOK
<1> SUFFICES ASSUME PlannerInit PROVE PlannerTypeOK
  OBVIOUS
<1>1. \A s \in Slot : requests[s] = Vacant
  BY DEF PlannerInit
<1>2. requests = [s \in Slot |-> requests[s]]
  BY <1>1 DEF PlannerInit
<1>3. cached_left \in 0 .. CachedArrivals /\ turn \in {0, 1}
  BY PlannerAssumption DEF PlannerInit
<1>. QED
  BY <1>1, <1>2, <1>3, VacantFits, TypeByRequest

\* Every step keeps the types.
LEMMA TypeKept == PlannerTypeOK /\ [PlannerNext]_vars => PlannerTypeOK'
<1> SUFFICES ASSUME PlannerTypeOK, [PlannerNext]_vars PROVE PlannerTypeOK'
  OBVIOUS
<1>1. /\ requests = [s \in Slot |-> requests[s]] /\ \A s \in Slot : RequestFits(requests[s])
      /\ cached_left \in 0 .. CachedArrivals /\ turn \in {0, 1}
  BY TypeByRequest
<1>2. SUFFICES /\ requests' = [s \in Slot |-> requests'[s]]
               /\ \A s \in Slot : RequestFits(requests'[s])
               /\ cached_left' \in 0 .. CachedArrivals /\ turn' \in {0, 1}
  BY DEF PlannerTypeOK, RequestFits
<1>3. CASE Turn
  <2>1. PICK p \in Plans : requests' = [s \in Slot |-> After(s, ChunkOf(p, s))]
    BY <1>3 DEF Turn
  <2>2. GoodPlan(p)
    BY PlansGood
  <2>3. ASSUME NEW s \in Slot PROVE RequestFits(requests'[s])
    <3>1. requests'[s] = After(s, ChunkOf(p, s))
      BY <2>1
    <3>2. /\ ChunkOf(p, s) \in Nat
          /\ ChunkOf(p, s) # 0 => s \in Waiting /\ ChunkOf(p, s) <= Remaining(s)
      BY <2>2, ChunkFacts
    <3>. QED
      BY <3>1, <3>2, AfterFits
  <2>4. cached_left' = cached_left /\ turn' \in {0, 1}
    BY <1>1, <1>3 DEF Turn, TakesTurn
  <2>. QED
    BY <1>1, <2>1, <2>3, <2>4
<1>4. ASSUME NEW s \in Slot, NEW shape \in Shape, Arrive(s, shape)
      PROVE  /\ requests' = [t \in Slot |-> requests'[t]]
             /\ \A t \in Slot : RequestFits(requests'[t])
             /\ cached_left' \in 0 .. CachedArrivals /\ turn' \in {0, 1}
  <2> DEFINE r == [Vacant EXCEPT !.phase = "QueuedPrefill", !.prompt_len = shape.prompt,
                                 !.prefilled = shape.cached, !.limit = shape.limit]
  <2>1. /\ requests' = [requests EXCEPT ![s] = r]
        /\ shape.cached > 0 => cached_left > 0
        /\ cached_left' = IF shape.cached > 0 THEN cached_left - 1 ELSE cached_left
        /\ turn' = turn
    BY <1>4, Zenon DEF Arrive
  <2>2. /\ shape.prompt \in Nat /\ shape.cached \in Nat /\ shape.limit \in Nat
        /\ shape.cached < shape.prompt
    BY PlannerAssumption
  <2>3. TtftSlo \in Nat /\ CachedArrivals \in Nat
    BY PlannerAssumption
  <2>4. Vacant \in Request /\ Vacant.generated = 0 /\ 0 \in 0 .. TtftSlo
    BY <2>3, VacantFits DEF RequestFits, Vacant
  <2>5. r \in Request
    BY <2>2, <2>4, RequestUpdates
  <2>6. /\ r.phase = "QueuedPrefill" /\ r.prompt_len = shape.prompt /\ r.prefilled = shape.cached
        /\ r.generated = 0 /\ r.limit = shape.limit
    BY <2>4 DEF Request
  <2> HIDE DEF r
  <2>7. RequestFits(r)
    BY <2>2, <2>5, <2>6 DEF RequestFits
  <2>8. cached_left' \in 0 .. CachedArrivals
    BY <1>1, <2>1, <2>2, <2>3
  <2>9. \A t \in Slot : requests'[t] = IF t = s THEN r ELSE requests[t]
    BY <1>1, <2>1
  <2>10. requests' = [t \in Slot |-> requests'[t]]
    BY <1>1, <2>1
  <2>. QED
    BY <1>1, <2>1, <2>7, <2>8, <2>9, <2>10
<1>5. CASE UNCHANGED vars
  BY <1>1, <1>5 DEF vars
<1>. QED
  BY <1>3, <1>4, <1>5 DEF PlannerNext

\* Whatever the measured latencies, the number of slots, the chunks and the
\* requests, the planner's plans keep within the step budget, fit the device
\* batch, and ask for work that exists only (Scheduler::schedule).
THEOREM PlansAreSound == PlannerSpec => []PlanSound
<1>1. PlannerInit => PlannerTypeOK
  BY TypeInitially
<1>2. PlannerTypeOK /\ [PlannerNext]_vars => PlannerTypeOK'
  BY TypeKept
<1>3. PlannerTypeOK => PlanSound
  BY GoodIsSound DEF PlanSound
<1>. QED
  BY <1>1, <1>2, <1>3, PTL DEF PlannerSpec

--------------------------------------------------------------------------------
(* The order of service *)

\* The older of two requests is the more urgent one, as long as the younger one
\* is not overdue.
LEMMA OlderIsMoreUrgent ==
  ASSUME NEW a \in 0 .. TtftSlo, NEW b \in 0 .. TtftSlo, a > b, 5 * b < 4 * TtftSlo
  PROVE  Urgency(a) < Urgency(b)
<1> DEFINE T == TtftSlo
           x == a \div 4
           y == b \div 4
<1>1. T \in Nat /\ a \in Nat /\ b \in Nat /\ a <= T /\ b <= T
  BY PlannerAssumption
<1>2. /\ x \in Nat /\ 4 * x <= a /\ a < 4 * x + 4
      /\ y \in Nat /\ 4 * y <= b /\ b < 4 * y + 4
  BY <1>1
<1>3. /\ Urgency(a) = Larger(Larger(T - a, 0) - x, 0)
      /\ Urgency(b) = Larger(Larger(T - b, 0) - y, 0)
  BY DEF Urgency
<1>4. 5 * b < 4 * T /\ a > b
  OBVIOUS
<1> HIDE DEF T, x, y
<1>5. Larger(T - a, 0) = T - a /\ Larger(T - b, 0) = T - b
  BY <1>1 DEF Larger
<1>6. T - b - y > 0 /\ T - b - y > T - a - x
  BY <1>1, <1>2, <1>4
<1>. QED
  BY <1>1, <1>2, <1>3, <1>5, <1>6 DEF Larger

\* A waiting request is served in a turn exactly if the plan has it compute.
LEMMA ServedByChunk ==
  ASSUME PlannerTypeOK, NEW p, GoodPlan(p), NEW s \in Waiting,
         requests' = [t \in Slot |-> After(t, ChunkOf(p, t))]
  PROVE  Served(s) <=> ChunkOf(p, s) # 0
<1> DEFINE r == requests[s]
           chunk == ChunkOf(p, s)
           next == [r EXCEPT !.phase = "Decoding", !.prefilled = r.prompt_len,
                             !.generated = r.generated + 1, !.age = 0]
           later == [r EXCEPT !.prefilled = r.prefilled + chunk, !.age = Smaller(r.age + 1, TtftSlo)]
<1>1. /\ s \in Slot /\ r.phase = "QueuedPrefill" /\ r \in Request
      /\ r.prompt_len \in Nat /\ r.prefilled \in Nat /\ r.prefilled < r.prompt_len
  BY SlotFacts DEF Waiting
<1>2. chunk \in Nat
  BY <1>1, ChunkFacts
<1>3. requests'[s] = After(s, chunk)
  BY <1>1
<1> HIDE DEF chunk
<1>4. CASE r.prefilled + chunk = r.prompt_len
  <2>1. chunk # 0
    BY <1>1, <1>4
  <2>2. requests'[s] = Vacant \/ requests'[s] = next
    <3>1. After(s, chunk) = IF r.generated + 1 >= r.limit THEN Vacant ELSE next
      BY <1>1, <1>4, Zenon DEF After
    <3>. QED
      BY <1>3, <3>1
  <2>3. Vacant.phase = "Free"
    BY DEF Vacant
  <2>4. next.phase = "Decoding"
    BY <1>1 DEF Request
  <2>5. requests'[s].phase # "QueuedPrefill"
    BY <2>2, <2>3, <2>4
  <2>. QED
    BY <2>1, <2>5 DEF Served, chunk
<1>5. CASE r.prefilled + chunk # r.prompt_len
  <2>1. r.phase # "Decoding" /\ r.phase # "Free"
    BY <1>1
  <2>2. requests'[s] = later
    BY <1>1, <1>3, <1>5, <2>1, Zenon DEF After
  <2>3. later.phase = "QueuedPrefill" /\ later.prefilled = r.prefilled + chunk
    BY <1>1 DEF Request
  <2> HIDE DEF later
  <2>4. Served(s) <=> r.prefilled + chunk > r.prefilled
    BY <2>2, <2>3 DEF Served
  <2>5. r.prefilled + chunk > r.prefilled <=> chunk # 0
    BY <1>1, <1>2
  <2>. QED
    BY <2>4, <2>5 DEF chunk
<1>. QED
  BY <1>4, <1>5

\* A turn without tail pressure does not serve the younger of two alone.
LEMMA TurnServesOlder ==
  ASSUME PlannerTypeOK, Turn, NEW s \in Waiting, NEW t \in Waiting, ~TailPressure,
         requests[s].age > requests[t].age, 5 * requests[t].age < 4 * TtftSlo, Served(t)
  PROVE  Served(s)
<1>1. PICK p \in Plans : requests' = [x \in Slot |-> After(x, ChunkOf(p, x))]
  BY DEF Turn
<1>2. GoodPlan(p)
  BY PlansGood
<1>3. s \in Slot /\ t \in Slot
  BY DEF Waiting
<1>4. PICK i \in 1 .. Len(p.work) : p.work[i].slot = t
  <2>1. ChunkOf(p, t) # 0
    BY <1>1, <1>2, ServedByChunk
  <2>. QED
    BY <1>2, <1>3, <2>1, ChunkFacts
<1>5. p.work # << >>
  BY <1>4
<1>6. PICK order \in OrdersOf(Waiting) :
        \E given \in Grants(order, Left(DecodesMs)) : p = PackedPlan(order, given, DecodesMs)
  <2>1. p # [work |-> << >>, decodes |-> Decoding, predicted |-> DecodesMs]
    BY <1>5
  <2>. QED
    BY <2>1, PlanCases
<1>7. PICK given \in Grants(order, Left(DecodesMs)) : p = PackedPlan(order, given, DecodesMs)
  BY <1>6
<1> DEFINE n == Cardinality({k \in DOMAIN given : given[k] > 0})
<1>8. IsFiniteSet(Waiting)
  BY SlotCounts
<1>9. /\ Len(order) \in Nat
      /\ \A x \in Waiting : \E k \in 1 .. Len(order) : order[k] = x
      /\ \A k, l \in 1 .. Len(order) :
           k < l => Urgency(requests[order[k]].age) <= Urgency(requests[order[l]].age)
  BY <1>8, OrderFacts
<1>10. n \in 0 .. Len(order)
  BY GrantFacts
<1>11. p.work = [k \in 1 .. n |-> [slot |-> order[k], tokens |-> given[k]]]
  BY <1>7, Zenon DEF PackedPlan
<1> HIDE DEF n
<1>12. Len(p.work) = n /\ \A k \in 1 .. n : p.work[k].slot = order[k]
  BY <1>9, <1>10, <1>11
<1>13. i \in 1 .. n /\ i \in 1 .. Len(order) /\ order[i] = t
  BY <1>4, <1>9, <1>10, <1>12
<1>14. PICK j \in 1 .. Len(order) : order[j] = s
  BY <1>9
<1>15. requests[s].age \in 0 .. TtftSlo /\ requests[t].age \in 0 .. TtftSlo
  BY <1>3, SlotFacts
<1>16. Urgency(requests[s].age) < Urgency(requests[t].age)
  BY <1>15, OlderIsMoreUrgent
<1>17. Urgency(requests[s].age) \in Int /\ Urgency(requests[t].age) \in Int
  <2>1. \A a \in 0 .. TtftSlo : Urgency(a) \in Int
    <3>1. TtftSlo \in Nat
      BY PlannerAssumption
    <3>. QED
      BY <3>1 DEF Urgency, Larger
  <2>. QED
    BY <1>15, <2>1
<1>18. ~(i < j)
  <2>1. SUFFICES ASSUME i < j PROVE FALSE
    OBVIOUS
  <2>2. Urgency(requests[t].age) <= Urgency(requests[s].age)
    BY <1>9, <1>13, <1>14, <2>1
  <2>. QED
    BY <1>16, <1>17, <2>2
<1>19. j \in 1 .. n
  BY <1>9, <1>10, <1>13, <1>18
<1>20. ChunkOf(p, s) # 0
  BY <1>2, <1>3, <1>12, <1>14, <1>19, ChunkFacts
<1>. QED
  BY <1>1, <1>2, <1>20, ServedByChunk

\* Without tail pressure a prefill is never passed over for a younger one that
\* is not overdue (Scheduler::schedule, which sorts by urgency and stops at the
\* first that gets nothing).
THEOREM PrefillsOldestFirst == PlannerSpec => OldestFirst
<1> DEFINE Fair ==
             \A s, t \in Waiting :
               /\ ~TailPressure
               /\ requests[s].age > requests[t].age /\ 5 * requests[t].age < 4 * TtftSlo
               /\ Served(t)
               => Served(s)
<1>1. PlannerTypeOK /\ [PlannerNext]_vars => [Fair]_vars
  <2> SUFFICES ASSUME PlannerTypeOK, [PlannerNext]_vars PROVE [Fair]_vars
    OBVIOUS
  <2>1. CASE Turn
    BY <2>1, TurnServesOlder
  <2>2. ASSUME NEW x \in Slot, NEW shape \in Shape, Arrive(x, shape) PROVE Fair
    <3>1. ASSUME NEW t \in Waiting PROVE ~Served(t)
      <4>1. t \in Slot /\ requests[t].phase = "QueuedPrefill" /\ requests[t].prefilled \in Nat
        BY SlotFacts DEF Waiting
      <4>2. t # x
        BY <2>2, <4>1 DEF Arrive
      <4>3. requests'[t] = requests[t]
        BY <2>2, <4>1, <4>2 DEF Arrive, PlannerTypeOK
      <4>. QED
        BY <4>1, <4>3 DEF Served
    <3>. QED
      BY <3>1
  <2>3. CASE UNCHANGED vars
    BY <2>3
  <2>. QED
    BY <2>1, <2>2, <2>3 DEF PlannerNext
<1>2. PlannerInit => PlannerTypeOK
  BY TypeInitially
<1>3. PlannerTypeOK /\ [PlannerNext]_vars => PlannerTypeOK'
  BY TypeKept
<1>. QED
  BY <1>1, <1>2, <1>3, PTL DEF PlannerSpec, OldestFirst
=============================================================================
