-------------------------------- MODULE CostModel --------------------------------
(***************************************************************************)
(* Predicted latencies: CostCurve and HardwareCostModel in                 *)
(* src/scheduler/cost_model.rs.  A curve is a sequence of measured points. *)
(* The code computes in f64; a prediction here is the exact fraction.      *)
(* Logarithmic distances are compared as products of ratios.               *)
(***************************************************************************)
EXTENDS Integers, Sequences, FiniteSets

Larger(a, b) == IF a >= b THEN a ELSE b
Smaller(a, b) == IF a <= b THEN a ELSE b
Greatest(S) == CHOOSE x \in S : \A y \in S : x >= y
Least(S) == CHOOSE x \in S : \A y \in S : x <= y

\* Fractions with a positive denominator.
Frac(n, d) == [num |-> n, den |-> d]
Whole(n) == Frac(n, 1)
AtMost(a, b) == a.num * b.den <= b.num * a.den
Under(a, b) == a.num * b.den < b.num * a.den
Sum2(a, b) ==
  IF a.den = b.den THEN Frac(a.num + b.num, a.den)
  ELSE Frac(a.num * b.den + b.num * a.den, a.den * b.den)

\* The value offset steps of span from a towards b.
Between(a, b, offset, span) ==
  IF offset = 0 THEN a
  ELSE Sum2(Frac(a.num * (span - offset), a.den * span), Frac(b.num * offset, b.den * span))

Point(batch, tokens, context, ms) ==
  [batch |-> batch, tokens |-> tokens, context |-> context, ms |-> ms]

Volume(p) == p.batch * p.tokens * p.context

\* What CostCurve::new requires of measured points.  A profile that serde reads
\* from a file (HardwareCostModel::from_path) does not go through it: that its
\* curves are valid too is an assumption on the files, not a check of the code.
ValidCurve(curve) ==
  /\ curve # << >>
  /\ curve \in Seq([batch : Nat \ {0}, tokens : Nat \ {0}, context : Nat \ {0}, ms : Nat])

\* Of the points at least as large in every dimension, the nearest; the slower
\* one of two that are equally near.
Dominating(curve, batch, tokens, context) ==
  {i \in DOMAIN curve :
     curve[i].batch >= batch /\ curve[i].tokens >= tokens /\ curve[i].context >= context}

NearestDominating(curve, above) ==
  LET volume == Least({Volume(curve[i]) : i \in above})
  IN  Greatest({curve[i].ms : i \in {j \in above : Volume(curve[j]) = volume}})

\* How far a point is from a load, in either direction, as a ratio.
Distance(p, batch, tokens, context) ==
  Frac(Larger(p.batch, batch) * Larger(p.tokens, tokens) * Larger(p.context, context),
       Smaller(p.batch, batch) * Smaller(p.tokens, tokens) * Smaller(p.context, context))

\* Beyond the measured points: the nearest, scaled by the ratio of every
\* dimension that exceeds it.
Extrapolated(curve, batch, tokens, context) ==
  LET D(i) == Distance(curve[i], batch, tokens, context)
      i    == Least({n \in DOMAIN curve : \A k \in DOMAIN curve : AtMost(D(n), D(k))})
      p    == curve[i]
  IN  Frac(p.ms * Larger(batch, p.batch) * Larger(tokens, p.tokens) * Larger(context, p.context),
           Volume(p))

Predict(curve, batch, tokens, context) ==
  LET exact == {i \in DOMAIN curve :
                  curve[i].batch = batch /\ curve[i].tokens = tokens
                  /\ curve[i].context = context}
      above == Dominating(curve, batch, tokens, context)
  IN  IF exact # {} THEN Whole(curve[Least(exact)].ms)
      ELSE IF above # {} THEN Whole(NearestDominating(curve, above))
      ELSE Extrapolated(curve, batch, tokens, context)

-----------------------------------------------------------------------------
(* Decode curves are interpolated over batch and context.                  *)

\* The measurements of one token per request at a context.
Row(curve, context) == {i \in DOMAIN curve : curve[i].tokens = 1 /\ curve[i].context = context}

\* The growth assumed beyond the largest measured batch.
BatchRatio(batch, measured) == Frac(Larger(batch, measured), measured)

\* Mutant: the larger of the two measured batches, as dominance would have it.
BatchWeightFull(batch, lower, upper) == upper - lower

\* The weight of the upper measured batch.
BatchWeight(batch, lower, upper) == batch - lower

\* interpolate_decode_batch at a context that has measurements.
InterpolateBatch(curve, batch, context) ==
  LET row   == Row(curve, context)
      Ms(b) == Whole(curve[Least({i \in row : curve[i].batch = b})].ms)
      sizes == {curve[i].batch : i \in row}
      below == {b \in sizes : b <= batch}
      over  == {b \in sizes : b >= batch}
  IN  IF below = {} THEN Ms(Least(over))
      ELSE IF over = {}
      THEN LET lower == Greatest(below)
               ratio == BatchRatio(batch, lower)
           IN  Frac(Ms(lower).num * ratio.num, ratio.den)
      ELSE LET lower == Greatest(below)
               upper == Least(over)
           IN  Between(Ms(lower), Ms(upper), BatchWeight(batch, lower, upper), upper - lower)

\* The weight of the upper measured context.
ContextWeight(context, lower, upper) == context - lower

PredictDecode(curve, batch, context) ==
  LET contexts == {curve[i].context : i \in {j \in DOMAIN curve : curve[j].tokens = 1}}
      below    == {c \in contexts : c <= context}
      over     == {c \in contexts : c >= context}
      At(c)    == InterpolateBatch(curve, batch, c)
  IN  IF contexts = {} THEN Predict(curve, batch, 1, context)
      ELSE IF below = {} THEN At(Least(over))
      ELSE IF over = {}
      THEN LET lower == Greatest(below)
           IN  Frac(At(lower).num * context, At(lower).den * lower)
      ELSE LET lower == Greatest(below)
               upper == Least(over)
           IN  Between(At(lower), At(upper), ContextWeight(context, lower, upper), upper - lower)

PredictPrefill(curve, tokens) == Predict(curve, 1, tokens, tokens)
=============================================================================
