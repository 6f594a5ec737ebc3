------------------------------- MODULE CostCurves -------------------------------
(***************************************************************************)
(* How the predictions of CostModel behave over the loads of a bounded     *)
(* size, for every hardware profile with a dense decode grid and a prefill *)
(* curve that are monotone, as latencies are.                              *)
(***************************************************************************)
EXTENDS CostModel

CONSTANTS
  Milliseconds,  \* latencies a profile may hold
  GridBatches,   \* the two measured batch sizes
  GridContexts,  \* the two measured contexts
  MaxBatch,      \* bound on the batch of a load
  MaxContext     \* bound on its longest context, or on the tokens of a prefill

\* Two batch sizes at two contexts; three prefill lengths.
Profiles ==
  LET b == GridBatches
      c == GridContexts
      Lo(S) == Least(S)
      Hi(S) == Greatest(S)
  IN  {[decode  |-> << Point(Lo(b), 1, Lo(c), ms[1]), Point(Hi(b), 1, Lo(c), ms[2]),
                       Point(Lo(b), 1, Hi(c), ms[3]), Point(Hi(b), 1, Hi(c), ms[4]) >>,
        prefill |-> << Point(1, Lo(c), Lo(c), ms[1]), Point(1, Lo(c) + 1, Lo(c) + 1, ms[2]),
                       Point(1, Hi(c), Hi(c), ms[4]) >>] :
         ms \in {m \in [1 .. 4 -> Milliseconds] :
                   m[1] <= m[2] /\ m[1] <= m[3] /\ m[2] <= m[4] /\ m[3] <= m[4]}}

Points(curve) == {curve[i] : i \in DOMAIN curve}

\* The predictions of every profile, tabulated.
Predicted ==
  [profile \in Profiles |->
     [batch \in 1 .. MaxBatch + 1 |->
        [context \in 1 .. MaxContext + 1 |-> PredictDecode(profile.decode, batch, context)]]]
PredictedPrefill ==
  [profile \in Profiles |->
     [n \in 1 .. MaxContext |-> PredictPrefill(profile.prefill, n)]]
SteepestRise ==
  [profile \in Profiles |-> Greatest({p.ms - q.ms : p, q \in Points(profile.decode)})]

\* A prediction lies between what has been measured of lighter and of heavier
\* loads, which makes it exact at a measured point ("keeps exact measurements
\* exact", CostCurve::predict_decode_interpolated).
Bracketed(profile, batch, context) ==
  LET decode  == Predicted[profile][batch][context]
      prefill == PredictedPrefill[profile][context]
  IN  /\ \A p \in Points(profile.decode) :
           /\ p.batch <= batch /\ p.context <= context => AtMost(Whole(p.ms), decode)
           /\ p.batch >= batch /\ p.context >= context => AtMost(decode, Whole(p.ms))
      /\ \A p \in Points(profile.prefill) :
           /\ p.tokens <= context => AtMost(Whole(p.ms), prefill)
           /\ p.tokens >= context => AtMost(prefill, Whole(p.ms))

\* Beyond what has been measured latency is taken to grow with the load: in
\* proportion to the batch, to the context, or to both, over the largest that
\* were measured ("outside the measured envelope we still extrapolate
\* conservatively").
Conservative(profile, batch, context) ==
  LET b == Greatest(GridBatches)
      c == Greatest(GridContexts)
  IN  \A p \in Points(profile.decode) :
        p.batch <= batch /\ p.context <= context =>
          AtMost(Frac(p.ms * Larger(batch, b) * Larger(context, c), b * c),
                 Predicted[profile][batch][context])

\* From one load to the next the prediction never falls, and within the measured
\* grid rises no faster than the measurements do: there is no cliff between a
\* measured batch or context and the next one, which lies at least two away, so
\* that a load falls strictly between them (in the profiles of the repository
\* batch 33 lies between the measured 32 and 64, context 2049 between 2048 and
\* 8192).
NoCliff(profile, here, then, within, along) ==
  /\ AtMost(here, then)
  /\ within => AtMost(then, Sum2(here, Frac(SteepestRise[profile], Greatest(along) - Least(along))))

NoCliffs(profile, batch, context) ==
  LET here == Predicted[profile][batch][context]
  IN  /\ NoCliff(profile, here, Predicted[profile][batch + 1][context],
                 batch < Greatest(GridBatches) /\ context <= Greatest(GridContexts), GridBatches)
      /\ NoCliff(profile, here, Predicted[profile][batch][context + 1],
                 batch <= Greatest(GridBatches) /\ context < Greatest(GridContexts), GridContexts)

SoundAt(batch, context) ==
  \A profile \in Profiles :
    /\ ValidCurve(profile.decode) /\ ValidCurve(profile.prefill)
    /\ Bracketed(profile, batch, context)
    /\ Conservative(profile, batch, context)
    /\ NoCliffs(profile, batch, context)
=============================================================================
