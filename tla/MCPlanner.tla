-------------------------------- MODULE MCPlanner --------------------------------
(* Instances of Planner: three slots, thresholds scaled down. *)
EXTENDS Planner, CostCurves

MCDecodeCurve == << Point(1, 1, 2, 2), Point(3, 1, 2, 4), Point(1, 1, 6, 3), Point(3, 1, 6, 6) >>
MCPrefillCurve == 
  << Point(1, 1, 1, 2), Point(1, 2, 2, 3), Point(1, 4, 4, 4), Point(1, 8, 8, 6) >>
MCShape ==
  { [prompt |-> 5, cached |-> 0, limit |-> 2],
    [prompt |-> 2, cached |-> 0, limit |-> 1],
    [prompt |-> 6, cached |-> 4, limit |-> 2] }

\* What admission and packing rely on of predicted latencies (CostCurve,
\* HardwareCostModel), for every profile, as many requests as are present and
\* every context up to theirs: exact at measured points and between its
\* neighbours elsewhere, growing with the load beyond them, without cliffs.
CurvesSound ==
  LET present == {s \in Slot : requests[s].phase # "Free"}
  IN  \A context \in 1 .. MaximumContext : SoundAt(Larger(Cardinality(present), 1), context)
=============================================================================
