------------------------------- MODULE StepLayout -------------------------------
(***************************************************************************)
(* The rows of a model step (prepare_ragged and forward_logits in          *)
(* src/model/lfm2_base.rs): the tokens of one segment after those of       *)
(* another.  A segment is a number, and "count" says how many tokens it    *)
(* brings.                                                                 *)
(***************************************************************************)
EXTENDS Integers, FiniteSets

\* The tokens <<segment, place>> of a step.
RowTokens(count) == UNION {{s} \X (1 .. count[s]) : s \in DOMAIN count}

\* The rows in front of a segment.
RowsBefore(count, s) == Cardinality({token \in RowTokens(count) : token[1] < s})

\* The token of each row, in the order of the segments.
Layout(count) ==
  LET before == [s \in DOMAIN count |-> RowsBefore(count, s)]
      segment(i) == CHOOSE s \in DOMAIN count : i - before[s] \in 1 .. count[s]
  IN [i \in 1 .. Cardinality(RowTokens(count)) |-> <<segment(i), i - before[segment(i)]>>]
================================================================================
