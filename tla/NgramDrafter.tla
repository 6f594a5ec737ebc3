----------------------------- MODULE NgramDrafter -----------------------------
(***************************************************************************)
(* The prompt-lookup drafter of src/generation/ngram_drafter.rs: the       *)
(* longest suffix of the history that occurred before proposes the tokens  *)
(* that followed it then.  Positions count from 0, as in the code.         *)
(***************************************************************************)
EXTENDS Integers, Sequences, FiniteSets

CONSTANTS
  MinNgram,    \* min_ngram
  MaxNgram,    \* max_ngram
  DraftLength  \* draft_length

ASSUME NgramAssumption ==
  /\ MinNgram \in Nat \ {0}
  /\ MaxNgram \in Nat /\ MaxNgram >= MinNgram
  /\ DraftLength \in Nat

Smaller(a, b) == IF a < b THEN a ELSE b

\* max_tokens_for_depth: short matches propose few tokens.
DepthLimit(n) == IF n \in {2, 3} THEN Smaller(DraftLength, n) ELSE DraftLength

\* Where the last n tokens occurred before.
Occurs(history, n) ==
  LET len == Len(history)
  IN  {i \in 0 .. len - n - 1 :
         SubSeq(history, i + 1, i + n) = SubSeq(history, len - n + 1, len)}

\* What followed the occurrence at i, cut at the end of the history.
Continuation(history, n, i) ==
  SubSeq(history, i + n + 1, Smaller(i + n + DepthLimit(n), Len(history)))

\* The occurrence whose continuation is most frequent, the latest among equals.
Best(history, n) ==
  LET Followers(i) == {j \in Occurs(history, n) :
                         Continuation(history, n, j) = Continuation(history, n, i)}
      Frequency(i) == Cardinality(Followers(i))
  IN  CHOOSE i \in Occurs(history, n) :
        \A j \in Occurs(history, n) :
          Frequency(j) < Frequency(i) \/ (Frequency(j) = Frequency(i) /\ j <= i)

Depths(history) ==
  {n \in MinNgram .. Smaller(MaxNgram, Len(history) - 1) : Occurs(history, n) # {}}

Draft(history) ==
  IF DraftLength = 0 \/ Len(history) <= MinNgram \/ Depths(history) = {}
  THEN << >>
  ELSE LET n == CHOOSE n \in Depths(history) : \A m \in Depths(history) : m <= n
       IN  Continuation(history, n, Best(history, n))
=============================================================================
