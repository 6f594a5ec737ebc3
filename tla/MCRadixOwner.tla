----------------------------- MODULE MCRadixOwner -----------------------------
(* Small instances of RadixOwner for TLC. *)
EXTENDS RadixOwner, TLC

\* Two requests with a page in common, a third one of a single token, one whose
\* length overflows and one without a prompt.
MCRequest == {"a", "b", "c", "long", "blank"}
MCPromptOf ==
  [r \in MCRequest |-> CASE r \in {"a", "long"} -> <<1, 1, 1>>
                         [] r = "b" -> <<1, 1, 2>>
                         [] r = "c" -> <<1>>
                         [] r = "blank" -> << >>]
MCLimitOf ==
  [r \in MCRequest |-> CASE r \in {"long", "c"} -> 4 [] OTHER -> 1]
MCPrompt == {MCPromptOf[r] : r \in MCRequest}

MCSymmetry ==
  Permutations(Page) \cup Permutations(Slot) \cup Permutations(Checkpoint)

\* At most three of the requests are submitted, any three.
ThreeSubmitted == Cardinality({r \in Request : client[r] # "idle"}) <= 3

\* For liveness, where no symmetry can be used: one request more than slots, two
\* of which share a page while the third decodes.
MCThree == {"a", "b", "c"}
MCThreePromptOf == [r \in MCThree |-> IF r = "c" THEN <<1>> ELSE <<1, 1, 1>>]
MCThreeLimitOf == [r \in MCThree |-> IF r = "c" THEN 2 ELSE 1]
MCThreePrompt == {MCThreePromptOf[r] : r \in MCThree}
=============================================================================
