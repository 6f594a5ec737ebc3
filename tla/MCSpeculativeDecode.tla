------------------------- MODULE MCSpeculativeDecode -------------------------
(* SpeculativeDecode with every prompt of a few lengths. *)
EXTENDS SpeculativeDecode

CONSTANT PromptLengths

AllPrompts == UNION {[1 .. n -> Token] : n \in PromptLengths}
==============================================================================
