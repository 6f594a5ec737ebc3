--------------------------- MODULE MCBatchModelCache ---------------------------
(* A small instance of BatchModelCache for TLC. *)
EXTENDS BatchModelCache, TLC

\* Two prompts that share two pages, one that shares one with them.
MCPrompt == {<<1, 1, 1, 1, 2>>, <<1, 1, 1, 1, 1>>, <<1, 1, 2>>}

\* Slots, pages and checkpoint slots are interchangeable.
MCSymmetry == Permutations(Page) \cup Permutations(Slot) \cup Permutations(Checkpoint)
=============================================================================
