------------------------------- MODULE StopWords -------------------------------
(***************************************************************************)
(* Text as the frontend handles it while it looks for stop words           *)
(* (src/server/routes.rs, src/server/mod.rs).  A text is a sequence of     *)
(* bytes; a character takes one byte or the two bytes Lead and Follow; the *)
(* replacement character that decoding puts for a broken character takes   *)
(* three.  Positions are byte offsets from 0, as in the code, and a slice  *)
(* at an offset inside a character panics.                                 *)
(***************************************************************************)
EXTENDS Integers, Sequences, SequencesExt, FiniteSetsExt

Lead == "lead"
Follow == "follow"
Replacement == <<"fffd1", "fffd2", "fffd3">>
ImEnd == <<"<|im_end|>">>             \* stands for the bytes of that tag
EndOfText == <<"<|endoftext|>">>

\* The decoder of a byte-level tokenizer: a Lead without its Follow, or a
\* Follow without its Lead, becomes a replacement character.
Decode(bytes) ==
  LET Paired(i) ==
        \/ bytes[i] = Lead /\ i < Len(bytes) /\ bytes[i + 1] = Follow
        \/ bytes[i] = Follow /\ i > 1 /\ bytes[i - 1] = Lead
      Broken(i) == bytes[i] \in {Lead, Follow} /\ ~Paired(i)
  IN FlattenSeq([i \in 1 .. Len(bytes) |-> IF Broken(i) THEN Replacement ELSE <<bytes[i]>>])

\* Whether an offset lies between two characters.
Boundary(text, at) ==
  at < Len(text) => text[at + 1] \notin {Follow, "fffd2", "fffd3"}

Occurrences(text, word) ==
  {at \in 0 .. Len(text) - Len(word) : SubSeq(text, at + 1, at + Len(word)) = word}

Matches(text, words) == UNION {Occurrences(text, word) : word \in words \ {<< >>}}

\* check_stop_match: the earliest offset at which a stop word begins.
NoMatch == -1
CheckStopMatch(text, words) ==
  IF Matches(text, words) = {} THEN NoMatch ELSE Min(Matches(text, words))

\* longest_stop_prefix_len: how much of the end of the text could still become
\* a stop word.
PrefixHeld(text, word) ==
  Max({0} \cup {n \in 1 .. Min({Len(text), Len(word)}) :
                  Boundary(word, n) /\ IsSuffix(SubSeq(word, 1, n), text)})

LongestStopPrefix(text, words) ==
  Max({0} \cup {PrefixHeld(text, word) : word \in words \ {<< >>}})

\* It slices each word at every length from the longest down to the one that
\* matches, and panics at a length inside a character.
SlicePanics(text, words) ==
  \E word \in words \ {<< >>} :
    \E n \in PrefixHeld(text, word) + 1 .. Min({Len(text), Len(word)}) : ~Boundary(word, n)

\* How much of a text has been emitted already: all that was emitted, or the
\* characters the two have in common when the text has changed.
CommonLength(text, emitted) ==
  IF IsPrefix(emitted, text) THEN Len(emitted)
  ELSE Max({n \in 0 .. Min({Len(text), Len(emitted)}) :
              /\ SubSeq(text, 1, n) = SubSeq(emitted, 1, n)
              /\ Boundary(text, n)
              /\ Boundary(emitted, n)})
Delta(text, emitted) == SubSeq(text, CommonLength(text, emitted) + 1, Len(text))

StripSuffix(text, tail) ==
  IF IsSuffix(tail, text) THEN SubSeq(text, 1, Len(text) - Len(tail)) ELSE text
StripBroken(text) ==
  LET Trailing(n) == FlattenSeq([i \in 1 .. n |-> Replacement])
      count == Max({n \in 0 .. Len(text) \div 3 : IsSuffix(Trailing(n), text)})
  IN SubSeq(text, 1, Len(text) - 3 * count)

\* The tags of the chat template and broken characters are taken off the end.
Cleaned(text) == StripBroken(StripSuffix(StripSuffix(text, ImEnd), EndOfText))

\* apply_stop_conditions: the text of an answer that is not streamed.
CutAtStop(text, words) ==
  LET at == CheckStopMatch(Cleaned(text), words)
  IN IF at = NoMatch THEN Cleaned(text) ELSE SubSeq(Cleaned(text), 1, at)
StopReason(text, words, reason) ==
  IF CheckStopMatch(Cleaned(text), words) = NoMatch THEN reason ELSE "stop"
=============================================================================
