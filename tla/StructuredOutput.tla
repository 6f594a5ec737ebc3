--------------------------- MODULE StructuredOutput ---------------------------
(***************************************************************************)
(* clean_structured_output of src/server/routes.rs: what is sent of a text *)
(* the model wrote when the client asked for JSON.  A text is a sequence   *)
(* of symbols: brackets, the fence ``` of a code block, the word json, a   *)
(* space, and a word, which between brackets stands for any contents that  *)
(* make them valid.                                                        *)
(***************************************************************************)
EXTENDS Integers, Sequences, SequencesExt, FiniteSetsExt

Symbol == {"{", "}", "[", "]", "fence", "json", " ", "word"}

\* serde_json::from_str: one object or array with balanced brackets.
AfterSymbol(open, symbol) ==
  IF open = <<"bad">> \/ (open = <<"done">> /\ symbol = " ") THEN open
  ELSE IF open = <<"done">> THEN <<"bad">>
  ELSE CASE symbol \in {"{", "["} -> Append(open, symbol)
         [] symbol \in {"}", "]"} ->
              IF Last(open) # (IF symbol = "}" THEN "{" ELSE "[") THEN <<"bad">>
              ELSE IF Len(open) = 2 THEN <<"done">> ELSE Front(open)
         [] symbol \in {"fence", "json"} -> <<"bad">>
         [] OTHER -> IF Len(open) = 1 THEN <<"bad">> ELSE open
IsJson(t) == FoldLeft(AfterSymbol, <<"start">>, t) = <<"done">>

At(t, symbol) == {i \in 1 .. Len(t) : t[i] = symbol}

Trim(t) ==
  LET ink == {i \in 1 .. Len(t) : t[i] # " "}
  IN IF ink = {} THEN << >> ELSE SubSeq(t, Min(ink), Max(ink))

\* What is inside the fence a text begins with, up to the last fence if any.
Unfenced(t) ==
  LET body == IF Len(t) > 1 /\ t[2] = "json" THEN SubSeq(t, 3, Len(t)) ELSE Tail(t)
      ends == At(body, "fence")
  IN Trim(IF ends = {} THEN body ELSE SubSeq(body, 1, Max(ends) - 1))
Fenced(t) == t # << >> /\ t[1] = "fence" /\ IsJson(Unfenced(t))

\* From the first opening to the last closing bracket; the slice is taken before
\* their order is looked at.
Has(t, open, close) == At(t, open) # {} /\ At(t, close) # {}
WrongOrder(t, open, close) ==
  Has(t, open, close) /\ Min(At(t, open)) > Max(At(t, close)) + 1

\* mutant: up to the first closing bracket
Inner(t, open, close) ==
  IF Has(t, open, close) THEN SubSeq(t, Min(At(t, open)), Min(At(t, close))) ELSE << >>

Outer(t, open, close) ==
  IF Has(t, open, close) THEN SubSeq(t, Min(At(t, open)), Max(At(t, close))) ELSE << >>

\* clean_structured_output
Panicked == <<"panic">>
Clean(raw) ==
  LET t == Trim(raw)
  IN CASE Fenced(t) -> Unfenced(t)
       [] ~Fenced(t) /\ IsJson(t) -> t
       [] OTHER ->
            IF WrongOrder(t, "{", "}") THEN Panicked
            ELSE IF IsJson(Outer(t, "{", "}")) THEN Outer(t, "{", "}")
            ELSE IF WrongOrder(t, "[", "]") THEN Panicked
            ELSE IF IsJson(Outer(t, "[", "]")) THEN Outer(t, "[", "]")
            ELSE t

----------------------------------------------------------------------------

Brackets == {"{", "}", "[", "]"}

\* Whether positions i to j of a text are a JSON value, and no bracket stands
\* around it.
Alone(text, i, j) ==
  /\ IsJson(SubSeq(text, i, j))
  /\ \A k \in DOMAIN text \ (i .. j) : text[k] \notin Brackets

\* The value a text contains, if it begins so and is the only one.
Values(text, open) ==
  UNION {{SubSeq(text, i, j) : j \in {j \in i .. Len(text) : Alone(text, i, j)}} :
           i \in At(text, open)}

Within(part, whole) == \E i \in 0 .. Len(whole) - Len(part) : SubSeq(whole, i + 1, i + Len(part)) = part

\* What was sent is the one object of the text, as JSON a client can parse.
ObjectRecovered(text, sent) ==
  \A value \in Values(text, "{") : IsJson(sent) /\ Within(Trim(value), sent)

\* The same of an array, unless it holds objects, which are looked for first, and
\* does not stand alone.
ArrayRecovered(text, sent) ==
  \A value \in Values(text, "[") :
    ("{" \in Range(text) /\ Trim(text) # Trim(value)) \/ (IsJson(sent) /\ Within(Trim(value), sent))

\* A closing bracket stands before every opening one of its kind.
Disordered(text) ==
  \E pair \in {<<"{", "}">>, <<"[", "]">>} : WrongOrder(Trim(text), pair[1], pair[2])
=============================================================================
