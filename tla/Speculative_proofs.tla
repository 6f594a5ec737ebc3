-------------------------- MODULE Speculative_proofs --------------------------
(***************************************************************************)
(* Proofs about SpeculativeDecode: the state after every turn belongs to   *)
(* the accepted history, the cache never overflows, and the result is that *)
(* of greedy decoding, for any model, prompt, drafter parameters and limit.*)
(***************************************************************************)
EXTENDS SpeculativeDecode, Extrema_proofs, FiniteSetTheorems, SequenceTheorems

-----------------------------------------------------------------------------
(* Sequences and their beginnings.                                         *)

\* A sequence that agrees with another one on its length is a prefix of it.
LEMMA IsPrefix ==
  ASSUME NEW S, NEW a \in Seq(S), NEW b \in Seq(S), Len(a) <= Len(b),
         \A i \in 1 .. Len(a) : a[i] = b[i]
  PROVE  a = SubSeq(b, 1, Len(a))
<1>1. Len(a) \in Nat /\ Len(b) \in Nat /\ \A i \in 1 .. Len(b) : b[i] \in S
  BY LenProperties, ElementOfSeq
<1>2. 1 \in Int /\ Len(a) \in Int /\ \A i \in 1 .. Len(a) : b[i] \in S
  BY <1>1
<1>3. /\ SubSeq(b, 1, Len(a)) \in Seq(S)
      /\ Len(SubSeq(b, 1, Len(a))) = IF 1 <= Len(a) THEN Len(a) - 1 + 1 ELSE 0
      /\ \A i \in 1 .. Len(a) - 1 + 1 : SubSeq(b, 1, Len(a))[i] = b[1 + i - 1]
  BY <1>2, SubSeqProperties
<1>4. Len(SubSeq(b, 1, Len(a))) = Len(a)
  BY <1>1, <1>3
<1>5. \A i \in 1 .. Len(a) : SubSeq(b, 1, Len(a))[i] = a[i]
  BY <1>1, <1>3
<1>. QED
  BY <1>3, <1>4, <1>5, SeqEqual

\* The first elements of a sequence.
LEMMA Beginning ==
  ASSUME NEW S, NEW b \in Seq(S), NEW n \in Nat, n <= Len(b)
  PROVE  /\ SubSeq(b, 1, n) \in Seq(S) /\ Len(SubSeq(b, 1, n)) = n
         /\ \A i \in 1 .. n : SubSeq(b, 1, n)[i] = b[i]
<1>1. Len(b) \in Nat /\ \A i \in 1 .. Len(b) : b[i] \in S
  BY LenProperties, ElementOfSeq
<1>2. 1 \in Int /\ n \in Int /\ \A i \in 1 .. n : b[i] \in S
  BY <1>1
<1>3. /\ SubSeq(b, 1, n) \in Seq(S)
      /\ Len(SubSeq(b, 1, n)) = IF 1 <= n THEN n - 1 + 1 ELSE 0
      /\ \A i \in 1 .. n - 1 + 1 : SubSeq(b, 1, n)[i] = b[1 + i - 1]
  BY <1>2, SubSeqProperties
<1>. QED
  BY <1>3

\* The beginning of a beginning is one of the whole.
LEMMA BeginningOfBeginning ==
  ASSUME NEW S, NEW b \in Seq(S), NEW n \in Nat, n <= Len(b), NEW m \in Nat, m <= n
  PROVE  SubSeq(SubSeq(b, 1, n), 1, m) = SubSeq(b, 1, m)
<1> DEFINE a == SubSeq(SubSeq(b, 1, n), 1, m)
<1>1. /\ SubSeq(b, 1, n) \in Seq(S) /\ Len(SubSeq(b, 1, n)) = n /\ Len(b) \in Nat
      /\ \A i \in 1 .. n : SubSeq(b, 1, n)[i] = b[i]
  BY Beginning, LenProperties
<1>2. /\ a \in Seq(S) /\ Len(a) = m
      /\ \A i \in 1 .. m : a[i] = SubSeq(b, 1, n)[i]
  BY <1>1, Beginning
<1> HIDE DEF a
<1>3. Len(a) <= Len(b) /\ \A i \in 1 .. Len(a) : a[i] = b[i]
  BY <1>1, <1>2
<1>4. a = SubSeq(b, 1, Len(a))
  BY <1>2, <1>3, IsPrefix
<1>. QED
  BY <1>2, <1>4 DEF a

\* The elements of two sequences one after the other.
LEMMA Joined ==
  ASSUME NEW S, NEW a \in Seq(S), NEW b \in Seq(S)
  PROVE  /\ a \o b \in Seq(S) /\ Len(a \o b) = Len(a) + Len(b)
         /\ Len(a) \in Nat /\ Len(b) \in Nat
         /\ \A i \in 1 .. Len(a) : (a \o b)[i] = a[i]
         /\ \A j \in 1 .. Len(b) : (a \o b)[Len(a) + j] = b[j]
<1>1. /\ a \o b \in Seq(S) /\ Len(a \o b) = Len(a) + Len(b)
      /\ \A i \in 1 .. Len(a) + Len(b) :
           (a \o b)[i] = IF i <= Len(a) THEN a[i] ELSE b[i - Len(a)]
  BY ConcatProperties
<1>2. Len(a) \in Nat /\ Len(b) \in Nat
  BY LenProperties
<1>3. \A i \in 1 .. Len(a) : (a \o b)[i] = a[i]
  BY <1>1, <1>2
<1>4. ASSUME NEW j \in 1 .. Len(b) PROVE (a \o b)[Len(a) + j] = b[j]
  <2>1. /\ Len(a) + j \in 1 .. Len(a) + Len(b) /\ ~(Len(a) + j <= Len(a))
        /\ Len(a) + j - Len(a) = j
    BY <1>2
  <2>. QED
    BY <1>1, <2>1
<1>. QED
  BY <1>1, <1>2, <1>3, <1>4

\* How a text continued by a token and a draft, and a result with the first m
\* tokens of that draft, look in terms of each other.
Continued(p, g, t, d, m) ==
  LET text == Append(p \o g, t) \o d
      all == Append(g, t) \o SubSeq(d, 1, m)
  IN  /\ Len(p) \in Nat /\ Len(g) \in Nat /\ Len(d) \in Nat
      /\ text \in Seq(Token) /\ Len(text) = Len(p) + Len(g) + 1 + Len(d)
      /\ \A j \in 1 .. Len(d) : text[Len(p) + Len(g) + 1 + j] = d[j]
      /\ text[Len(p) + Len(g) + 1] = t
      /\ \A i \in 1 .. Len(p) + Len(g) : text[i] = (p \o g)[i]
      /\ p \o g = SubSeq(text, 1, Len(p) + Len(g))
      /\ p \o g \in Seq(Token) /\ Len(p \o g) = Len(p) + Len(g)
      /\ all \in Seq(Token) /\ Len(all) = Len(g) + 1 + m
      /\ \A n \in 1 .. Len(g) : all[n] = g[n]
      /\ all[Len(g) + 1] = t
      /\ \A j \in 1 .. m : all[Len(g) + 1 + j] = d[j]
      /\ p \o all = SubSeq(text, 1, Len(p) + Len(g) + 1 + m)
      /\ \A n \in 1 .. Len(g) + 1 + m :
           p \o SubSeq(all, 1, n - 1) = SubSeq(text, 1, Len(p) + n - 1)
      /\ \A n \in 1 .. Len(g) :
           p \o SubSeq(g, 1, n - 1) = SubSeq(text, 1, Len(p) + n - 1)

\* That is so.
LEMMA TextFacts ==
  ASSUME NEW p \in Seq(Token), NEW g \in Seq(Token), NEW t \in Token,
         NEW d \in Seq(Token), NEW m \in Nat, m <= Len(d)
  PROVE  Continued(p, g, t, d, m)
<1> DEFINE P == Len(p)
           G == Len(g)
           D == Len(d)
           h == p \o g
           ht == Append(h, t)
           gt == Append(g, t)
           e == SubSeq(d, 1, m)
           text == ht \o d
           all == gt \o e
<1>1. /\ h \in Seq(Token) /\ Len(h) = P + G /\ P \in Nat /\ G \in Nat /\ D \in Nat
      /\ \A i \in 1 .. P : h[i] = p[i]
      /\ \A j \in 1 .. G : h[P + j] = g[j]
  BY Joined
<1>2. /\ e \in Seq(Token) /\ Len(e) = m /\ \A i \in 1 .. m : e[i] = d[i]
  BY Beginning
<1> HIDE DEF P, G, D, h, e
<1>3. /\ ht \in Seq(Token) /\ Len(ht) = P + G + 1 /\ ht[P + G + 1] = t
      /\ \A i \in 1 .. P + G : ht[i] = h[i]
  BY <1>1, AppendProperties
<1>4. /\ gt \in Seq(Token) /\ Len(gt) = G + 1 /\ gt[G + 1] = t
      /\ \A i \in 1 .. G : gt[i] = g[i]
  BY AppendProperties DEF G
<1> HIDE DEF ht, gt
<1>5. /\ text \in Seq(Token) /\ Len(text) = P + G + 1 + D
      /\ \A i \in 1 .. P + G + 1 : text[i] = ht[i]
      /\ \A j \in 1 .. D : text[P + G + 1 + j] = d[j]
  <2>0. ht \in Seq(Token) /\ d \in Seq(Token)
    BY <1>3
  <2>1. /\ text \in Seq(Token) /\ Len(text) = Len(ht) + Len(d)
        /\ \A i \in 1 .. Len(ht) : text[i] = ht[i]
        /\ \A j \in 1 .. Len(d) : text[Len(ht) + j] = d[j]
    BY <2>0, Joined
  <2>. QED
    BY <1>3, <2>1 DEF D
<1>6. /\ all \in Seq(Token) /\ Len(all) = G + 1 + m
      /\ \A i \in 1 .. G + 1 : all[i] = gt[i]
      /\ \A j \in 1 .. m : all[G + 1 + j] = e[j]
  <2>0. gt \in Seq(Token) /\ e \in Seq(Token)
    BY <1>2, <1>4
  <2>1. /\ all \in Seq(Token) /\ Len(all) = Len(gt) + Len(e)
        /\ \A i \in 1 .. Len(gt) : all[i] = gt[i]
        /\ \A j \in 1 .. Len(e) : all[Len(gt) + j] = e[j]
    BY <2>0, Joined
  <2>. QED
    BY <1>2, <1>4, <2>1
<1> HIDE DEF text, all
<1>7. m <= D
  BY DEF D
<1>8. /\ text[P + G + 1] = t
      /\ \A i \in 1 .. P + G : text[i] = h[i]
      /\ \A n \in 1 .. G : all[n] = g[n]
      /\ all[G + 1] = t
      /\ \A j \in 1 .. m : all[G + 1 + j] = d[j]
  BY <1>1, <1>2, <1>3, <1>4, <1>5, <1>6
<1>9. \A i \in 1 .. P : text[i] = p[i]
  BY <1>1, <1>8
<1>10. \A n \in 1 .. G + 1 + m : text[P + n] = all[n]
  <2> SUFFICES ASSUME NEW n \in 1 .. G + 1 + m PROVE text[P + n] = all[n]
    OBVIOUS
  <2>1. CASE n <= G
    <3>1. n \in 1 .. G /\ P + n \in 1 .. P + G
      BY <1>1, <2>1
    <3>. QED
      BY <1>1, <1>8, <3>1
  <2>2. CASE n = G + 1
    BY <1>1, <1>8, <2>2
  <2>3. CASE n > G + 1
    <3>1. n - G - 1 \in 1 .. m /\ n - G - 1 \in 1 .. D /\ G + 1 + (n - G - 1) = n
          /\ P + G + 1 + (n - G - 1) = P + n
      BY <1>1, <1>7, <2>3
    <3>. QED
      BY <1>5, <1>8, <3>1
  <2>. QED
    BY <1>1, <2>1, <2>2, <2>3
<1>11. ASSUME NEW a \in Seq(Token), Len(a) <= G + 1 + m,
              \A i \in 1 .. Len(a) : a[i] = all[i]
       PROVE  p \o a = SubSeq(text, 1, P + Len(a))
  <2>1. /\ p \o a \in Seq(Token) /\ Len(p \o a) = P + Len(a) /\ Len(a) \in Nat
        /\ \A i \in 1 .. P : (p \o a)[i] = p[i]
        /\ \A j \in 1 .. Len(a) : (p \o a)[P + j] = a[j]
    BY Joined DEF P
  <2>2. \A j \in 1 .. Len(a) : a[j] = text[P + j]
    BY <1>1, <1>10, <1>11, <2>1
  <2> DEFINE b == p \o a
             N == P + Len(a)
  <2> HIDE DEF b
  <2>3. \A i \in 1 .. N : b[i] = text[i]
    <3> SUFFICES ASSUME NEW i \in 1 .. N PROVE b[i] = text[i]
      OBVIOUS
    <3>1. CASE i <= P
      BY <1>1, <1>9, <2>1, <3>1 DEF b
    <3>2. CASE i > P
      <4>1. i - P \in 1 .. Len(a) /\ P + (i - P) = i
        BY <1>1, <2>1, <3>2
      <4>. QED
        BY <2>1, <2>2, <4>1 DEF b
    <3>. QED
      BY <1>1, <2>1, <3>1, <3>2
  <2>4. b \in Seq(Token) /\ Len(b) = N /\ N <= Len(text)
    BY <1>1, <1>5, <1>7, <1>11, <2>1 DEF b
  <2>5. b = SubSeq(text, 1, N)
    BY <1>5, <2>3, <2>4, IsPrefix
  <2>. QED
    BY <2>5 DEF b
<1>12. p \o all = SubSeq(text, 1, P + G + 1 + m)
  <2>1. p \o all = SubSeq(text, 1, P + Len(all))
    <3>1. all \in Seq(Token) /\ Len(all) <= G + 1 + m /\ \A i \in 1 .. Len(all) : all[i] = all[i]
      BY <1>1, <1>6
    <3>. QED
      BY <1>11, <3>1
  <2>2. P + Len(all) = P + G + 1 + m
    BY <1>1, <1>6
  <2>. QED
    BY <2>1, <2>2
<1>13. h = SubSeq(text, 1, P + G)
  <2>1. G <= G + 1 + m /\ \A i \in 1 .. G : g[i] = all[i]
    BY <1>1, <1>8
  <2>2. p \o g = SubSeq(text, 1, P + Len(g))
    BY <1>11, <2>1 DEF G
  <2>. QED
    BY <2>2 DEF h, G
<1>14. ASSUME NEW n \in 1 .. G + 1 + m
       PROVE  p \o SubSeq(all, 1, n - 1) = SubSeq(text, 1, P + n - 1)
  <2> DEFINE a == SubSeq(all, 1, n - 1)
  <2>1. n - 1 \in Nat /\ n - 1 <= Len(all)
    BY <1>1, <1>6
  <2>2. a \in Seq(Token) /\ Len(a) = n - 1 /\ \A i \in 1 .. n - 1 : a[i] = all[i]
    BY <1>6, <2>1, Beginning
  <2> HIDE DEF a
  <2>3. p \o a = SubSeq(text, 1, P + Len(a))
    BY <1>6, <1>11, <2>1, <2>2
  <2>4. P + Len(a) = P + n - 1
    BY <1>1, <2>2
  <2>. QED
    BY <2>3, <2>4 DEF a
<1>15. ASSUME NEW n \in 1 .. G
       PROVE  p \o SubSeq(g, 1, n - 1) = SubSeq(text, 1, P + n - 1)
  <2> DEFINE a == SubSeq(g, 1, n - 1)
  <2>1. n - 1 \in Nat /\ n - 1 <= Len(g)
    BY <1>1 DEF G
  <2>2. a \in Seq(Token) /\ Len(a) = n - 1 /\ \A i \in 1 .. n - 1 : a[i] = g[i]
    BY <2>1, Beginning
  <2> HIDE DEF a
  <2>3. \A i \in 1 .. Len(a) : a[i] = all[i]
    BY <1>1, <1>8, <2>2
  <2>4. p \o a = SubSeq(text, 1, P + Len(a))
    <3>1. a \in Seq(Token) /\ Len(a) <= G + 1 + m
      BY <1>1, <2>1, <2>2 DEF G
    <3>. QED
      BY <1>11, <2>3, <3>1
  <2>5. P + Len(a) = P + n - 1
    BY <1>1, <2>2
  <2>. QED
    BY <2>4, <2>5 DEF a
<1>16. /\ text \in Seq(Token) /\ Len(text) = P + G + 1 + D /\ h \in Seq(Token) /\ Len(h) = P + G
       /\ all \in Seq(Token) /\ Len(all) = G + 1 + m
       /\ \A j \in 1 .. D : text[P + G + 1 + j] = d[j]
  BY <1>1, <1>5, <1>6
<1>. QED
  BY <1>1, <1>8, <1>12, <1>13, <1>14, <1>15, <1>16 DEF Continued, text, all, P, G, D, h, ht, gt, e

-----------------------------------------------------------------------------
(* The drafter.                                                            *)

\* The occurrence that Best chooses is one.
LEMMA BestOccurs ==
  ASSUME NEW h \in Seq(Token), NEW n \in Nat, Occurs(h, n) # {}
  PROVE  Best(h, n) \in Occurs(h, n)
<1> DEFINE O == Occurs(h, n)
           Followers(i) == {j \in O : Continuation(h, n, j) = Continuation(h, n, i)}
           Frequency(i) == Cardinality(Followers(i))
           F == {Frequency(i) : i \in O}
<1>1. /\ Len(h) \in Nat /\ O \subseteq 0 .. Len(h) - n - 1 /\ O \subseteq Nat
      /\ \A i \in O : i <= Len(h)
  BY LenProperties DEF Occurs
<1>2. IsFiniteSet(O)
  BY <1>1, FS_BoundedSetOfNaturals
<1>3. Cardinality(O) \in Nat
  BY <1>2, FS_CardinalityType
<1>4. ASSUME NEW i \in O PROVE Frequency(i) \in Nat /\ Frequency(i) <= Cardinality(O)
  <2>1. Followers(i) \in SUBSET O
    OBVIOUS
  <2> HIDE DEF Followers, O
  <2>. QED
    BY <1>2, <2>1, FS_Subset, FS_CardinalityType
<1> HIDE DEF Frequency
<1>5. F \subseteq Nat /\ F # {} /\ \A f \in F : f <= Cardinality(O)
  BY <1>4
<1>6. PICK f \in F : \A e \in F : e <= f
  <2> HIDE DEF F, O
  <2>. QED
    BY <1>3, <1>5, GreatestExists
<1> DEFINE I == {i \in O : Frequency(i) = f}
<1>7. I \subseteq Nat /\ I # {} /\ \A i \in I : i <= Len(h)
  BY <1>1, <1>6
<1>8. PICK b \in I : \A i \in I : i <= b
  <2> HIDE DEF I
  <2>. QED
    BY <1>1, <1>7, GreatestExists
<1>9. b \in O /\ \A j \in O : Frequency(j) < Frequency(b) \/ (Frequency(j) = Frequency(b) /\ j <= b)
  <2>1. b \in O /\ Frequency(b) = f
    BY <1>8
  <2>2. ASSUME NEW j \in O
        PROVE  Frequency(j) < Frequency(b) \/ (Frequency(j) = Frequency(b) /\ j <= b)
    <3>1. Frequency(j) <= f /\ Frequency(j) \in Nat /\ f \in Nat
      BY <1>4, <1>5, <1>6
    <3>2. Frequency(j) = f => j <= b
      BY <1>8
    <3>. QED
      BY <2>1, <3>1, <3>2
  <2>. QED
    BY <2>1, <2>2
<1>10. Best(h, n) = CHOOSE i \in O :
         \A j \in O : Frequency(j) < Frequency(i) \/ (Frequency(j) = Frequency(i) /\ j <= i)
  BY DEF Best, Frequency
<1> HIDE DEF O
<1>11. Best(h, n) \in O
  BY <1>9, <1>10
<1>. QED
  BY <1>11 DEF O

\* A draft is a piece of the history of at most draft_length tokens.
LEMMA DraftShape ==
  ASSUME NEW h \in Seq(Token)
  PROVE  Draft(h) \in Seq(Token) /\ Len(Draft(h)) \in Nat /\ Len(Draft(h)) <= DraftLength
<1>1. Len(h) \in Nat /\ \A i \in 1 .. Len(h) : h[i] \in Token
  BY LenProperties, ElementOfSeq
<1>2. CASE DraftLength = 0 \/ Len(h) <= MinNgram \/ Depths(h) = {}
  BY <1>2, EmptySeq, NgramAssumption DEF Draft
<1>3. CASE ~(DraftLength = 0 \/ Len(h) <= MinNgram \/ Depths(h) = {})
  <2>1. /\ Depths(h) \subseteq Nat /\ Depths(h) # {} /\ \A n \in Depths(h) : n <= MaxNgram
        /\ MaxNgram \in Nat /\ MinNgram \in Nat
    BY <1>1, <1>3, NgramAssumption DEF Depths, Smaller
  <2> DEFINE n == CHOOSE n \in Depths(h) : \A m \in Depths(h) : m <= n
  <2>2. n \in Depths(h)
    <3>1. \E m \in Depths(h) : \A k \in Depths(h) : k <= m
      BY <2>1, GreatestExists
    <3>. QED
      BY <3>1
  <2>3. Draft(h) = Continuation(h, n, Best(h, n))
    BY <1>3 DEF Draft
  <2> HIDE DEF n
  <2>4. n \in Nat /\ Occurs(h, n) # {}
    BY <2>1, <2>2 DEF Depths
  <2> DEFINE i == Best(h, n)
             last == Smaller(i + n + DepthLimit(n), Len(h))
  <2>5. i \in Occurs(h, n)
    BY <2>4, BestOccurs
  <2>6. i \in Nat
    BY <1>1, <2>4, <2>5 DEF Occurs
  <2> HIDE DEF i
  <2>7. DepthLimit(n) \in Nat /\ DepthLimit(n) <= DraftLength
    BY <2>4, NgramAssumption DEF DepthLimit, Smaller
  <2>8. last \in Int /\ last <= Len(h) /\ last <= i + n + DepthLimit(n)
    BY <1>1, <2>4, <2>6, <2>7 DEF Smaller
  <2>9. Draft(h) = SubSeq(h, i + n + 1, last)
    BY <2>3 DEF Continuation, i
  <2> HIDE DEF last
  <2> DEFINE d == SubSeq(h, i + n + 1, last)
  <2>10. /\ i + n + 1 \in Int /\ last \in Int /\ \A j \in i + n + 1 .. last : h[j] \in Token
    BY <1>1, <2>4, <2>6, <2>8
  <2>11. /\ d \in Seq(Token)
         /\ Len(d) = IF i + n + 1 <= last THEN last - (i + n + 1) + 1 ELSE 0
    BY <2>10, SubSeqProperties
  <2> HIDE DEF d
  <2>12. Len(d) \in Nat /\ Len(d) <= DraftLength
    BY <2>4, <2>6, <2>7, <2>8, <2>11, NgramAssumption
  <2>. QED
    BY <2>9, <2>11, <2>12 DEF d
<1>. QED
  BY <1>2, <1>3

-----------------------------------------------------------------------------
(* A pass of the model.                                                    *)

\* After a pass over new entries the K/V of every cached position belongs to
\* the entries up to it.
LEMMA PassFacts ==
  ASSUME NEW N \in Nat, NEW mem \in [1 .. N -> Seq(Entry)], NEW c \in Seq(Entry),
         NEW new \in Seq(Entry), Len(c) + Len(new) <= N,
         \A i \in 1 .. Len(c) : mem[i] = SubSeq(c, 1, i)
  PROVE  LET full == c \o new
             after == KvAfter(mem, Len(c), c, new)
         IN  /\ full \in Seq(Entry) /\ Len(full) = Len(c) + Len(new)
             /\ after \in [1 .. N -> Seq(Entry)]
             /\ \A i \in 1 .. Len(full) : after[i] = SubSeq(full, 1, i)
<1> DEFINE full == c \o new
           after == KvAfter(mem, Len(c), c, new)
<1>1. /\ full \in Seq(Entry) /\ Len(full) = Len(c) + Len(new)
      /\ Len(c) \in Nat /\ Len(new) \in Nat
      /\ \A i \in 1 .. Len(c) : full[i] = c[i]
      /\ \A j \in 1 .. Len(new) : full[Len(c) + j] = new[j]
  BY Joined
<1>2. Len(mem) = N
  BY LenProperties, IsASeq
<1> HIDE DEF full
<1>3. \A i \in 1 .. N : after[i] = IF i \in Len(c) + 1 .. Len(c) + Len(new)
                                   THEN c \o SubSeq(new, 1, i - Len(c)) ELSE mem[i]
  BY <1>2 DEF KvAfter
<1>4. DOMAIN after = 1 .. N /\ after = [i \in 1 .. N |-> after[i]]
  BY <1>2 DEF KvAfter
<1> HIDE DEF after
<1>5. ASSUME NEW i \in 1 .. Len(full) PROVE after[i] = SubSeq(full, 1, i)
  <2>1. CASE i <= Len(c)
    <3>0. /\ i \in Nat /\ i \in 1 .. N /\ i \in 1 .. Len(c) /\ i <= Len(c)
          /\ ~(i \in Len(c) + 1 .. Len(c) + Len(new))
      BY <1>1, <2>1
    <3>1. after[i] = SubSeq(c, 1, i)
      <4>1. after[i] = mem[i]
        BY <1>3, <3>0
      <4>. QED
        BY <3>0, <4>1
    <3> DEFINE a == SubSeq(c, 1, i)
    <3>2. a \in Seq(Entry) /\ Len(a) = i /\ \A j \in 1 .. i : a[j] = c[j]
      BY <1>1, <2>1, Beginning
    <3> HIDE DEF a
    <3>3. Len(a) <= Len(full) /\ \A j \in 1 .. Len(a) : a[j] = full[j]
      <4>1. Len(a) <= Len(full)
        BY <1>1, <3>0, <3>2
      <4>2. ASSUME NEW j \in 1 .. Len(a) PROVE a[j] = full[j]
        <5>1. j \in 1 .. i /\ j \in 1 .. Len(c)
          BY <1>1, <3>0, <3>2
        <5>. QED
          BY <1>1, <3>2, <5>1
      <4>. QED
        BY <4>1, <4>2
    <3>4. a = SubSeq(full, 1, Len(a))
      BY <1>1, <3>2, <3>3, IsPrefix
    <3>. QED
      BY <3>1, <3>2, <3>4 DEF a
  <2>2. CASE i > Len(c)
    <3> DEFINE k == i - Len(c)
               b == SubSeq(new, 1, k)
               a == c \o b
    <3>1. k \in Nat /\ k <= Len(new) /\ i = Len(c) + k /\ i \in 1 .. N
          /\ i \in Len(c) + 1 .. Len(c) + Len(new)
      BY <1>1, <2>2
    <3>2. after[i] = a
      BY <1>3, <3>1
    <3> HIDE DEF k
    <3>3. b \in Seq(Entry) /\ Len(b) = k /\ \A j \in 1 .. k : b[j] = new[j]
      BY <3>1, Beginning
    <3> HIDE DEF b
    <3>4. /\ a \in Seq(Entry) /\ Len(a) = Len(c) + Len(b)
          /\ \A j \in 1 .. Len(c) : a[j] = c[j]
          /\ \A j \in 1 .. Len(b) : a[Len(c) + j] = b[j]
      BY <3>3, Joined
    <3> HIDE DEF a
    <3>5. Len(a) = i /\ Len(a) <= Len(full)
      BY <1>1, <3>1, <3>3, <3>4
    <3>6. \A j \in 1 .. Len(a) : a[j] = full[j]
      <4> SUFFICES ASSUME NEW j \in 1 .. Len(a) PROVE a[j] = full[j]
        OBVIOUS
      <4>1. CASE j <= Len(c)
        BY <1>1, <3>4, <3>5, <4>1
      <4>2. CASE j > Len(c)
        <5>1. /\ j - Len(c) \in 1 .. k /\ j - Len(c) \in 1 .. Len(new)
              /\ Len(c) + (j - Len(c)) = j
          BY <1>1, <3>1, <3>5, <4>2
        <5>. QED
          BY <1>1, <3>3, <3>4, <5>1
      <4>. QED
        BY <1>1, <3>5, <4>1, <4>2
    <3>7. a = SubSeq(full, 1, Len(a))
      BY <1>1, <3>4, <3>5, <3>6, IsPrefix
    <3>. QED
      BY <3>2, <3>5, <3>7
  <2>. QED
    BY <1>1, <2>1, <2>2
<1>6. after \in [1 .. N -> Seq(Entry)]
  <2>1. ASSUME NEW i \in 1 .. N PROVE after[i] \in Seq(Entry)
    <3>1. CASE i <= Len(full)
      <4>1. i \in 1 .. Len(full) /\ i \in Nat
        BY <1>1, <3>1
      <4>. QED
        BY <1>1, <1>5, <3>1, <4>1, Beginning
    <3>2. CASE i > Len(full)
      <4>1. i \in 1 .. N /\ ~(i \in Len(c) + 1 .. Len(c) + Len(new))
        BY <1>1, <3>2
      <4>2. after[i] = mem[i]
        BY <1>3, <4>1
      <4>. QED
        BY <4>1, <4>2
    <3>. QED
      BY <1>1, <3>1, <3>2
  <2>. QED
    BY <1>4, <2>1
<1>. QED
  BY <1>1, <1>5, <1>6 DEF full, after

\* From K/V that belongs to the entries before a position the model predicts
\* its argmax there.
LEMMA PredictedAt ==
  ASSUME NEW f, NEW full \in Seq(Entry), NEW mem, NEW q \in Nat, q <= Len(full),
         \A i \in 1 .. Len(full) : mem[i] = SubSeq(full, 1, i)
  PROVE  Predicted(f, mem, SubSeq(full, 1, q)) = {Argmax(f, SubSeq(full, 1, q))}
<1> DEFINE c == SubSeq(full, 1, q)
<1>1. c \in Seq(Entry) /\ Len(c) = q /\ Len(full) \in Nat
  BY Beginning, LenProperties
<1>2. ASSUME NEW i \in 1 .. Len(c) PROVE mem[i] = SubSeq(c, 1, i)
  <2>1. i \in Nat /\ i <= q /\ i \in 1 .. Len(full)
    BY <1>1
  <2>2. SubSeq(c, 1, i) = SubSeq(full, 1, i)
    BY <2>1, BeginningOfBeginning
  <2>. QED
    BY <2>1, <2>2
<1> HIDE DEF c
<1>3. Predicted(f, mem, c) = {Argmax(f, c)}
  BY <1>2 DEF Predicted
<1>. QED
  BY <1>3 DEF c

\* The argmax is a token.
LEMMA ArgmaxType ==
  ASSUME NEW f \in Models, NEW c \in Seq(Entry), Len(c) >= Depth
  PROVE  Argmax(f, c) \in Token
<1> DEFINE first == Len(c) - Depth + 1
           a == SubSeq(c, first, Len(c))
<1>1. Len(c) \in Nat /\ \A i \in 1 .. Len(c) : c[i] \in Entry
  BY LenProperties, ElementOfSeq
<1>2. Depth \in Nat \ {0}
  BY SpeculativeAssumption
<1>3. first \in Int /\ Len(c) \in Int /\ first >= 1 /\ \A i \in first .. Len(c) : c[i] \in Entry
  BY <1>1, <1>2
<1>4. a \in Seq(Entry) /\ Len(a) = IF first <= Len(c) THEN Len(c) - first + 1 ELSE 0
  <2> HIDE DEF first
  <2>. QED
    BY <1>3, SubSeqProperties
<1>5. Len(a) = Depth
  BY <1>1, <1>2, <1>4
<1> HIDE DEF a
<1>6. a \in [1 .. Depth -> Entry]
  BY <1>4, <1>5, LenProperties
<1>. QED
  BY <1>6 DEF Models, Argmax, a

\* The entries of a pass.
LEMMA EntriesFacts ==
  ASSUME NEW seq \in Seq(Token), NEW start \in Nat, NEW n \in Nat
  PROVE  /\ Entries(seq, PrecisionOf(start, n)) \in Seq(Entry)
         /\ Len(Entries(seq, PrecisionOf(start, n))) = Len(seq)
         /\ \A i \in 1 .. Len(seq) :
              Entries(seq, PrecisionOf(start, n))[i]
                = [token |-> seq[i], precision |-> PrecisionOf(start, n)]
<1>1. PrecisionOf(start, n) \in Precision
  BY DEF PrecisionOf, Precision
<1>2. Len(seq) \in Nat /\ \A i \in 1 .. Len(seq) : seq[i] \in Token
  BY LenProperties, ElementOfSeq
<1> DEFINE a == Entries(seq, PrecisionOf(start, n))
<1>3. a = [i \in 1 .. Len(seq) |-> [token |-> seq[i], precision |-> PrecisionOf(start, n)]]
  BY DEF Entries
<1> HIDE DEF a
<1>4. a \in [1 .. Len(seq) -> Entry]
  BY <1>1, <1>2, <1>3 DEF Entry
<1>5. a \in Seq(Entry) /\ Len(a) = Len(seq)
  BY <1>2, <1>4, IsASeq, LenProperties
<1>. QED
  BY <1>3, <1>5 DEF a

\* The entries of a text decoded one token at a time, and of its beginnings.
LEMMA OneByOneFacts ==
  ASSUME NEW text \in Seq(Token), prompt \in Seq(Token)
  PROVE  /\ OneByOne(text) \in Seq(Entry) /\ Len(OneByOne(text)) = Len(text)
         /\ \A i \in 1 .. Len(text) : OneByOne(text)[i] =
              [token |-> text[i],
               precision |-> IF i <= Len(prompt) THEN PrecisionOf(0, Len(prompt))
                             ELSE PrecisionOf(i - 1, 1)]
<1>1. Len(text) \in Nat /\ Len(prompt) \in Nat /\ \A i \in 1 .. Len(text) : text[i] \in Token
  BY LenProperties, ElementOfSeq
<1>2. \A s, n \in Nat : PrecisionOf(s, n) \in Precision
  BY DEF PrecisionOf, Precision
<1> DEFINE prec(i) == IF i <= Len(prompt) THEN PrecisionOf(0, Len(prompt)) ELSE PrecisionOf(i - 1, 1)
           a == OneByOne(text)
<1>3. a = [i \in 1 .. Len(text) |-> [token |-> text[i], precision |-> prec(i)]]
  BY DEF OneByOne
<1>4. ASSUME NEW i \in 1 .. Len(text) PROVE prec(i) \in Precision
  <2>1. i - 1 \in Nat
    BY <1>1
  <2>. QED
    BY <1>1, <1>2, <2>1
<1> HIDE DEF prec
<1> HIDE DEF a
<1>5. a \in [1 .. Len(text) -> Entry]
  BY <1>1, <1>3, <1>4 DEF Entry
<1>6. a \in Seq(Entry) /\ Len(a) = Len(text)
  BY <1>1, <1>5, IsASeq, LenProperties
<1>7. \A i \in 1 .. Len(text) : a[i] = [token |-> text[i], precision |-> prec(i)]
  BY <1>3
<1>. QED
  BY <1>6, <1>7 DEF a, prec

\* Decoding a beginning one by one is the beginning of decoding it all.
LEMMA OneByOneBeginning ==
  ASSUME NEW text \in Seq(Token), prompt \in Seq(Token), NEW m \in Nat, m <= Len(text)
  PROVE  OneByOne(SubSeq(text, 1, m)) = SubSeq(OneByOne(text), 1, m)
<1> DEFINE b == SubSeq(text, 1, m)
           a == OneByOne(b)
           c == OneByOne(text)
<1>1. b \in Seq(Token) /\ Len(b) = m /\ Len(text) \in Nat /\ \A i \in 1 .. m : b[i] = text[i]
  BY Beginning, LenProperties
<1> HIDE DEF b
<1>2. /\ a \in Seq(Entry) /\ Len(a) = m
      /\ \A i \in 1 .. m : a[i] =
           [token |-> b[i],
            precision |-> IF i <= Len(prompt) THEN PrecisionOf(0, Len(prompt)) ELSE PrecisionOf(i - 1, 1)]
  BY <1>1, OneByOneFacts
<1>3. /\ c \in Seq(Entry) /\ Len(c) = Len(text)
      /\ \A i \in 1 .. Len(text) : c[i] =
           [token |-> text[i],
            precision |-> IF i <= Len(prompt) THEN PrecisionOf(0, Len(prompt)) ELSE PrecisionOf(i - 1, 1)]
  BY OneByOneFacts
<1> HIDE DEF a, c
<1>4. ASSUME NEW i \in 1 .. Len(a) PROVE a[i] = c[i]
  <2>1. i \in 1 .. m /\ i \in 1 .. Len(text)
    BY <1>1, <1>2
  <2>. QED
    BY <1>1, <1>2, <1>3, <2>1
<1>5. a = SubSeq(c, 1, Len(a))
  BY <1>1, <1>2, <1>3, <1>4, IsPrefix
<1>. QED
  BY <1>2, <1>5 DEF a, b, c

-----------------------------------------------------------------------------
(* What a verification accepts and emits.                                  *)

\* The accepted tokens are the longest beginning of the draft that the
\* predictions confirm.
LEMMA AcceptedShape ==
  ASSUME NEW draft \in Seq(Token), NEW predictions
  PROVE  /\ Accepted(draft, predictions) \in 0 .. Len(draft)
         /\ \A j \in 1 .. Accepted(draft, predictions) : predictions[j] = draft[j]
<1> DEFINE k == Len(draft)
           A == {i \in 1 .. k : \A j \in 1 .. i : predictions[j] = draft[j]}
           W == {i \in 1 .. k + 1 : i = k + 1 \/ predictions[i] # draft[i]}
<1>1. k \in Nat
  BY LenProperties
<1> HIDE DEF k
<1>2. W \subseteq Nat /\ k + 1 \in W
  BY <1>1
<1>3. PICK m \in W : \A i \in W : m <= i
  <2> HIDE DEF W
  <2>. QED
    BY <1>2, LeastExists
<1>4. m \in 1 .. k + 1 /\ m \in Nat
  BY <1>1
<1>5. \A j \in 1 .. m - 1 : predictions[j] = draft[j]
  <2> SUFFICES ASSUME NEW j \in 1 .. m - 1, predictions[j] # draft[j] PROVE FALSE
    OBVIOUS
  <2>1. j \in 1 .. k + 1 /\ j < m
    BY <1>1, <1>4
  <2>2. j \in W
    BY <2>1
  <2>3. m <= j
    BY <1>3, <2>2
  <2>. QED
    BY <1>4, <2>1, <2>3
<1>6. A = 1 .. m - 1
  <2>1. ASSUME NEW i \in A PROVE i \in 1 .. m - 1
    <3>1. CASE i < m
      BY <1>1, <1>4, <3>1
    <3>2. CASE i >= m
      <4>1. m \in 1 .. i /\ m # k + 1
        BY <1>1, <1>4, <3>2
      <4>2. predictions[m] = draft[m]
        BY <4>1
      <4>. QED
        BY <4>1, <4>2
    <3>. QED
      BY <1>4, <3>1, <3>2
  <2>2. ASSUME NEW i \in 1 .. m - 1 PROVE i \in A
    <3>1. i \in 1 .. k /\ \A j \in 1 .. i : j \in 1 .. m - 1
      BY <1>1, <1>4
    <3>. QED
      BY <1>5, <3>1
  <2>. QED
    BY <2>1, <2>2
<1>7. Cardinality(A) = m - 1
  <2>1. Cardinality(1 .. m - 1) = IF 1 > m - 1 THEN 0 ELSE m - 1 - 1 + 1
    <3>1. 1 \in Int /\ m - 1 \in Int
      BY <1>4
    <3>. QED
      BY <3>1, FS_Interval
  <2>2. Cardinality(1 .. m - 1) = m - 1
    BY <1>4, <2>1
  <2>. QED
    BY <1>6, <2>2
<1>8. Accepted(draft, predictions) = m - 1
  BY <1>7 DEF Accepted, k
<1> HIDE DEF A, W
<1>. QED
  BY <1>1, <1>4, <1>5, <1>8 DEF k

\* The emitted tokens are the accepted ones up to the first that ends the
\* generation or fills the result.
LEMMA EmittedShape ==
  ASSUME generated \in Seq(Token), Len(generated) + 1 <= MaxNewTokens,
         NEW tokens \in Seq(Token)
  PROVE  \E last \in 0 .. Len(tokens) :
           /\ Emitted(tokens) = SubSeq(tokens, 1, last)
           /\ \A i \in 1 .. last : ~EndsHere(tokens[i])
           /\ Len(generated) + 1 + last <= MaxNewTokens
           /\ \/ last = Len(tokens)
              \/ Len(generated) + 1 + last >= MaxNewTokens
              \/ EndsHere(tokens[last + 1])
<1> DEFINE G == Len(generated)
           T == Len(tokens)
           Stops(n) == \/ n = T
                       \/ G + 1 + n >= MaxNewTokens
                       \/ EndsHere(tokens[n + 1])
           Fits(n) == /\ \A i \in 1 .. n : ~EndsHere(tokens[i])
                      /\ G + 1 + n <= MaxNewTokens
           W == {n \in 0 .. T : Stops(n)}
<1>1. G \in Nat /\ T \in Nat /\ MaxNewTokens \in Nat
  BY LenProperties, SpeculativeAssumption
<1>2. G + 1 <= MaxNewTokens
  OBVIOUS
<1> DEFINE last == CHOOSE n \in 0 .. T : Fits(n) /\ Stops(n)
<1>3. Emitted(tokens) = SubSeq(tokens, 1, last)
  BY DEF Emitted
<1> HIDE DEF G, T
<1>4. W \subseteq Nat /\ W # {}
  <2>1. T \in 0 .. T /\ Stops(T)
    BY <1>1
  <2>2. T \in W
    BY <2>1
  <2>. QED
    BY <2>2
<1>5. PICK m \in W : \A n \in W : m <= n
  <2> HIDE DEF W
  <2>. QED
    BY <1>4, LeastExists
<1>6. m \in 0 .. T /\ Stops(m)
  OBVIOUS
<1>7. ASSUME NEW n \in 0 .. T, n < m PROVE n # T /\ G + 1 + n < MaxNewTokens /\ ~EndsHere(tokens[n + 1])
  <2>1. ~(n \in W)
    BY <1>1, <1>5, <1>6, <1>7
  <2>2. ~Stops(n)
    BY <2>1
  <2>. QED
    BY <1>1, <2>2
<1>8. Fits(m)
  <2>1. ASSUME NEW i \in 1 .. m PROVE ~EndsHere(tokens[i])
    <3>1. i - 1 \in 0 .. T /\ i - 1 < m /\ (i - 1) + 1 = i
      BY <1>1, <1>6
    <3>2. ~EndsHere(tokens[(i - 1) + 1])
      BY <1>7, <3>1
    <3>. QED
      BY <3>1, <3>2
  <2>2. G + 1 + m <= MaxNewTokens
    <3>1. CASE m = 0
      BY <1>1, <1>2, <3>1
    <3>2. CASE m # 0
      <4>1. m - 1 \in 0 .. T /\ m - 1 < m
        BY <1>1, <1>6, <3>2
      <4>2. G + 1 + (m - 1) < MaxNewTokens
        BY <1>7, <4>1
      <4>. QED
        BY <1>1, <1>6, <4>2
    <3>. QED
      BY <3>1, <3>2
  <2>. QED
    BY <2>1, <2>2
<1> HIDE DEF W
<1>9. last \in 0 .. T /\ Fits(last) /\ Stops(last)
  <2> HIDE DEF Fits, Stops
  <2>. QED
    BY <1>6, <1>8
<1> HIDE DEF last
<1>. QED
  BY <1>3, <1>9 DEF G, T

-----------------------------------------------------------------------------
(* One turn.                                                               *)

\* What the type invariant and StateExact say of a generating request.
LEMMA Generating ==
  ASSUME SpeculativeTypeOK, StateExact, finish = "none"
  PROVE  /\ prompt \in Seq(Token) /\ Len(prompt) \in Nat /\ Len(prompt) >= Depth
         /\ Depth \in Nat \ {0} /\ MaxNewTokens \in Nat /\ MaxFp8Batch \in Nat \ {0}
         /\ generated \in Seq(Token) /\ Len(generated) \in Nat /\ token \in Token
         /\ conv \in Seq(Entry) /\ Len(conv) = length /\ length \in Nat
         /\ length = Len(prompt) + Len(generated)
         /\ history \in Seq(Token) /\ Len(history) = length
         /\ model \in Models
         /\ kv \in [1 .. Capacity(prompt) -> Seq(Entry)]
         /\ Capacity(prompt) = Len(prompt) + MaxNewTokens
         /\ \A i \in 1 .. length : conv[i].token = history[i] /\ kv[i] = SubSeq(conv, 1, i)
<1>1. prompt \in Seq(Token) /\ Len(prompt) >= Depth /\ Depth \in Nat \ {0}
      /\ MaxNewTokens \in Nat /\ MaxFp8Batch \in Nat \ {0}
  BY SpeculativeAssumption DEF SpeculativeTypeOK
<1>2. generated \in Seq(Token) /\ token \in Token /\ conv \in Seq(Entry) /\ model \in Models
      /\ kv \in [1 .. Capacity(prompt) -> Seq(Entry)]
  BY DEF SpeculativeTypeOK
<1>3. Len(prompt) \in Nat /\ Len(generated) \in Nat /\ Len(conv) \in Nat
  BY <1>1, <1>2, LenProperties
<1>4. history \in Seq(Token) /\ Len(history) = Len(prompt) + Len(generated)
  BY <1>1, <1>2, Joined DEF history
<1>5. /\ length = Len(history) /\ Len(conv) = length
      /\ \A i \in 1 .. length : conv[i].token = history[i] /\ kv[i] = SubSeq(conv, 1, i)
  BY DEF StateExact
<1>6. Capacity(prompt) = Len(prompt) + MaxNewTokens
  BY DEF Capacity
<1>. QED
  BY <1>1, <1>2, <1>3, <1>4, <1>5, <1>6

\* The draft of a turn leaves room for the token after it.
LEMMA TurnDraftShape ==
  ASSUME SpeculativeTypeOK, StateExact, Continues
  PROVE  /\ TurnDraft \in Seq(Token) /\ Len(TurnDraft) \in Nat /\ Len(TurnDraft) <= DraftLength
         /\ Len(generated) + 1 + Len(TurnDraft) < MaxNewTokens
         /\ length + 1 + Len(TurnDraft) <= Capacity(prompt)
<1> DEFINE G == Len(generated)
           remaining == MaxNewTokens - (G + 1)
           cap == Capacity(prompt)
           space == IF cap > length + 1 THEN cap - (length + 1) ELSE 0
           d == Draft(Append(history, token))
           n == Smaller(Len(d), Smaller(remaining - 1, space))
<1>1. finish = "none" /\ G + 1 < MaxNewTokens
  BY DEF Continues
<1>2. /\ history \in Seq(Token) /\ token \in Token /\ G \in Nat /\ MaxNewTokens \in Nat
      /\ Len(prompt) \in Nat /\ length = Len(prompt) + G /\ cap = Len(prompt) + MaxNewTokens
  BY <1>1, Generating
<1>3. Append(history, token) \in Seq(Token)
  BY <1>2, AppendProperties
<1>4. d \in Seq(Token) /\ Len(d) \in Nat /\ Len(d) <= DraftLength
  BY <1>3, DraftShape
<1>5. DraftLength \in Nat
  BY NgramAssumption
<1>6. TurnDraft = << >> \/ TurnDraft = SubSeq(d, 1, n)
  BY DEF TurnDraft, Truncated
<1> HIDE DEF d, G, cap
<1>7. n \in Nat /\ n <= Len(d) /\ n <= remaining - 1
  BY <1>1, <1>2, <1>4 DEF Smaller
<1> HIDE DEF n
<1>8. SubSeq(d, 1, n) \in Seq(Token) /\ Len(SubSeq(d, 1, n)) = n
  BY <1>4, <1>7, Beginning
<1>9. TurnDraft \in Seq(Token) /\ (Len(TurnDraft) = 0 \/ Len(TurnDraft) = n)
  BY <1>6, <1>8, EmptySeq
<1> DEFINE k == Len(TurnDraft)
<1>10. TurnDraft \in Seq(Token) /\ (k = 0 \/ k = n)
  BY <1>9
<1> HIDE DEF k
<1>11. k \in Nat /\ k <= DraftLength /\ G + 1 + k < MaxNewTokens /\ length + 1 + k <= cap
  BY <1>1, <1>2, <1>4, <1>5, <1>7, <1>10
<1>. QED
  BY <1>10, <1>11 DEF k, G, cap

\* The state after a pass over the pending token and a draft, and what is left
\* of it after a roll back to the first m draft tokens.
LEMMA PassState ==
  ASSUME SpeculativeTypeOK, StateExact, finish = "none",
         NEW draft \in Seq(Token), Len(generated) + 1 + Len(draft) <= MaxNewTokens,
         NEW m \in 0 .. Len(draft)
  PROVE  LET new == Entries(<<token>> \o draft, PrecisionOf(length, 1 + Len(draft)))
             full == conv \o new
             mem == KvAfter(kv, length, conv, new)
             text == Append(history, token) \o draft
             valid == SubSeq(full, 1, length + 1 + m)
         IN  /\ full \in Seq(Entry) /\ Len(full) = length + 1 + Len(draft)
             /\ mem \in [1 .. Capacity(prompt) -> Seq(Entry)]
             /\ \A i \in 1 .. Len(full) : mem[i] = SubSeq(full, 1, i) /\ full[i].token = text[i]
             /\ text \in Seq(Token) /\ Len(text) = Len(full)
             /\ valid \in Seq(Entry) /\ Len(valid) = length + 1 + m
             /\ \A i \in 1 .. length + 1 + m : valid[i].token = text[i] /\ mem[i] = SubSeq(valid, 1, i)
             /\ length + 1 + m \in 0 .. Capacity(prompt)
             /\ UniformPrecision /\ conv = OneByOne(history) /\ Len(draft) <= DraftLength
                  => full = OneByOne(text)
<1> DEFINE k == Len(draft)
           H == length
           seq == <<token>> \o draft
           prec == PrecisionOf(length, 1 + k)
           new == Entries(seq, prec)
           full == conv \o new
           mem == KvAfter(kv, length, conv, new)
           text == Append(history, token) \o draft
           valid == SubSeq(full, 1, length + 1 + m)
<1>1. /\ prompt \in Seq(Token) /\ Len(prompt) \in Nat /\ Len(prompt) > 0
      /\ MaxNewTokens \in Nat /\ MaxFp8Batch \in Nat \ {0}
      /\ Len(generated) \in Nat /\ token \in Token
      /\ conv \in Seq(Entry) /\ Len(conv) = H /\ H \in Nat
      /\ H = Len(prompt) + Len(generated)
      /\ history \in Seq(Token) /\ Len(history) = H
      /\ kv \in [1 .. Capacity(prompt) -> Seq(Entry)]
      /\ Capacity(prompt) = Len(prompt) + MaxNewTokens
      /\ \A i \in 1 .. H : conv[i].token = history[i] /\ kv[i] = SubSeq(conv, 1, i)
  BY Generating
<1>2. k \in Nat /\ m \in Nat /\ m <= k
  BY LenProperties
<1>3. /\ seq \in Seq(Token) /\ Len(seq) = 1 + k /\ seq[1] = token
      /\ \A j \in 1 .. k : seq[1 + j] = draft[j]
  <2>1. <<token>> \in Seq(Token) /\ Len(<<token>>) = 1 /\ <<token>>[1] = token
    BY <1>1
  <2> DEFINE one == <<token>>
  <2> HIDE DEF one
  <2>2. one \in Seq(Token) /\ Len(one) = 1 /\ one[1] = token
    BY <2>1 DEF one
  <2>3. /\ one \o draft \in Seq(Token) /\ Len(one \o draft) = Len(one) + Len(draft)
        /\ \A i \in 1 .. Len(one) : (one \o draft)[i] = one[i]
        /\ \A j \in 1 .. Len(draft) : (one \o draft)[Len(one) + j] = draft[j]
    BY <2>2, Joined
  <2>. QED
    BY <2>2, <2>3 DEF one
<1>4. /\ Append(history, token) \in Seq(Token) /\ Len(Append(history, token)) = H + 1
      /\ Append(history, token)[H + 1] = token
      /\ \A i \in 1 .. H : Append(history, token)[i] = history[i]
  BY <1>1, AppendProperties
<1>5. /\ text \in Seq(Token) /\ Len(text) = H + 1 + k
      /\ \A i \in 1 .. H : text[i] = history[i]
      /\ text[H + 1] = token
      /\ \A j \in 1 .. k : text[H + 1 + j] = draft[j]
  <2> DEFINE a == Append(history, token)
  <2> HIDE DEF a
  <2>1. /\ a \in Seq(Token) /\ Len(a) = H + 1 /\ a[H + 1] = token
        /\ \A i \in 1 .. H : a[i] = history[i]
    BY <1>4 DEF a
  <2>2. /\ a \o draft \in Seq(Token) /\ Len(a \o draft) = Len(a) + Len(draft)
        /\ \A i \in 1 .. Len(a) : (a \o draft)[i] = a[i]
        /\ \A j \in 1 .. Len(draft) : (a \o draft)[Len(a) + j] = draft[j]
    <3>1. a \in Seq(Token) /\ draft \in Seq(Token)
      BY <2>1
    <3>. QED
      BY <3>1, Joined
  <2>3. \A i \in 1 .. H : i \in 1 .. H + 1
    BY <1>1
  <2>4. H + 1 \in 1 .. H + 1
    BY <1>1
  <2>5. text = a \o draft
    BY DEF a
  <2> HIDE DEF text, H
  <2>. QED
    BY <2>1, <2>2, <2>3, <2>4, <2>5
<1>6. /\ new \in Seq(Entry) /\ Len(new) = 1 + k
      /\ \A i \in 1 .. 1 + k : new[i] = [token |-> seq[i], precision |-> prec]
  <2>1. H \in Nat /\ 1 + k \in Nat
    BY <1>1, <1>2
  <2> HIDE DEF seq
  <2>. QED
    BY <1>3, <2>1, EntriesFacts
<1> HIDE DEF seq
<1>7. H + Len(new) <= Capacity(prompt) /\ Capacity(prompt) \in Nat
  BY <1>1, <1>2, <1>6
<1> HIDE DEF new
<1>8. /\ full \in Seq(Entry) /\ Len(full) = H + 1 + k
      /\ mem \in [1 .. Capacity(prompt) -> Seq(Entry)]
      /\ \A i \in 1 .. Len(full) : mem[i] = SubSeq(full, 1, i)
  <2>1. /\ Len(conv) + Len(new) <= Capacity(prompt) /\ conv \in Seq(Entry) /\ new \in Seq(Entry)
        /\ Capacity(prompt) \in Nat /\ kv \in [1 .. Capacity(prompt) -> Seq(Entry)]
        /\ \A i \in 1 .. Len(conv) : kv[i] = SubSeq(conv, 1, i)
    BY <1>1, <1>6, <1>7
  <2>2. /\ full \in Seq(Entry) /\ Len(full) = Len(conv) + Len(new)
        /\ KvAfter(kv, Len(conv), conv, new) \in [1 .. Capacity(prompt) -> Seq(Entry)]
        /\ \A i \in 1 .. Len(full) : KvAfter(kv, Len(conv), conv, new)[i] = SubSeq(full, 1, i)
    BY <2>1, PassFacts
  <2>3. mem = KvAfter(kv, Len(conv), conv, new)
    BY <1>1
  <2> HIDE DEF mem, full
  <2>. QED
    BY <1>1, <1>2, <1>6, <2>2, <2>3
<1>9. /\ \A i \in 1 .. H : full[i] = conv[i]
      /\ \A j \in 1 .. 1 + k : full[H + j] = new[j]
  <2>1. conv \in Seq(Entry) /\ new \in Seq(Entry)
    BY <1>1, <1>6
  <2>2. /\ \A i \in 1 .. Len(conv) : full[i] = conv[i]
        /\ \A j \in 1 .. Len(new) : full[Len(conv) + j] = new[j]
    BY <2>1, Joined
  <2> HIDE DEF full
  <2>. QED
    BY <1>1, <1>6, <2>2
<1> HIDE DEF full, mem, text
<1>10. \A j \in 1 .. 1 + k : text[H + j] = seq[j]
  <2> SUFFICES ASSUME NEW j \in 1 .. 1 + k PROVE text[H + j] = seq[j]
    OBVIOUS
  <2>1. CASE j = 1
    BY <1>1, <1>3, <1>5, <2>1
  <2>2. CASE j # 1
    <3>1. j - 1 \in 1 .. k /\ H + 1 + (j - 1) = H + j /\ 1 + (j - 1) = j
      BY <1>1, <1>2, <2>2
    <3>. QED
      BY <1>3, <1>5, <3>1
  <2>. QED
    BY <2>1, <2>2
<1>11. ASSUME NEW i \in 1 .. H + 1 + k PROVE full[i].token = text[i]
  <2>1. CASE i <= H
    <3>1. i \in 1 .. H
      BY <1>1, <2>1
    <3>. QED
      BY <1>1, <1>5, <1>9, <3>1
  <2>2. CASE i > H
    <3>1. i - H \in 1 .. 1 + k /\ H + (i - H) = i
      BY <1>1, <1>2, <2>2
    <3>. QED
      BY <1>6, <1>9, <1>10, <3>1
  <2>. QED
    BY <1>1, <2>1, <2>2
<1>12. /\ valid \in Seq(Entry) /\ Len(valid) = H + 1 + m
       /\ \A i \in 1 .. H + 1 + m : valid[i] = full[i]
  <2>1. H + 1 + m \in Nat /\ H + 1 + m <= Len(full)
    BY <1>1, <1>2, <1>8
  <2>. QED
    BY <1>8, <2>1, Beginning
<1>13. ASSUME NEW i \in 1 .. H + 1 + m PROVE valid[i].token = text[i] /\ mem[i] = SubSeq(valid, 1, i)
  <2>1. i \in 1 .. H + 1 + k /\ i \in Nat /\ i <= H + 1 + m /\ H + 1 + m \in Nat
        /\ H + 1 + m <= Len(full)
    BY <1>1, <1>2, <1>8
  <2>2. SubSeq(valid, 1, i) = SubSeq(full, 1, i)
    BY <1>8, <2>1, BeginningOfBeginning
  <2>3. i \in 1 .. Len(full)
    BY <1>8, <2>1
  <2> HIDE DEF valid
  <2>. QED
    BY <1>8, <1>11, <1>12, <2>1, <2>2, <2>3
<1>14. H + 1 + m \in 0 .. Capacity(prompt)
  BY <1>1, <1>2
<1>15. ASSUME UniformPrecision, conv = OneByOne(history), k <= DraftLength
       PROVE  full = OneByOne(text)
  <2> DEFINE P == Len(prompt)
             pr(i) == IF i <= P THEN PrecisionOf(0, P) ELSE PrecisionOf(i - 1, 1)
             b == OneByOne(text)
  <2>1. /\ b \in Seq(Entry) /\ Len(b) = H + 1 + k
        /\ \A i \in 1 .. H + 1 + k : b[i] = [token |-> text[i], precision |-> pr(i)]
    BY <1>1, <1>5, OneByOneFacts
  <2>2. \A i \in 1 .. H : conv[i] = [token |-> history[i], precision |-> pr(i)]
    BY <1>1, <1>15, OneByOneFacts
  <2> HIDE DEF b
  <2>3. ASSUME NEW i \in 1 .. H + 1 + k PROVE full[i] = b[i]
    <3>1. CASE i <= H
      <4>1. i \in 1 .. H
        BY <1>1, <3>1
      <4> HIDE DEF pr
      <4>. QED
        BY <1>5, <1>9, <2>1, <2>2, <4>1
    <3>2. CASE i > H
      <4>1. i - H \in 1 .. 1 + k /\ H + (i - H) = i
        BY <1>1, <1>2, <3>2
      <4>2. full[i] = [token |-> text[i], precision |-> prec]
        <5> HIDE DEF prec
        <5>. QED
          BY <1>6, <1>9, <1>10, <4>1
      <4>3. prec = pr(i)
        <5>1. /\ ~(i <= P) /\ H > 0 /\ i - 1 > 0
              /\ (Fp8Decode => 1 + k <= MaxFp8Batch /\ 1 <= MaxFp8Batch)
          BY <1>1, <1>2, <1>15, <3>2, NgramAssumption DEF UniformPrecision
        <5>2. prec = IF Fp8Decode THEN "fp8" ELSE "bf16"
          BY <5>1 DEF PrecisionOf
        <5>3. PrecisionOf(i - 1, 1) = IF Fp8Decode THEN "fp8" ELSE "bf16"
          BY <5>1 DEF PrecisionOf
        <5>. QED
          BY <5>1, <5>2, <5>3
      <4> HIDE DEF prec, pr
      <4>. QED
        BY <2>1, <4>2, <4>3
    <3>. QED
      BY <1>1, <3>1, <3>2
  <2>4. full = b
    BY <1>8, <2>1, <2>3, SeqEqual
  <2>. QED
    BY <2>4 DEF b
<1> HIDE DEF valid
<1>16. /\ \A i \in 1 .. Len(full) : mem[i] = SubSeq(full, 1, i) /\ full[i].token = text[i]
       /\ Len(text) = Len(full)
  BY <1>5, <1>8, <1>11
<1>. QED
  BY <1>5, <1>8, <1>12, <1>13, <1>14, <1>15, <1>16 DEF full, mem, text, valid, new, seq

\* What is left after a roll back belongs to the history with the tokens that
\* were accepted.
LEMMA KeptState ==
  ASSUME SpeculativeTypeOK, StateExact, finish = "none",
         NEW draft \in Seq(Token), Len(generated) + 1 + Len(draft) <= MaxNewTokens,
         NEW m \in 0 .. Len(draft)
  PROVE  LET new == Entries(<<token>> \o draft, PrecisionOf(length, 1 + Len(draft)))
             valid == SubSeq(conv \o new, 1, length + 1 + m)
             all == Append(generated, token) \o SubSeq(draft, 1, m)
         IN  /\ prompt \o all \in Seq(Token) /\ Len(prompt \o all) = length + 1 + m
             /\ all \in Seq(Token) /\ Len(all) = Len(generated) + 1 + m
             /\ \A i \in 1 .. length + 1 + m : valid[i].token = (prompt \o all)[i]
             /\ UniformPrecision /\ conv = OneByOne(history) /\ Len(draft) <= DraftLength
                  => valid = OneByOne(prompt \o all)
<1> DEFINE new == Entries(<<token>> \o draft, PrecisionOf(length, 1 + Len(draft)))
           full == conv \o new
           text == Append(history, token) \o draft
           N == length + 1 + m
           valid == SubSeq(full, 1, N)
           all == Append(generated, token) \o SubSeq(draft, 1, m)
           result == prompt \o all
<1>1. /\ prompt \in Seq(Token) /\ generated \in Seq(Token) /\ token \in Token
      /\ Len(prompt) \in Nat /\ Len(generated) \in Nat /\ length \in Nat
      /\ length = Len(prompt) + Len(generated)
  BY Generating
<1>2. m \in Nat /\ m <= Len(draft) /\ Len(draft) \in Nat
  BY LenProperties
<1>3. /\ full \in Seq(Entry) /\ Len(full) = length + 1 + Len(draft)
      /\ text \in Seq(Token) /\ Len(text) = Len(full)
      /\ \A i \in 1 .. N : valid[i].token = text[i]
      /\ UniformPrecision /\ conv = OneByOne(history) /\ Len(draft) <= DraftLength
           => full = OneByOne(text)
  BY PassState
<1>4. /\ all \in Seq(Token) /\ Len(all) = Len(generated) + 1 + m
      /\ result = SubSeq(text, 1, Len(prompt) + Len(generated) + 1 + m)
  <2>1. /\ prompt \in Seq(Token) /\ generated \in Seq(Token) /\ token \in Token
        /\ draft \in Seq(Token) /\ m \in Nat /\ m <= Len(draft)
    BY <1>1, <1>2
  <2>2. Continued(prompt, generated, token, draft, m)
    BY <2>1, TextFacts
  <2>. QED
    BY <2>2 DEF Continued, history
<1> HIDE DEF full, text, valid, all, result
<1>5. result = SubSeq(text, 1, N) /\ N \in Nat /\ N <= Len(text)
  BY <1>1, <1>2, <1>3, <1>4
<1>6. result \in Seq(Token) /\ Len(result) = N /\ \A i \in 1 .. N : result[i] = text[i]
  BY <1>3, <1>5, Beginning
<1>7. ASSUME UniformPrecision, conv = OneByOne(history), Len(draft) <= DraftLength
      PROVE  valid = OneByOne(result)
  <2>1. full = OneByOne(text)
    BY <1>3, <1>7
  <2>2. OneByOne(SubSeq(text, 1, N)) = SubSeq(OneByOne(text), 1, N)
    BY <1>1, <1>3, <1>5, OneByOneBeginning
  <2>. QED
    BY <1>5, <2>1, <2>2 DEF valid
<1>. QED
  BY <1>3, <1>4, <1>6, <1>7 DEF full, valid, all, result

\* Every token that a pass adds is the greedy one, and so is the prediction
\* after them.
LEMMA PassIsGreedy ==
  ASSUME SpeculativeInv, StateExact, GreedyOutput, UniformPrecision, Continues,
         NEW draft \in Seq(Token), Len(draft) <= DraftLength,
         Len(generated) + 1 + Len(draft) <= MaxNewTokens,
         NEW last \in 0 .. Len(draft), NEW predictions,
         \A i \in 1 .. last + 1 : predictions[i] \in
           LET new == Entries(<<token>> \o draft, PrecisionOf(length, 1 + Len(draft)))
           IN  Predicted(model, KvAfter(kv, length, conv, new), SubSeq(conv \o new, 1, length + i)),
         \A i \in 1 .. last : predictions[i] = draft[i] /\ ~EndsHere(draft[i])
  PROVE  LET all == Append(generated, token) \o SubSeq(draft, 1, last)
         IN  /\ \A n \in 1 .. Len(all) :
                  all[n] = GreedyAfter(prompt \o SubSeq(all, 1, n - 1)) /\ ~EndsHere(all[n])
             /\ predictions[last + 1] = GreedyAfter(prompt \o all)
<1> DEFINE new == Entries(<<token>> \o draft, PrecisionOf(length, 1 + Len(draft)))
           full == conv \o new
           mem == KvAfter(kv, length, conv, new)
           text == Append(history, token) \o draft
           all == Append(generated, token) \o SubSeq(draft, 1, last)
           P == Len(prompt)
           G == Len(generated)
<1>0. SpeculativeTypeOK /\ finish = "none" /\ conv = OneByOne(history) /\ ~EndsHere(token)
  BY DEF SpeculativeInv, Continues
<1>1. /\ prompt \in Seq(Token) /\ generated \in Seq(Token) /\ token \in Token
      /\ P \in Nat /\ G \in Nat /\ length \in Nat /\ length = P + G
  BY <1>0, Generating
<1>2. last \in Nat /\ last <= Len(draft) /\ Len(draft) \in Nat
  BY LenProperties
<1>3. /\ full \in Seq(Entry) /\ Len(full) = length + 1 + Len(draft)
      /\ \A i \in 1 .. Len(full) : mem[i] = SubSeq(full, 1, i)
      /\ text \in Seq(Token) /\ Len(text) = Len(full)
      /\ full = OneByOne(text)
  BY <1>0, PassState
<1>4. /\ history = SubSeq(text, 1, P + G)
      /\ all \in Seq(Token) /\ Len(all) = G + 1 + last
      /\ \A n \in 1 .. G : all[n] = generated[n]
      /\ all[G + 1] = token
      /\ \A j \in 1 .. last : all[G + 1 + j] = draft[j]
      /\ prompt \o all = SubSeq(text, 1, P + G + 1 + last)
      /\ \A n \in 1 .. G + 1 + last : prompt \o SubSeq(all, 1, n - 1) = SubSeq(text, 1, P + n - 1)
      /\ \A n \in 1 .. G : prompt \o SubSeq(generated, 1, n - 1) = SubSeq(text, 1, P + n - 1)
  <2>1. /\ prompt \in Seq(Token) /\ generated \in Seq(Token) /\ token \in Token
        /\ draft \in Seq(Token) /\ last \in Nat /\ last <= Len(draft)
    BY <1>1, <1>2
  <2>2. Continued(prompt, generated, token, draft, last)
    BY <2>1, TextFacts
  <2>. QED
    BY <2>2 DEF Continued, history
<1>5. /\ \A n \in 1 .. G : generated[n] = GreedyAfter(prompt \o SubSeq(generated, 1, n - 1))
                           /\ ~EndsHere(generated[n])
      /\ token = GreedyAfter(history)
  BY <1>0 DEF GreedyOutput, AgreesWithGreedy, GreedyNext
<1>6. ASSUME NEW i \in 1 .. last + 1
      PROVE  predictions[i] = GreedyAfter(SubSeq(text, 1, length + i))
  <2>1. length + i \in Nat /\ length + i <= Len(full)
    <3> HIDE DEF full, mem, text, P, G
    <3>. QED
      BY <1>1, <1>2, <1>3
  <2>2. predictions[i] \in Predicted(model, mem, SubSeq(full, 1, length + i))
    OBVIOUS
  <2> HIDE DEF full, mem, text
  <2>3. Predicted(model, mem, SubSeq(full, 1, length + i)) = {Argmax(model, SubSeq(full, 1, length + i))}
    BY <1>3, <2>1, PredictedAt
  <2>4. OneByOne(SubSeq(text, 1, length + i)) = SubSeq(OneByOne(text), 1, length + i)
    BY <1>1, <1>3, <2>1, OneByOneBeginning
  <2>. QED
    BY <1>3, <2>2, <2>3, <2>4 DEF GreedyAfter
<1> HIDE DEF all, text, P, G
<1>7. ASSUME NEW n \in 1 .. Len(all)
      PROVE  all[n] = GreedyAfter(prompt \o SubSeq(all, 1, n - 1)) /\ ~EndsHere(all[n])
  <2>0. n \in 1 .. G + 1 + last
    BY <1>4
  <2>1. prompt \o SubSeq(all, 1, n - 1) = SubSeq(text, 1, P + n - 1)
    BY <1>4, <2>0
  <2>2. CASE n <= G
    <3>1. n \in 1 .. G
      BY <1>1, <2>0, <2>2
    <3>2. all[n] = generated[n] /\ ~EndsHere(generated[n])
      BY <1>4, <1>5, <3>1
    <3>3. generated[n] = GreedyAfter(prompt \o SubSeq(generated, 1, n - 1))
      BY <1>5, <3>1
    <3>4. prompt \o SubSeq(generated, 1, n - 1) = SubSeq(text, 1, P + n - 1)
      BY <1>4, <3>1
    <3>. QED
      BY <2>1, <3>2, <3>3, <3>4, Zenon
  <2>3. CASE n = G + 1
    <3>1. P + n - 1 = P + G
      BY <1>1, <2>3
    <3>2. all[n] = token /\ prompt \o SubSeq(all, 1, n - 1) = history
      BY <1>4, <2>1, <2>3, <3>1
    <3>. QED
      BY <1>0, <1>5, <3>2, Zenon
  <2>4. CASE n > G + 1
    <3> DEFINE j == n - G - 1
    <3>1. j \in 1 .. last /\ j \in 1 .. last + 1 /\ G + 1 + j = n /\ length + j = P + n - 1
      BY <1>1, <1>2, <2>0, <2>4
    <3> HIDE DEF j
    <3>2. all[n] = draft[j] /\ ~EndsHere(draft[j]) /\ draft[j] = predictions[j]
      BY <1>4, <3>1
    <3>3. predictions[j] = GreedyAfter(SubSeq(text, 1, P + n - 1))
      BY <1>6, <3>1
    <3>. QED
      BY <2>1, <3>2, <3>3, Zenon
  <2>. QED
    BY <1>1, <2>0, <2>2, <2>3, <2>4
<1>8. predictions[last + 1] = GreedyAfter(prompt \o all)
  <2>1. last + 1 \in 1 .. last + 1 /\ length + (last + 1) = P + G + 1 + last
    BY <1>1, <1>2
  <2>2. predictions[last + 1] = GreedyAfter(SubSeq(text, 1, length + (last + 1)))
    BY <1>6, <2>1
  <2>. QED
    BY <1>4, <2>1, <2>2
<1>. QED
  BY <1>7, <1>8 DEF all

\* A pass of the model over the pending token and a draft, of which m tokens
\* are accepted and last emitted: what DecodeOne and Verify have in common.
Pass(draft, m, last, predictions) ==
  LET new == Entries(<<token>> \o draft, PrecisionOf(length, 1 + Len(draft)))
  IN  /\ draft \in Seq(Token) /\ Len(draft) <= DraftLength
      /\ Len(generated) + 1 + Len(draft) < MaxNewTokens
      /\ m \in 0 .. Len(draft) /\ last \in 0 .. m
      /\ \A i \in 1 .. m + 1 : predictions[i] \in
           Predicted(model, KvAfter(kv, length, conv, new), SubSeq(conv \o new, 1, length + i))
      /\ \A i \in 1 .. m : predictions[i] = draft[i]
      /\ \A i \in 1 .. last : ~EndsHere(draft[i])
      /\ model' = model /\ prompt' = prompt /\ ignore_eos' = ignore_eos
      /\ kv' = KvAfter(kv, length, conv, new)
      /\ length' = length + 1 + m
      /\ conv' = SubSeq(conv \o new, 1, length + 1 + m)
      /\ generated' = Append(generated, token) \o SubSeq(draft, 1, last)
      /\ token' \in Token
      /\ \/ finish' = "none" /\ last = m /\ token' = predictions[last + 1]
         \/ finish' = "stop" /\ last < m /\ EndsHere(draft[last + 1])
      /\ rejections' \in 0 .. 2 /\ cooldown' \in 0 .. 3
      /\ drafted' \in Nat /\ accepted' \in 0 .. drafted'

\* A pass keeps length, K/V and convolution state together.
LEMMA PassKeepsState ==
  ASSUME SpeculativeInv, StateExact, Continues,
         NEW draft, NEW m, NEW last, NEW predictions, Pass(draft, m, last, predictions)
  PROVE  SpeculativeInv' /\ StateExact' /\ FitsCapacity'
<1>0. SpeculativeTypeOK /\ finish = "none"
      /\ (UniformPrecision => conv = OneByOne(history))
  BY DEF SpeculativeInv, Continues
<1> DEFINE new == Entries(<<token>> \o draft, PrecisionOf(length, 1 + Len(draft)))
<1>1. /\ draft \in Seq(Token) /\ Len(draft) <= DraftLength
      /\ Len(generated) + 1 + Len(draft) < MaxNewTokens
      /\ m \in 0 .. Len(draft) /\ last \in 0 .. m
      /\ model' = model /\ prompt' = prompt /\ ignore_eos' = ignore_eos
      /\ kv' = KvAfter(kv, length, conv, new)
      /\ length' = length + 1 + m
      /\ conv' = SubSeq(conv \o new, 1, length + 1 + m)
      /\ generated' = Append(generated, token) \o SubSeq(draft, 1, last)
      /\ token' \in Token /\ ((finish' = "none" /\ last = m) \/ finish' = "stop")
      /\ rejections' \in 0 .. 2 /\ cooldown' \in 0 .. 3
      /\ drafted' \in Nat /\ accepted' \in 0 .. drafted'
  BY DEF Pass
<1>2. /\ Len(draft) \in Nat /\ MaxNewTokens \in Nat
      /\ prompt \in Seq(Token) /\ generated \in Seq(Token) /\ token \in Token
      /\ Len(generated) \in Nat /\ length \in Nat /\ model \in Models /\ prompt \in Prompt
      /\ ignore_eos \in BOOLEAN
  BY <1>0, <1>1, Generating, LenProperties DEF SpeculativeTypeOK
<1>3. m \in Nat /\ last \in Nat /\ last \in 0 .. Len(draft) /\ last <= Len(draft)
      /\ Len(generated) + 1 + Len(draft) <= MaxNewTokens
  BY <1>1, <1>2
<1>4. /\ KvAfter(kv, length, conv, new) \in [1 .. Capacity(prompt) -> Seq(Entry)]
      /\ SubSeq(conv \o new, 1, length + 1 + m) \in Seq(Entry)
      /\ Len(SubSeq(conv \o new, 1, length + 1 + m)) = length + 1 + m
      /\ \A i \in 1 .. length + 1 + m :
           KvAfter(kv, length, conv, new)[i]
             = SubSeq(SubSeq(conv \o new, 1, length + 1 + m), 1, i)
      /\ length + 1 + m \in 0 .. Capacity(prompt)
  <2>1. draft \in Seq(Token) /\ m \in 0 .. Len(draft)
    BY <1>1
  <2>. QED
    BY <1>0, <1>3, <2>1, PassState
<1> DEFINE all == Append(generated, token) \o SubSeq(draft, 1, m)
<1>5. /\ prompt \o all \in Seq(Token) /\ Len(prompt \o all) = length + 1 + m
      /\ \A i \in 1 .. length + 1 + m :
           SubSeq(conv \o new, 1, length + 1 + m)[i].token = (prompt \o all)[i]
      /\ (UniformPrecision => SubSeq(conv \o new, 1, length + 1 + m) = OneByOne(prompt \o all))
  <2>1. draft \in Seq(Token) /\ m \in 0 .. Len(draft) /\ Len(draft) <= DraftLength
    BY <1>1
  <2>. QED
    BY <1>0, <1>3, <2>1, KeptState
<1>6. generated' \in Seq(Token) /\ Len(generated') < MaxNewTokens
  <2>1. /\ prompt \in Seq(Token) /\ generated \in Seq(Token) /\ token \in Token
        /\ draft \in Seq(Token) /\ last \in Nat /\ last <= Len(draft)
    BY <1>1, <1>2, <1>3
  <2>2. Continued(prompt, generated, token, draft, last)
    BY <2>1, TextFacts
  <2>3. generated' \in Seq(Token) /\ Len(generated') = Len(generated) + 1 + last
    BY <1>1, <2>2 DEF Continued
  <2>. QED
    BY <1>1, <1>2, <1>3, <2>3
<1> HIDE DEF new, all
<1>7. SpeculativeTypeOK'
  <2>1. /\ model' \in Models /\ prompt' \in Prompt /\ ignore_eos' \in BOOLEAN
        /\ kv' \in [1 .. Capacity(prompt') -> Seq(Entry)]
        /\ length' \in 0 .. Capacity(prompt') /\ conv' \in Seq(Entry)
    BY <1>1, <1>2, <1>4
  <2>2. finish' \in {"none", "stop", "length", "error"}
    BY <1>1
  <2>. QED
    BY <1>1, <1>6, <2>1, <2>2 DEF SpeculativeTypeOK
<1>8. finish' = "none" => history' = prompt \o all
  BY <1>1 DEF history, all
<1>9. StateExact'
  <2> SUFFICES ASSUME finish' = "none" 
               PROVE  /\ length' = Len(history') /\ Len(conv') = length'
                      /\ \A i \in 1 .. length' :
                           conv'[i].token = history'[i] /\ kv'[i] = SubSeq(conv', 1, i)
    BY DEF StateExact
  <2>. QED
    BY <1>1, <1>4, <1>5, <1>8
<1>10. (UniformPrecision /\ finish = "none" => conv = OneByOne(history))'
  <2> SUFFICES ASSUME UniformPrecision, finish' = "none" PROVE conv' = OneByOne(history)'
    BY DEF UniformPrecision
  <2>1. OneByOne(history)' = OneByOne(prompt \o all)
    BY <1>1, <1>8, Zenon DEF OneByOne
  <2>. QED
    BY <1>1, <1>5, <2>1
<1>11. FitsCapacity'
  BY <1>1 DEF FitsCapacity
<1>. QED
  BY <1>6, <1>7, <1>9, <1>10, <1>11 DEF SpeculativeInv

\* A pass adds what greedy decoding would add.
LEMMA PassKeepsGreedy ==
  ASSUME SpeculativeInv, StateExact, GreedyOutput, UniformPrecision, Continues,
         NEW draft, NEW m, NEW last, NEW predictions, Pass(draft, m, last, predictions)
  PROVE  GreedyOutput'
<1> DEFINE new == Entries(<<token>> \o draft, PrecisionOf(length, 1 + Len(draft)))
           result == Append(generated, token) \o SubSeq(draft, 1, last)
<1>0. SpeculativeTypeOK /\ finish = "none"
  BY DEF SpeculativeInv, Continues
<1>1. /\ draft \in Seq(Token) /\ Len(draft) <= DraftLength
      /\ Len(generated) + 1 + Len(draft) < MaxNewTokens
      /\ m \in 0 .. Len(draft) /\ last \in 0 .. m
      /\ \A i \in 1 .. m + 1 : predictions[i] \in
           Predicted(model, KvAfter(kv, length, conv, new), SubSeq(conv \o new, 1, length + i))
      /\ \A i \in 1 .. m : predictions[i] = draft[i]
      /\ \A i \in 1 .. last : ~EndsHere(draft[i])
      /\ model' = model /\ prompt' = prompt /\ ignore_eos' = ignore_eos
      /\ generated' = result
      /\ \/ finish' = "none" /\ last = m /\ token' = predictions[last + 1]
         \/ finish' = "stop" /\ last < m /\ EndsHere(draft[last + 1])
  BY DEF Pass
<1>2. /\ Len(draft) \in Nat /\ MaxNewTokens \in Nat /\ Len(generated) \in Nat
      /\ prompt \in Seq(Token) /\ generated \in Seq(Token) /\ token \in Token
  BY <1>0, <1>1, Generating, LenProperties
<1>3. m \in Nat /\ last \in Nat /\ last \in 0 .. Len(draft) /\ last <= Len(draft)
      /\ Len(generated) + 1 + Len(draft) <= MaxNewTokens
  BY <1>1, <1>2
<1>4. /\ \A i \in 1 .. last + 1 : predictions[i] \in
           Predicted(model, KvAfter(kv, length, conv, new), SubSeq(conv \o new, 1, length + i))
      /\ \A i \in 1 .. last : predictions[i] = draft[i] /\ ~EndsHere(draft[i])
  <2>1. /\ \A i \in 1 .. last + 1 : i \in 1 .. m + 1
        /\ \A i \in 1 .. last : i \in 1 .. m
    <3> HIDE DEF new, result
    <3>. QED
      BY <1>1, <1>3
  <2> HIDE DEF new
  <2>. QED
    BY <1>1, <2>1
<1>5. /\ \A n \in 1 .. Len(result) :
           result[n] = GreedyAfter(prompt \o SubSeq(result, 1, n - 1)) /\ ~EndsHere(result[n])
      /\ predictions[last + 1] = GreedyAfter(prompt \o result)
  <2>1. draft \in Seq(Token) /\ Len(draft) <= DraftLength
    BY <1>1
  <2>. QED
    BY <1>3, <1>4, <2>1, PassIsGreedy
<1>6. Len(result) < MaxNewTokens
  <2>1. /\ prompt \in Seq(Token) /\ generated \in Seq(Token) /\ token \in Token
        /\ draft \in Seq(Token) /\ last \in Nat /\ last <= Len(draft)
    BY <1>1, <1>2, <1>3
  <2>2. Continued(prompt, generated, token, draft, last)
    BY <2>1, TextFacts
  <2>3. Len(result) = Len(generated) + 1 + last
    BY <2>2 DEF Continued
  <2> HIDE DEF result
  <2>. QED
    BY <1>1, <1>2, <1>3, <2>3
<1> HIDE DEF new, result
<1>7. PICK a : a = result
  OBVIOUS
<1>8. generated' = a
  BY <1>1, <1>7
<1>9. \A x : EndsHere(x)' <=> EndsHere(x)
  BY <1>1 DEF EndsHere
<1>10. AgreesWithGreedy'
  <2>1. ASSUME NEW n \in 1 .. Len(a)
        PROVE  a[n] = GreedyAfter(prompt \o SubSeq(generated, 1, n - 1))'
    <3>1. a[n] = GreedyAfter(prompt \o SubSeq(a, 1, n - 1))
      BY <1>5, <1>7, Zenon
    <3>2. GreedyAfter(prompt \o SubSeq(generated, 1, n - 1))' = GreedyAfter(prompt \o SubSeq(a, 1, n - 1))
      BY <1>1, <1>8, Zenon DEF GreedyAfter, OneByOne
    <3>. QED
      BY <3>1, <3>2
  <2>. QED
    BY <1>8, <2>1, Zenon DEF AgreesWithGreedy
<1>11. GreedyNext' = predictions[last + 1]
  <2>1. GreedyNext' = GreedyAfter(prompt \o a)
    BY <1>1, <1>8, Zenon DEF GreedyNext, GreedyAfter, OneByOne, history
  <2>. QED
    BY <1>5, <1>7, <2>1, Zenon
<1>12. \A n \in 1 .. Len(generated') : ~EndsHere(generated[n])'
  <2>1. ASSUME NEW n \in 1 .. Len(a) PROVE ~EndsHere(generated[n])'
    <3>1. ~EndsHere(a[n])
      BY <1>5, <1>7, Zenon
    <3>. QED
      BY <1>1, <1>8, <3>1 DEF EndsHere
  <2>. QED
    BY <1>8, <2>1, Zenon
<1>13. finish' = "stop" => EndsHere(GreedyNext)'
  <2> SUFFICES ASSUME finish' = "stop" PROVE EndsHere(GreedyNext)'
    OBVIOUS
  <2>1. last < m /\ EndsHere(draft[last + 1])
    BY <1>1
  <2>2. last + 1 \in 1 .. m
    BY <1>1, <1>3, <2>1
  <2>3. predictions[last + 1] = draft[last + 1]
    BY <1>1, <2>2
  <2>4. EndsHere(predictions[last + 1])
    BY <2>1, <2>3
  <2>. QED
    BY <1>1, <1>11, <2>4 DEF EndsHere
<1>14. finish' = "none" => token' = GreedyNext'
  BY <1>1, <1>11
<1>15. Len(generated') < MaxNewTokens /\ finish' \in {"none", "stop"}
  BY <1>1, <1>6
<1>. QED
  BY <1>10, <1>12, <1>13, <1>14, <1>15 DEF GreedyOutput

\* A single token is a pass with an empty draft.
LEMMA DecodeIsPass ==
  ASSUME SpeculativeTypeOK, StateExact, DecodeOne
  PROVE  \E draft, m, last, predictions : Pass(draft, m, last, predictions)
<1> DEFINE entry == [token |-> token, precision |-> PrecisionOf(length, 1)]
           one == <<entry>>
           none == SubSeq(<< >>, 1, 0)
           new == Entries(<<token>> \o none, PrecisionOf(length, 1 + Len(none)))
<1>1. /\ Continues /\ TurnDraft = << >> /\ finish = "none"
      /\ generated' = Append(generated, token) /\ cooldown' = CooldownAfter
      /\ model' = model /\ prompt' = prompt /\ ignore_eos' = ignore_eos
      /\ rejections' = rejections /\ drafted' = drafted /\ accepted' = accepted
  BY DEF DecodeOne, Continues, request_vars
<1>2. /\ length \in Nat /\ generated \in Seq(Token) /\ token \in Token /\ Len(generated) \in Nat
      /\ conv \in Seq(Entry) /\ Len(conv) = length /\ model \in Models
      /\ Len(prompt) \in Nat /\ Len(prompt) >= Depth /\ Depth \in Nat
      /\ length = Len(prompt) + Len(generated)
      /\ Capacity(prompt) = Len(prompt) + MaxNewTokens /\ MaxNewTokens \in Nat
  BY <1>1, Generating
<1>3. /\ length + 1 <= Capacity(prompt) /\ Len(generated) + 1 < MaxNewTokens
  BY <1>1, <1>2 DEF Continues
<1>4. /\ kv' = KvAfter(kv, length, conv, one)
      /\ conv' = conv \o one
      /\ length' = length + 1
      /\ token' \in Predicted(model, kv', conv')
      /\ finish' = "none"
  <2>1. ~(length + 1 > Capacity(prompt))
    BY <1>2, <1>3
  <2>. QED
    BY <1>1, <2>1 DEF DecodeOne, cache_vars
<1>5. none = << >> /\ none \in Seq(Token) /\ Len(none) = 0
  BY EmptySeq
<1> HIDE DEF none
<1>6. new = one
  <2>1. <<token>> \o none = <<token>>
    BY <1>2, <1>5
  <2>2. 1 + Len(none) = 1
    BY <1>5
  <2>3. <<token>> \in Seq(Token) /\ Len(<<token>>) = 1 /\ <<token>>[1] = token
    BY <1>2
  <2> DEFINE e == Entries(<<token>>, PrecisionOf(length, 1))
  <2>4. e = [i \in 1 .. Len(<<token>>) |-> [token |-> <<token>>[i], precision |-> PrecisionOf(length, 1)]]
    BY DEF Entries
  <2>5. e \in Seq(Entry) /\ Len(e) = 1 /\ e[1] = entry
    <3>1. 1 \in Nat
      OBVIOUS
    <3>2. e \in Seq(Entry) /\ Len(e) = Len(<<token>>)
      BY <1>2, <2>3, <3>1, EntriesFacts
    <3>. QED
      BY <2>3, <2>4, <3>2
  <2>6. one \in Seq(Entry) /\ Len(one) = 1 /\ one[1] = entry
    <3>1. entry \in Entry
      BY <2>5, ElementOfSeq
    <3> HIDE DEF entry
    <3>. QED
      BY <3>1
  <2> HIDE DEF e, one, entry
  <2>7. e = one
    <3>1. \A i \in 1 .. Len(e) : e[i] = one[i]
      BY <2>5, <2>6
    <3>. QED
      BY <2>5, <2>6, <3>1, SeqEqual
  <2>. QED
    BY <2>1, <2>2, <2>7 DEF e
<1> DEFINE full == conv \o one
<1>7. full \in Seq(Entry) /\ Len(full) = length + 1
  <2>1. one \in Seq(Entry) /\ Len(one) = 1
    <3>1. <<token>> \o none \in Seq(Token) /\ Len(<<token>> \o none) = 1
      BY <1>2, <1>5
    <3>2. 1 + Len(none) \in Nat
      BY <1>5
    <3>. QED
      BY <1>2, <1>6, <3>1, <3>2, EntriesFacts
  <2> HIDE DEF one
  <2>2. conv \in Seq(Entry) /\ one \in Seq(Entry)
    BY <1>2, <2>1
  <2>3. full \in Seq(Entry) /\ Len(full) = Len(conv) + Len(one)
    BY <2>2, Joined
  <2>. QED
    BY <1>2, <2>1, <2>3
<1> HIDE DEF new, one, full
<1>8. full = SubSeq(full, 1, length + 1)
  <2>1. Len(full) <= Len(full) /\ \A i \in 1 .. Len(full) : full[i] = full[i]
    BY <1>2, <1>7
  <2>2. full = SubSeq(full, 1, Len(full))
    BY <1>7, <2>1, IsPrefix
  <2>. QED
    BY <1>7, <2>2
<1>9. generated' = Append(generated, token) \o SubSeq(none, 1, 0)
  <2>1. SubSeq(none, 1, 0) = << >>
    BY <1>5
  <2>2. Append(generated, token) \in Seq(Token)
    BY <1>2, AppendProperties
  <2> DEFINE a == Append(generated, token)
  <2> HIDE DEF a
  <2>3. a \o << >> = a
    BY <2>2 DEF a
  <2>. QED
    BY <1>1, <2>1, <2>3 DEF a
<1>10. token' \in Token
  <2>1. conv' \in Seq(Entry) /\ Len(conv') >= Depth
    BY <1>2, <1>4, <1>7 DEF full
  <2>2. Argmax(model, conv') \in Token
    BY <1>2, <2>1, ArgmaxType
  <2>. QED
    BY <1>4, <2>2 DEF Predicted
<1>11. rejections' \in 0 .. 2 /\ cooldown' \in 0 .. 3 /\ drafted' \in Nat /\ accepted' \in 0 .. drafted'
  BY <1>1 DEF SpeculativeTypeOK, CooldownAfter
<1> DEFINE predictions == [i \in {1} |-> token']
<1>12. ASSUME NEW i \in 1 .. 0 + 1
       PROVE  predictions[i] \in
                Predicted(model, KvAfter(kv, length, conv, new), SubSeq(conv \o new, 1, length + i))
  <2>1. i = 1
    OBVIOUS
  <2>2. predictions[i] = token' /\ length + i = length + 1
    BY <2>1
  <2> HIDE DEF predictions
  <2>3. token' \in Predicted(model, KvAfter(kv, length, conv, one), full)
    BY <1>4 DEF full
  <2>4. SubSeq(conv \o new, 1, length + 1) = full
    BY <1>6, <1>8 DEF full
  <2>. QED
    BY <1>6, <2>2, <2>3, <2>4
<1>13. predictions[0 + 1] = token' /\ 1 \in 1 .. 0 + 1
  OBVIOUS
<1>14. kv' = KvAfter(kv, length, conv, new) /\ conv' = SubSeq(conv \o new, 1, length + 1)
  BY <1>4, <1>6, <1>8 DEF full
<1> HIDE DEF predictions
<1>15. DraftLength \in Nat /\ length + 1 + 0 = length + 1 /\ Len(generated) + 1 + Len(none) < MaxNewTokens
  BY <1>2, <1>3, <1>5, NgramAssumption
<1>16. /\ none \in Seq(Token) /\ Len(none) <= DraftLength
       /\ 0 \in 0 .. Len(none) /\ 0 \in 0 .. 0
       /\ \A i \in 1 .. 0 : predictions[i] = none[i]
       /\ \A i \in 1 .. 0 : ~EndsHere(none[i])
       /\ length' = length + 1 + 0
       /\ conv' = SubSeq(conv \o new, 1, length + 1 + 0)
  <2>1. \A i \in 1 .. 0 : FALSE
    OBVIOUS
  <2>2. Len(none) <= DraftLength /\ 0 \in 0 .. Len(none) /\ 0 \in 0 .. 0
    <3>1. Len(none) = 0
      BY <1>5
    <3>. QED
      BY <1>15, <3>1
  <2>3. length + 1 + 0 = length + 1
    BY <1>15
  <2>4. length' = length + 1 + 0 /\ conv' = SubSeq(conv \o new, 1, length + 1 + 0)
    BY <1>4, <1>14, <2>3, Zenon
  <2>. QED
    BY <1>5, <2>1, <2>2, <2>4, Zenon
<1>17. finish' = "none" /\ 0 = 0 /\ token' = predictions[0 + 1]
  BY <1>4, <1>13
<1>18. Pass(none, 0, 0, predictions)
  BY <1>1, <1>9, <1>10, <1>11, <1>12, <1>14, <1>15, <1>16, <1>17, Zenon DEF Pass, new
<1>. QED
  BY <1>18

\* A verification is a pass with the draft of the turn.
LEMMA VerifyIsPass ==
  ASSUME SpeculativeTypeOK, StateExact, Verify
  PROVE  \E draft, m, last, predictions : Pass(draft, m, last, predictions)
<1>1. PICK draft : draft = TurnDraft
  OBVIOUS
<1> DEFINE k == Len(draft)
           new == Entries(<<token>> \o draft, PrecisionOf(length, 1 + k))
           mem == KvAfter(kv, length, conv, new)
<1>2. Continues /\ finish = "none" /\ Len(generated) + 1 < MaxNewTokens
  BY DEF Verify, Continues
<1>3. /\ draft \in Seq(Token) /\ k \in Nat /\ k <= DraftLength
      /\ Len(generated) + 1 + k < MaxNewTokens
      /\ length + 1 + k <= Capacity(prompt)
  BY <1>1, <1>2, TurnDraftShape
<1>4. /\ length \in Nat /\ generated \in Seq(Token) /\ token \in Token /\ Len(generated) \in Nat
      /\ MaxNewTokens \in Nat /\ Capacity(prompt) \in Nat
  <2>1. Capacity(prompt) = Len(prompt) + MaxNewTokens /\ Len(prompt) \in Nat /\ MaxNewTokens \in Nat
    BY <1>2, Generating
  <2>. QED
    BY <1>2, <2>1, Generating
<1>5. ~(length + 1 + k > Capacity(prompt))
  BY <1>3, <1>4
<1>6. drafted' = drafted + k
  BY <1>1 DEF Verify
<1>7. PICK predictions \in [1 .. k + 1 -> Token] :
        LET n == Accepted(draft, predictions)
            emitted == Emitted(SubSeq(draft, 1, n))
            all == Append(generated, token) \o emitted
        IN  /\ \A i \in 1 .. k + 1 :
                 predictions[i] \in Predicted(model, mem, SubSeq(conv \o new, 1, Len(conv) + i))
            /\ accepted' = accepted + n
            /\ rejections' = IF n > 0 THEN 0 ELSE Smaller(rejections + 1, 2)
            /\ cooldown' = IF rejections' = 2 THEN 3 ELSE 0
            /\ kv' = mem
            /\ length' = length + 1 + n
            /\ conv' = RolledBack(conv \o new, 1 + n)
            /\ generated' = all
            /\ finish' = IF Len(emitted) < n /\ EndsHere(draft[Len(emitted) + 1])
                         THEN "stop"
                         ELSE IF Len(all) >= MaxNewTokens THEN "length" ELSE "none"
            /\ token' = IF finish' = "none" THEN predictions[n + 1] ELSE token
  BY <1>1, <1>5 DEF Verify
<1>8. model' = model /\ prompt' = prompt /\ ignore_eos' = ignore_eos
  BY DEF Verify, request_vars
<1> HIDE DEF mem, new
<1>9. PICK m : m = Accepted(draft, predictions)
  OBVIOUS
<1>10. m \in 0 .. k /\ m \in Nat /\ m <= k /\ \A j \in 1 .. m : predictions[j] = draft[j]
  BY <1>3, <1>9, AcceptedShape
<1>11. PICK tokens : tokens = SubSeq(draft, 1, m)
  OBVIOUS
<1>12. tokens \in Seq(Token) /\ Len(tokens) = m /\ \A i \in 1 .. m : tokens[i] = draft[i]
  BY <1>3, <1>10, <1>11, Beginning
<1>13. PICK last \in 0 .. Len(tokens) :
           /\ Emitted(tokens) = SubSeq(tokens, 1, last)
           /\ \A i \in 1 .. last : ~EndsHere(tokens[i])
           /\ Len(generated) + 1 + last <= MaxNewTokens
           /\ \/ last = Len(tokens)
              \/ Len(generated) + 1 + last >= MaxNewTokens
              \/ EndsHere(tokens[last + 1])
  <2>1. Len(generated) + 1 <= MaxNewTokens
    BY <1>2, <1>4
  <2>. QED
    BY <1>4, <1>12, <2>1, EmittedShape
<1>14. last \in 0 .. m /\ last \in Nat /\ last <= m
  BY <1>10, <1>12
<1>15. Emitted(tokens) = SubSeq(draft, 1, last) /\ Len(Emitted(tokens)) = last
  <2>1. SubSeq(tokens, 1, last) = SubSeq(draft, 1, last)
    BY <1>3, <1>10, <1>11, <1>14, BeginningOfBeginning
  <2>2. last <= Len(draft)
    BY <1>3, <1>10, <1>14
  <2>3. Len(SubSeq(draft, 1, last)) = last
    BY <1>3, <1>14, <2>2, Beginning
  <2>. QED
    BY <1>13, <2>1, <2>3
<1>16. \A i \in 1 .. last : ~EndsHere(draft[i])
  <2>1. \A i \in 1 .. last : i \in 1 .. m
    BY <1>10, <1>14
  <2>. QED
    BY <1>12, <1>13, <2>1
<1>17. /\ accepted' = accepted + m
       /\ rejections' = IF m > 0 THEN 0 ELSE Smaller(rejections + 1, 2)
       /\ cooldown' = IF rejections' = 2 THEN 3 ELSE 0
       /\ kv' = mem
       /\ length' = length + 1 + m
       /\ conv' = RolledBack(conv \o new, 1 + m)
       /\ generated' = Append(generated, token) \o SubSeq(draft, 1, last)
       /\ finish' = IF last < m /\ EndsHere(draft[last + 1])
                    THEN "stop"
                    ELSE IF Len(generated') >= MaxNewTokens THEN "length" ELSE "none"
       /\ token' = IF finish' = "none" THEN predictions[m + 1] ELSE token
  BY <1>7, <1>9, <1>11, <1>15
<1>18. Len(generated') = Len(generated) + 1 + last
  <2>1. /\ prompt \in Seq(Token) /\ generated \in Seq(Token) /\ token \in Token
        /\ draft \in Seq(Token) /\ last \in Nat /\ last <= Len(draft)
    BY <1>2, <1>3, <1>4, <1>10, <1>14, Generating
  <2>2. Continued(prompt, generated, token, draft, last)
    BY <2>1, TextFacts
  <2>. QED
    BY <1>17, <2>2 DEF Continued
<1>19. \/ finish' = "none" /\ last = m /\ token' = predictions[last + 1]
       \/ finish' = "stop" /\ last < m /\ EndsHere(draft[last + 1])
  <2>1. Len(generated) + 1 + last < MaxNewTokens
    BY <1>3, <1>4, <1>10, <1>14
  <2>2. last < m => EndsHere(draft[last + 1])
    <3> SUFFICES ASSUME last < m PROVE EndsHere(draft[last + 1])
      OBVIOUS
    <3>1. last + 1 \in 1 .. m /\ last # Len(tokens)
      BY <1>10, <1>12, <1>14
    <3>2. EndsHere(tokens[last + 1])
      BY <1>4, <1>13, <1>14, <2>1, <3>1
    <3>. QED
      BY <1>12, <3>1, <3>2
  <2>3. CASE last < m
    BY <1>17, <2>2, <2>3
  <2>4. CASE last = m
    <3>1. ~(last < m) /\ ~(Len(generated') >= MaxNewTokens)
      BY <1>4, <1>10, <1>14, <1>18, <2>1, <2>4
    <3>. QED
      BY <1>17, <2>4, <3>1
  <2>. QED
    BY <1>10, <1>14, <2>3, <2>4
<1>20. token' \in Token
  <2>1. m + 1 \in 1 .. k + 1
    BY <1>3, <1>10
  <2>2. predictions[m + 1] \in Token
    BY <2>1
  <2>. QED
    BY <1>4, <1>17, <2>2
<1>21. conv' = SubSeq(conv \o new, 1, length + 1 + m)
  <2>1. length + (1 + m) = length + 1 + m
    BY <1>4, <1>10
  <2>. QED
    BY <1>17, <2>1 DEF RolledBack
<1>22. ASSUME NEW i \in 1 .. m + 1
       PROVE  predictions[i] \in Predicted(model, mem, SubSeq(conv \o new, 1, length + i))
  <2>1. i \in 1 .. k + 1
    BY <1>3, <1>10
  <2>2. Len(conv) = length
    BY <1>2, Generating
  <2>3. predictions[i] \in Predicted(model, mem, SubSeq(conv \o new, 1, Len(conv) + i))
    BY <1>7, <2>1
  <2>. QED
    BY <2>2, <2>3
<1>23. rejections' \in 0 .. 2 /\ cooldown' \in 0 .. 3 /\ drafted' \in Nat /\ accepted' \in 0 .. drafted'
  <2>1. rejections \in 0 .. 2 /\ drafted \in Nat /\ accepted \in 0 .. drafted
    BY DEF SpeculativeTypeOK
  <2>2. rejections' \in 0 .. 2
    BY <1>17, <2>1 DEF Smaller
  <2>3. cooldown' \in 0 .. 3
    BY <1>17
  <2>4. drafted' \in Nat /\ accepted' \in 0 .. drafted'
    BY <1>3, <1>6, <1>10, <1>17, <2>1
  <2>. QED
    BY <2>2, <2>3, <2>4
<1> HIDE DEF k
<1>24. Pass(draft, m, last, predictions)
  <2>1. /\ draft \in Seq(Token) /\ Len(draft) <= DraftLength
        /\ Len(generated) + 1 + Len(draft) < MaxNewTokens
        /\ m \in 0 .. Len(draft) /\ last \in 0 .. m
    BY <1>3, <1>10, <1>14 DEF k
  <2>2. kv' = mem /\ length' = length + 1 + m
        /\ generated' = Append(generated, token) \o SubSeq(draft, 1, last)
    BY <1>17
  <2>. QED
    BY <1>8, <1>10, <1>16, <1>19, <1>20, <1>21, <1>22, <1>23, <2>1, <2>2, Zenon DEF Pass, mem, new, k
<1>. QED
  BY <1>24

-----------------------------------------------------------------------------
(* The invariants of generation.                                           *)

\* The prefill of the prompt establishes them.
LEMMA SpeculativeStart ==
  ASSUME SpeculativeInit
  PROVE  SpeculativeInv /\ StateExact /\ FitsCapacity /\ GreedyOutput
<1> DEFINE mem0 == [i \in 1 .. Capacity(prompt) |-> << >>]
           N == Capacity(prompt)
<1>1. /\ model \in Models /\ prompt \in Prompt /\ ignore_eos \in BOOLEAN
      /\ generated = << >> /\ conv = Entries(prompt, PrecisionOf(0, Len(prompt)))
      /\ kv = KvAfter(mem0, 0, << >>, conv)
      /\ length = Len(prompt) /\ token = Argmax(model, conv)
      /\ rejections = 0 /\ cooldown = 0 /\ drafted = 0 /\ accepted = 0
      /\ finish = "none"
  BY DEF SpeculativeInit
<1>2. /\ prompt \in Seq(Token) /\ Len(prompt) \in Nat /\ Len(prompt) >= Depth
      /\ Depth \in Nat \ {0} /\ MaxNewTokens \in Nat \ {0}
      /\ N = Len(prompt) + MaxNewTokens /\ N \in Nat
  <2>1. prompt \in Seq(Token) /\ Len(prompt) >= Depth /\ Depth \in Nat \ {0}
        /\ MaxNewTokens \in Nat \ {0}
    BY <1>1, SpeculativeAssumption
  <2>2. Len(prompt) \in Nat /\ N = Len(prompt) + MaxNewTokens
    BY <2>1, LenProperties DEF Capacity
  <2>. QED
    BY <2>1, <2>2
<1>3. /\ conv \in Seq(Entry) /\ Len(conv) = length
      /\ \A i \in 1 .. length : conv[i] = [token |-> prompt[i], precision |-> PrecisionOf(0, Len(prompt))]
  <2>1. 0 \in Nat /\ prompt \in Seq(Token) /\ Len(prompt) \in Nat
    BY <1>2
  <2> DEFINE a == Entries(prompt, PrecisionOf(0, Len(prompt)))
  <2>2. /\ a \in Seq(Entry) /\ Len(a) = Len(prompt)
        /\ \A i \in 1 .. Len(prompt) :
             a[i] = [token |-> prompt[i], precision |-> PrecisionOf(0, Len(prompt))]
    BY <2>1, EntriesFacts
  <2>3. conv = a
    BY <1>1
  <2> HIDE DEF a
  <2>. QED
    BY <1>1, <2>2, <2>3
<1>4. generated \in Seq(Token) /\ Len(generated) = 0
  BY <1>1, EmptySeq
<1>5. history = prompt
  BY <1>1, <1>2, ConcatEmptySeq DEF history
<1>6. /\ kv \in [1 .. N -> Seq(Entry)]
      /\ \A i \in 1 .. length : kv[i] = SubSeq(conv, 1, i)
  <2> DEFINE none == << >>
  <2>1. none \in Seq(Entry) /\ Len(none) = 0
    BY EmptySeq
  <2>2. mem0 \in [1 .. N -> Seq(Entry)]
    BY EmptySeq
  <2>3. none \o conv = conv
    BY <1>3, ConcatEmptySeq
  <2> HIDE DEF none, mem0, N
  <2>4. /\ Len(none) + Len(conv) <= N
        /\ \A i \in 1 .. Len(none) : mem0[i] = SubSeq(none, 1, i)
    BY <1>1, <1>2, <1>3, <2>1
  <2>5. /\ KvAfter(mem0, Len(none), none, conv) \in [1 .. N -> Seq(Entry)]
        /\ \A i \in 1 .. Len(none \o conv) :
             KvAfter(mem0, Len(none), none, conv)[i] = SubSeq(none \o conv, 1, i)
    <3>1. conv \in Seq(Entry) /\ none \in Seq(Entry) /\ N \in Nat
      BY <1>2, <1>3, <2>1
    <3>. QED
      BY <2>2, <2>4, <3>1, PassFacts
  <2>6. kv = KvAfter(mem0, Len(none), none, conv)
    BY <1>1, <2>1 DEF none
  <2>. QED
    BY <1>3, <2>3, <2>5, <2>6
<1> HIDE DEF mem0
<1>7. token \in Token
  <2>1. Len(conv) >= Depth
    BY <1>1, <1>2, <1>3
  <2>. QED
    BY <1>1, <1>3, <2>1, ArgmaxType
<1>8. SpeculativeTypeOK
  <2>1. length \in 0 .. Capacity(prompt)
    BY <1>1, <1>2
  <2>. QED
    BY <1>1, <1>3, <1>4, <1>6, <1>7, <2>1 DEF SpeculativeTypeOK
<1>9. StateExact
  <2>1. length = Len(history) /\ Len(conv) = length
    BY <1>1, <1>3, <1>5
  <2>2. \A i \in 1 .. length : conv[i].token = history[i] /\ kv[i] = SubSeq(conv, 1, i)
    <3>1. ASSUME NEW i \in 1 .. length PROVE conv[i].token = prompt[i]
      BY <1>3
    <3>. QED
      BY <1>5, <1>6, <3>1
  <2>. QED
    BY <2>1, <2>2 DEF StateExact
<1>10. conv = OneByOne(history)
  <2> DEFINE b == OneByOne(prompt)
  <2>1. /\ b \in Seq(Entry) /\ Len(b) = length
        /\ \A i \in 1 .. Len(prompt) : b[i] =
             [token |-> prompt[i],
              precision |-> IF i <= Len(prompt) THEN PrecisionOf(0, Len(prompt))
                            ELSE PrecisionOf(i - 1, 1)]
    BY <1>1, <1>2, OneByOneFacts
  <2>2. \A i \in 1 .. length : b[i] = [token |-> prompt[i], precision |-> PrecisionOf(0, Len(prompt))]
    <3> HIDE DEF b
    <3>1. \A i \in 1 .. Len(prompt) : i <= Len(prompt)
      BY <1>2
    <3>. QED
      BY <1>1, <2>1, <3>1
  <2> HIDE DEF b
  <2>3. conv = b
    BY <1>3, <2>1, <2>2, SeqEqual
  <2>. QED
    BY <1>5, <2>3 DEF b
<1>11. SpeculativeInv
  BY <1>2, <1>4, <1>8, <1>10 DEF SpeculativeInv
<1>12. GreedyOutput
  <2>1. \A n \in 1 .. Len(generated) : FALSE
    BY <1>4
  <2>2. token = GreedyNext
    BY <1>1, <1>10 DEF GreedyNext, GreedyAfter
  <2>3. Len(generated) < MaxNewTokens
    BY <1>2, <1>4
  <2>. QED
    BY <1>1, <2>1, <2>2, <2>3 DEF GreedyOutput, AgreesWithGreedy
<1>. QED
  BY <1>1, <1>9, <1>11, <1>12 DEF FitsCapacity

\* Ending at an end-of-sequence token keeps them.
LEMMA StopKeeps ==
  ASSUME SpeculativeInv, StopAtEos
  PROVE  SpeculativeInv' /\ StateExact' /\ FitsCapacity' /\ (GreedyOutput => GreedyOutput')
<1>1. /\ finish = "none" /\ EndsHere(token) /\ finish' = "stop"
      /\ model' = model /\ prompt' = prompt /\ ignore_eos' = ignore_eos
      /\ generated' = generated /\ token' = token
      /\ kv' = kv /\ length' = length /\ conv' = conv
      /\ rejections' = rejections /\ cooldown' = cooldown
      /\ drafted' = drafted /\ accepted' = accepted
  BY DEF StopAtEos, request_vars, cache_vars, draft_vars
<1>2. SpeculativeTypeOK'
  <2>1. SpeculativeTypeOK
    BY DEF SpeculativeInv
  <2>. QED
    BY <1>1, <2>1 DEF SpeculativeTypeOK
<1>3. SpeculativeInv' /\ StateExact' /\ FitsCapacity'
  BY <1>1, <1>2 DEF SpeculativeInv, StateExact, FitsCapacity
<1>4. ASSUME GreedyOutput PROVE GreedyOutput'
  <2>1. /\ AgreesWithGreedy /\ \A n \in 1 .. Len(generated) : ~EndsHere(generated[n])
        /\ Len(generated) < MaxNewTokens /\ token = GreedyNext
    BY <1>1, <1>4 DEF GreedyOutput
  <2>2. AgreesWithGreedy'
    BY <1>1, <2>1, Zenon DEF AgreesWithGreedy, GreedyAfter, OneByOne
  <2>3. GreedyNext' = GreedyNext
    BY <1>1, Zenon DEF GreedyNext, GreedyAfter, OneByOne, history
  <2>4. \A n \in 1 .. Len(generated') : ~EndsHere(generated[n])'
    BY <1>1, <2>1, Zenon DEF EndsHere
  <2>5. EndsHere(GreedyNext)'
    BY <1>1, <2>1, <2>3 DEF EndsHere
  <2>. QED
    BY <1>1, <2>1, <2>2, <2>4, <2>5 DEF GreedyOutput
<1>. QED
  BY <1>3, <1>4

\* Filling the result keeps them.
LEMMA LimitKeeps ==
  ASSUME SpeculativeInv, FinishAtLimit
  PROVE  SpeculativeInv' /\ StateExact' /\ FitsCapacity' /\ (GreedyOutput => GreedyOutput')
<1>1. /\ finish = "none" /\ ~EndsHere(token) /\ finish' = "length"
      /\ Len(generated) + 1 >= MaxNewTokens
      /\ model' = model /\ prompt' = prompt /\ ignore_eos' = ignore_eos
      /\ generated' = Append(generated, token) /\ token' = token
      /\ kv' = kv /\ length' = length /\ conv' = conv
      /\ rejections' = rejections /\ cooldown' = cooldown
      /\ drafted' = drafted /\ accepted' = accepted
  BY DEF FinishAtLimit, request_vars, cache_vars, draft_vars
<1>2. SpeculativeTypeOK /\ generated \in Seq(Token) /\ token \in Token
      /\ Len(generated) < MaxNewTokens
  BY <1>1 DEF SpeculativeInv, SpeculativeTypeOK
<1>3. /\ generated' \in Seq(Token) /\ Len(generated') = Len(generated) + 1
      /\ Len(generated) \in Nat
      /\ \A n \in 1 .. Len(generated) : generated'[n] = generated[n]
      /\ generated'[Len(generated) + 1] = token
  BY <1>1, <1>2, AppendProperties, LenProperties
<1>4. SpeculativeTypeOK'
  BY <1>1, <1>2, <1>3 DEF SpeculativeTypeOK
<1>5. SpeculativeInv' /\ StateExact' /\ FitsCapacity'
  BY <1>1, <1>4 DEF SpeculativeInv, StateExact, FitsCapacity
<1>6. ASSUME GreedyOutput PROVE GreedyOutput'
  <2>1. /\ \A n \in 1 .. Len(generated) :
             generated[n] = GreedyAfter(prompt \o SubSeq(generated, 1, n - 1)) /\ ~EndsHere(generated[n])
        /\ token = GreedyAfter(prompt \o generated)
    BY <1>1, <1>6 DEF GreedyOutput, AgreesWithGreedy, GreedyNext, history
  <2>2. PICK a : a = generated'
    OBVIOUS
  <2>3. ASSUME NEW n \in 1 .. Len(a)
        PROVE  a[n] = GreedyAfter(prompt \o SubSeq(a, 1, n - 1)) /\ ~EndsHere(a[n])
    <3>1. /\ a \in Seq(Token) /\ Len(a) = Len(generated) + 1
          /\ \A i \in 1 .. Len(generated) : a[i] = generated[i]
      BY <1>3, <2>2
    <3>2. n - 1 \in Nat /\ n - 1 <= Len(generated) /\ n - 1 <= Len(a)
      BY <1>3, <3>1
    <3> DEFINE b == SubSeq(generated, 1, n - 1)
    <3>3. b = SubSeq(a, 1, n - 1)
      <4>1. b \in Seq(Token) /\ Len(b) = n - 1 /\ \A i \in 1 .. n - 1 : b[i] = generated[i]
        BY <1>2, <3>2, Beginning
      <4> HIDE DEF b
      <4>2. \A i \in 1 .. Len(b) : b[i] = a[i]
        BY <1>3, <3>1, <3>2, <4>1
      <4>3. b = SubSeq(a, 1, Len(b))
        BY <3>1, <3>2, <4>1, <4>2, IsPrefix
      <4>. QED
        BY <4>1, <4>3
    <3>4. CASE n <= Len(generated)
      <4>1. n \in 1 .. Len(generated)
        BY <1>3, <3>4
      <4>. QED
        BY <2>1, <3>1, <3>3, <4>1
    <3>5. CASE n > Len(generated)
      <4>1. n = Len(generated) + 1 /\ n - 1 = Len(generated)
        BY <1>3, <3>1, <3>5
      <4>2. b = generated
        <5>1. Len(generated) <= Len(generated) /\ \A i \in 1 .. Len(generated) : generated[i] = generated[i]
          BY <1>3
        <5>. QED
          BY <1>2, <4>1, <5>1, IsPrefix
      <4>. QED
        BY <1>1, <1>3, <2>1, <2>2, <3>3, <4>1, <4>2
    <3>. QED
      BY <1>3, <3>4, <3>5
  <2>4. AgreesWithGreedy'
    <3>1. ASSUME NEW n \in 1 .. Len(a)
          PROVE  a[n] = GreedyAfter(prompt \o SubSeq(generated, 1, n - 1))'
      <4>1. GreedyAfter(prompt \o SubSeq(generated, 1, n - 1))' = GreedyAfter(prompt \o SubSeq(a, 1, n - 1))
        BY <1>1, <2>2, Zenon DEF GreedyAfter, OneByOne
      <4>. QED
        BY <2>3, <4>1
    <3>. QED
      BY <2>2, <3>1, Zenon DEF AgreesWithGreedy
  <2>5. \A n \in 1 .. Len(generated') : ~EndsHere(generated[n])'
    BY <1>1, <2>2, <2>3, Zenon DEF EndsHere
  <2>6. Len(generated') = MaxNewTokens
    <3>1. MaxNewTokens \in Nat
      BY SpeculativeAssumption
    <3>. QED
      BY <1>1, <1>2, <1>3, <3>1
  <2>. QED
    BY <1>1, <2>4, <2>5, <2>6 DEF GreedyOutput
<1>. QED
  BY <1>5, <1>6

-----------------------------------------------------------------------------
(* The theorems.                                                           *)

\* A step that changes nothing keeps them.
LEMMA SpeculativeStutter ==
  ASSUME SpeculativeInv, StateExact, FitsCapacity, UNCHANGED vars
  PROVE  SpeculativeInv' /\ StateExact' /\ FitsCapacity' /\ (GreedyOutput => GreedyOutput')
<1>1. /\ model' = model /\ prompt' = prompt /\ ignore_eos' = ignore_eos
      /\ generated' = generated /\ token' = token
      /\ kv' = kv /\ length' = length /\ conv' = conv
      /\ rejections' = rejections /\ cooldown' = cooldown
      /\ drafted' = drafted /\ accepted' = accepted /\ finish' = finish
  BY DEF vars, request_vars, cache_vars, draft_vars
<1>2. SpeculativeTypeOK'
  <2>1. SpeculativeTypeOK
    BY DEF SpeculativeInv
  <2>. QED
    BY <1>1, <2>1 DEF SpeculativeTypeOK
<1>3. history' = history
  BY <1>1 DEF history
<1>4. OneByOne(history)' = OneByOne(history)
  BY <1>1, <1>3, Zenon DEF OneByOne
<1>5. SpeculativeInv' /\ StateExact' /\ FitsCapacity'
  BY <1>1, <1>2, <1>3, <1>4 DEF SpeculativeInv, StateExact, FitsCapacity, UniformPrecision
<1>6. ASSUME GreedyOutput PROVE GreedyOutput'
  <2>1. AgreesWithGreedy' <=> AgreesWithGreedy
    BY <1>1, Zenon DEF AgreesWithGreedy, GreedyAfter, OneByOne
  <2>2. GreedyNext' = GreedyNext
    BY <1>1, Zenon DEF GreedyNext, GreedyAfter, OneByOne, history
  <2>3. \A x : EndsHere(x)' <=> EndsHere(x)
    BY <1>1 DEF EndsHere
  <2>4. /\ EndsHere(GreedyNext)' <=> EndsHere(GreedyNext)
        /\ (\A n \in 1 .. Len(generated) : ~EndsHere(generated[n]))'
             <=> \A n \in 1 .. Len(generated) : ~EndsHere(generated[n])
    BY <1>1, <2>2, Zenon DEF EndsHere
  <2>. QED
    BY <1>1, <1>6, <2>1, <2>2, <2>4 DEF GreedyOutput
<1>. QED
  BY <1>5, <1>6

\* Every turn keeps them; what greedy decoding gives, when drafts are verified
\* in the precision of single tokens.
LEMMA TurnKeeps ==
  ASSUME SpeculativeInv, StateExact, FitsCapacity, [Next]_vars
  PROVE  /\ SpeculativeInv' /\ StateExact' /\ FitsCapacity'
         /\ UniformPrecision /\ GreedyOutput => GreedyOutput'
<1>1. CASE StopAtEos
  BY <1>1, StopKeeps
<1>2. CASE FinishAtLimit
  BY <1>2, LimitKeeps
<1>3. CASE DecodeOne
  <2>1. SpeculativeTypeOK /\ Continues
    BY <1>3 DEF SpeculativeInv, DecodeOne
  <2>2. PICK draft, m, last, predictions : Pass(draft, m, last, predictions)
    BY <1>3, <2>1, DecodeIsPass
  <2>. QED
    BY <2>1, <2>2, PassKeepsState, PassKeepsGreedy
<1>4. CASE Verify
  <2>1. SpeculativeTypeOK /\ Continues
    BY <1>4 DEF SpeculativeInv, Verify
  <2>2. PICK draft, m, last, predictions : Pass(draft, m, last, predictions)
    BY <1>4, <2>1, VerifyIsPass
  <2>. QED
    BY <2>1, <2>2, PassKeepsState, PassKeepsGreedy
<1>5. CASE UNCHANGED vars
  BY <1>5, SpeculativeStutter
<1>. QED
  BY <1>1, <1>2, <1>3, <1>4, <1>5 DEF Next

\* The inductive invariant of generation: every variable has its type, a
\* generating request has room for its pending token, and its length, K/V and
\* convolution state are those of its history (generate_impl, forward_logits,
\* forward_logits_speculative and rollback_speculative).
THEOREM SpeculativeInvariant ==
  SpeculativeSpec => [](SpeculativeInv /\ StateExact /\ FitsCapacity)
<1> DEFINE I == SpeculativeInv /\ StateExact /\ FitsCapacity
<1>1. SpeculativeInit => I
  BY SpeculativeStart
<1>2. I /\ [Next]_vars => I'
  BY TurnKeeps
<1>. QED
  BY <1>1, <1>2, PTL DEF SpeculativeSpec

\* After every turn the length, the K/V and the convolution state belong to the
\* history: nothing of a rejected draft is left (rollback_speculative).
THEOREM RollBackIsExact == SpeculativeSpec => []StateExact
<1>1. SpeculativeInv /\ StateExact /\ FitsCapacity => StateExact
  OBVIOUS
<1>. QED
  BY <1>1, SpeculativeInvariant, PTL

\* The cache of prompt and max_new_tokens has room for every pass: the capacity
\* error of forward_logits cannot happen (generate_impl truncates the draft).
THEOREM CapacitySuffices == SpeculativeSpec => []FitsCapacity
<1>1. SpeculativeInv /\ StateExact /\ FitsCapacity => FitsCapacity
  OBVIOUS
<1>. QED
  BY <1>1, SpeculativeInvariant, PTL

\* Speculative decoding changes how often the model runs and never what it
\* says, for every model, prompt, drafter and limit, as long as drafts are
\* verified in the precision in which single tokens are decoded.
THEOREM OutputIsGreedy ==
  ASSUME UniformPrecision
  PROVE  SpeculativeSpec => []GreedyOutput
<1> DEFINE I == SpeculativeInv /\ StateExact /\ FitsCapacity /\ GreedyOutput
<1>1. SpeculativeInit => I
  BY SpeculativeStart
<1>2. I /\ [Next]_vars => I'
  BY TurnKeeps
<1>3. I => GreedyOutput
  OBVIOUS
<1>. QED
  BY <1>1, <1>2, <1>3, PTL DEF SpeculativeSpec
=============================================================================
