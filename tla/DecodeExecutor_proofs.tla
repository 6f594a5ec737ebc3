-------------------------- MODULE DecodeExecutor_proofs --------------------------
(***************************************************************************)
(* Proofs about the decode executor: for any layers, FP8 weights, lengths  *)
(* and number of slots, however steps are run, recorded and replayed, each *)
(* samples the network's tokens and writes every layer's state once, and a *)
(* recorded graph is what a direct pass would issue.                       *)
(*                                                                         *)
(* Host and device are followed operation by operation through the list of *)
(* a pass, by a least counterexample over its length; the parts of a layer *)
(* are shown to lead from what one finds to what the next one needs, the   *)
(* layers to follow each other likewise.  A host that starts with other    *)
(* shapes issues the same launches: that is why a graph stays valid.       *)
(***************************************************************************)
EXTENDS DecodeExecutor, Extrema_proofs, SequenceTheorems

-----------------------------------------------------------------------------
(* Lists of operations and of launches, one at a time. *)

HostFrom(shapes, tokens) == [shape |-> shapes, tokens |-> tokens, launches |-> << >>, ok |-> TRUE]

\* A host followed through the first k operations of a list.
IsHost(f, shapes, tokens, ops, k) ==
  /\ f = [i \in 0 .. k |-> f[i]]
  /\ f[0] = HostFrom(shapes, tokens)
  /\ \A i \in 1 .. k : f[i] = Issue(f[i - 1], ops[i])

\* However long a list, the host can be followed through it.
LEMMA HostExists ==
  ASSUME NEW shapes, NEW tokens, NEW ops
  PROVE  \A k \in Nat : \E f : IsHost(f, shapes, tokens, ops, k)
<1> DEFINE S == {k \in Nat : ~\E f : IsHost(f, shapes, tokens, ops, k)}
<1>1. SUFFICES ASSUME S # {} PROVE FALSE
  OBVIOUS
<1>2. PICK m \in S : \A n \in S : m <= n
  BY <1>1, LeastExists
<1>3. m \in Nat /\ ~\E f : IsHost(f, shapes, tokens, ops, m)
  BY <1>2
<1>4. m # 0
  <2>1. IsHost([i \in 0 .. 0 |-> HostFrom(shapes, tokens)], shapes, tokens, ops, 0)
    BY DEF IsHost
  <2>. QED
    BY <2>1, <1>3
<1>5. m - 1 \in Nat /\ m - 1 < m
  BY <1>3, <1>4
<1>6. m - 1 \notin S
  <2>1. ~(m <= m - 1)
    BY <1>3
  <2>. QED
    BY <2>1, <1>2
<1>7. PICK f : IsHost(f, shapes, tokens, ops, m - 1)
  BY <1>5, <1>6
<1> DEFINE g == [i \in 0 .. m |-> IF i = m THEN Issue(f[m - 1], ops[m]) ELSE f[i]]
<1>8. IsHost(g, shapes, tokens, ops, m)
  <2>1. g[0] = HostFrom(shapes, tokens)
    BY <1>3, <1>4, <1>7 DEF IsHost
  <2>2. ASSUME NEW i \in 1 .. m PROVE g[i] = Issue(g[i - 1], ops[i])
    <3>1. i \in 0 .. m /\ i - 1 \in 0 .. m /\ i - 1 # m
      BY <1>3
    <3>2. g[i - 1] = f[i - 1]
      BY <3>1
    <3>3. CASE i = m
      BY <3>1, <3>2, <3>3
    <3>4. CASE i # m
      <4>1. i \in 1 .. m - 1
        BY <1>3, <3>4
      <4>2. f[i] = Issue(f[i - 1], ops[i])
        BY <4>1, <1>7 DEF IsHost
      <4>. QED
        BY <3>1, <3>2, <3>4, <4>2
    <3>. QED
      BY <3>3, <3>4
  <2>3. g = [i \in 0 .. m |-> g[i]]
    OBVIOUS
  <2>. HIDE DEF g
  <2>. QED
    BY <2>1, <2>2, <2>3 DEF IsHost
<1>. QED
  BY <1>3, <1>8

\* In one way only.
LEMMA HostUnique ==
  ASSUME NEW shapes, NEW tokens, NEW ops, NEW k \in Nat, NEW f, NEW g,
         IsHost(f, shapes, tokens, ops, k), IsHost(g, shapes, tokens, ops, k)
  PROVE  f = g
<1> DEFINE S == {i \in 0 .. k : f[i] # g[i]}
<1>1. S = {}
  <2>1. SUFFICES ASSUME S # {} PROVE FALSE
    OBVIOUS
  <2>2. S \subseteq Nat
    OBVIOUS
  <2>3. PICK m \in S : \A n \in S : m <= n
    BY <2>1, <2>2, LeastExists
  <2>4. m \in 0 .. k /\ f[m] # g[m]
    BY <2>3
  <2>5. m # 0
    BY <2>4 DEF IsHost
  <2>6. m \in 1 .. k /\ m - 1 \in 0 .. k /\ ~(m <= m - 1)
    BY <2>4, <2>5
  <2>7. f[m - 1] = g[m - 1]
    BY <2>3, <2>6
  <2>8. f[m] = Issue(f[m - 1], ops[m]) /\ g[m] = Issue(g[m - 1], ops[m])
    BY <2>6 DEF IsHost
  <2>. QED
    BY <2>4, <2>7, <2>8
<1>2. \A i \in 0 .. k : f[i] = g[i]
  BY <1>1
<1>3. f = [i \in 0 .. k |-> f[i]] /\ g = [i \in 0 .. k |-> g[i]]
  BY DEF IsHost
<1>4. [i \in 0 .. k |-> f[i]] = [i \in 0 .. k |-> g[i]]
  BY <1>2
<1>. QED
  BY <1>3, <1>4, Zenon

\* Issued is where following the whole list leads to.
LEMMA IssuedIs ==
  ASSUME NEW shapes, NEW tokens, NEW ops, Len(ops) \in Nat
  PROVE  \E f : IsHost(f, shapes, tokens, ops, Len(ops)) /\ Issued(shapes, tokens, ops) = f[Len(ops)]
<1> DEFINE n == Len(ops)
           F(f) == [i \in 0 .. n |-> IF i = 0 THEN HostFrom(shapes, tokens) ELSE Issue(f[i - 1], ops[i])]
           c == CHOOSE f : f = F(f)
<1>1. Issued(shapes, tokens, ops) = c[n]
  BY Zenon DEF Issued, HostFrom
<1>2. PICK g : IsHost(g, shapes, tokens, ops, n)
  BY HostExists
<1>3. g = F(g)
  <2>1. \A i \in 0 .. n : g[i] = IF i = 0 THEN HostFrom(shapes, tokens) ELSE Issue(g[i - 1], ops[i])
    BY <1>2 DEF IsHost
  <2>2. g = [i \in 0 .. n |-> g[i]]
    BY <1>2 DEF IsHost
  <2>. QED
    BY <2>1, <2>2
<1>4. c = F(c)
  <2>. HIDE DEF F
  <2>. QED
    BY <1>3
<1>5. IsHost(c, shapes, tokens, ops, n)
  <2>. HIDE DEF c
  <2>1. \A i \in 0 .. n : c[i] = IF i = 0 THEN HostFrom(shapes, tokens) ELSE Issue(c[i - 1], ops[i])
    BY <1>4
  <2>2. c = [i \in 0 .. n |-> c[i]]
    BY <1>4, <2>1
  <2>3. c[0] = HostFrom(shapes, tokens)
    BY <2>1
  <2>4. \A i \in 1 .. n : c[i] = Issue(c[i - 1], ops[i])
    BY <2>1
  <2>. QED
    BY <2>2, <2>3, <2>4 DEF IsHost
<1>. QED
  BY <1>1, <1>5

\* Nothing is issued of an empty list.
LEMMA IssuedNone ==
  ASSUME NEW shapes, NEW tokens
  PROVE  Issued(shapes, tokens, << >>) = HostFrom(shapes, tokens)
<1>1. Len(<< >>) = 0
  OBVIOUS
<1>. QED
  BY <1>1, IssuedIs DEF IsHost

\* An operation more is issued after all the others.
LEMMA IssuedAppend ==
  ASSUME NEW shapes, NEW tokens, NEW S, NEW ops \in Seq(S), NEW op \in S
  PROVE  Issued(shapes, tokens, Append(ops, op)) = Issue(Issued(shapes, tokens, ops), op)
<1> DEFINE more == Append(ops, op)
           n == Len(ops)
<1>1. n \in Nat /\ Len(more) = n + 1 /\ Len(more) \in Nat /\ more[n + 1] = op
  OBVIOUS
<1>2. \A i \in 1 .. n : more[i] = ops[i]
  OBVIOUS
<1>3. PICK g : IsHost(g, shapes, tokens, more, n + 1) /\ Issued(shapes, tokens, more) = g[n + 1]
  BY <1>1, IssuedIs
<1>4. PICK f : IsHost(f, shapes, tokens, ops, n) /\ Issued(shapes, tokens, ops) = f[n]
  BY <1>1, IssuedIs
<1> HIDE DEF more, n
<1> DEFINE h == [i \in 0 .. n |-> g[i]]
<1>5. IsHost(h, shapes, tokens, ops, n)
  <2>1. h[0] = HostFrom(shapes, tokens)
    BY <1>1, <1>3 DEF IsHost
  <2>2. ASSUME NEW i \in 1 .. n PROVE h[i] = Issue(h[i - 1], ops[i])
    <3>1. i \in 0 .. n /\ i - 1 \in 0 .. n /\ i \in 1 .. n + 1
      BY <1>1
    <3>2. g[i] = Issue(g[i - 1], more[i])
      BY <1>3, <3>1 DEF IsHost
    <3>. QED
      BY <1>2, <3>1, <3>2
  <2>3. h = [i \in 0 .. n |-> h[i]]
    OBVIOUS
  <2>. HIDE DEF h
  <2>. QED
    BY <2>1, <2>2, <2>3 DEF IsHost
<1>6. h = f
  BY <1>1, <1>4, <1>5, HostUnique
<1>7. g[n] = f[n]
  <2>1. n \in 0 .. n
    BY <1>1
  <2>2. h[n] = g[n]
    BY <2>1
  <2>. QED
    BY <1>6, <2>2
<1>8. g[n + 1] = Issue(g[(n + 1) - 1], more[n + 1])
  <2>1. n + 1 \in 1 .. n + 1
    BY <1>1
  <2>. QED
    BY <1>3, <2>1 DEF IsHost
<1>9. (n + 1) - 1 = n
  BY <1>1
<1>. QED
  BY <1>1, <1>3, <1>4, <1>7, <1>8, <1>9 DEF more

DeviceStart ==
  [content |-> [b \in Buffers |-> Stale], written |-> [l \in DOMAIN Layers |-> 0]]

\* The device followed through the first k launches of a list.
IsDevice(f, launches, k) ==
  /\ f = [i \in 0 .. k |-> f[i]]
  /\ f[0] = DeviceStart
  /\ \A i \in 1 .. k : f[i] = Execute(f[i - 1], launches[i])

\* However long a list, the device can be followed through it.
LEMMA DeviceExists ==
  ASSUME NEW launches
  PROVE  \A k \in Nat : \E f : IsDevice(f, launches, k)
<1> DEFINE S == {k \in Nat : ~\E f : IsDevice(f, launches, k)}
<1>1. SUFFICES ASSUME S # {} PROVE FALSE
  OBVIOUS
<1>2. PICK m \in S : \A n \in S : m <= n
  BY <1>1, LeastExists
<1>3. m \in Nat /\ ~\E f : IsDevice(f, launches, m)
  BY <1>2
<1>4. m # 0
  <2>1. IsDevice([i \in 0 .. 0 |-> DeviceStart], launches, 0)
    BY DEF IsDevice
  <2>. QED
    BY <2>1, <1>3
<1>5. m - 1 \in Nat /\ m - 1 < m
  BY <1>3, <1>4
<1>6. m - 1 \notin S
  <2>1. ~(m <= m - 1)
    BY <1>3
  <2>. QED
    BY <2>1, <1>2
<1>7. PICK f : IsDevice(f, launches, m - 1)
  BY <1>5, <1>6
<1> DEFINE g == [i \in 0 .. m |-> IF i = m THEN Execute(f[m - 1], launches[m]) ELSE f[i]]
<1>8. IsDevice(g, launches, m)
  <2>1. g[0] = DeviceStart
    BY <1>3, <1>4, <1>7 DEF IsDevice
  <2>2. ASSUME NEW i \in 1 .. m PROVE g[i] = Execute(g[i - 1], launches[i])
    <3>1. i \in 0 .. m /\ i - 1 \in 0 .. m /\ i - 1 # m
      BY <1>3
    <3>2. g[i - 1] = f[i - 1]
      BY <3>1
    <3>3. CASE i = m
      BY <3>1, <3>2, <3>3
    <3>4. CASE i # m
      <4>1. i \in 1 .. m - 1
        BY <1>3, <3>4
      <4>2. f[i] = Execute(f[i - 1], launches[i])
        BY <4>1, <1>7 DEF IsDevice
      <4>. QED
        BY <3>1, <3>2, <3>4, <4>2
    <3>. QED
      BY <3>3, <3>4
  <2>3. g = [i \in 0 .. m |-> g[i]]
    OBVIOUS
  <2>. HIDE DEF g
  <2>. QED
    BY <2>1, <2>2, <2>3 DEF IsDevice
<1>. QED
  BY <1>3, <1>8

\* In one way only.
LEMMA DeviceUnique ==
  ASSUME NEW launches, NEW k \in Nat, NEW f, NEW g,
         IsDevice(f, launches, k), IsDevice(g, launches, k)
  PROVE  f = g
<1> DEFINE S == {i \in 0 .. k : f[i] # g[i]}
<1>1. S = {}
  <2>1. SUFFICES ASSUME S # {} PROVE FALSE
    OBVIOUS
  <2>2. S \subseteq Nat
    OBVIOUS
  <2>3. PICK m \in S : \A n \in S : m <= n
    BY <2>1, <2>2, LeastExists
  <2>4. m \in 0 .. k /\ f[m] # g[m]
    BY <2>3
  <2>5. m # 0
    BY <2>4 DEF IsDevice
  <2>6. m \in 1 .. k /\ m - 1 \in 0 .. k /\ ~(m <= m - 1)
    BY <2>4, <2>5
  <2>7. f[m - 1] = g[m - 1]
    BY <2>3, <2>6
  <2>8. f[m] = Execute(f[m - 1], launches[m]) /\ g[m] = Execute(g[m - 1], launches[m])
    BY <2>6 DEF IsDevice
  <2>. QED
    BY <2>4, <2>7, <2>8
<1>2. \A i \in 0 .. k : f[i] = g[i]
  BY <1>1
<1>3. f = [i \in 0 .. k |-> f[i]] /\ g = [i \in 0 .. k |-> g[i]]
  BY DEF IsDevice
<1>4. [i \in 0 .. k |-> f[i]] = [i \in 0 .. k |-> g[i]]
  BY <1>2
<1>. QED
  BY <1>3, <1>4, Zenon

\* Run is where following the whole list leads to.
LEMMA RunIs ==
  ASSUME NEW launches, Len(launches) \in Nat
  PROVE  \E f : IsDevice(f, launches, Len(launches)) /\ Run(launches) = f[Len(launches)]
<1> DEFINE n == Len(launches)
           F(f) == [i \in 0 .. n |-> IF i = 0 THEN DeviceStart ELSE Execute(f[i - 1], launches[i])]
           c == CHOOSE f : f = F(f)
<1>1. Run(launches) = c[n]
  BY Zenon DEF Run, DeviceStart
<1>2. PICK g : IsDevice(g, launches, n)
  BY DeviceExists
<1>3. g = F(g)
  <2>1. \A i \in 0 .. n : g[i] = IF i = 0 THEN DeviceStart ELSE Execute(g[i - 1], launches[i])
    BY <1>2 DEF IsDevice
  <2>2. g = [i \in 0 .. n |-> g[i]]
    BY <1>2 DEF IsDevice
  <2>. QED
    BY <2>1, <2>2
<1>4. c = F(c)
  <2>. HIDE DEF F
  <2>. QED
    BY <1>3
<1>5. IsDevice(c, launches, n)
  <2>. HIDE DEF c
  <2>1. \A i \in 0 .. n : c[i] = IF i = 0 THEN DeviceStart ELSE Execute(c[i - 1], launches[i])
    BY <1>4
  <2>2. c = [i \in 0 .. n |-> c[i]]
    BY <1>4, <2>1
  <2>3. c[0] = DeviceStart
    BY <2>1
  <2>4. \A i \in 1 .. n : c[i] = Execute(c[i - 1], launches[i])
    BY <2>1
  <2>. QED
    BY <2>2, <2>3, <2>4 DEF IsDevice
<1>. QED
  BY <1>1, <1>5

\* Nothing is run of an empty list.
LEMMA RunNone == Run(<< >>) = DeviceStart
<1>1. Len(<< >>) = 0
  OBVIOUS
<1>. QED
  BY <1>1, RunIs DEF IsDevice

\* A launch more is run after all the others.
LEMMA RunAppend ==
  ASSUME NEW S, NEW launches \in Seq(S), NEW launch \in S
  PROVE  Run(Append(launches, launch)) = Execute(Run(launches), launch)
<1> DEFINE more == Append(launches, launch)
           n == Len(launches)
<1>1. n \in Nat /\ Len(more) = n + 1 /\ Len(more) \in Nat /\ more[n + 1] = launch
  OBVIOUS
<1>2. \A i \in 1 .. n : more[i] = launches[i]
  OBVIOUS
<1>3. PICK g : IsDevice(g, more, n + 1) /\ Run(more) = g[n + 1]
  BY <1>1, RunIs
<1>4. PICK f : IsDevice(f, launches, n) /\ Run(launches) = f[n]
  BY <1>1, RunIs
<1> HIDE DEF more, n
<1> DEFINE h == [i \in 0 .. n |-> g[i]]
<1>5. IsDevice(h, launches, n)
  <2>1. h[0] = DeviceStart
    BY <1>1, <1>3 DEF IsDevice
  <2>2. ASSUME NEW i \in 1 .. n PROVE h[i] = Execute(h[i - 1], launches[i])
    <3>1. i \in 0 .. n /\ i - 1 \in 0 .. n /\ i \in 1 .. n + 1
      BY <1>1
    <3>2. g[i] = Execute(g[i - 1], more[i])
      BY <1>3, <3>1 DEF IsDevice
    <3>. QED
      BY <1>2, <3>1, <3>2
  <2>3. h = [i \in 0 .. n |-> h[i]]
    OBVIOUS
  <2>. HIDE DEF h
  <2>. QED
    BY <2>1, <2>2, <2>3 DEF IsDevice
<1>6. h = f
  BY <1>1, <1>4, <1>5, DeviceUnique
<1>7. g[n] = f[n]
  <2>1. n \in 0 .. n
    BY <1>1
  <2>2. h[n] = g[n]
    BY <2>1
  <2>. QED
    BY <1>6, <2>2
<1>8. g[n + 1] = Execute(g[(n + 1) - 1], more[n + 1])
  <2>1. n + 1 \in 1 .. n + 1
    BY <1>1
  <2>. QED
    BY <1>3, <2>1 DEF IsDevice
<1>9. (n + 1) - 1 = n
  BY <1>1
<1>. QED
  BY <1>1, <1>3, <1>4, <1>7, <1>8, <1>9 DEF more

-----------------------------------------------------------------------------
(* The host and the device in the middle of a pass.                        *)

\* The names that operations, values and sites have.
Words ==
  {"reshape", "embed", "residual", "norm", "fused", "write", "attend", "conv", "silu",
   "silu_fp8", "argmax", "linear", "quantize", "linear_fp8", "normed", "query", "key",
   "value", "attended", "rotated", "mixed", "projected", "convolved", "ffn_input",
   "post_operator", "gate_up", "activated", "ffn_output", "logits", "sampled", "q", "k",
   "v", "in", "out", "head", "down", "", "1", "stale"}

\* Shapes, values, operations and launches.
Shapes == [Buffers -> (1 .. MaximumTokens) \X Widths]
Values == [name : Words, layer : Nat, rows : 0 .. MaximumTokens]
SplitSites == {ToString(Splits(of[1], of[2])) : of \in Nat \X Nat}
Sites == Words \cup SplitSites
Ops == [op : Words, layer : Nat, site : Sites, reads : Seq(Buffers), needs : Seq(Words),
        writes : Seq(Buffers), makes : Seq(Words), width : Widths \cup {"same"}]
Launches == [op : Ops, rows : 1 .. MaximumTokens]

\* The host after the operations of "done", and the device after their launches.
ShapeAt(shapes, tokens, done) == Issued(shapes, tokens, done).shape
LaunchesAt(shapes, tokens, done) == Issued(shapes, tokens, done).launches
DeviceAt(shapes, tokens, done) == Run(LaunchesAt(shapes, tokens, done))

\* A host all of whose buffers have the rows of the step from the start.
Uniform(tokens) == [b \in Buffers |-> <<tokens, "new">>]

\* So far every check has held, and every launch is for the rows of the step: the
\* launches are those the uniform host issues, whatever shapes the pass began with.
HostGood(shapes, tokens, done) ==
  /\ done \in Seq(Ops)
  /\ Issued(shapes, tokens, done)
       = [shape |-> ShapeAt(shapes, tokens, done), tokens |-> tokens,
          launches |-> LaunchesAt(shapes, tokens, done), ok |-> TRUE]
  /\ ShapeAt(shapes, tokens, done) \in Shapes
  /\ LaunchesAt(shapes, tokens, done) \in Seq(Launches)

LaunchesGood(shapes, tokens, done) ==
  \A i \in DOMAIN LaunchesAt(shapes, tokens, done) :
    LET launch == LaunchesAt(shapes, tokens, done)[i]
    IN  /\ launch.rows = tokens
        /\ launch.op.op = "linear_fp8" => <<launch.op.layer, launch.op.site>> \in Fp8Sites

DeviceGood(shapes, tokens, done) ==
  /\ DeviceAt(shapes, tokens, done).content \in [Buffers -> Values]
  /\ DeviceAt(shapes, tokens, done).written \in [DOMAIN Layers -> Nat]

LaunchesUniform(shapes, tokens, done) ==
  /\ \E ok \in BOOLEAN : Issued(Uniform(tokens), tokens, done)
               = [shape |-> ShapeAt(Uniform(tokens), tokens, done), tokens |-> tokens,
                  launches |-> LaunchesAt(shapes, tokens, done), ok |-> ok]
  /\ \A b \in Buffers : ShapeAt(Uniform(tokens), tokens, done)[b][1] = tokens

Doing(shapes, tokens, done) ==
  /\ HostGood(shapes, tokens, done) /\ LaunchesGood(shapes, tokens, done)
  /\ DeviceGood(shapes, tokens, done) /\ LaunchesUniform(shapes, tokens, done)

\* What issuing an operation does to each field.
WidthAfter(op, shapes) == IF op.width = "same" THEN shapes[op.reads[1]][2] ELSE op.width

ShapeAfter(op, shapes, tokens) ==
  [b \in Buffers |-> IF b \in Range(op.writes)
                     THEN <<RowsOf(op, shapes, tokens), WidthAfter(op, shapes)>> ELSE shapes[b]]

\* What issuing an operation makes of the host.
LEMMA IssueFields ==
  ASSUME NEW sh, NEW t, NEW ls, NEW k \in BOOLEAN, NEW op
  PROVE  Issue([shape |-> sh, tokens |-> t, launches |-> ls, ok |-> k], op)
           = [shape |-> ShapeAfter(op, sh, t), tokens |-> t,
              launches |-> IF op.op = "reshape" THEN ls
                           ELSE Append(ls, [op |-> op, rows |-> RowsOf(op, sh, t)]),
              ok |-> k /\ Accepts(op, sh, t) /\ RowsOf(op, sh, t) <= MaximumTokens]
<1> DEFINE r == [shape |-> sh, tokens |-> t, launches |-> ls, ok |-> k]
<1>1. r.shape = sh /\ r.tokens = t /\ r.launches = ls /\ r.ok = k
  OBVIOUS
<1> HIDE DEF r
<1>2. Issue(r, op)
        = [shape |-> ShapeAfter(op, r.shape, r.tokens), tokens |-> r.tokens,
           launches |-> IF op.op = "reshape" THEN r.launches
                        ELSE Append(r.launches, [op |-> op, rows |-> RowsOf(op, r.shape, r.tokens)]),
           ok |-> r.ok /\ Accepts(op, r.shape, r.tokens) /\ RowsOf(op, r.shape, r.tokens) <= MaximumTokens]
  BY Zenon DEF Issue, ShapeAfter, WidthAfter
<1>. QED
  BY <1>1, <1>2, Zenon DEF r

\* An operation the host may issue now.
Issuable(shapes, tokens, done, op) ==
  /\ op \in Ops
  /\ op.op \notin {"embed", "reshape"} =>
       1 \in DOMAIN op.reads /\ ShapeAt(shapes, tokens, done)[op.reads[1]][1] = tokens
  /\ op.width = "same" => 1 \in DOMAIN op.reads
  /\ Accepts(op, ShapeAt(shapes, tokens, done), tokens)
  /\ op.op = "linear_fp8" => <<op.layer, op.site>> \in Fp8Sites

\* It is issued for the rows of the step.
LEMMA IssuableRows ==
  ASSUME NEW shapes, NEW tokens, NEW done, NEW op, Issuable(shapes, tokens, done, op)
  PROVE  RowsOf(op, ShapeAt(shapes, tokens, done), tokens) = tokens
  BY DEF Issuable, RowsOf

\* The shapes and launches after an operation.
LEMMA HostStep ==
  ASSUME NEW shapes \in Shapes, NEW tokens \in 1 .. MaximumTokens, NEW done, NEW op,
         HostGood(shapes, tokens, done), Issuable(shapes, tokens, done, op)
  PROVE  /\ HostGood(shapes, tokens, Append(done, op))
         /\ ShapeAt(shapes, tokens, Append(done, op))
              = ShapeAfter(op, ShapeAt(shapes, tokens, done), tokens)
         /\ LaunchesAt(shapes, tokens, Append(done, op))
              = IF op.op = "reshape" THEN LaunchesAt(shapes, tokens, done)
                ELSE Append(LaunchesAt(shapes, tokens, done), [op |-> op, rows |-> tokens])
<1> DEFINE sh == ShapeAt(shapes, tokens, done)
           ls == LaunchesAt(shapes, tokens, done)
           more == Append(done, op)
<1>1. done \in Seq(Ops) /\ op \in Ops /\ more \in Seq(Ops)
  BY DEF HostGood, Issuable
<1>2. Issued(shapes, tokens, more) = Issue(Issued(shapes, tokens, done), op)
  BY <1>1, IssuedAppend
<1>3. Issued(shapes, tokens, done) = [shape |-> sh, tokens |-> tokens, launches |-> ls, ok |-> TRUE]
  BY DEF HostGood
<1>4. RowsOf(op, sh, tokens) = tokens /\ tokens <= MaximumTokens /\ Accepts(op, sh, tokens)
  BY IssuableRows, ExecutorAssumption DEF Issuable
<1> HIDE DEF sh, ls, more
<1>5. Issued(shapes, tokens, more)
        = [shape |-> ShapeAfter(op, sh, tokens), tokens |-> tokens,
           launches |-> IF op.op = "reshape" THEN ls ELSE Append(ls, [op |-> op, rows |-> tokens]),
           ok |-> TRUE]
  <2>1. Issue([shape |-> sh, tokens |-> tokens, launches |-> ls, ok |-> TRUE], op)
          = [shape |-> ShapeAfter(op, sh, tokens), tokens |-> tokens,
             launches |-> IF op.op = "reshape" THEN ls
                          ELSE Append(ls, [op |-> op, rows |-> RowsOf(op, sh, tokens)]),
             ok |-> TRUE /\ Accepts(op, sh, tokens) /\ RowsOf(op, sh, tokens) <= MaximumTokens]
    <3> DEFINE yes == TRUE
    <3>1. yes \in BOOLEAN
      OBVIOUS
    <3> HIDE DEF yes
    <3>2. Issue([shape |-> sh, tokens |-> tokens, launches |-> ls, ok |-> yes], op)
            = [shape |-> ShapeAfter(op, sh, tokens), tokens |-> tokens,
               launches |-> IF op.op = "reshape" THEN ls
                            ELSE Append(ls, [op |-> op, rows |-> RowsOf(op, sh, tokens)]),
               ok |-> yes /\ Accepts(op, sh, tokens) /\ RowsOf(op, sh, tokens) <= MaximumTokens]
      BY <3>1, IssueFields
    <3>. QED
      BY <3>2 DEF yes
  <2>2. (TRUE /\ Accepts(op, sh, tokens) /\ RowsOf(op, sh, tokens) <= MaximumTokens) = TRUE
    BY <1>4
  <2>. QED
    BY <1>2, <1>3, <1>4, <2>1, <2>2, Zenon
<1>6. /\ ShapeAt(shapes, tokens, more) = ShapeAfter(op, sh, tokens)
      /\ LaunchesAt(shapes, tokens, more)
           = IF op.op = "reshape" THEN ls ELSE Append(ls, [op |-> op, rows |-> tokens])
  BY <1>5 DEF ShapeAt, LaunchesAt
<1>7. sh \in Shapes /\ ls \in Seq(Launches)
  BY DEF HostGood, sh, ls
<1>8. ShapeAfter(op, sh, tokens) \in Shapes
  <2>1. WidthAfter(op, sh) \in Widths
    <3>1. CASE op.width = "same"
      <4>1. op.reads[1] \in Buffers
        BY <1>1, <3>1 DEF Issuable, Ops
      <4>. QED
        BY <1>7, <3>1, <4>1 DEF WidthAfter, Shapes
    <3>2. CASE op.width # "same"
      BY <1>1, <3>2 DEF WidthAfter, Ops
    <3>. QED
      BY <3>1, <3>2
  <2>2. <<RowsOf(op, sh, tokens), WidthAfter(op, sh)>> \in (1 .. MaximumTokens) \X Widths
    BY <1>4, <2>1
  <2>3. \A b \in Buffers : sh[b] \in (1 .. MaximumTokens) \X Widths
    BY <1>7 DEF Shapes
  <2>. QED
    BY <2>2, <2>3 DEF ShapeAfter, Shapes
<1>9. (IF op.op = "reshape" THEN ls ELSE Append(ls, [op |-> op, rows |-> tokens])) \in Seq(Launches)
  <2>1. [op |-> op, rows |-> tokens] \in Launches
    BY <1>1 DEF Launches
  <2>. QED
    BY <1>7, <2>1
<1>10. HostGood(shapes, tokens, more)
  <2>1. Issued(shapes, tokens, more)
          = [shape |-> ShapeAt(shapes, tokens, more), tokens |-> tokens,
             launches |-> LaunchesAt(shapes, tokens, more), ok |-> TRUE]
    BY <1>5, <1>6
  <2>. QED
    BY <1>1, <1>6, <1>8, <1>9, <2>1 DEF HostGood
<1>. QED
  BY <1>6, <1>10 DEF sh, ls, more

\* A host that starts with the rows of the step issues the same.
LEMMA UniformStep ==
  ASSUME NEW shapes \in Shapes, NEW tokens \in 1 .. MaximumTokens, NEW done, NEW op,
         HostGood(shapes, tokens, done), Issuable(shapes, tokens, done, op),
         LaunchesUniform(shapes, tokens, done)
  PROVE  LaunchesUniform(shapes, tokens, Append(done, op))
<1> DEFINE u == Uniform(tokens)
           sh == ShapeAt(u, tokens, done)
           ls == LaunchesAt(shapes, tokens, done)
           more == Append(done, op)
<1>1. done \in Seq(Ops) /\ op \in Ops
  BY DEF HostGood, Issuable
<1>2. Issued(u, tokens, more) = Issue(Issued(u, tokens, done), op)
  BY <1>1, IssuedAppend
<1>3. PICK ok \in BOOLEAN : Issued(u, tokens, done)
                  = [shape |-> sh, tokens |-> tokens, launches |-> ls, ok |-> ok]
  BY DEF LaunchesUniform
<1>4. \A b \in Buffers : sh[b][1] = tokens
  BY DEF LaunchesUniform
<1>5. LaunchesAt(shapes, tokens, more)
        = IF op.op = "reshape" THEN ls ELSE Append(ls, [op |-> op, rows |-> tokens])
  BY HostStep
<1> HIDE DEF u, sh, ls, more
<1>6. RowsOf(op, sh, tokens) = tokens
  <2>1. CASE op.op \in {"embed", "reshape"}
    BY <2>1 DEF RowsOf
  <2>2. CASE op.op \notin {"embed", "reshape"}
    <3>1. op.reads[1] \in Buffers
      BY <1>1, <2>2 DEF Issuable, Ops
    <3>. QED
      BY <1>4, <2>2, <3>1 DEF RowsOf
  <2>. QED
    BY <2>1, <2>2
<1>7. Issued(u, tokens, more)
        = [shape |-> ShapeAfter(op, sh, tokens), tokens |-> tokens,
           launches |-> IF op.op = "reshape" THEN ls ELSE Append(ls, [op |-> op, rows |-> tokens]),
           ok |-> ok /\ Accepts(op, sh, tokens) /\ RowsOf(op, sh, tokens) <= MaximumTokens]
  <2>1. Issue([shape |-> sh, tokens |-> tokens, launches |-> ls, ok |-> ok], op)
          = [shape |-> ShapeAfter(op, sh, tokens), tokens |-> tokens,
             launches |-> IF op.op = "reshape" THEN ls
                          ELSE Append(ls, [op |-> op, rows |-> RowsOf(op, sh, tokens)]),
             ok |-> ok /\ Accepts(op, sh, tokens) /\ RowsOf(op, sh, tokens) <= MaximumTokens]
    BY IssueFields
  <2>. QED
    BY <1>2, <1>3, <1>6, <2>1, Zenon
<1>8. ShapeAt(u, tokens, more) = ShapeAfter(op, sh, tokens)
  BY <1>7 DEF ShapeAt
<1>9. \A b \in Buffers : ShapeAfter(op, sh, tokens)[b][1] = tokens
  BY <1>4, <1>6 DEF ShapeAfter
<1>10. \E yes \in BOOLEAN : Issued(u, tokens, more)
          = [shape |-> ShapeAt(u, tokens, more), tokens |-> tokens,
             launches |-> LaunchesAt(shapes, tokens, more), ok |-> yes]
  <2>1. (ok /\ Accepts(op, sh, tokens) /\ RowsOf(op, sh, tokens) <= MaximumTokens) \in BOOLEAN
    OBVIOUS
  <2>. QED
    BY <1>5, <1>7, <1>8, <2>1, Zenon
<1>. QED
  BY <1>8, <1>9, <1>10 DEF LaunchesUniform, u, more

\* Its launch is for the rows of the step and for a plan that exists.
LEMMA LaunchStep ==
  ASSUME NEW shapes \in Shapes, NEW tokens \in 1 .. MaximumTokens, NEW done, NEW op,
         HostGood(shapes, tokens, done), Issuable(shapes, tokens, done, op),
         LaunchesGood(shapes, tokens, done)
  PROVE  LaunchesGood(shapes, tokens, Append(done, op))
<1> DEFINE ls == LaunchesAt(shapes, tokens, done)
           more == Append(done, op)
           last == [op |-> op, rows |-> tokens]
<1>1. LaunchesAt(shapes, tokens, more) = IF op.op = "reshape" THEN ls ELSE Append(ls, last)
  BY HostStep
<1>2. ls \in Seq(Launches) /\ last \in Launches
  BY DEF HostGood, Issuable, Launches
<1>3. CASE op.op = "reshape"
  BY <1>1, <1>3 DEF LaunchesGood
<1>4. CASE op.op # "reshape"
  <2>1. LaunchesAt(shapes, tokens, more) = Append(ls, last)
    BY <1>1, <1>4
  <2>2. ASSUME NEW i \in DOMAIN Append(ls, last)
        PROVE  Append(ls, last)[i] = last \/ (i \in DOMAIN ls /\ Append(ls, last)[i] = ls[i])
    <3>. HIDE DEF ls, last
    <3>1. /\ Len(ls) \in Nat /\ DOMAIN ls = 1 .. Len(ls)
          /\ DOMAIN Append(ls, last) = 1 .. Len(ls) + 1
          /\ Append(ls, last)[Len(ls) + 1] = last
          /\ \A j \in 1 .. Len(ls) : Append(ls, last)[j] = ls[j]
      <4>1. Append(ls, last) \in Seq(Launches) /\ Len(Append(ls, last)) = Len(ls) + 1
        BY <1>2, AppendProperties
      <4>2. DOMAIN Append(ls, last) = 1 .. Len(Append(ls, last)) /\ Len(ls) \in Nat /\ DOMAIN ls = 1 .. Len(ls)
        BY <1>2, <4>1
      <4>. QED
        BY <1>2, <4>1, <4>2, AppendProperties
    <3>. QED
      BY <3>1
  <2>3. last.rows = tokens /\ (last.op.op = "linear_fp8" => <<last.op.layer, last.op.site>> \in Fp8Sites)
    BY DEF Issuable
  <2>4. \A i \in DOMAIN ls : /\ ls[i].rows = tokens
                             /\ ls[i].op.op = "linear_fp8" => <<ls[i].op.layer, ls[i].op.site>> \in Fp8Sites
    BY DEF LaunchesGood
  <2>. HIDE DEF ls, last, more
  <2>. QED
    BY <2>1, <2>2, <2>3, <2>4 DEF LaunchesGood, more
<1>. QED
  BY <1>3, <1>4

\* The layer a value an operation reads belongs to: the second residual of a layer
\* already counts for the next one.
LayerRead(op) ==
  IF op.op = "residual" /\ op.layer > 1 /\ op.needs[1] = "post_operator" THEN op.layer - 1 ELSE op.layer

\* The values an operation needs are where it reads them.
Fed(shapes, tokens, done, op) ==
  \A i \in DOMAIN op.reads :
    DeviceAt(shapes, tokens, done).content[op.reads[i]] = Val(op.needs[i], LayerRead(op), tokens)

\* What it computes then.
Computes(op, tokens, old, new) ==
  /\ \A i \in DOMAIN op.writes : new.content[op.writes[i]] = Val(op.makes[i], op.layer, tokens)
  /\ \A b \in Buffers \ Range(op.writes) : new.content[b] = old.content[b]
  /\ new.written = IF op.op \in {"fused", "write", "conv"}
                   THEN [old.written EXCEPT ![op.layer] = @ + 1] ELSE old.written

\* An operation that computes something, once and into different buffers.
Computing(op) ==
  /\ op.op # "reshape"
  /\ DOMAIN op.makes = DOMAIN op.writes
  /\ \A i, j \in DOMAIN op.writes : op.writes[i] = op.writes[j] => i = j
  /\ op.op \in {"fused", "write", "conv"} => op.layer \in DOMAIN Layers

\* The device after a launch that finds what it needs.
LEMMA DeviceStep ==
  ASSUME NEW shapes \in Shapes, NEW tokens \in 1 .. MaximumTokens, NEW done, NEW op,
         HostGood(shapes, tokens, done), Issuable(shapes, tokens, done, op),
         DeviceGood(shapes, tokens, done), Fed(shapes, tokens, done, op), Computing(op)
  PROVE  /\ DeviceGood(shapes, tokens, Append(done, op))
         /\ Computes(op, tokens, DeviceAt(shapes, tokens, done), DeviceAt(shapes, tokens, Append(done, op)))
<1> DEFINE ls == LaunchesAt(shapes, tokens, done)
           old == DeviceAt(shapes, tokens, done)
           new == DeviceAt(shapes, tokens, Append(done, op))
           launch == [op |-> op, rows |-> tokens]
<1>1. LaunchesAt(shapes, tokens, Append(done, op)) = Append(ls, launch)
  BY HostStep DEF Computing
<1>2. ls \in Seq(Launches) /\ op \in Ops /\ launch \in Launches
  BY DEF HostGood, Issuable, Launches
<1>3. new = Execute(old, launch)
  <2>1. Run(Append(ls, launch)) = Execute(Run(ls), launch)
    BY <1>2, RunAppend
  <2>. QED
    BY <1>1, <2>1 DEF DeviceAt
<1>4. launch.op = op /\ launch.rows = tokens
  OBVIOUS
<1>5. \A i \in DOMAIN op.reads : old.content[op.reads[i]] = Val(op.needs[i], LayerRead(op), tokens)
  BY DEF Fed
<1>6. old.content \in [Buffers -> Values] /\ old.written \in [DOMAIN Layers -> Nat]
  BY DEF DeviceGood
<1> HIDE DEF ls, old, new, launch
<1> DEFINE made(b) == LET i == CHOOSE i \in DOMAIN launch.op.writes : launch.op.writes[i] = b
                      IN  Val(launch.op.makes[i], launch.op.layer, launch.rows)
<1>7. /\ new.content = [b \in Buffers |-> IF b \in Range(op.writes) THEN made(b) ELSE old.content[b]]
      /\ new.written = IF op.op \in {"fused", "write", "conv"}
                       THEN [old.written EXCEPT ![op.layer] = @ + 1] ELSE old.written
  <2> DEFINE o == launch.op
             at(i) == IF o.op = "residual" /\ o.layer > 1 /\ o.needs[1] = "post_operator"
                      THEN o.layer - 1 ELSE o.layer
             fed == \A i \in DOMAIN o.reads : old.content[o.reads[i]] = Val(o.needs[i], at(i), launch.rows)
  <2>1. fed
    BY <1>4, <1>5 DEF LayerRead
  <2>2. Execute(old, launch)
          = [content |-> [b \in Buffers |-> IF b \in Range(o.writes) THEN IF fed THEN made(b) ELSE Stale
                                            ELSE old.content[b]],
             written |-> IF o.op \in {"fused", "write", "conv"}
                         THEN [old.written EXCEPT ![o.layer] = @ + 1] ELSE old.written]
    BY Zenon DEF Execute
  <2>. HIDE DEF fed, made
  <2>. QED
    BY <1>3, <1>4, <2>1, <2>2
<1>8. \A i \in DOMAIN op.writes : made(op.writes[i]) = Val(op.makes[i], op.layer, tokens)
  <2>1. ASSUME NEW i \in DOMAIN op.writes
        PROVE  (CHOOSE j \in DOMAIN launch.op.writes : launch.op.writes[j] = op.writes[i]) = i
    BY <1>4 DEF Computing
  <2>. QED
    BY <1>4, <2>1
<1>9. \A i \in DOMAIN op.writes : op.writes[i] \in Range(op.writes) /\ op.writes[i] \in Buffers
  BY <1>2 DEF Ops, Range
<1>10. ASSUME NEW b \in Range(op.writes) PROVE made(b) \in Values
  <2>1. PICK i \in DOMAIN op.writes : b = op.writes[i]
    BY DEF Range
  <2>2. op.makes[i] \in Words /\ op.layer \in Nat
    BY <1>2, <2>1 DEF Computing, Ops
  <2>3. tokens \in 0 .. MaximumTokens
    OBVIOUS
  <2>4. Val(op.makes[i], op.layer, tokens) \in Values
    BY <2>2, <2>3 DEF Val, Values
  <2>. QED
    BY <1>8, <2>1, <2>4
<1> HIDE DEF made
<1>11. new.content \in [Buffers -> Values]
  BY <1>6, <1>7, <1>10
<1>12. new.written \in [DOMAIN Layers -> Nat]
  <2>1. CASE op.op \in {"fused", "write", "conv"}
    <3>1. op.layer \in DOMAIN Layers
      BY <2>1 DEF Computing
    <3>. QED
      BY <1>6, <1>7, <2>1, <3>1
  <2>2. CASE op.op \notin {"fused", "write", "conv"}
    BY <1>6, <1>7, <2>2
  <2>. QED
    BY <2>1, <2>2
<1>13. Computes(op, tokens, old, new)
  BY <1>7, <1>8, <1>9 DEF Computes
<1>. QED
  BY <1>11, <1>12, <1>13 DEF DeviceGood, old, new

-----------------------------------------------------------------------------
(* Operation by operation.                                                 *)

WrittenAt(shapes, tokens, done) == DeviceAt(shapes, tokens, done).written

\* A buffer has a value of the step, with the shape that goes with it.
Has(shapes, tokens, done, b, width, name, layer) ==
  /\ ShapeAt(shapes, tokens, done)[b] = <<tokens, width>>
  /\ DeviceAt(shapes, tokens, done).content[b] = Val(name, layer, tokens)

\* Buffers other than those of B are left as they are.
Keeps(shapes, tokens, done, more, B) ==
  \A b \in Buffers \ B :
    /\ ShapeAt(shapes, tokens, more)[b] = ShapeAt(shapes, tokens, done)[b]
    /\ DeviceAt(shapes, tokens, more).content[b] = DeviceAt(shapes, tokens, done).content[b]

\* A buffer that is left alone keeps what it has.
LEMMA HasKept ==
  ASSUME NEW shapes, NEW tokens, NEW done, NEW more, NEW B, Keeps(shapes, tokens, done, more, B),
         NEW b \in Buffers, b \notin B, NEW width, NEW name, NEW layer,
         Has(shapes, tokens, done, b, width, name, layer)
  PROVE  Has(shapes, tokens, more, b, width, name, layer)
  BY DEF Has, Keeps

\* An operation that finds what it needs computes its values.
LEMMA ComputeStep ==
  ASSUME NEW shapes \in Shapes, NEW tokens \in 1 .. MaximumTokens, NEW done, NEW op,
         Doing(shapes, tokens, done), Issuable(shapes, tokens, done, op),
         Fed(shapes, tokens, done, op), Computing(op)
  PROVE  /\ Doing(shapes, tokens, Append(done, op))
         /\ \A i \in DOMAIN op.writes :
              Has(shapes, tokens, Append(done, op), op.writes[i],
                  WidthAfter(op, ShapeAt(shapes, tokens, done)), op.makes[i], op.layer)
         /\ Keeps(shapes, tokens, done, Append(done, op), Range(op.writes))
         /\ WrittenAt(shapes, tokens, Append(done, op))
              = IF op.op \in {"fused", "write", "conv"}
                THEN [WrittenAt(shapes, tokens, done) EXCEPT ![op.layer] = @ + 1]
                ELSE WrittenAt(shapes, tokens, done)
<1> DEFINE more == Append(done, op)
           sh == ShapeAt(shapes, tokens, done)
<1>1. /\ HostGood(shapes, tokens, done) /\ LaunchesGood(shapes, tokens, done)
      /\ DeviceGood(shapes, tokens, done) /\ LaunchesUniform(shapes, tokens, done)
  BY DEF Doing
<1>2. HostGood(shapes, tokens, more) /\ ShapeAt(shapes, tokens, more) = ShapeAfter(op, sh, tokens)
  BY <1>1, HostStep
<1>3. LaunchesGood(shapes, tokens, more)
  BY <1>1, LaunchStep
<1>4. LaunchesUniform(shapes, tokens, more)
  BY <1>1, UniformStep
<1>5. /\ DeviceGood(shapes, tokens, more)
      /\ Computes(op, tokens, DeviceAt(shapes, tokens, done), DeviceAt(shapes, tokens, more))
  BY <1>1, DeviceStep
<1>6. RowsOf(op, sh, tokens) = tokens
  BY IssuableRows
<1>7. \A i \in DOMAIN op.writes : op.writes[i] \in Range(op.writes) /\ op.writes[i] \in Buffers
  BY DEF Issuable, Ops, Range
<1> HIDE DEF more, sh
<1>8. /\ \A b \in Buffers \cap Range(op.writes) :
           ShapeAt(shapes, tokens, more)[b] = <<tokens, WidthAfter(op, sh)>>
      /\ \A b \in Buffers \ Range(op.writes) : ShapeAt(shapes, tokens, more)[b] = sh[b]
  BY <1>2, <1>6 DEF ShapeAfter
<1>9. \A i \in DOMAIN op.writes :
        Has(shapes, tokens, more, op.writes[i], WidthAfter(op, sh), op.makes[i], op.layer)
  BY <1>5, <1>7, <1>8 DEF Has, Computes
<1>10. Keeps(shapes, tokens, done, more, Range(op.writes))
  BY <1>5, <1>8 DEF Keeps, Computes, sh
<1>11. Doing(shapes, tokens, more)
  BY <1>2, <1>3, <1>4, <1>5 DEF Doing
<1>. QED
  BY <1>5, <1>9, <1>10, <1>11 DEF Computes, WrittenAt, more, sh

\* The buffers there are.
LEMMA BufferNames ==
  /\ "hidden" \in Buffers
  /\ "normalized" \in Buffers
  /\ "post_operator" \in Buffers
  /\ "operator_output" \in Buffers
  /\ "query" \in Buffers
  /\ "key" \in Buffers
  /\ "value" \in Buffers
  /\ "wide" \in Buffers
  /\ "activated" \in Buffers
  /\ "logits" \in Buffers
  /\ "fp8_input" \in Buffers
  /\ "sampled" \in Buffers
  BY DEF Buffers

\* Names are names.
LEMMA Names ==
  /\ "reshape" \in Words /\ "embed" \in Words /\ "residual" \in Words
  /\ "norm" \in Words /\ "fused" \in Words /\ "write" \in Words
  /\ "attend" \in Words /\ "conv" \in Words /\ "silu" \in Words
  /\ "silu_fp8" \in Words /\ "argmax" \in Words /\ "linear" \in Words
  /\ "quantize" \in Words /\ "linear_fp8" \in Words /\ "normed" \in Words
  /\ "query" \in Words /\ "key" \in Words /\ "value" \in Words
  /\ "attended" \in Words /\ "rotated" \in Words /\ "mixed" \in Words
  /\ "projected" \in Words /\ "convolved" \in Words /\ "ffn_input" \in Words
  /\ "post_operator" \in Words /\ "gate_up" \in Words /\ "activated" \in Words
  /\ "ffn_output" \in Words /\ "logits" \in Words /\ "sampled" \in Words
  /\ "q" \in Words /\ "k" \in Words /\ "v" \in Words
  /\ "in" \in Words /\ "out" \in Words /\ "head" \in Words
  /\ "down" \in Words /\ "" \in Words /\ "1" \in Words
  /\ "stale" \in Words
  BY DEF Words

\* So are widths.
LEMMA WidthNames ==
  /\ "new" \in Widths /\ "hidden" \in Widths /\ "heads" \in Widths
  /\ "kv" \in Widths /\ "kv_heads" \in Widths /\ "3hidden" \in Widths
  /\ "2ffn" \in Widths /\ "ffn" \in Widths /\ "vocab" \in Widths
  /\ "one" \in Widths
  /\ "same" \notin Widths
  BY DEF Widths

\* What a site may be called.
LEMMA SiteNames ==
  /\ \A site \in Words : site \in Sites
  /\ "" \in Sites /\ "1" \in Sites
  /\ \A tokens, context \in Nat : ToString(Splits(tokens, context)) \in Sites
<1>1. ASSUME NEW tokens \in Nat, NEW context \in Nat PROVE ToString(Splits(tokens, context)) \in SplitSites
  <2> DEFINE of == <<tokens, context>>
  <2>1. of \in Nat \X Nat /\ of[1] = tokens /\ of[2] = context
    OBVIOUS
  <2>2. ToString(Splits(of[1], of[2])) \in SplitSites
    BY <2>1, Zenon DEF SplitSites
  <2>. QED
    BY <2>1, <2>2
<1>2. "" \in Words /\ "1" \in Words
  BY Names
<1>3. \A site \in Words : site \in Sites
  BY DEF Sites
<1>. QED
  BY <1>1, <1>2, <1>3, Zenon DEF Sites

\* An operation with its parts.
LEMMA OpIn ==
  ASSUME NEW o \in Words, NEW layer \in Nat, NEW site \in Sites,
         NEW reads \in Seq(Buffers), NEW needs \in Seq(Words),
         NEW writes \in Seq(Buffers), NEW makes \in Seq(Words), NEW width \in Widths \cup {"same"}
  PROVE  Op(o, layer, site, reads, needs, writes, makes, width) \in Ops
  BY DEF Op, Ops

\* Short lists of buffers and of names.
LEMMA Lists ==
  ASSUME NEW S, NEW a \in S, NEW b \in S, NEW c \in S
  PROVE  << >> \in Seq(S) /\ <<a>> \in Seq(S) /\ <<a, b>> \in Seq(S) /\ <<a, b, c>> \in Seq(S)
  OBVIOUS

\* Lists of two are two lists of one.
LEMMA PairJoined == \A P, Q : <<P>> \o <<Q>> = <<P, Q>>
<1> SUFFICES ASSUME NEW P, NEW Q PROVE <<P>> \o <<Q>> = <<P, Q>>
  OBVIOUS
<1> DEFINE S == {P, Q}
           a == Append(<<P>>, Q)
<1>1. <<P>> \in Seq(S) /\ Len(<<P>>) = 1 /\ <<P>>[1] = P /\ Q \in S
  OBVIOUS
<1>2. a \in Seq(S) /\ Len(a) = 2 /\ a[2] = Q /\ a[1] = P
  BY <1>1, AppendProperties
<1>3. a = <<a[1], a[2]>>
  <2> HIDE DEF a, S
  <2>. QED
    BY <1>2
<1>4. a = <<P>> \o <<Q>>
  BY <1>1, AppendIsConcat
<1>. QED
  BY <1>2, <1>3, <1>4

\* What some operations lead to: a value in a buffer, nothing else disturbed outside
\* of B, and the state of the layer written once more, or not.
Effect(shapes, tokens, done, more, into, width, make, layer, B, stores) ==
  /\ Doing(shapes, tokens, more)
  /\ Has(shapes, tokens, more, into, width, make, layer)
  /\ Keeps(shapes, tokens, done, more, B)
  /\ WrittenAt(shapes, tokens, more)
       = IF stores THEN [WrittenAt(shapes, tokens, done) EXCEPT ![layer] = @ + 1]
         ELSE WrittenAt(shapes, tokens, done)

\* A step of the pass under way.
Passing(shapes, tokens, done) ==
  /\ shapes \in Shapes /\ tokens \in 1 .. MaximumTokens /\ done \in Seq(Ops)
  /\ Doing(shapes, tokens, done)

\* Setting a logical shape issues nothing.
ReshapeReady(shapes, tokens, done, b, old, name, layer, width) ==
  /\ Passing(shapes, tokens, done)
  /\ b \in Buffers /\ width \in Widths
  /\ Has(shapes, tokens, done, b, old, name, layer)

ReshapeDone(shapes, tokens, done, b, old, name, layer, width) ==
  Effect(shapes, tokens, done, Append(done, Reshape(b, width)), b, width, name, layer, {b}, FALSE)

\* A reshaped buffer keeps its value.
LEMMA ReshapeStep ==
  ASSUME NEW shapes, NEW tokens, NEW done, NEW b, NEW old, NEW name, NEW layer, NEW width,
         ReshapeReady(shapes, tokens, done, b, old, name, layer, width)
  PROVE  ReshapeDone(shapes, tokens, done, b, old, name, layer, width)
<1>0. /\ shapes \in Shapes /\ tokens \in 1 .. MaximumTokens /\ done \in Seq(Ops)
      /\ Doing(shapes, tokens, done)
      /\ b \in Buffers /\ width \in Widths
      /\ Has(shapes, tokens, done, b, old, name, layer)
  BY DEF ReshapeReady, Passing
<1> DEFINE op == Reshape(b, width)
           more == Append(done, op)
           sh == ShapeAt(shapes, tokens, done)
<1>1. /\ HostGood(shapes, tokens, done) /\ LaunchesGood(shapes, tokens, done)
      /\ DeviceGood(shapes, tokens, done) /\ LaunchesUniform(shapes, tokens, done)
  BY <1>0 DEF Doing
<1>2. /\ op.op = "reshape" /\ op.width = width /\ op.writes = <<b>> /\ op.reads = <<b>>
  BY <1>0 DEF Reshape, Op
<1>typed. op \in Ops
  <2>1. "reshape" \in Words /\ 0 \in Nat /\ "" \in Sites /\ <<b>> \in Seq(Buffers) /\ << >> \in Seq(Words)
    <3>1. <<b>> \in Seq(Buffers)
      BY <1>0, Lists
    <3>2. << >> \in Seq(Words)
      OBVIOUS
    <3>. QED
      BY <3>1, <3>2, Names, SiteNames
  <2>. QED
    BY <1>0, <2>1, OpIn DEF Reshape
<1> HIDE DEF op
<1>3. Issuable(shapes, tokens, done, op)
  BY <1>0, <1>2, <1>typed DEF Issuable, Accepts
<1>4. HostGood(shapes, tokens, more) /\ ShapeAt(shapes, tokens, more) = ShapeAfter(op, sh, tokens)
  BY <1>0, <1>1, <1>3, HostStep
<1>5. LaunchesAt(shapes, tokens, more) = LaunchesAt(shapes, tokens, done)
  <2>. HIDE DEF more
  <2>1. LaunchesAt(shapes, tokens, Append(done, op))
          = IF op.op = "reshape" THEN LaunchesAt(shapes, tokens, done)
            ELSE Append(LaunchesAt(shapes, tokens, done), [op |-> op, rows |-> tokens])
    BY <1>0, <1>1, <1>3, HostStep
  <2>. QED
    BY <1>0, <1>2, <2>1 DEF more
<1>6. LaunchesGood(shapes, tokens, more) /\ LaunchesUniform(shapes, tokens, more)
  BY <1>0, <1>1, <1>3, LaunchStep, UniformStep
<1>7. DeviceAt(shapes, tokens, more) = DeviceAt(shapes, tokens, done)
  BY <1>0, <1>5 DEF DeviceAt
<1>8. RowsOf(op, sh, tokens) = tokens /\ WidthAfter(op, sh) = width /\ Range(op.writes) = {b}
  BY <1>0, <1>2, WidthNames DEF RowsOf, WidthAfter, Range
<1> HIDE DEF more, sh
<1>9. ShapeAt(shapes, tokens, more) = [c \in Buffers |-> IF c = b THEN <<tokens, width>> ELSE sh[c]]
  BY <1>0, <1>4, <1>8 DEF ShapeAfter
<1>10. Doing(shapes, tokens, more)
  BY <1>0, <1>1, <1>4, <1>6, <1>7 DEF Doing, DeviceGood
<1>. QED
  <2>1. Has(shapes, tokens, more, b, width, name, layer)
    BY <1>0, <1>7, <1>9 DEF Has
  <2>2. Keeps(shapes, tokens, done, more, {b})
    BY <1>0, <1>7, <1>9 DEF Keeps, sh
  <2>. QED
    BY <1>0, <1>7, <1>10, <2>1, <2>2 DEF Effect, ReshapeDone, WrittenAt, more, op

SingleOps == {"norm", "quantize", "linear", "linear_fp8", "attend", "conv", "silu", "silu_fp8", "argmax"}

\* An operation with one operand and one result.
SingleReady(shapes, tokens, done, o, layer, site, from, need, into, make, width, found) ==
  /\ Passing(shapes, tokens, done)
  /\ o \in SingleOps /\ layer \in Nat /\ site \in Sites /\ from \in Buffers /\ into \in Buffers
  /\ need \in Words /\ make \in Words /\ width \in Widths \cup {"same"}
  /\ Has(shapes, tokens, done, from, found, need, layer)
  /\ o \in {"quantize", "linear", "linear_fp8"} => found = WidthOf(layer, site)
  /\ o = "attend" => from = "query" /\ found = "heads"
  /\ o = "conv" => found = "3hidden" /\ layer \in DOMAIN Layers
  /\ o \in {"silu", "silu_fp8"} => found = "2ffn"
  /\ o = "linear_fp8" => <<layer, site>> \in Fp8Sites

SingleDone(shapes, tokens, done, o, layer, site, from, need, into, make, width, found) ==
  Effect(shapes, tokens, done,
         Append(done, Op(o, layer, site, <<from>>, <<need>>, <<into>>, <<make>>, width)),
         into, IF width = "same" THEN found ELSE width, make, layer, {into}, o = "conv")

\* Such an operation computes its value from the operand.
LEMMA SingleStep ==
  ASSUME NEW shapes, NEW tokens, NEW done, NEW o, NEW layer, NEW site, NEW from, NEW need,
         NEW into, NEW make, NEW width, NEW found,
         SingleReady(shapes, tokens, done, o, layer, site, from, need, into, make, width, found)
  PROVE  SingleDone(shapes, tokens, done, o, layer, site, from, need, into, make, width, found)
<1>0. /\ shapes \in Shapes /\ tokens \in 1 .. MaximumTokens /\ done \in Seq(Ops)
      /\ Doing(shapes, tokens, done)
      /\ o \in SingleOps /\ layer \in Nat /\ site \in Sites /\ from \in Buffers /\ into \in Buffers
      /\ need \in Words /\ make \in Words /\ width \in Widths \cup {"same"}
      /\ Has(shapes, tokens, done, from, found, need, layer)
      /\ o \in {"quantize", "linear", "linear_fp8"} => found = WidthOf(layer, site)
      /\ o = "attend" => from = "query" /\ found = "heads"
      /\ o = "conv" => found = "3hidden" /\ layer \in DOMAIN Layers
      /\ o \in {"silu", "silu_fp8"} => found = "2ffn"
      /\ o = "linear_fp8" => <<layer, site>> \in Fp8Sites
  BY DEF SingleReady, Passing
<1>kind. o \in {"norm", "quantize", "linear", "linear_fp8", "attend", "conv", "silu", "silu_fp8", "argmax"}
  BY <1>0 DEF SingleOps
<1> DEFINE op == Op(o, layer, site, <<from>>, <<need>>, <<into>>, <<make>>, width)
           sh == ShapeAt(shapes, tokens, done)
<1>1. /\ op.op = o /\ op.layer = layer /\ op.site = site /\ op.reads = <<from>> /\ op.needs = <<need>>
      /\ op.writes = <<into>> /\ op.makes = <<make>> /\ op.width = width
  BY <1>0 DEF Op
<1>2. op \in Ops
  <2>1. o \in Words
    BY <1>kind, Names
  <2>2. <<from>> \in Seq(Buffers) /\ <<into>> \in Seq(Buffers) /\ <<need>> \in Seq(Words) /\ <<make>> \in Seq(Words)
    BY <1>0, <1>kind, Lists
  <2>. QED
    BY <1>0, <1>kind, <2>1, <2>2, OpIn
<1> HIDE DEF op
<1>3. sh[from] = <<tokens, found>>
      /\ DeviceAt(shapes, tokens, done).content[from] = Val(need, layer, tokens)
  BY <1>0 DEF Has
<1>4. Accepts(op, sh, tokens)
  <2>1. [i \in DOMAIN op.reads |-> sh[op.reads[i]][2]] = <<found>>
    BY <1>0, <1>kind, <1>1, <1>3
  <2>2. op.op # "residual" /\ op.op \notin {"fused", "write"}
    BY <1>0, <1>kind, <1>1
  <2>. HIDE DEF sh
  <2>3. CASE o \in {"quantize", "linear", "linear_fp8"}
    BY <1>0, <1>kind, <1>1, <2>1, <2>2, <2>3 DEF Accepts
  <2>4. CASE o = "attend"
    BY <1>0, <1>kind, <1>1, <1>3, <2>4 DEF Accepts
  <2>5. CASE o = "conv"
    BY <1>0, <1>kind, <1>1, <2>1, <2>5 DEF Accepts
  <2>6. CASE o \in {"silu", "silu_fp8"}
    BY <1>0, <1>kind, <1>1, <2>1, <2>6 DEF Accepts
  <2>7. CASE o \in {"norm", "argmax"}
    BY <1>0, <1>kind, <1>1, <2>7 DEF Accepts
  <2>. QED
    BY <1>0, <1>kind, <2>3, <2>4, <2>5, <2>6, <2>7
<1>5. Issuable(shapes, tokens, done, op)
  BY <1>0, <1>kind, <1>1, <1>2, <1>3, <1>4 DEF Issuable
<1>6. LayerRead(op) = layer
  BY <1>0, <1>kind, <1>1 DEF LayerRead
<1>7. Fed(shapes, tokens, done, op)
  BY <1>0, <1>kind, <1>1, <1>3, <1>6 DEF Fed
<1>8. Computing(op)
  BY <1>0, <1>kind, <1>1 DEF Computing
<1>9. Range(op.writes) = {into} /\ 1 \in DOMAIN op.writes /\ op.writes[1] = into /\ op.makes[1] = make
  BY <1>0, <1>kind, <1>1 DEF Range
<1>10. WidthAfter(op, sh) = IF width = "same" THEN found ELSE width
  BY <1>0, <1>kind, <1>1, <1>3 DEF WidthAfter
<1>11. Has(shapes, tokens, Append(done, op), op.writes[1], WidthAfter(op, sh), op.makes[1], op.layer)
  BY <1>0, <1>kind, <1>5, <1>7, <1>8, <1>9, ComputeStep
<1>12. /\ Doing(shapes, tokens, Append(done, op))
       /\ Keeps(shapes, tokens, done, Append(done, op), Range(op.writes))
       /\ WrittenAt(shapes, tokens, Append(done, op))
            = IF op.op \in {"fused", "write", "conv"}
              THEN [WrittenAt(shapes, tokens, done) EXCEPT ![op.layer] = @ + 1]
              ELSE WrittenAt(shapes, tokens, done)
  BY <1>0, <1>kind, <1>5, <1>7, <1>8, <1>9, ComputeStep
<1>13. op.op \in {"fused", "write", "conv"} <=> o = "conv"
  BY <1>0, <1>kind, <1>1
<1>. QED
  <2>1. Effect(shapes, tokens, done, Append(done, op), into, IF width = "same" THEN found ELSE width, make,
               layer, {into}, o = "conv")
    BY <1>1, <1>9, <1>10, <1>11, <1>12, <1>13 DEF Effect
  <2>. QED
    BY <2>1 DEF SingleDone, op

\* Both residual steps: two sums of the same shape, normalised in the same launch.
ResidualReady(shapes, tokens, done, layer, before, from, need, other, into, make, made) ==
  /\ Passing(shapes, tokens, done)
  /\ layer \in Nat /\ before \in Nat /\ from \in Buffers /\ into \in Buffers /\ into # "normalized"
  /\ need \in Words /\ other \in Words /\ make \in Words /\ made \in Words
  /\ before = (IF layer > 1 /\ need = "post_operator" THEN layer - 1 ELSE layer)
  /\ Has(shapes, tokens, done, from, "hidden", need, before)
  /\ Has(shapes, tokens, done, "operator_output", "hidden", other, before)

ResidualDone(shapes, tokens, done, layer, before, from, need, other, into, make, made) ==
  LET op == Op("residual", layer, "", <<from, "operator_output">>, <<need, other>>,
               <<into, "normalized">>, <<make, made>>, "hidden")
      more == Append(done, op)
  IN  /\ op \in Ops
      /\ Effect(shapes, tokens, done, more, into, "hidden", make, layer, {into, "normalized"}, FALSE)
      /\ Has(shapes, tokens, more, "normalized", "hidden", made, layer)

\* A residual step leaves the sum and its normalisation.
LEMMA ResidualStep ==
  ASSUME NEW shapes, NEW tokens, NEW done, NEW layer, NEW before, NEW from, NEW need, NEW other,
         NEW into, NEW make, NEW made,
         ResidualReady(shapes, tokens, done, layer, before, from, need, other, into, make, made)
  PROVE  ResidualDone(shapes, tokens, done, layer, before, from, need, other, into, make, made)
<1>0. /\ shapes \in Shapes /\ tokens \in 1 .. MaximumTokens /\ done \in Seq(Ops)
      /\ Doing(shapes, tokens, done)
      /\ layer \in Nat /\ before \in Nat /\ from \in Buffers /\ into \in Buffers /\ into # "normalized"
      /\ need \in Words /\ other \in Words /\ make \in Words /\ made \in Words
      /\ before = (IF layer > 1 /\ need = "post_operator" THEN layer - 1 ELSE layer)
      /\ Has(shapes, tokens, done, from, "hidden", need, before)
      /\ Has(shapes, tokens, done, "operator_output", "hidden", other, before)
  BY DEF ResidualReady, Passing
<1> DEFINE op == Op("residual", layer, "", <<from, "operator_output">>, <<need, other>>,
                    <<into, "normalized">>, <<make, made>>, "hidden")
           sh == ShapeAt(shapes, tokens, done)
<1>1. /\ op.op = "residual" /\ op.layer = layer /\ op.reads = <<from, "operator_output">>
      /\ op.needs = <<need, other>> /\ op.writes = <<into, "normalized">> /\ op.makes = <<make, made>>
      /\ op.width = "hidden"
  BY <1>0 DEF Op
<1>2. op \in Ops
  <2>1. "residual" \in Words /\ "hidden" \in Widths /\ "" \in Sites
    BY <1>0, SiteNames, Names, WidthNames
  <2>2. <<from, "operator_output">> \in Seq(Buffers) /\ <<into, "normalized">> \in Seq(Buffers)
    BY <1>0, BufferNames, Lists
  <2>3. <<need, other>> \in Seq(Words) /\ <<make, made>> \in Seq(Words)
    BY <1>0, Lists
  <2>. QED
    BY <1>0, <2>1, <2>2, <2>3, OpIn
<1> HIDE DEF op
<1>3. /\ sh[from] = <<tokens, "hidden">> /\ sh["operator_output"] = <<tokens, "hidden">>
      /\ DeviceAt(shapes, tokens, done).content[from] = Val(need, before, tokens)
      /\ DeviceAt(shapes, tokens, done).content["operator_output"] = Val(other, before, tokens)
  BY <1>0 DEF Has
<1>4. Accepts(op, sh, tokens)
  BY <1>0, <1>1, <1>3 DEF Accepts
<1>5. Issuable(shapes, tokens, done, op)
  BY <1>0, <1>1, <1>2, <1>3, <1>4 DEF Issuable
<1>6. LayerRead(op) = before
  BY <1>0, <1>1 DEF LayerRead
<1>7. Fed(shapes, tokens, done, op)
  <2>1. DOMAIN op.reads = {1, 2}
    BY <1>0, <1>1
  <2>. QED
    BY <1>0, <1>1, <1>3, <1>6, <2>1 DEF Fed
<1>8. Computing(op)
  BY <1>0, <1>1 DEF Computing
<1>9. /\ Range(op.writes) = {into, "normalized"} /\ 1 \in DOMAIN op.writes /\ 2 \in DOMAIN op.writes
      /\ op.writes[1] = into /\ op.makes[1] = make /\ op.writes[2] = "normalized" /\ op.makes[2] = made
  BY <1>0, <1>1 DEF Range
<1>10. WidthAfter(op, sh) = "hidden"
  BY <1>0, <1>1 DEF WidthAfter
<1>11. /\ Has(shapes, tokens, Append(done, op), op.writes[1], WidthAfter(op, sh), op.makes[1], op.layer)
       /\ Has(shapes, tokens, Append(done, op), op.writes[2], WidthAfter(op, sh), op.makes[2], op.layer)
  BY <1>0, <1>5, <1>7, <1>8, <1>9, ComputeStep
<1>12. /\ Doing(shapes, tokens, Append(done, op))
       /\ Keeps(shapes, tokens, done, Append(done, op), {into, "normalized"})
       /\ WrittenAt(shapes, tokens, Append(done, op))
            = IF op.op \in {"fused", "write", "conv"}
              THEN [WrittenAt(shapes, tokens, done) EXCEPT ![op.layer] = @ + 1]
              ELSE WrittenAt(shapes, tokens, done)
  BY <1>0, <1>5, <1>7, <1>8, <1>9, ComputeStep
<1>13. /\ Effect(shapes, tokens, done, Append(done, op), into, "hidden", make, layer, {into, "normalized"}, FALSE)
       /\ Has(shapes, tokens, Append(done, op), "normalized", "hidden", made, layer)
  BY <1>1, <1>9, <1>10, <1>11, <1>12 DEF Effect
<1>. QED
  BY <1>2, <1>13 DEF ResidualDone, op

\* The K/V of a layer is stored, and with the fused kernel attended to.
StoreReady(shapes, tokens, done, o, layer, into, make) ==
  /\ Passing(shapes, tokens, done)
  /\ o \in {"fused", "write"} /\ layer \in DOMAIN Layers /\ into \in Buffers /\ make \in Words
  /\ Has(shapes, tokens, done, "query", "heads", "query", layer)
  /\ Has(shapes, tokens, done, "key", "kv_heads", "key", layer)
  /\ Has(shapes, tokens, done, "value", "kv_heads", "value", layer)

StoreDone(shapes, tokens, done, o, layer, into, make) ==
  Effect(shapes, tokens, done,
         Append(done, Op(o, layer, "1", <<"query", "key", "value">>, <<"query", "key", "value">>,
                         <<into>>, <<make>>, "heads")),
         into, "heads", make, layer, {into}, TRUE)

\* Storing writes the state of the layer, once.
LEMMA StoreStep ==
  ASSUME NEW shapes, NEW tokens, NEW done, NEW o, NEW layer, NEW into, NEW make,
         StoreReady(shapes, tokens, done, o, layer, into, make)
  PROVE  StoreDone(shapes, tokens, done, o, layer, into, make)
<1>0. /\ shapes \in Shapes /\ tokens \in 1 .. MaximumTokens /\ done \in Seq(Ops)
      /\ Doing(shapes, tokens, done)
      /\ o \in {"fused", "write"} /\ layer \in DOMAIN Layers /\ into \in Buffers /\ make \in Words
      /\ Has(shapes, tokens, done, "query", "heads", "query", layer)
      /\ Has(shapes, tokens, done, "key", "kv_heads", "key", layer)
      /\ Has(shapes, tokens, done, "value", "kv_heads", "value", layer)
  BY DEF StoreReady, Passing
<1> DEFINE op == Op(o, layer, "1", <<"query", "key", "value">>, <<"query", "key", "value">>,
                    <<into>>, <<make>>, "heads")
           sh == ShapeAt(shapes, tokens, done)
<1>1. /\ op.op = o /\ op.layer = layer /\ op.reads = <<"query", "key", "value">>
      /\ op.needs = <<"query", "key", "value">> /\ op.writes = <<into>> /\ op.makes = <<make>>
      /\ op.width = "heads"
  BY <1>0 DEF Op
<1>2. op \in Ops
  <2>1. layer \in Nat
    BY <1>0, ExecutorAssumption
  <2>. QED
    <3>1. "1" \in Sites /\ o \in Words /\ "heads" \in Widths
      BY <1>0, SiteNames, Names, WidthNames
    <3>2. <<"query", "key", "value">> \in Seq(Buffers) /\ <<into>> \in Seq(Buffers)
      BY <1>0, BufferNames, Lists
    <3>3. <<"query", "key", "value">> \in Seq(Words) /\ <<make>> \in Seq(Words)
      BY <1>0, Names, Lists
    <3>. QED
      BY <2>1, <3>1, <3>2, <3>3, OpIn
<1> HIDE DEF op
<1>3. /\ sh["query"] = <<tokens, "heads">> /\ sh["key"] = <<tokens, "kv_heads">>
      /\ sh["value"] = <<tokens, "kv_heads">>
      /\ DeviceAt(shapes, tokens, done).content["query"] = Val("query", layer, tokens)
      /\ DeviceAt(shapes, tokens, done).content["key"] = Val("key", layer, tokens)
      /\ DeviceAt(shapes, tokens, done).content["value"] = Val("value", layer, tokens)
  BY <1>0 DEF Has
<1>4. DOMAIN op.reads = 1 .. 3 /\ op.reads[1] = "query" /\ op.reads[2] = "key" /\ op.reads[3] = "value"
  BY <1>0, <1>1
<1>5. Accepts(op, sh, tokens)
  <2>1. [i \in DOMAIN op.reads |-> sh[op.reads[i]][2]] = <<"heads", "kv_heads", "kv_heads">>
    BY <1>0, <1>1, <1>3
  <2>2. \A b \in Range(op.reads) : sh[b][1] = tokens
    <3>1. Range(op.reads) = {"query", "key", "value"}
      BY <1>0, <1>1, <1>4 DEF Range
    <3>. QED
      BY <1>0, <1>3, <3>1
  <2>. HIDE DEF sh
  <2>. QED
    BY <1>0, <1>1, <2>1, <2>2 DEF Accepts
<1>6. Issuable(shapes, tokens, done, op)
  BY <1>0, <1>1, <1>2, <1>3, <1>4, <1>5 DEF Issuable
<1>7. LayerRead(op) = layer
  BY <1>0, <1>1 DEF LayerRead
<1>8. Fed(shapes, tokens, done, op)
  BY <1>0, <1>1, <1>3, <1>4, <1>7 DEF Fed
<1>9. Computing(op)
  BY <1>0, <1>1 DEF Computing
<1>10. Range(op.writes) = {into} /\ 1 \in DOMAIN op.writes /\ op.writes[1] = into /\ op.makes[1] = make
  BY <1>0, <1>1 DEF Range
<1>11. WidthAfter(op, sh) = "heads"
  BY <1>0, <1>1 DEF WidthAfter
<1>12. Has(shapes, tokens, Append(done, op), op.writes[1], WidthAfter(op, sh), op.makes[1], op.layer)
  BY <1>0, <1>6, <1>8, <1>9, <1>10, ComputeStep
<1>13. /\ Doing(shapes, tokens, Append(done, op))
       /\ Keeps(shapes, tokens, done, Append(done, op), Range(op.writes))
       /\ WrittenAt(shapes, tokens, Append(done, op))
            = IF op.op \in {"fused", "write", "conv"}
              THEN [WrittenAt(shapes, tokens, done) EXCEPT ![op.layer] = @ + 1]
              ELSE WrittenAt(shapes, tokens, done)
  BY <1>0, <1>6, <1>8, <1>9, <1>10, ComputeStep
<1>14. op.op \in {"fused", "write", "conv"}
  BY <1>0, <1>1
<1>. QED
  <2>1. Effect(shapes, tokens, done, Append(done, op), into, "heads", make, layer, {into}, TRUE)
    BY <1>1, <1>10, <1>11, <1>12, <1>13, <1>14 DEF Effect
  <2>. QED
    BY <2>1 DEF StoreDone, op

\* A pass begins with the embedding of its tokens, which reads no buffer.
LEMMA EmbedStep ==
  ASSUME NEW shapes \in Shapes, NEW tokens \in 1 .. MaximumTokens, NEW done,
         Doing(shapes, tokens, done)
  PROVE  LET more == Append(done, Op("embed", 1, "", << >>, << >>, <<"hidden">>, <<"residual">>, "hidden"))
         IN  /\ Doing(shapes, tokens, more)
             /\ Has(shapes, tokens, more, "hidden", "hidden", "residual", 1)
             /\ WrittenAt(shapes, tokens, more) = WrittenAt(shapes, tokens, done)
<1> DEFINE op == Op("embed", 1, "", << >>, << >>, <<"hidden">>, <<"residual">>, "hidden")
           sh == ShapeAt(shapes, tokens, done)
<1>1. /\ op.op = "embed" /\ op.layer = 1 /\ op.reads = << >> /\ op.writes = <<"hidden">>
      /\ op.makes = <<"residual">> /\ op.width = "hidden"
  BY DEF Op
<1>typed. op \in Ops
  <2>1. "embed" \in Words /\ 1 \in Nat /\ "" \in Sites /\ "hidden" \in Widths /\ "residual" \in Words
    BY SiteNames, Names, WidthNames
  <2>2. << >> \in Seq(Buffers) /\ <<"hidden">> \in Seq(Buffers)
    BY BufferNames, Lists
  <2>3. << >> \in Seq(Words) /\ <<"residual">> \in Seq(Words)
    BY <2>1, Lists
  <2>. QED
    BY <2>1, <2>2, <2>3, OpIn
<1> HIDE DEF op
<1>2. Issuable(shapes, tokens, done, op)
  BY <1>1, <1>typed DEF Issuable, Accepts
<1>3. Fed(shapes, tokens, done, op) /\ Computing(op)
  BY <1>1 DEF Fed, Computing
<1>4. 1 \in DOMAIN op.writes /\ op.writes[1] = "hidden" /\ op.makes[1] = "residual"
      /\ WidthAfter(op, sh) = "hidden"
  BY <1>1 DEF WidthAfter
<1>5. Has(shapes, tokens, Append(done, op), op.writes[1], WidthAfter(op, sh), op.makes[1], op.layer)
  BY <1>2, <1>3, <1>4, ComputeStep
<1>6. /\ Doing(shapes, tokens, Append(done, op))
      /\ WrittenAt(shapes, tokens, Append(done, op)) = WrittenAt(shapes, tokens, done)
  BY <1>1, <1>2, <1>3, ComputeStep
<1>. QED
  BY <1>1, <1>4, <1>5, <1>6 DEF op

-----------------------------------------------------------------------------
(* The parts of a layer.                                                   *)

\* One more operation is a list longer by one, and lists join in any grouping.
LEMMA Joined ==
  /\ \A done \in Seq(Ops) : \A op \in Ops : Append(done, op) = done \o <<op>>
  /\ \A a, b, c \in Seq(Ops) : (a \o b) \o c = a \o (b \o c)
  /\ \A a, b \in Seq(Ops) : a \o b \in Seq(Ops)
  /\ \A op \in Ops : <<op>> \in Seq(Ops)
<1>1. ASSUME NEW S, NEW done \in Seq(S), NEW op \in S PROVE Append(done, op) = done \o <<op>>
  BY AppendIsConcat
<1>2. ASSUME NEW S, NEW a \in Seq(S), NEW b \in Seq(S), NEW c \in Seq(S) PROVE (a \o b) \o c = a \o (b \o c)
  BY ConcatAssociative
<1>3. ASSUME NEW S, NEW a \in Seq(S), NEW b \in Seq(S) PROVE a \o b \in Seq(S)
  OBVIOUS
<1>4. ASSUME NEW S, NEW op \in S PROVE <<op>> \in Seq(S)
  OBVIOUS
<1>. HIDE DEF Ops
<1>. QED
  BY <1>1, <1>2, <1>3, <1>4

\* What is left alone twice is left alone.
LEMMA KeepsOn ==
  ASSUME NEW shapes, NEW tokens, NEW done, NEW next, NEW more, NEW A, NEW B, NEW C,
         Keeps(shapes, tokens, done, next, A), Keeps(shapes, tokens, next, more, B),
         A \subseteq C, B \subseteq C
  PROVE  Keeps(shapes, tokens, done, more, C)
  BY DEF Keeps

\* A linear operator, in BF16 or through the FP8 scratch.
LinearReady(shapes, tokens, done, layer, site, from, need, into, make, width) ==
  /\ Passing(shapes, tokens, done)
  /\ layer \in Nat /\ site \in Words /\ from \in Buffers /\ into \in Buffers
  /\ need \in Words /\ make \in Words /\ width \in Widths
  /\ Has(shapes, tokens, done, from, WidthOf(layer, site), need, layer)

LinearDone(shapes, tokens, done, layer, site, from, need, into, make, width) ==
  /\ Linear(layer, site, from, need, into, make, width) \in Seq(Ops)
  /\ Effect(shapes, tokens, done, done \o Linear(layer, site, from, need, into, make, width),
            into, width, make, layer, {into, "fp8_input"}, FALSE)

\* A linear operator leaves its result, whichever way it is computed.
LEMMA LinearStep ==
  ASSUME NEW shapes, NEW tokens, NEW done, NEW layer, NEW site, NEW from, NEW need,
         NEW into, NEW make, NEW width,
         LinearReady(shapes, tokens, done, layer, site, from, need, into, make, width)
  PROVE  LinearDone(shapes, tokens, done, layer, site, from, need, into, make, width)
<1> DEFINE ops == Linear(layer, site, from, need, into, make, width)
           plain == Op("linear", layer, site, <<from>>, <<need>>, <<into>>, <<make>>, width)
           quantize == Op("quantize", layer, site, <<from>>, <<need>>, <<"fp8_input">>, <<site>>, "same")
           fp8 == Op("linear_fp8", layer, site, <<"fp8_input">>, <<site>>, <<into>>, <<make>>, width)
<1>0. /\ Passing(shapes, tokens, done)
      /\ layer \in Nat /\ site \in Words /\ from \in Buffers /\ into \in Buffers
      /\ need \in Words /\ make \in Words /\ width \in Widths
      /\ Has(shapes, tokens, done, from, WidthOf(layer, site), need, layer)
  BY DEF LinearReady
<1>1. /\ shapes \in Shapes /\ tokens \in 1 .. MaximumTokens /\ done \in Seq(Ops)
      /\ site \in Sites /\ "fp8_input" \in Buffers
      /\ "linear" \in Words /\ "quantize" \in Words /\ "linear_fp8" \in Words /\ "same" \notin Widths
      /\ "linear" \in SingleOps /\ "quantize" \in SingleOps /\ "linear_fp8" \in SingleOps
  <2>1. "linear" \in SingleOps /\ "quantize" \in SingleOps /\ "linear_fp8" \in SingleOps
    BY DEF SingleOps
  <2>. QED
    BY <1>0, <2>1, Names, WidthNames, SiteNames, BufferNames DEF Passing
<1>2. plain \in Ops /\ quantize \in Ops /\ fp8 \in Ops
  <2>1. /\ <<from>> \in Seq(Buffers) /\ <<into>> \in Seq(Buffers) /\ <<"fp8_input">> \in Seq(Buffers)
        /\ <<need>> \in Seq(Words) /\ <<make>> \in Seq(Words) /\ <<site>> \in Seq(Words)
    BY <1>0, <1>1, Lists
  <2>. QED
    BY <1>0, <1>1, <2>1, OpIn
<1>3. CASE <<layer, site>> \notin Fp8Sites
  <2>1. ops = <<plain>>
    BY <1>3 DEF Linear
  <2>2. SingleReady(shapes, tokens, done, "linear", layer, site, from, need, into, make, width,
                    WidthOf(layer, site))
    BY <1>0, <1>1 DEF SingleReady
  <2>3. SingleDone(shapes, tokens, done, "linear", layer, site, from, need, into, make, width,
                   WidthOf(layer, site))
    BY <2>2, SingleStep
  <2>4. Effect(shapes, tokens, done, Append(done, plain), into, width, make, layer, {into}, FALSE)
    BY <1>0, <2>3, WidthNames DEF SingleDone
  <2>. HIDE DEF ops, plain
  <2>5. Append(done, plain) = done \o ops /\ ops \in Seq(Ops)
    BY <1>1, <1>2, <2>1, Joined
  <2>6. Effect(shapes, tokens, done, done \o ops, into, width, make, layer, {into, "fp8_input"}, FALSE)
    BY <2>4, <2>5 DEF Effect, Keeps
  <2>. QED
    BY <2>5, <2>6 DEF LinearDone, ops
<1>4. CASE <<layer, site>> \in Fp8Sites
  <2> DEFINE next == Append(done, quantize)
             more == Append(next, fp8)
  <2>1. ops = <<quantize, fp8>>
    BY <1>4 DEF Linear
  <2>2. SingleReady(shapes, tokens, done, "quantize", layer, site, from, need, "fp8_input", site, "same",
                    WidthOf(layer, site))
    BY <1>0, <1>1 DEF SingleReady
  <2>3. SingleDone(shapes, tokens, done, "quantize", layer, site, from, need, "fp8_input", site, "same",
                   WidthOf(layer, site))
    BY <2>2, SingleStep
  <2>4. Effect(shapes, tokens, done, next, "fp8_input", WidthOf(layer, site), site, layer, {"fp8_input"}, FALSE)
    BY <2>3 DEF SingleDone
  <2> HIDE DEF quantize
  <2>5. next \in Seq(Ops) /\ next = done \o <<quantize>>
    BY <1>1, <1>2, Joined
  <2> HIDE DEF next
  <2>6. Passing(shapes, tokens, next)
    BY <1>0, <2>4, <2>5 DEF Passing, Effect
  <2>7. SingleReady(shapes, tokens, next, "linear_fp8", layer, site, "fp8_input", site, into, make, width,
                    WidthOf(layer, site))
    <3>1. Has(shapes, tokens, next, "fp8_input", WidthOf(layer, site), site, layer)
      BY <2>4 DEF Effect
    <3>. QED
      BY <1>0, <1>1, <1>4, <2>6, <3>1 DEF SingleReady
  <2>8. SingleDone(shapes, tokens, next, "linear_fp8", layer, site, "fp8_input", site, into, make, width,
                   WidthOf(layer, site))
    BY <2>7, SingleStep
  <2>9. Effect(shapes, tokens, next, more, into, width, make, layer, {into}, FALSE)
    BY <1>0, <2>8, WidthNames DEF SingleDone
  <2> HIDE DEF fp8
  <2>10. more = done \o ops /\ ops \in Seq(Ops)
    <3>1. Append(next, fp8) = next \o <<fp8>>
      BY <1>2, <2>5, Joined
    <3>2. (done \o <<quantize>>) \o <<fp8>> = done \o (<<quantize>> \o <<fp8>>)
      BY <1>1, <1>2, Joined
    <3>3. <<quantize>> \o <<fp8>> = <<quantize, fp8>> /\ <<quantize>> \o <<fp8>> \in Seq(Ops)
      BY <1>2, Joined, PairJoined
    <3>. QED
      BY <2>1, <2>5, <3>1, <3>2, <3>3
  <2> HIDE DEF more, ops
  <2>11. Keeps(shapes, tokens, done, more, {into, "fp8_input"})
    BY <2>4, <2>9, KeepsOn DEF Effect
  <2>12. Effect(shapes, tokens, done, more, into, width, make, layer, {into, "fp8_input"}, FALSE)
    BY <2>4, <2>9, <2>11 DEF Effect
  <2>. QED
    BY <2>10, <2>12 DEF LinearDone, ops
<1>. QED
  BY <1>3, <1>4

\* Lists of operations continue what has been done.
LEMMA JoinOn ==
  ASSUME NEW done \in Seq(Ops), NEW a \in Seq(Ops)
  PROVE  /\ \A b \in Seq(Ops) : (done \o a) \o b = done \o (a \o b) /\ a \o b \in Seq(Ops)
         /\ \A op \in Ops : Append(done \o a, op) = done \o (a \o <<op>>) /\ a \o <<op>> \in Seq(Ops)
<1>1. done \o a \in Seq(Ops)
  BY Joined
<1>2. \A b \in Seq(Ops) : (done \o a) \o b = done \o (a \o b) /\ a \o b \in Seq(Ops)
  BY Joined
<1>3. ASSUME NEW op \in Ops PROVE Append(done \o a, op) = done \o (a \o <<op>>) /\ a \o <<op>> \in Seq(Ops)
  <2>1. Append(done \o a, op) = (done \o a) \o <<op>> /\ <<op>> \in Seq(Ops)
    BY <1>1, Joined
  <2>. QED
    BY <1>2, <2>1
<1>. QED
  BY <1>2, <1>3

\* The convolution of a layer.
MixReady(shapes, tokens, done, layer) ==
  /\ Passing(shapes, tokens, done) /\ layer \in DOMAIN Layers
  /\ Has(shapes, tokens, done, "hidden", "hidden", "residual", layer)
  /\ Has(shapes, tokens, done, "normalized", "hidden", "normed", layer)

MixDone(shapes, tokens, done, layer, ops) ==
  /\ ops \in Seq(Ops)
  /\ Passing(shapes, tokens, done \o ops)
  /\ Has(shapes, tokens, done \o ops, "hidden", "hidden", "residual", layer)
  /\ Has(shapes, tokens, done \o ops, "operator_output", "hidden", "mixed", layer)
  /\ WrittenAt(shapes, tokens, done \o ops) = [WrittenAt(shapes, tokens, done) EXCEPT ![layer] = @ + 1]

\* Layers are numbered.
LEMMA LayerNumber == ASSUME NEW layer \in DOMAIN Layers PROVE layer \in Nat /\ layer >= 1
  BY ExecutorAssumption

\* A convolution layer mixes its tokens and writes its state once.
LEMMA ConvSteps ==
  ASSUME NEW shapes, NEW tokens, NEW done, NEW layer, MixReady(shapes, tokens, done, layer)
  PROVE  MixDone(shapes, tokens, done, layer, ConvOps(layer))
<1> DEFINE in == Linear(layer, "in", "normalized", "normed", "wide", "projected", "3hidden")
           conv == Op("conv", layer, "", <<"wide">>, <<"projected">>, <<"post_operator">>, <<"convolved">>, "hidden")
           out == Linear(layer, "out", "post_operator", "convolved", "operator_output", "mixed", "hidden")
           d1 == done \o in
           d2 == Append(d1, conv)
           d3 == d2 \o out
<1>0. /\ Passing(shapes, tokens, done) /\ layer \in DOMAIN Layers /\ layer \in Nat
      /\ Has(shapes, tokens, done, "hidden", "hidden", "residual", layer)
      /\ Has(shapes, tokens, done, "normalized", "hidden", "normed", layer)
      /\ shapes \in Shapes /\ tokens \in 1 .. MaximumTokens /\ done \in Seq(Ops)
  BY LayerNumber DEF MixReady, Passing
<1>1. WidthOf(layer, "in") = "hidden" /\ WidthOf(layer, "out") = "hidden"
  BY DEF WidthOf
<1>2. /\ in \in Seq(Ops)
      /\ Effect(shapes, tokens, done, d1, "wide", "3hidden", "projected", layer, {"wide", "fp8_input"}, FALSE)
  <2>1. LinearReady(shapes, tokens, done, layer, "in", "normalized", "normed", "wide", "projected", "3hidden")
    BY <1>0, <1>1, Names, WidthNames, BufferNames DEF LinearReady
  <2>. QED
    BY <2>1, LinearStep DEF LinearDone
<1> HIDE DEF in
<1>3. d1 \in Seq(Ops) /\ Passing(shapes, tokens, d1)
      /\ Has(shapes, tokens, d1, "wide", "3hidden", "projected", layer)
      /\ WrittenAt(shapes, tokens, d1) = WrittenAt(shapes, tokens, done)
      /\ Keeps(shapes, tokens, done, d1, {"wide", "fp8_input"})
  BY <1>0, <1>2, Joined DEF Passing, Effect
<1> HIDE DEF d1
<1>4. /\ conv \in Ops
      /\ Effect(shapes, tokens, d1, d2, "post_operator", "hidden", "convolved", layer, {"post_operator"}, TRUE)
  <2>1. "conv" \in SingleOps
    BY DEF SingleOps
  <2>2. SingleReady(shapes, tokens, d1, "conv", layer, "", "wide", "projected", "post_operator", "convolved",
                    "hidden", "3hidden")
    BY <1>0, <1>3, <2>1, Names, SiteNames, WidthNames, BufferNames DEF SingleReady
  <2>3. SingleDone(shapes, tokens, d1, "conv", layer, "", "wide", "projected", "post_operator", "convolved",
                   "hidden", "3hidden")
    BY <2>2, SingleStep
  <2>4. conv \in Ops
    <3>1. /\ <<"wide">> \in Seq(Buffers) /\ <<"post_operator">> \in Seq(Buffers)
          /\ <<"projected">> \in Seq(Words) /\ <<"convolved">> \in Seq(Words)
      BY BufferNames, Names, Lists
    <3>. QED
      BY <1>0, <3>1, Names, SiteNames, WidthNames, OpIn
  <2>. QED
    BY <2>3, <2>4 DEF SingleDone
<1> HIDE DEF conv
<1>5. d2 \in Seq(Ops) /\ Passing(shapes, tokens, d2)
      /\ Has(shapes, tokens, d2, "post_operator", "hidden", "convolved", layer)
      /\ WrittenAt(shapes, tokens, d2) = [WrittenAt(shapes, tokens, done) EXCEPT ![layer] = @ + 1]
      /\ Keeps(shapes, tokens, d1, d2, {"post_operator"})
  BY <1>0, <1>3, <1>4 DEF Passing, Effect
<1> HIDE DEF d2
<1>6. /\ out \in Seq(Ops)
      /\ Effect(shapes, tokens, d2, d3, "operator_output", "hidden", "mixed", layer,
                {"operator_output", "fp8_input"}, FALSE)
  <2>1. LinearReady(shapes, tokens, d2, layer, "out", "post_operator", "convolved", "operator_output", "mixed", "hidden")
    BY <1>0, <1>1, <1>5, Names, WidthNames, BufferNames DEF LinearReady
  <2>. QED
    BY <2>1, LinearStep DEF LinearDone
<1> HIDE DEF out
<1>7. d3 = done \o ConvOps(layer) /\ ConvOps(layer) \in Seq(Ops)
  <2>1. ConvOps(layer) = (in \o <<conv>>) \o out
    BY DEF ConvOps, in, conv, out
  <2>2. d2 = done \o (in \o <<conv>>) /\ in \o <<conv>> \in Seq(Ops)
    BY <1>0, <1>2, <1>4, JoinOn DEF d1, d2
  <2>3. d3 = done \o ((in \o <<conv>>) \o out) /\ (in \o <<conv>>) \o out \in Seq(Ops)
    BY <1>0, <1>6, <2>2, JoinOn
  <2>. QED
    BY <2>1, <2>3
<1>8. d3 \in Seq(Ops)
  BY <1>5, <1>6, Joined
<1> HIDE DEF d3
<1>9. Has(shapes, tokens, d3, "hidden", "hidden", "residual", layer)
  <2>1. Has(shapes, tokens, d1, "hidden", "hidden", "residual", layer)
    BY <1>0, <1>3, BufferNames, HasKept
  <2>2. Has(shapes, tokens, d2, "hidden", "hidden", "residual", layer)
    BY <1>5, <2>1, BufferNames, HasKept
  <2>. QED
    BY <1>6, <2>2, BufferNames, HasKept DEF Effect
<1>10. MixDone(shapes, tokens, done, layer, ConvOps(layer))
  <2>1. Passing(shapes, tokens, d3)
    BY <1>0, <1>6, <1>8 DEF Passing, Effect
  <2>2. WrittenAt(shapes, tokens, d3) = [WrittenAt(shapes, tokens, done) EXCEPT ![layer] = @ + 1]
    BY <1>5, <1>6 DEF Effect
  <2>. QED
    BY <1>6, <1>7, <1>9, <2>1, <2>2 DEF MixDone, Effect
<1>. QED
  BY <1>10

\* Attention over the query, key and value of a layer: one kernel, or two.
Mixing(layer, tokens, context) ==
  IF should_use_mok_one_kernel(page_size, context, tokens)
  THEN <<Op("fused", layer, "1", <<"query", "key", "value">>, <<"query", "key", "value">>,
            <<"post_operator">>, <<"attended">>, "heads")>>
  ELSE <<Op("write", layer, "1", <<"query", "key", "value">>, <<"query", "key", "value">>,
            <<"query">>, <<"rotated">>, "heads"),
         Op("attend", layer, ToString(Splits(tokens, context)), <<"query">>, <<"rotated">>,
            <<"post_operator">>, <<"attended">>, "heads")>>

MixingReady(shapes, tokens, context, done, layer) ==
  /\ Passing(shapes, tokens, done) /\ layer \in DOMAIN Layers /\ context \in Nat
  /\ Has(shapes, tokens, done, "query", "heads", "query", layer)
  /\ Has(shapes, tokens, done, "key", "kv_heads", "key", layer)
  /\ Has(shapes, tokens, done, "value", "kv_heads", "value", layer)

MixingDone(shapes, tokens, context, done, layer) ==
  /\ Mixing(layer, tokens, context) \in Seq(Ops)
  /\ Effect(shapes, tokens, done, done \o Mixing(layer, tokens, context), "post_operator", "heads",
            "attended", layer, {"query", "post_operator"}, TRUE)

\* Either way attention writes the layer once and leaves its result.
LEMMA MixingSteps ==
  ASSUME NEW shapes, NEW tokens, NEW context, NEW done, NEW layer,
         MixingReady(shapes, tokens, context, done, layer)
  PROVE  MixingDone(shapes, tokens, context, done, layer)
<1> DEFINE fused == Op("fused", layer, "1", <<"query", "key", "value">>, <<"query", "key", "value">>,
                       <<"post_operator">>, <<"attended">>, "heads")
           write == Op("write", layer, "1", <<"query", "key", "value">>, <<"query", "key", "value">>,
                       <<"query">>, <<"rotated">>, "heads")
           where == ToString(Splits(tokens, context))
           attend == Op("attend", layer, where, <<"query">>, <<"rotated">>,
                        <<"post_operator">>, <<"attended">>, "heads")
           ops == Mixing(layer, tokens, context)
<1>0. /\ Passing(shapes, tokens, done) /\ layer \in DOMAIN Layers /\ layer \in Nat /\ context \in Nat
      /\ Has(shapes, tokens, done, "query", "heads", "query", layer)
      /\ Has(shapes, tokens, done, "key", "kv_heads", "key", layer)
      /\ Has(shapes, tokens, done, "value", "kv_heads", "value", layer)
      /\ shapes \in Shapes /\ tokens \in 1 .. MaximumTokens /\ tokens \in Nat /\ done \in Seq(Ops)
  BY LayerNumber DEF MixingReady, Passing
<1>1. where \in Sites
  BY <1>0, SiteNames
<1> HIDE DEF where
<1>2. fused \in Ops /\ write \in Ops /\ attend \in Ops
  <2>1. /\ <<"query", "key", "value">> \in Seq(Buffers) /\ <<"query">> \in Seq(Buffers)
        /\ <<"post_operator">> \in Seq(Buffers)
    BY BufferNames, Lists
  <2>2. /\ <<"query", "key", "value">> \in Seq(Words) /\ <<"rotated">> \in Seq(Words)
        /\ <<"attended">> \in Seq(Words)
    BY Names, Lists
  <2>. QED
    BY <1>0, <1>1, <2>1, <2>2, Names, SiteNames, WidthNames, OpIn
<1>3. CASE should_use_mok_one_kernel(page_size, context, tokens)
  <2> DEFINE more == Append(done, fused)
  <2>1. StoreReady(shapes, tokens, done, "fused", layer, "post_operator", "attended")
    BY <1>0, Names, BufferNames DEF StoreReady
  <2>2. Effect(shapes, tokens, done, more, "post_operator", "heads", "attended", layer, {"post_operator"}, TRUE)
    BY <2>1, StoreStep DEF StoreDone
  <2>3. ops = <<fused>>
    BY <1>3 DEF Mixing
  <2> HIDE DEF fused, ops
  <2>4. more = done \o ops /\ ops \in Seq(Ops)
    BY <1>0, <1>2, <2>3, Joined
  <2> HIDE DEF more
  <2>5. Effect(shapes, tokens, done, more, "post_operator", "heads", "attended", layer,
               {"query", "post_operator"}, TRUE)
    BY <2>2 DEF Effect, Keeps
  <2>. QED
    BY <2>4, <2>5 DEF MixingDone, ops
<1>4. CASE ~should_use_mok_one_kernel(page_size, context, tokens)
  <2> DEFINE next == Append(done, write)
             more == Append(next, attend)
  <2>1. StoreReady(shapes, tokens, done, "write", layer, "query", "rotated")
    BY <1>0, Names, BufferNames DEF StoreReady
  <2>2. Effect(shapes, tokens, done, next, "query", "heads", "rotated", layer, {"query"}, TRUE)
    BY <2>1, StoreStep DEF StoreDone
  <2>3. ops = <<write, attend>>
    BY <1>4 DEF Mixing, where
  <2> HIDE DEF write
  <2>4. next \in Seq(Ops) /\ next = done \o <<write>> /\ <<write>> \in Seq(Ops)
    BY <1>0, <1>2, Joined
  <2> HIDE DEF next
  <2>5. Passing(shapes, tokens, next)
    BY <1>0, <2>2, <2>4 DEF Passing, Effect
  <2>6. SingleReady(shapes, tokens, next, "attend", layer, where, "query", "rotated", "post_operator",
                    "attended", "heads", "heads")
    <3>1. "attend" \in SingleOps
      BY DEF SingleOps
    <3>2. Has(shapes, tokens, next, "query", "heads", "rotated", layer)
      BY <2>2 DEF Effect
    <3>. QED
      BY <1>0, <1>1, <2>5, <3>1, <3>2, Names, WidthNames, BufferNames DEF SingleReady
  <2>7. SingleDone(shapes, tokens, next, "attend", layer, where, "query", "rotated", "post_operator",
                   "attended", "heads", "heads")
    BY <2>6, SingleStep
  <2>8. Effect(shapes, tokens, next, more, "post_operator", "heads", "attended", layer, {"post_operator"}, FALSE)
    BY <2>7 DEF SingleDone
  <2> HIDE DEF attend
  <2>9. more = done \o ops /\ ops \in Seq(Ops)
    <3>1. more = done \o (<<write>> \o <<attend>>) /\ <<write>> \o <<attend>> \in Seq(Ops)
      BY <1>0, <1>2, <2>4, JoinOn
    <3>. QED
      BY <2>3, <3>1, PairJoined
  <2> HIDE DEF more, ops
  <2>10. Keeps(shapes, tokens, done, more, {"query", "post_operator"})
    BY <2>2, <2>8, KeepsOn DEF Effect
  <2>11. Effect(shapes, tokens, done, more, "post_operator", "heads", "attended", layer,
                {"query", "post_operator"}, TRUE)
    BY <2>2, <2>8, <2>10 DEF Effect
  <2>. QED
    BY <2>9, <2>11 DEF MixingDone, ops
<1>. QED
  BY <1>3, <1>4

\* Setting a shape is an operation.
LEMMA ReshapeIn ==
  ASSUME NEW b \in Buffers, NEW width \in Widths
  PROVE  Reshape(b, width) \in Ops
<1>1. <<b>> \in Seq(Buffers)
  BY Lists
<1>2. << >> \in Seq(Words)
  OBVIOUS
<1>3. "reshape" \in Words /\ 0 \in Nat /\ "" \in Sites
  BY Names, SiteNames
<1>. QED
  BY <1>1, <1>2, <1>3, OpIn DEF Reshape

\* The attention of a layer.
LEMMA AttentionSteps ==
  ASSUME NEW shapes, NEW tokens, NEW context \in Nat, NEW done, NEW layer,
         MixReady(shapes, tokens, done, layer)
  PROVE  MixDone(shapes, tokens, done, layer, AttentionOps(layer, tokens, context))
<1> DEFINE q == Linear(layer, "q", "normalized", "normed", "query", "query", "hidden")
           rq == Reshape("query", "heads")
           k == Linear(layer, "k", "normalized", "normed", "key", "key", "kv")
           rk == Reshape("key", "kv_heads")
           v == Linear(layer, "v", "normalized", "normed", "value", "value", "kv")
           rv == Reshape("value", "kv_heads")
           mix == Mixing(layer, tokens, context)
           rp == Reshape("post_operator", "hidden")
           out == Linear(layer, "out", "post_operator", "attended", "operator_output", "mixed", "hidden")
           d1 == done \o q
           d2 == Append(d1, rq)
           d3 == d2 \o k
           d4 == Append(d3, rk)
           d5 == d4 \o v
           d6 == Append(d5, rv)
           d7 == d6 \o mix
           d8 == Append(d7, rp)
           d9 == d8 \o out
           Going(d) == /\ Passing(shapes, tokens, d)
                       /\ Has(shapes, tokens, d, "hidden", "hidden", "residual", layer)
           Written(d) == WrittenAt(shapes, tokens, d)
           Normed(d) == Has(shapes, tokens, d, "normalized", "hidden", "normed", layer)
           Holds(d, b, width) == Has(shapes, tokens, d, b, width, b, layer)
           More(old) == [old EXCEPT ![layer] = @ + 1]
<1>0. /\ Going(done) /\ Normed(done) /\ layer \in DOMAIN Layers /\ layer \in Nat
      /\ shapes \in Shapes /\ tokens \in 1 .. MaximumTokens /\ done \in Seq(Ops)
  BY LayerNumber DEF MixReady, Passing
<1>1. /\ WidthOf(layer, "q") = "hidden" /\ WidthOf(layer, "k") = "hidden"
      /\ WidthOf(layer, "v") = "hidden" /\ WidthOf(layer, "out") = "hidden"
  BY DEF WidthOf
<1>2. rq \in Ops /\ rk \in Ops /\ rv \in Ops /\ rp \in Ops
  BY BufferNames, WidthNames, ReshapeIn
<1>3. /\ Going(d1) /\ Written(d1) = Written(done)
      /\ Normed(d1)
      /\ Holds(d1, "query", "hidden")
      /\ q \in Seq(Ops)
  <2>1. LinearReady(shapes, tokens, done, layer, "q", "normalized", "normed", "query", "query", "hidden")
    BY <1>0, <1>1, <1>0, Names, WidthNames, BufferNames DEF LinearReady
  <2>2. /\ q \in Seq(Ops)
        /\ Effect(shapes, tokens, done, d1, "query", "hidden", "query", layer, {"query", "fp8_input"}, FALSE)
    BY <2>1, LinearStep DEF LinearDone
  <2>3. d1 \in Seq(Ops)
    BY <1>2, <1>0, <2>2, Joined DEF Passing
  <2> HIDE DEF d1
  <2>4. /\ Keeps(shapes, tokens, done, d1, {"query", "fp8_input"})
        /\ Doing(shapes, tokens, d1) /\ Written(d1) = Written(done)
        /\ Holds(d1, "query", "hidden")
    BY <2>2 DEF Effect, Keeps
  <2>5. Has(shapes, tokens, d1, "hidden", "hidden", "residual", layer)
    BY <1>0, <2>4, BufferNames, HasKept
  <2>6. Normed(d1)
    BY <1>0, <2>4, BufferNames, HasKept
  <2>. QED
    BY <1>0, <1>0, <2>2, <2>3, <2>4, <2>5, <2>6 DEF Passing
<1> HIDE DEF d1
<1>4. /\ Going(d2) /\ Written(d2) = Written(done)
      /\ Normed(d2)
      /\ Holds(d2, "query", "heads")
  <2>1. ReshapeReady(shapes, tokens, d1, "query", "hidden", "query", layer, "heads")
    BY <1>0, <1>3, WidthNames, BufferNames DEF ReshapeReady
  <2>2. Effect(shapes, tokens, d1, d2, "query", "heads", "query", layer, {"query"}, FALSE)
    BY <2>1, ReshapeStep DEF ReshapeDone
  <2>3. d2 \in Seq(Ops)
    BY <1>2, <1>3, <2>2, Joined DEF Passing
  <2> HIDE DEF d2
  <2>4. /\ Keeps(shapes, tokens, d1, d2, {"query", "fp8_input"})
        /\ Doing(shapes, tokens, d2) /\ Written(d2) = Written(d1)
        /\ Holds(d2, "query", "heads")
    BY <2>2 DEF Effect, Keeps
  <2>5. Has(shapes, tokens, d2, "hidden", "hidden", "residual", layer)
    BY <1>3, <2>4, BufferNames, HasKept
  <2>6. Normed(d2)
    BY <1>3, <2>4, BufferNames, HasKept
  <2>. QED
    BY <1>0, <1>3, <2>2, <2>3, <2>4, <2>5, <2>6 DEF Passing
<1> HIDE DEF d2
<1>5. /\ Going(d3) /\ Written(d3) = Written(done)
      /\ Normed(d3)
      /\ Holds(d3, "query", "heads")
      /\ Holds(d3, "key", "kv")
      /\ k \in Seq(Ops)
  <2>1. LinearReady(shapes, tokens, d2, layer, "k", "normalized", "normed", "key", "key", "kv")
    BY <1>0, <1>1, <1>4, Names, WidthNames, BufferNames DEF LinearReady
  <2>2. /\ k \in Seq(Ops)
        /\ Effect(shapes, tokens, d2, d3, "key", "kv", "key", layer, {"key", "fp8_input"}, FALSE)
    BY <2>1, LinearStep DEF LinearDone
  <2>3. d3 \in Seq(Ops)
    BY <1>2, <1>4, <2>2, Joined DEF Passing
  <2> HIDE DEF d3
  <2>4. /\ Keeps(shapes, tokens, d2, d3, {"key", "fp8_input"})
        /\ Doing(shapes, tokens, d3) /\ Written(d3) = Written(d2)
        /\ Holds(d3, "key", "kv")
    BY <2>2 DEF Effect, Keeps
  <2>5. Has(shapes, tokens, d3, "hidden", "hidden", "residual", layer)
    BY <1>4, <2>4, BufferNames, HasKept
  <2>6. Normed(d3)
    BY <1>4, <2>4, BufferNames, HasKept
  <2>7. Holds(d3, "query", "heads")
    BY <1>4, <2>4, BufferNames, HasKept
  <2>. QED
    BY <1>0, <1>4, <2>2, <2>3, <2>4, <2>5, <2>6, <2>7 DEF Passing
<1> HIDE DEF d3
<1>6. /\ Going(d4) /\ Written(d4) = Written(done)
      /\ Normed(d4)
      /\ Holds(d4, "query", "heads")
      /\ Holds(d4, "key", "kv_heads")
  <2>1. ReshapeReady(shapes, tokens, d3, "key", "kv", "key", layer, "kv_heads")
    BY <1>0, <1>5, WidthNames, BufferNames DEF ReshapeReady
  <2>2. Effect(shapes, tokens, d3, d4, "key", "kv_heads", "key", layer, {"key"}, FALSE)
    BY <2>1, ReshapeStep DEF ReshapeDone
  <2>3. d4 \in Seq(Ops)
    BY <1>2, <1>5, <2>2, Joined DEF Passing
  <2> HIDE DEF d4
  <2>4. /\ Keeps(shapes, tokens, d3, d4, {"key", "fp8_input"})
        /\ Doing(shapes, tokens, d4) /\ Written(d4) = Written(d3)
        /\ Holds(d4, "key", "kv_heads")
    BY <2>2 DEF Effect, Keeps
  <2>5. Has(shapes, tokens, d4, "hidden", "hidden", "residual", layer)
    BY <1>5, <2>4, BufferNames, HasKept
  <2>6. Normed(d4)
    BY <1>5, <2>4, BufferNames, HasKept
  <2>7. Holds(d4, "query", "heads")
    BY <1>5, <2>4, BufferNames, HasKept
  <2>. QED
    BY <1>0, <1>5, <2>2, <2>3, <2>4, <2>5, <2>6, <2>7 DEF Passing
<1> HIDE DEF d4
<1>7. /\ Going(d5) /\ Written(d5) = Written(done)
      /\ Holds(d5, "query", "heads")
      /\ Holds(d5, "key", "kv_heads")
      /\ Holds(d5, "value", "kv")
      /\ v \in Seq(Ops)
  <2>1. LinearReady(shapes, tokens, d4, layer, "v", "normalized", "normed", "value", "value", "kv")
    BY <1>0, <1>1, <1>6, Names, WidthNames, BufferNames DEF LinearReady
  <2>2. /\ v \in Seq(Ops)
        /\ Effect(shapes, tokens, d4, d5, "value", "kv", "value", layer, {"value", "fp8_input"}, FALSE)
    BY <2>1, LinearStep DEF LinearDone
  <2>3. d5 \in Seq(Ops)
    BY <1>2, <1>6, <2>2, Joined DEF Passing
  <2> HIDE DEF d5
  <2>4. /\ Keeps(shapes, tokens, d4, d5, {"value", "fp8_input"})
        /\ Doing(shapes, tokens, d5) /\ Written(d5) = Written(d4)
        /\ Holds(d5, "value", "kv")
    BY <2>2 DEF Effect, Keeps
  <2>5. Has(shapes, tokens, d5, "hidden", "hidden", "residual", layer)
    BY <1>6, <2>4, BufferNames, HasKept
  <2>6. Holds(d5, "query", "heads")
    BY <1>6, <2>4, BufferNames, HasKept
  <2>7. Holds(d5, "key", "kv_heads")
    BY <1>6, <2>4, BufferNames, HasKept
  <2>. QED
    BY <1>0, <1>6, <2>2, <2>3, <2>4, <2>5, <2>6, <2>7 DEF Passing
<1> HIDE DEF d5
<1>8. /\ Going(d6) /\ Written(d6) = Written(done)
      /\ Holds(d6, "query", "heads")
      /\ Holds(d6, "key", "kv_heads")
      /\ Holds(d6, "value", "kv_heads")
  <2>1. ReshapeReady(shapes, tokens, d5, "value", "kv", "value", layer, "kv_heads")
    BY <1>0, <1>7, WidthNames, BufferNames DEF ReshapeReady
  <2>2. Effect(shapes, tokens, d5, d6, "value", "kv_heads", "value", layer, {"value"}, FALSE)
    BY <2>1, ReshapeStep DEF ReshapeDone
  <2>3. d6 \in Seq(Ops)
    BY <1>2, <1>7, <2>2, Joined DEF Passing
  <2> HIDE DEF d6
  <2>4. /\ Keeps(shapes, tokens, d5, d6, {"value", "fp8_input"})
        /\ Doing(shapes, tokens, d6) /\ Written(d6) = Written(d5)
        /\ Holds(d6, "value", "kv_heads")
    BY <2>2 DEF Effect, Keeps
  <2>5. Has(shapes, tokens, d6, "hidden", "hidden", "residual", layer)
    BY <1>7, <2>4, BufferNames, HasKept
  <2>6. Holds(d6, "query", "heads")
    BY <1>7, <2>4, BufferNames, HasKept
  <2>7. Holds(d6, "key", "kv_heads")
    BY <1>7, <2>4, BufferNames, HasKept
  <2>. QED
    BY <1>0, <1>7, <2>2, <2>3, <2>4, <2>5, <2>6, <2>7 DEF Passing
<1> HIDE DEF d6
<1>9. /\ Going(d7) /\ Written(d7) = More(Written(done)) /\ mix \in Seq(Ops)
      /\ Has(shapes, tokens, d7, "post_operator", "heads", "attended", layer)
  <2>1. MixingReady(shapes, tokens, context, d6, layer)
    BY <1>0, <1>8 DEF MixingReady
  <2>2. /\ mix \in Seq(Ops)
        /\ Effect(shapes, tokens, d6, d7, "post_operator", "heads", "attended", layer,
                  {"query", "post_operator"}, TRUE)
    BY <2>1, MixingSteps DEF MixingDone
  <2>3. d7 \in Seq(Ops)
    BY <1>8, <2>2, Joined DEF Passing
  <2> HIDE DEF d7
  <2>4. Has(shapes, tokens, d7, "hidden", "hidden", "residual", layer)
    BY <1>8, <2>2, BufferNames, HasKept DEF Effect
  <2>. QED
    BY <1>0, <1>8, <2>2, <2>3, <2>4 DEF Passing, Effect
<1> HIDE DEF d7
<1>10. /\ Going(d8) /\ Written(d8) = More(Written(done))
      /\ Has(shapes, tokens, d8, "post_operator", "hidden", "attended", layer)
  <2>1. ReshapeReady(shapes, tokens, d7, "post_operator", "heads", "attended", layer, "hidden")
    BY <1>0, <1>9, WidthNames, BufferNames DEF ReshapeReady
  <2>2. Effect(shapes, tokens, d7, d8, "post_operator", "hidden", "attended", layer, {"post_operator"}, FALSE)
    BY <2>1, ReshapeStep DEF ReshapeDone
  <2>3. d8 \in Seq(Ops)
    BY <1>2, <1>9, Joined DEF Passing
  <2> HIDE DEF d8
  <2>4. Has(shapes, tokens, d8, "hidden", "hidden", "residual", layer)
    BY <1>9, <2>2, BufferNames, HasKept DEF Effect
  <2>. QED
    BY <1>0, <1>9, <2>2, <2>3, <2>4 DEF Passing, Effect
<1> HIDE DEF d8
<1>11. /\ Going(d9) /\ Written(d9) = More(Written(done)) /\ out \in Seq(Ops)
      /\ Has(shapes, tokens, d9, "operator_output", "hidden", "mixed", layer)
  <2>1. LinearReady(shapes, tokens, d8, layer, "out", "post_operator", "attended", "operator_output", "mixed", "hidden")
    BY <1>0, <1>1, <1>10, Names, WidthNames, BufferNames DEF LinearReady
  <2>2. /\ out \in Seq(Ops)
        /\ Effect(shapes, tokens, d8, d9, "operator_output", "hidden", "mixed", layer,
                  {"operator_output", "fp8_input"}, FALSE)
    BY <2>1, LinearStep DEF LinearDone
  <2>3. d9 \in Seq(Ops)
    BY <1>10, <2>2, Joined DEF Passing
  <2> HIDE DEF d9
  <2>4. Has(shapes, tokens, d9, "hidden", "hidden", "residual", layer)
    BY <1>10, <2>2, BufferNames, HasKept DEF Effect
  <2>. QED
    BY <1>0, <1>10, <2>2, <2>3, <2>4 DEF Passing, Effect
<1> HIDE DEF d9
<1>12. d9 = done \o AttentionOps(layer, tokens, context) /\ AttentionOps(layer, tokens, context) \in Seq(Ops)
  <2> DEFINE p2 == q \o <<rq>>
             p3 == p2 \o k
             p4 == p3 \o <<rk>>
             p5 == p4 \o v
             p6 == p5 \o <<rv>>
             p7 == p6 \o mix
             p8 == p7 \o <<rp>>
             p9 == p8 \o out
  <2>1. AttentionOps(layer, tokens, context) = p9
    BY DEF AttentionOps, Mixing
  <2>. HIDE DEF q, rq, k, rk, v, rv, mix, rp, out
  <2>2. d2 = done \o p2 /\ p2 \in Seq(Ops)
    BY <1>0, <1>2, <1>3, JoinOn DEF d1, d2
  <2>. HIDE DEF p2
  <2>3. d3 = done \o p3 /\ p3 \in Seq(Ops)
    BY <1>0, <1>5, <2>2, JoinOn DEF d3
  <2>. HIDE DEF p3
  <2>4. d4 = done \o p4 /\ p4 \in Seq(Ops)
    BY <1>0, <1>2, <2>3, JoinOn DEF d4
  <2>. HIDE DEF p4
  <2>5. d5 = done \o p5 /\ p5 \in Seq(Ops)
    BY <1>0, <1>7, <2>4, JoinOn DEF d5
  <2>. HIDE DEF p5
  <2>6. d6 = done \o p6 /\ p6 \in Seq(Ops)
    BY <1>0, <1>2, <2>5, JoinOn DEF d6
  <2>. HIDE DEF p6
  <2>7. d7 = done \o p7 /\ p7 \in Seq(Ops)
    BY <1>0, <1>9, <2>6, JoinOn DEF d7
  <2>. HIDE DEF p7
  <2>8. d8 = done \o p8 /\ p8 \in Seq(Ops)
    BY <1>0, <1>2, <2>7, JoinOn DEF d8
  <2>. HIDE DEF p8
  <2>9. d9 = done \o p9 /\ p9 \in Seq(Ops)
    BY <1>0, <1>11, <2>8, JoinOn DEF d9
  <2>. QED
    BY <2>1, <2>9
<1>. QED
  BY <1>11, <1>12 DEF MixDone

\* The second half of the feed-forward network: through the FP8 scratch when the
\* weight has an FP8 copy.
Down(layer) ==
  IF <<layer, "down">> \in Fp8Sites
  THEN <<Op("silu_fp8", layer, "down", <<"wide">>, <<"gate_up">>, <<"fp8_input">>, <<"down">>, "ffn"),
         Op("linear_fp8", layer, "down", <<"fp8_input">>, <<"down">>, <<"operator_output">>,
            <<"ffn_output">>, "hidden")>>
  ELSE <<Op("silu", layer, "", <<"wide">>, <<"gate_up">>, <<"activated">>, <<"activated">>, "ffn")>>
       \o Linear(layer, "down", "activated", "activated", "operator_output", "ffn_output", "hidden")

DownReady(shapes, tokens, done, layer) ==
  Passing(shapes, tokens, done) /\ layer \in Nat /\ Has(shapes, tokens, done, "wide", "2ffn", "gate_up", layer)

DownDone(shapes, tokens, done, layer) ==
  /\ Down(layer) \in Seq(Ops)
  /\ Effect(shapes, tokens, done, done \o Down(layer), "operator_output", "hidden", "ffn_output", layer,
            {"fp8_input", "activated", "operator_output"}, FALSE)

\* Either way the result is that of the network.
LEMMA DownSteps ==
  ASSUME NEW shapes, NEW tokens, NEW done, NEW layer, DownReady(shapes, tokens, done, layer)
  PROVE  DownDone(shapes, tokens, done, layer)
<1> DEFINE silu8 == Op("silu_fp8", layer, "down", <<"wide">>, <<"gate_up">>, <<"fp8_input">>, <<"down">>, "ffn")
           down8 == Op("linear_fp8", layer, "down", <<"fp8_input">>, <<"down">>, <<"operator_output">>,
                       <<"ffn_output">>, "hidden")
           silu == Op("silu", layer, "", <<"wide">>, <<"gate_up">>, <<"activated">>, <<"activated">>, "ffn")
           down == Linear(layer, "down", "activated", "activated", "operator_output", "ffn_output", "hidden")
           ops == Down(layer)
           B == {"fp8_input", "activated", "operator_output"}
<1>0. /\ Passing(shapes, tokens, done) /\ layer \in Nat
      /\ Has(shapes, tokens, done, "wide", "2ffn", "gate_up", layer)
      /\ shapes \in Shapes /\ tokens \in 1 .. MaximumTokens /\ done \in Seq(Ops)
      /\ WidthOf(layer, "down") = "ffn"
  BY DEF DownReady, Passing, WidthOf
<1>1. silu8 \in Ops /\ down8 \in Ops /\ silu \in Ops
  <2>1. /\ <<"wide">> \in Seq(Buffers) /\ <<"fp8_input">> \in Seq(Buffers) /\ <<"activated">> \in Seq(Buffers)
        /\ <<"operator_output">> \in Seq(Buffers)
    BY BufferNames, Lists
  <2>2. /\ <<"gate_up">> \in Seq(Words) /\ <<"down">> \in Seq(Words) /\ <<"ffn_output">> \in Seq(Words)
        /\ <<"activated">> \in Seq(Words)
    BY Names, Lists
  <2>. QED
    BY <1>0, <2>1, <2>2, Names, SiteNames, WidthNames, OpIn
<1>2. "silu" \in SingleOps /\ "silu_fp8" \in SingleOps /\ "linear_fp8" \in SingleOps
  BY DEF SingleOps
<1>3. CASE <<layer, "down">> \in Fp8Sites
  <2> DEFINE next == Append(done, silu8)
             more == Append(next, down8)
  <2>1. SingleReady(shapes, tokens, done, "silu_fp8", layer, "down", "wide", "gate_up", "fp8_input", "down",
                    "ffn", "2ffn")
    BY <1>0, <1>2, Names, SiteNames, WidthNames, BufferNames DEF SingleReady
  <2>2. SingleDone(shapes, tokens, done, "silu_fp8", layer, "down", "wide", "gate_up", "fp8_input", "down",
                   "ffn", "2ffn")
    BY <2>1, SingleStep
  <2>3. Effect(shapes, tokens, done, next, "fp8_input", "ffn", "down", layer, {"fp8_input"}, FALSE)
    BY <2>2 DEF SingleDone
  <2>4. ops = <<silu8, down8>>
    BY <1>3 DEF Down
  <2> HIDE DEF silu8
  <2>5. next \in Seq(Ops) /\ next = done \o <<silu8>> /\ <<silu8>> \in Seq(Ops)
    BY <1>0, <1>1, Joined
  <2> HIDE DEF next
  <2>6. Passing(shapes, tokens, next) /\ Has(shapes, tokens, next, "fp8_input", "ffn", "down", layer)
    BY <1>0, <2>3, <2>5 DEF Passing, Effect
  <2>7. SingleReady(shapes, tokens, next, "linear_fp8", layer, "down", "fp8_input", "down", "operator_output",
                    "ffn_output", "hidden", "ffn")
    BY <1>0, <1>2, <1>3, <2>6, Names, SiteNames, WidthNames, BufferNames DEF SingleReady
  <2>8. SingleDone(shapes, tokens, next, "linear_fp8", layer, "down", "fp8_input", "down", "operator_output",
                   "ffn_output", "hidden", "ffn")
    BY <2>7, SingleStep
  <2>9. Effect(shapes, tokens, next, more, "operator_output", "hidden", "ffn_output", layer,
               {"operator_output"}, FALSE)
    BY <2>8 DEF SingleDone
  <2> HIDE DEF down8
  <2>10. more = done \o ops /\ ops \in Seq(Ops)
    <3>1. more = done \o (<<silu8>> \o <<down8>>) /\ <<silu8>> \o <<down8>> \in Seq(Ops)
      BY <1>0, <1>1, <2>5, JoinOn
    <3>. QED
      BY <2>4, <3>1, PairJoined
  <2> HIDE DEF more, ops
  <2>11. Keeps(shapes, tokens, done, more, B)
    BY <2>3, <2>9, KeepsOn DEF Effect
  <2>12. Effect(shapes, tokens, done, more, "operator_output", "hidden", "ffn_output", layer, B, FALSE)
    BY <2>3, <2>9, <2>11 DEF Effect
  <2>. QED
    BY <2>10, <2>12 DEF DownDone, ops
<1>4. CASE <<layer, "down">> \notin Fp8Sites
  <2> DEFINE next == Append(done, silu)
             more == next \o down
  <2>1. SingleReady(shapes, tokens, done, "silu", layer, "", "wide", "gate_up", "activated", "activated",
                    "ffn", "2ffn")
    BY <1>0, <1>2, Names, SiteNames, WidthNames, BufferNames DEF SingleReady
  <2>2. SingleDone(shapes, tokens, done, "silu", layer, "", "wide", "gate_up", "activated", "activated",
                   "ffn", "2ffn")
    BY <2>1, SingleStep
  <2>3. Effect(shapes, tokens, done, next, "activated", "ffn", "activated", layer, {"activated"}, FALSE)
    BY <2>2 DEF SingleDone
  <2>4. ops = <<silu>> \o down
    BY <1>4 DEF Down
  <2> HIDE DEF silu
  <2>5. next \in Seq(Ops) /\ next = done \o <<silu>> /\ <<silu>> \in Seq(Ops)
    BY <1>0, <1>1, Joined
  <2> HIDE DEF next
  <2>6. Passing(shapes, tokens, next) /\ Has(shapes, tokens, next, "activated", "ffn", "activated", layer)
    BY <1>0, <2>3, <2>5 DEF Passing, Effect
  <2>7. LinearReady(shapes, tokens, next, layer, "down", "activated", "activated", "operator_output",
                    "ffn_output", "hidden")
    BY <1>0, <2>6, Names, WidthNames, BufferNames DEF LinearReady
  <2>8. /\ down \in Seq(Ops)
        /\ Effect(shapes, tokens, next, more, "operator_output", "hidden", "ffn_output", layer,
                  {"operator_output", "fp8_input"}, FALSE)
    BY <2>7, LinearStep DEF LinearDone
  <2> HIDE DEF down
  <2>9. more = done \o ops /\ ops \in Seq(Ops)
    BY <1>0, <2>4, <2>5, <2>8, JoinOn
  <2> HIDE DEF more, ops
  <2>10. Keeps(shapes, tokens, done, more, B)
    BY <2>3, <2>8, KeepsOn DEF Effect
  <2>11. Effect(shapes, tokens, done, more, "operator_output", "hidden", "ffn_output", layer, B, FALSE)
    BY <2>3, <2>8, <2>10 DEF Effect
  <2>. QED
    BY <2>9, <2>11 DEF DownDone, ops
<1>. QED
  BY <1>3, <1>4

\* The feed-forward network of a layer, and the normalisation for the next one.
FeedReady(shapes, tokens, done, layer) ==
  /\ Passing(shapes, tokens, done) /\ layer \in DOMAIN Layers
  /\ Has(shapes, tokens, done, "hidden", "hidden", "residual", layer)
  /\ Has(shapes, tokens, done, "operator_output", "hidden", "mixed", layer)

FeedDone(shapes, tokens, done, layer) ==
  /\ FeedForwardOps(layer) \in Seq(Ops)
  /\ Passing(shapes, tokens, done \o FeedForwardOps(layer))
  /\ Has(shapes, tokens, done \o FeedForwardOps(layer), "hidden", "hidden", "residual", layer + 1)
  /\ Has(shapes, tokens, done \o FeedForwardOps(layer), "normalized", "hidden", "normed", layer + 1)
  /\ WrittenAt(shapes, tokens, done \o FeedForwardOps(layer)) = WrittenAt(shapes, tokens, done)

\* It leaves the residual and the input of the layer after it.
LEMMA FeedForwardSteps ==
  ASSUME NEW shapes, NEW tokens, NEW done, NEW layer, FeedReady(shapes, tokens, done, layer)
  PROVE  FeedDone(shapes, tokens, done, layer)
<1> DEFINE add == Op("residual", layer, "", <<"hidden", "operator_output">>, <<"residual", "mixed">>,
                     <<"post_operator", "normalized">>, <<"post_operator", "ffn_input">>, "hidden")
           up == Linear(layer, "gate_up", "normalized", "ffn_input", "wide", "gate_up", "2ffn")
           down == Down(layer)
           again == Op("residual", layer + 1, "", <<"post_operator", "operator_output">>,
                       <<"post_operator", "ffn_output">>, <<"hidden", "normalized">>,
                       <<"residual", "normed">>, "hidden")
           d1 == Append(done, add)
           d2 == d1 \o up
           d3 == d2 \o down
           d4 == Append(d3, again)
<1>0. /\ Passing(shapes, tokens, done) /\ layer \in Nat /\ layer >= 1 /\ layer + 1 \in Nat
      /\ Has(shapes, tokens, done, "hidden", "hidden", "residual", layer)
      /\ Has(shapes, tokens, done, "operator_output", "hidden", "mixed", layer)
      /\ shapes \in Shapes /\ tokens \in 1 .. MaximumTokens /\ done \in Seq(Ops)
      /\ WidthOf(layer, "gate_up") = "hidden"
  BY LayerNumber DEF FeedReady, Passing, WidthOf
<1>1. /\ add \in Ops
      /\ Effect(shapes, tokens, done, d1, "post_operator", "hidden", "post_operator", layer,
                {"post_operator", "normalized"}, FALSE)
      /\ Has(shapes, tokens, d1, "normalized", "hidden", "ffn_input", layer)
  <2>1. ResidualReady(shapes, tokens, done, layer, layer, "hidden", "residual", "mixed", "post_operator",
                      "post_operator", "ffn_input")
    BY <1>0, Names, BufferNames DEF ResidualReady
  <2>. QED
    BY <2>1, ResidualStep DEF ResidualDone
<1> HIDE DEF add
<1>2. d1 \in Seq(Ops) /\ d1 = done \o <<add>> /\ <<add>> \in Seq(Ops)
  BY <1>0, <1>1, Joined
<1> HIDE DEF d1
<1>3. /\ Passing(shapes, tokens, d1) /\ WrittenAt(shapes, tokens, d1) = WrittenAt(shapes, tokens, done)
      /\ Has(shapes, tokens, d1, "post_operator", "hidden", "post_operator", layer)
  BY <1>0, <1>1, <1>2 DEF Passing, Effect
<1>4. /\ up \in Seq(Ops)
      /\ Effect(shapes, tokens, d1, d2, "wide", "2ffn", "gate_up", layer, {"wide", "fp8_input"}, FALSE)
  <2>1. LinearReady(shapes, tokens, d1, layer, "gate_up", "normalized", "ffn_input", "wide", "gate_up", "2ffn")
    BY <1>0, <1>1, <1>3, Names, WidthNames, BufferNames DEF LinearReady
  <2>. QED
    BY <2>1, LinearStep DEF LinearDone
<1> HIDE DEF up
<1>5. d2 = done \o (<<add>> \o up) /\ <<add>> \o up \in Seq(Ops) /\ d2 \in Seq(Ops)
  BY <1>0, <1>2, <1>4, JoinOn, Joined
<1> HIDE DEF d2
<1>6. /\ Passing(shapes, tokens, d2) /\ WrittenAt(shapes, tokens, d2) = WrittenAt(shapes, tokens, done)
      /\ Has(shapes, tokens, d2, "wide", "2ffn", "gate_up", layer)
      /\ Has(shapes, tokens, d2, "post_operator", "hidden", "post_operator", layer)
  <2>1. Has(shapes, tokens, d2, "post_operator", "hidden", "post_operator", layer)
    BY <1>3, <1>4, BufferNames, HasKept DEF Effect
  <2>. QED
    BY <1>0, <1>3, <1>4, <1>5, <2>1 DEF Passing, Effect
<1>7. /\ down \in Seq(Ops)
      /\ Effect(shapes, tokens, d2, d3, "operator_output", "hidden", "ffn_output", layer,
                {"fp8_input", "activated", "operator_output"}, FALSE)
  <2>1. DownReady(shapes, tokens, d2, layer)
    BY <1>0, <1>6 DEF DownReady
  <2>. QED
    BY <2>1, DownSteps DEF DownDone
<1> HIDE DEF down
<1>8. d3 = done \o ((<<add>> \o up) \o down) /\ (<<add>> \o up) \o down \in Seq(Ops) /\ d3 \in Seq(Ops)
  BY <1>0, <1>5, <1>7, JoinOn, Joined
<1> HIDE DEF d3
<1>9. /\ Passing(shapes, tokens, d3) /\ WrittenAt(shapes, tokens, d3) = WrittenAt(shapes, tokens, done)
      /\ Has(shapes, tokens, d3, "operator_output", "hidden", "ffn_output", layer)
      /\ Has(shapes, tokens, d3, "post_operator", "hidden", "post_operator", layer)
  <2>1. Has(shapes, tokens, d3, "post_operator", "hidden", "post_operator", layer)
    BY <1>6, <1>7, BufferNames, HasKept DEF Effect
  <2>. QED
    BY <1>0, <1>6, <1>7, <1>8, <2>1 DEF Passing, Effect
<1>10. /\ again \in Ops
       /\ Effect(shapes, tokens, d3, d4, "hidden", "hidden", "residual", layer + 1, {"hidden", "normalized"}, FALSE)
       /\ Has(shapes, tokens, d4, "normalized", "hidden", "normed", layer + 1)
  <2>1. layer = IF layer + 1 > 1 /\ "post_operator" = "post_operator" THEN (layer + 1) - 1 ELSE layer + 1
    BY <1>0
  <2>2. ResidualReady(shapes, tokens, d3, layer + 1, layer, "post_operator", "post_operator", "ffn_output",
                      "hidden", "residual", "normed")
    BY <1>0, <1>9, <2>1, Names, BufferNames DEF ResidualReady
  <2>. QED
    BY <2>2, ResidualStep DEF ResidualDone
<1> HIDE DEF again
<1>11. /\ d4 = done \o (((<<add>> \o up) \o down) \o <<again>>)
       /\ ((<<add>> \o up) \o down) \o <<again>> \in Seq(Ops) /\ d4 \in Seq(Ops)
  <2> DEFINE p == (<<add>> \o up) \o down
  <2>1. p \in Seq(Ops) /\ d3 = done \o p
    BY <1>8
  <2> HIDE DEF p
  <2>2. Append(done \o p, again) = done \o (p \o <<again>>) /\ p \o <<again>> \in Seq(Ops)
    BY <1>0, <1>10, <2>1, JoinOn
  <2>3. done \o (p \o <<again>>) \in Seq(Ops)
    BY <1>0, <2>2, Joined
  <2>. QED
    BY <2>1, <2>2, <2>3 DEF p
<1>12. FeedForwardOps(layer) = ((<<add>> \o up) \o down) \o <<again>>
  BY DEF FeedForwardOps, Down, add, up, down, again
<1> HIDE DEF d4
<1>13. /\ Passing(shapes, tokens, d4) /\ WrittenAt(shapes, tokens, d4) = WrittenAt(shapes, tokens, done)
       /\ Has(shapes, tokens, d4, "hidden", "hidden", "residual", layer + 1)
  BY <1>0, <1>9, <1>10, <1>11 DEF Passing, Effect
<1>. QED
  BY <1>10, <1>11, <1>12, <1>13 DEF FeedDone

-----------------------------------------------------------------------------
(* A whole pass.                                                           *)

\* Any logical shapes may be what a pass begins with.
LEMMA PassBegins ==
  ASSUME NEW shapes \in Shapes, NEW tokens \in 1 .. MaximumTokens
  PROVE  /\ Passing(shapes, tokens, << >>)
         /\ WrittenAt(shapes, tokens, << >>) = [l \in DOMAIN Layers |-> 0]
<1>1. << >> \in Seq(Ops) /\ << >> \in Seq(Launches) /\ DOMAIN << >> = {}
  <2> HIDE DEF Ops, Launches
  <2>. QED
    OBVIOUS
<1>2. /\ Issued(shapes, tokens, << >>) = HostFrom(shapes, tokens)
      /\ Issued(Uniform(tokens), tokens, << >>) = HostFrom(Uniform(tokens), tokens)
  BY IssuedNone
<1>3. /\ ShapeAt(shapes, tokens, << >>) = shapes /\ LaunchesAt(shapes, tokens, << >>) = << >>
      /\ ShapeAt(Uniform(tokens), tokens, << >>) = Uniform(tokens)
  BY <1>2 DEF ShapeAt, LaunchesAt, HostFrom
<1>4. HostGood(shapes, tokens, << >>)
  BY <1>1, <1>2, <1>3 DEF HostGood, HostFrom
<1>5. LaunchesGood(shapes, tokens, << >>)
  BY <1>1, <1>3 DEF LaunchesGood
<1>6. DeviceAt(shapes, tokens, << >>) = DeviceStart
  BY <1>3, RunNone DEF DeviceAt
<1>7. DeviceGood(shapes, tokens, << >>)
  <2>1. Stale \in Values
    <3>1. 0 \in Nat /\ 0 \in 0 .. MaximumTokens
      BY ExecutorAssumption
    <3>. QED
      BY <3>1, Names DEF Stale, Values
  <2>2. DeviceStart.content \in [Buffers -> Values] /\ DeviceStart.written \in [DOMAIN Layers -> Nat]
    BY <2>1 DEF DeviceStart
  <2>. QED
    BY <1>6, <2>2 DEF DeviceGood
<1>8. LaunchesUniform(shapes, tokens, << >>)
  <2>1. Issued(Uniform(tokens), tokens, << >>)
          = [shape |-> ShapeAt(Uniform(tokens), tokens, << >>), tokens |-> tokens,
             launches |-> LaunchesAt(shapes, tokens, << >>), ok |-> TRUE]
    BY <1>2, <1>3, Zenon DEF HostFrom
  <2>2. \A b \in Buffers : Uniform(tokens)[b][1] = tokens
    BY DEF Uniform
  <2>3. TRUE \in BOOLEAN
    OBVIOUS
  <2>4. \E ok \in BOOLEAN : Issued(Uniform(tokens), tokens, << >>)
               = [shape |-> ShapeAt(Uniform(tokens), tokens, << >>), tokens |-> tokens,
                  launches |-> LaunchesAt(shapes, tokens, << >>), ok |-> ok]
    BY <2>1, <2>3, Zenon
  <2>. QED
    BY <1>3, <2>2, <2>4 DEF LaunchesUniform
<1>9. WrittenAt(shapes, tokens, << >>) = [l \in DOMAIN Layers |-> 0]
  BY <1>6 DEF WrittenAt, DeviceStart
<1>. QED
  BY <1>1, <1>4, <1>5, <1>7, <1>8, <1>9 DEF Passing, Doing

\* Each layer before l has been written once, and l finds its inputs.
LayerAt(shapes, tokens, done, l) ==
  /\ Passing(shapes, tokens, done)
  /\ Has(shapes, tokens, done, "hidden", "hidden", "residual", l)
  /\ Has(shapes, tokens, done, "normalized", "hidden", "normed", l)
  /\ WrittenAt(shapes, tokens, done) = [k \in DOMAIN Layers |-> IF k < l THEN 1 ELSE 0]

\* The first layer finds the embedding of the tokens, normalised.
LEMMA EmbedSteps ==
  ASSUME NEW shapes \in Shapes, NEW tokens \in 1 .. MaximumTokens
  PROVE  LayerAt(shapes, tokens, EmbedOps, 1)
<1> DEFINE embed == Op("embed", 1, "", << >>, << >>, <<"hidden">>, <<"residual">>, "hidden")
           norm == Op("norm", 1, "", <<"hidden">>, <<"residual">>, <<"normalized">>, <<"normed">>, "hidden")
           none == << >>
           d1 == Append(none, embed)
           d2 == Append(d1, norm)
<1>1. Passing(shapes, tokens, none) /\ WrittenAt(shapes, tokens, none) = [l \in DOMAIN Layers |-> 0]
      /\ none \in Seq(Ops)
  BY PassBegins DEF Passing
<1>2. embed \in Ops /\ norm \in Ops
  <2>1. <<"hidden">> \in Seq(Buffers) /\ <<"normalized">> \in Seq(Buffers)
    BY BufferNames, Lists
  <2>2. <<"residual">> \in Seq(Words) /\ <<"normed">> \in Seq(Words)
    BY Names, Lists
  <2>3. << >> \in Seq(Buffers) /\ << >> \in Seq(Words)
    OBVIOUS
  <2>. QED
    BY <2>1, <2>2, <2>3, Names, SiteNames, WidthNames, OpIn
<1> HIDE DEF none
<1>3. /\ Doing(shapes, tokens, d1) /\ Has(shapes, tokens, d1, "hidden", "hidden", "residual", 1)
      /\ WrittenAt(shapes, tokens, d1) = WrittenAt(shapes, tokens, none)
  BY <1>1, EmbedStep DEF Passing
<1>4. EmbedOps = d2
  <2>1. EmbedOps = <<embed, norm>>
    BY DEF EmbedOps
  <2> HIDE DEF embed, norm
  <2>2. d1 = <<embed>>
    BY DEF none
  <2>3. Append(<<embed>>, norm) = <<embed>> \o <<norm>> /\ <<embed>> \in Seq(Ops)
    BY <1>2, Joined
  <2>. QED
    BY <2>1, <2>2, <2>3, PairJoined
<1>5. d1 \in Seq(Ops)
  <2> HIDE DEF embed
  <2>. QED
    BY <1>1, <1>2, Joined
<1> HIDE DEF d1
<1>6. Passing(shapes, tokens, d1)
  BY <1>3, <1>5 DEF Passing
<1>7. Effect(shapes, tokens, d1, d2, "normalized", "hidden", "normed", 1, {"normalized"}, FALSE)
  <2>1. "norm" \in SingleOps
    BY DEF SingleOps
  <2>2. SingleReady(shapes, tokens, d1, "norm", 1, "", "hidden", "residual", "normalized", "normed",
                    "hidden", "hidden")
    BY <1>3, <1>6, <2>1, Names, SiteNames, WidthNames, BufferNames DEF SingleReady
  <2>3. SingleDone(shapes, tokens, d1, "norm", 1, "", "hidden", "residual", "normalized", "normed",
                   "hidden", "hidden")
    BY <2>2, SingleStep
  <2>. QED
    BY <2>3 DEF SingleDone
<1> HIDE DEF norm
<1>8. d2 \in Seq(Ops)
  BY <1>2, <1>5, Joined
<1> HIDE DEF d2
<1>9. Has(shapes, tokens, d2, "hidden", "hidden", "residual", 1)
  BY <1>3, <1>7, BufferNames, HasKept DEF Effect
<1>10. WrittenAt(shapes, tokens, d2) = [k \in DOMAIN Layers |-> IF k < 1 THEN 1 ELSE 0]
  <2>1. \A k \in DOMAIN Layers : ~(k < 1)
    BY LayerNumber
  <2>2. WrittenAt(shapes, tokens, d2) = [l \in DOMAIN Layers |-> 0]
    BY <1>1, <1>3, <1>7 DEF Effect
  <2>. QED
    BY <2>1, <2>2
<1>11. Passing(shapes, tokens, d2) /\ Has(shapes, tokens, d2, "normalized", "hidden", "normed", 1)
  BY <1>7, <1>8 DEF Passing, Effect
<1>. QED
  BY <1>4, <1>9, <1>10, <1>11 DEF LayerAt

\* A layer leads to the next one.
LEMMA LayerSteps ==
  ASSUME NEW shapes, NEW tokens, NEW context \in Nat, NEW done, NEW l \in DOMAIN Layers,
         LayerAt(shapes, tokens, done, l)
  PROVE  /\ LayerOps(l, tokens, context) \in Seq(Ops)
         /\ LayerAt(shapes, tokens, done \o LayerOps(l, tokens, context), l + 1)
<1> DEFINE mix == IF Layers[l] = "conv" THEN ConvOps(l) ELSE AttentionOps(l, tokens, context)
           feed == FeedForwardOps(l)
           d1 == done \o mix
           d2 == d1 \o feed
<1>0. done \in Seq(Ops) /\ l \in Nat /\ l >= 1
  BY LayerNumber DEF LayerAt, Passing
<1>1. MixReady(shapes, tokens, done, l)
  BY DEF LayerAt, MixReady
<1>2. MixDone(shapes, tokens, done, l, mix)
  BY <1>1, ConvSteps, AttentionSteps
<1>3. LayerOps(l, tokens, context) = mix \o feed
  BY DEF LayerOps
<1> HIDE DEF mix
<1>4. FeedReady(shapes, tokens, d1, l)
  BY <1>2 DEF MixDone, FeedReady
<1>5. FeedDone(shapes, tokens, d1, l)
  BY <1>4, FeedForwardSteps
<1>6. mix \in Seq(Ops) /\ feed \in Seq(Ops)
  BY <1>2, <1>5 DEF MixDone, FeedDone
<1> HIDE DEF feed
<1>7. d2 = done \o (mix \o feed) /\ mix \o feed \in Seq(Ops)
  BY <1>0, <1>6, JoinOn
<1>8. WrittenAt(shapes, tokens, d2) = [k \in DOMAIN Layers |-> IF k < l + 1 THEN 1 ELSE 0]
  <2>1. WrittenAt(shapes, tokens, d2) = [WrittenAt(shapes, tokens, done) EXCEPT ![l] = @ + 1]
    BY <1>2, <1>5 DEF MixDone, FeedDone, feed
  <2>2. WrittenAt(shapes, tokens, done) = [k \in DOMAIN Layers |-> IF k < l THEN 1 ELSE 0]
    BY DEF LayerAt
  <2>3. \A k \in DOMAIN Layers : k \in Nat
    BY LayerNumber
  <2>. QED
    BY <1>0, <2>1, <2>2, <2>3
<1>9. /\ Passing(shapes, tokens, d2)
      /\ Has(shapes, tokens, d2, "hidden", "hidden", "residual", l + 1)
      /\ Has(shapes, tokens, d2, "normalized", "hidden", "normed", l + 1)
  BY <1>5 DEF FeedDone, feed
<1>. QED
  BY <1>3, <1>7, <1>8, <1>9 DEF LayerAt

\* The operations up to layer k.
IsThrough(f, tokens, context, k) ==
  /\ f = [l \in 0 .. k |-> f[l]]
  /\ f[0] = EmbedOps
  /\ \A l \in 1 .. k : f[l] = f[l - 1] \o LayerOps(l, tokens, context)

\* However many layers there are, a list goes through them.
LEMMA ThroughExists ==
  ASSUME NEW tokens, NEW context
  PROVE  \A k \in Nat : \E f : IsThrough(f, tokens, context, k)
<1> DEFINE S == {k \in Nat : ~\E f : IsThrough(f, tokens, context, k)}
<1>1. SUFFICES ASSUME S # {} PROVE FALSE
  OBVIOUS
<1>2. PICK m \in S : \A n \in S : m <= n
  BY <1>1, LeastExists
<1>3. m \in Nat /\ ~\E f : IsThrough(f, tokens, context, m)
  BY <1>2
<1>4. m # 0
  <2>1. IsThrough([l \in 0 .. 0 |-> EmbedOps], tokens, context, 0)
    BY DEF IsThrough
  <2>. QED
    BY <2>1, <1>3
<1>5. m - 1 \in Nat /\ m - 1 < m
  BY <1>3, <1>4
<1>6. m - 1 \notin S
  <2>1. ~(m <= m - 1)
    BY <1>3
  <2>. QED
    BY <2>1, <1>2
<1>7. PICK f : IsThrough(f, tokens, context, m - 1)
  BY <1>5, <1>6
<1> DEFINE g == [l \in 0 .. m |-> IF l = m THEN f[m - 1] \o LayerOps(m, tokens, context) ELSE f[l]]
<1>8. IsThrough(g, tokens, context, m)
  <2>1. g[0] = EmbedOps
    BY <1>3, <1>4, <1>7 DEF IsThrough
  <2>2. ASSUME NEW l \in 1 .. m PROVE g[l] = g[l - 1] \o LayerOps(l, tokens, context)
    <3>1. l \in 0 .. m /\ l - 1 \in 0 .. m /\ l - 1 # m
      BY <1>3
    <3>2. g[l - 1] = f[l - 1]
      BY <3>1
    <3>3. CASE l = m
      BY <3>1, <3>2, <3>3
    <3>4. CASE l # m
      <4>1. l \in 1 .. m - 1
        BY <1>3, <3>4
      <4>2. f[l] = f[l - 1] \o LayerOps(l, tokens, context)
        BY <4>1, <1>7 DEF IsThrough
      <4>. QED
        BY <3>1, <3>2, <3>4, <4>2
    <3>. QED
      BY <3>3, <3>4
  <2>3. g = [l \in 0 .. m |-> g[l]]
    OBVIOUS
  <2>. HIDE DEF g
  <2>. QED
    BY <2>1, <2>2, <2>3 DEF IsThrough
<1>. QED
  BY <1>3, <1>8

\* Steps that mix alike go through the same list.
LEMMA ThroughUnique ==
  ASSUME NEW tokens, NEW context, NEW other, NEW k \in Nat, NEW f, NEW g,
         IsThrough(f, tokens, context, k), IsThrough(g, tokens, other, k),
         \A l \in 1 .. k : LayerOps(l, tokens, context) = LayerOps(l, tokens, other)
  PROVE  f = g
<1> DEFINE S == {l \in 0 .. k : f[l] # g[l]}
<1>1. S = {}
  <2>1. SUFFICES ASSUME S # {} PROVE FALSE
    OBVIOUS
  <2>2. S \subseteq Nat
    OBVIOUS
  <2>3. PICK m \in S : \A n \in S : m <= n
    BY <2>1, <2>2, LeastExists
  <2>4. m \in 0 .. k /\ f[m] # g[m]
    BY <2>3
  <2>5. m # 0
    BY <2>4 DEF IsThrough
  <2>6. m \in 1 .. k /\ m - 1 \in 0 .. k /\ ~(m <= m - 1)
    BY <2>4, <2>5
  <2>7. f[m - 1] = g[m - 1]
    BY <2>3, <2>6
  <2>8. /\ f[m] = f[m - 1] \o LayerOps(m, tokens, context)
        /\ g[m] = g[m - 1] \o LayerOps(m, tokens, other)
    BY <2>6 DEF IsThrough
  <2>. QED
    BY <2>4, <2>6, <2>7, <2>8
<1>2. \A l \in 0 .. k : f[l] = g[l]
  BY <1>1
<1>3. f = [l \in 0 .. k |-> f[l]] /\ g = [l \in 0 .. k |-> g[l]]
  BY DEF IsThrough
<1>4. [l \in 0 .. k |-> f[l]] = [l \in 0 .. k |-> g[l]]
  BY <1>2
<1>. QED
  BY <1>3, <1>4, Zenon

\* The operations of a pass are those through all layers, and the head's.
LEMMA ForwardIs ==
  ASSUME NEW tokens, NEW context
  PROVE  \E f : /\ IsThrough(f, tokens, context, Len(Layers))
                /\ ForwardOps(tokens, context) = f[Len(Layers)] \o HeadOps
<1> DEFINE n == Len(Layers)
           F(f) == [l \in 0 .. n |-> IF l = 0 THEN EmbedOps
                                     ELSE f[l - 1] \o LayerOps(l, tokens, context)]
           c == CHOOSE f : f = F(f)
<1>0. n \in Nat
  BY ExecutorAssumption
<1>1. ForwardOps(tokens, context) = c[n] \o HeadOps
  BY Zenon DEF ForwardOps
<1>2. PICK g : IsThrough(g, tokens, context, n)
  BY <1>0, ThroughExists
<1>3. g = F(g)
  <2>1. ASSUME NEW l \in 0 .. n
        PROVE  g[l] = IF l = 0 THEN EmbedOps ELSE g[l - 1] \o LayerOps(l, tokens, context)
    <3>1. CASE l = 0
      BY <1>2, <3>1 DEF IsThrough
    <3>2. CASE l # 0
      <4>1. l \in 1 .. n
        BY <1>0, <3>2
      <4>2. g[l] = g[l - 1] \o LayerOps(l, tokens, context)
        BY <1>2, <4>1 DEF IsThrough
      <4>. QED
        BY <3>2, <4>2
    <3>. QED
      BY <3>1, <3>2
  <2>2. g = [l \in 0 .. n |-> g[l]]
    BY <1>2 DEF IsThrough
  <2>. QED
    BY <2>1, <2>2
<1>4. c = F(c)
  <2>. HIDE DEF F
  <2>. QED
    BY <1>3
<1>5. IsThrough(c, tokens, context, n)
  <2>. HIDE DEF c
  <2>1. \A l \in 0 .. n : c[l] = IF l = 0 THEN EmbedOps ELSE c[l - 1] \o LayerOps(l, tokens, context)
    BY <1>4
  <2>2. c = [l \in 0 .. n |-> c[l]]
    BY <1>4, <2>1
  <2>3. c[0] = EmbedOps
    BY <1>0, <2>1
  <2>4. ASSUME NEW l \in 1 .. n PROVE c[l] = c[l - 1] \o LayerOps(l, tokens, context)
    <3>1. l \in 0 .. n /\ l # 0
      BY <1>0
    <3>2. c[l] = IF l = 0 THEN EmbedOps ELSE c[l - 1] \o LayerOps(l, tokens, context)
      BY <2>1, <3>1
    <3>. QED
      BY <3>1, <3>2
  <2>. QED
    BY <2>2, <2>3, <2>4 DEF IsThrough
<1>. QED
  BY <1>1, <1>5

\* Through any number of layers, each finds its inputs and leaves them to the next.
LEMMA ThroughSteps ==
  ASSUME NEW shapes \in Shapes, NEW tokens \in 1 .. MaximumTokens, NEW context \in Nat, NEW f,
         IsThrough(f, tokens, context, Len(Layers))
  PROVE  LayerAt(shapes, tokens, f[Len(Layers)], Final)
<1> DEFINE n == Len(Layers)
           S == {l \in 0 .. n : ~LayerAt(shapes, tokens, f[l], l + 1)}
<1>0. n \in Nat /\ DOMAIN Layers = 1 .. n
  BY ExecutorAssumption
<1>1. S = {}
  <2>1. SUFFICES ASSUME S # {} PROVE FALSE
    OBVIOUS
  <2>2. S \subseteq Nat
    OBVIOUS
  <2>3. PICK m \in S : \A k \in S : m <= k
    BY <2>1, <2>2, LeastExists
  <2>4. m \in 0 .. n /\ ~LayerAt(shapes, tokens, f[m], m + 1)
    BY <2>3
  <2>5. m # 0
    <3>1. f[0] = EmbedOps
      BY DEF IsThrough
    <3>2. LayerAt(shapes, tokens, f[0], 0 + 1)
      <4>1. 0 + 1 = 1
        OBVIOUS
      <4>. QED
        BY <3>1, <4>1, EmbedSteps
    <3>. QED
      BY <2>4, <3>2
  <2>6. m \in 1 .. n /\ m - 1 \in 0 .. n /\ ~(m <= m - 1) /\ (m - 1) + 1 = m
    BY <1>0, <2>4, <2>5
  <2>7. LayerAt(shapes, tokens, f[m - 1], m)
    BY <2>3, <2>6
  <2>8. f[m] = f[m - 1] \o LayerOps(m, tokens, context)
    BY <2>6 DEF IsThrough
  <2>9. LayerAt(shapes, tokens, f[m], m + 1)
    BY <1>0, <2>6, <2>7, <2>8, LayerSteps
  <2>. QED
    BY <2>4, <2>9
<1>2. n \in 0 .. n
  BY <1>0
<1>. QED
  BY <1>1, <1>2 DEF Final

\* A pass over any shapes: every check holds, and the tokens sampled are those of the
\* network for this step, with each layer's state written once.
PassDone(shapes, tokens, context) ==
  LET ops == ForwardOps(tokens, context)
  IN  /\ Passing(shapes, tokens, ops)
      /\ Has(shapes, tokens, ops, "sampled", "one", "sampled", Final)
      /\ WrittenAt(shapes, tokens, ops) = [l \in DOMAIN Layers |-> 1]

\* Whatever shapes it begins with, a pass is done so.
LEMMA ForwardSteps ==
  ASSUME NEW shapes \in Shapes, NEW tokens \in 1 .. MaximumTokens, NEW context \in Nat
  PROVE  PassDone(shapes, tokens, context)
<1>1. PICK f : /\ IsThrough(f, tokens, context, Len(Layers))
               /\ ForwardOps(tokens, context) = f[Len(Layers)] \o HeadOps
  BY ForwardIs
<1> DEFINE done == f[Len(Layers)]
           head == Linear(Final, "head", "normalized", "normed", "logits", "logits", "vocab")
           argmax == Op("argmax", Final, "", <<"logits">>, <<"logits">>, <<"sampled">>, <<"sampled">>, "one")
           d1 == done \o head
           d2 == Append(d1, argmax)
<1>2. LayerAt(shapes, tokens, done, Final)
  BY <1>1, ThroughSteps
<1>3. ForwardOps(tokens, context) = done \o HeadOps
  BY <1>1
<1>4. Final \in Nat /\ \A k \in DOMAIN Layers : k < Final
  BY ExecutorAssumption DEF Final
<1> HIDE DEF done
<1>5. done \in Seq(Ops)
  BY <1>2 DEF LayerAt, Passing
<1>6. WidthOf(Final, "head") = "hidden"
  BY DEF WidthOf
<1>7. /\ head \in Seq(Ops)
      /\ Effect(shapes, tokens, done, d1, "logits", "vocab", "logits", Final, {"logits", "fp8_input"}, FALSE)
  <2>1. LinearReady(shapes, tokens, done, Final, "head", "normalized", "normed", "logits", "logits", "vocab")
    BY <1>2, <1>4, <1>6, Names, WidthNames, BufferNames DEF LinearReady, LayerAt
  <2>. QED
    BY <2>1, LinearStep DEF LinearDone
<1>8. HeadOps = head \o <<argmax>>
  BY DEF HeadOps
<1> HIDE DEF head
<1>9. d1 \in Seq(Ops)
  BY <1>5, <1>7, Joined
<1>10. argmax \in Ops
  <2>1. <<"logits">> \in Seq(Buffers) /\ <<"sampled">> \in Seq(Buffers)
    BY BufferNames, Lists
  <2>2. <<"logits">> \in Seq(Words) /\ <<"sampled">> \in Seq(Words)
    BY Names, Lists
  <2>. QED
    BY <1>4, <2>1, <2>2, Names, SiteNames, WidthNames, OpIn
<1>11. d2 = ForwardOps(tokens, context)
  <2> HIDE DEF argmax
  <2>. QED
    BY <1>3, <1>5, <1>7, <1>8, <1>10, JoinOn
<1> HIDE DEF d1
<1>12. Passing(shapes, tokens, d1) /\ Has(shapes, tokens, d1, "logits", "vocab", "logits", Final)
       /\ WrittenAt(shapes, tokens, d1) = WrittenAt(shapes, tokens, done)
  BY <1>2, <1>7, <1>9 DEF Passing, Effect, LayerAt
<1>13. Effect(shapes, tokens, d1, d2, "sampled", "one", "sampled", Final, {"sampled"}, FALSE)
  <2>1. "argmax" \in SingleOps
    BY DEF SingleOps
  <2>2. SingleReady(shapes, tokens, d1, "argmax", Final, "", "logits", "logits", "sampled", "sampled",
                    "one", "vocab")
    BY <1>4, <1>12, <2>1, Names, SiteNames, WidthNames, BufferNames DEF SingleReady
  <2>3. SingleDone(shapes, tokens, d1, "argmax", Final, "", "logits", "logits", "sampled", "sampled",
                   "one", "vocab")
    BY <2>2, SingleStep
  <2>. QED
    BY <2>3 DEF SingleDone
<1>14. d2 \in Seq(Ops)
  <2> HIDE DEF argmax
  <2>. QED
    BY <1>9, <1>10, Joined
<1> HIDE DEF d2
<1>15. WrittenAt(shapes, tokens, d2) = [l \in DOMAIN Layers |-> 1]
  <2>1. WrittenAt(shapes, tokens, d2) = [k \in DOMAIN Layers |-> IF k < Final THEN 1 ELSE 0]
    BY <1>2, <1>12, <1>13 DEF Effect, LayerAt
  <2>. QED
    BY <1>4, <2>1
<1>16. Passing(shapes, tokens, d2) /\ Has(shapes, tokens, d2, "sampled", "one", "sampled", Final)
  BY <1>2, <1>13, <1>14 DEF Passing, Effect, LayerAt
<1>. QED
  BY <1>11, <1>15, <1>16 DEF PassDone

\* What a pass issues does not depend on the shapes that earlier steps left.
LEMMA LaunchesAlike ==
  ASSUME NEW shapes \in Shapes, NEW others \in Shapes, NEW tokens \in 1 .. MaximumTokens,
         NEW context \in Nat
  PROVE  HostPass(shapes, tokens, context).launches = HostPass(others, tokens, context).launches
<1> DEFINE ops == ForwardOps(tokens, context)
<1>1. PassDone(shapes, tokens, context) /\ PassDone(others, tokens, context)
  BY ForwardSteps
<1>2. LaunchesUniform(shapes, tokens, ops) /\ LaunchesUniform(others, tokens, ops)
  BY <1>1 DEF PassDone, Passing, Doing
<1> HIDE DEF ops
<1>3. /\ Issued(Uniform(tokens), tokens, ops).launches = LaunchesAt(shapes, tokens, ops)
      /\ Issued(Uniform(tokens), tokens, ops).launches = LaunchesAt(others, tokens, ops)
  BY <1>2 DEF LaunchesUniform
<1>. QED
  BY <1>3 DEF HostPass, LaunchesAt, ops

\* Nor on the context, as long as the kernels are the same.
LEMMA OpsAlike ==
  ASSUME NEW tokens, NEW context, NEW other,
         ~should_use_mok_one_kernel(page_size, context, tokens),
         ~should_use_mok_one_kernel(page_size, other, tokens),
         Splits(tokens, context) = Splits(tokens, other)
  PROVE  ForwardOps(tokens, context) = ForwardOps(tokens, other)
<1>1. \A l : AttentionOps(l, tokens, context) = AttentionOps(l, tokens, other)
  BY DEF AttentionOps
<1>2. \A l \in 1 .. Len(Layers) : LayerOps(l, tokens, context) = LayerOps(l, tokens, other)
  BY <1>1 DEF LayerOps
<1>3. PICK f : /\ IsThrough(f, tokens, context, Len(Layers))
               /\ ForwardOps(tokens, context) = f[Len(Layers)] \o HeadOps
  BY ForwardIs
<1>4. PICK g : /\ IsThrough(g, tokens, other, Len(Layers))
               /\ ForwardOps(tokens, other) = g[Len(Layers)] \o HeadOps
  BY ForwardIs
<1>5. Len(Layers) \in Nat
  BY ExecutorAssumption
<1>6. f = g
  BY <1>2, <1>3, <1>4, <1>5, ThroughUnique
<1>. QED
  BY <1>3, <1>4, <1>6

\* So all steps of a bucket issue the same.
LEMMA BucketAlike ==
  ASSUME NEW shapes \in Shapes, NEW others \in Shapes,
         NEW tokens \in 1 .. MaximumTokens, NEW context \in Contexts,
         NEW more \in 1 .. MaximumTokens, NEW other \in Contexts,
         cuda_graph_bucket(tokens, context) = cuda_graph_bucket(more, other),
         cuda_graph_bucket(tokens, context) # Unbucketed
  PROVE  /\ tokens = 1 /\ more = 1
         /\ HostPass(shapes, tokens, context).launches = HostPass(others, more, other).launches
<1>1. context \in Nat /\ other \in Nat
  BY ExecutorAssumption
<1>2. tokens = 1 /\ more = 1
  BY DEF cuda_graph_bucket
<1>3. /\ ~should_use_mok_one_kernel(page_size, context, tokens)
      /\ ~should_use_mok_one_kernel(page_size, other, tokens)
  BY <1>2 DEF cuda_graph_bucket
<1>4. Splits(tokens, context) = Splits(tokens, other)
  BY <1>2 DEF cuda_graph_bucket, Unbucketed
<1>5. ForwardOps(tokens, context) = ForwardOps(tokens, other)
  BY <1>3, <1>4, OpsAlike
<1>6. HostPass(others, tokens, context) = HostPass(others, more, other)
  BY <1>2, <1>5 DEF HostPass
<1>. QED
  BY <1>1, <1>2, <1>6, LaunchesAlike

\* What a step makes of its launches.
LEMMA PassResult ==
  ASSUME NEW shapes \in Shapes, NEW tokens \in 1 .. MaximumTokens, NEW context \in Contexts
  PROVE  LET pass == HostPass(shapes, tokens, context)
             device == Run(pass.launches)
         IN  /\ pass.shape \in Shapes /\ pass.ok = TRUE
             /\ pass.shape["sampled"] = <<tokens, "one">>
             /\ PlansOf(pass.launches) \subseteq PreparedPlans
             /\ \A b \in Buffers : device.content[b].rows \in 0 .. MaximumTokens
             /\ device.content["sampled"] = Val("sampled", Final, tokens)
             /\ device.written = [l \in DOMAIN Layers |-> 1]
<1> DEFINE ops == ForwardOps(tokens, context)
           pass == HostPass(shapes, tokens, context)
           device == Run(pass.launches)
<1>1. context \in Nat
  BY ExecutorAssumption
<1>2. PassDone(shapes, tokens, context)
  BY <1>1, ForwardSteps
<1>3. /\ HostGood(shapes, tokens, ops) /\ LaunchesGood(shapes, tokens, ops) /\ DeviceGood(shapes, tokens, ops)
      /\ Has(shapes, tokens, ops, "sampled", "one", "sampled", Final)
      /\ WrittenAt(shapes, tokens, ops) = [l \in DOMAIN Layers |-> 1]
  BY <1>2 DEF PassDone, Passing, Doing
<1>4. pass = Issued(shapes, tokens, ops)
  BY DEF HostPass
<1> HIDE DEF ops, pass
<1>5. /\ ShapeAt(shapes, tokens, ops) = pass.shape /\ LaunchesAt(shapes, tokens, ops) = pass.launches
      /\ DeviceAt(shapes, tokens, ops) = device
  BY <1>4 DEF ShapeAt, LaunchesAt, DeviceAt
<1>6. pass.shape \in Shapes /\ pass.ok = TRUE
  BY <1>3, <1>4, <1>5 DEF HostGood
<1> HIDE DEF device
<1>7. /\ pass.shape["sampled"] = <<tokens, "one">>
      /\ device.content["sampled"] = Val("sampled", Final, tokens)
      /\ device.written = [l \in DOMAIN Layers |-> 1]
  BY <1>3, <1>5 DEF Has, WrittenAt
<1>8. \A b \in Buffers : device.content[b].rows \in 0 .. MaximumTokens
  BY <1>3, <1>5 DEF DeviceGood, Values
<1>9. PlansOf(pass.launches) \subseteq PreparedPlans
  <2> DEFINE ls == pass.launches
  <2>1. ASSUME NEW launch \in Range(ls), launch.op.op = "linear_fp8"
        PROVE  <<launch.rows, <<launch.op.layer, launch.op.site>>>> \in PreparedPlans
    <3>1. PICK i \in DOMAIN ls : launch = ls[i]
      BY DEF Range
    <3>2. launch.rows = tokens /\ <<launch.op.layer, launch.op.site>> \in Fp8Sites
      BY <1>3, <1>5, <2>1, <3>1 DEF LaunchesGood
    <3>. QED
      BY <3>2 DEF PreparedPlans
  <2> HIDE DEF ls
  <2>2. PlansOf(ls) \subseteq PreparedPlans
    BY <2>1 DEF PlansOf
  <2>. QED
    BY <2>2 DEF ls
<1>. QED
  BY <1>6, <1>7, <1>8, <1>9 DEF pass, device

-----------------------------------------------------------------------------
(* The executor, step after step.                                          *)

\* Buckets that have a graph are the two there are.
LEMMA BucketNames ==
  ASSUME NEW tokens, NEW context, cuda_graph_bucket(tokens, context) # Unbucketed
  PROVE  cuda_graph_bucket(tokens, context) \in {"unsplit", "split8"} /\ tokens = 1
<1>1. tokens = 1
  BY DEF cuda_graph_bucket
<1>2. cuda_graph_bucket(tokens, context)
        = CASE Splits(tokens, context) = 1 -> "unsplit"
            [] Splits(tokens, context) = 8 -> "split8"
            [] OTHER -> Unbucketed
  BY Zenon DEF cuda_graph_bucket
<1>. QED
  BY <1>1, <1>2

\* Running the launches of a pass makes a sound step of it, however they were got.
LEMMA StepIsDone ==
  ASSUME NEW sh \in Shapes, NEW tokens \in 1 .. MaximumTokens, NEW context \in Contexts, NEW path,
         path # "none", StepBy(path, tokens, context),
         Executed(HostPass(sh, tokens, context).launches),
         shape' \in Shapes, shape'["sampled"] = <<tokens, "one">>,
         plans' = PreparedPlans, DOMAIN graphs' = {"unsplit", "split8"}, ~failed'
  PROVE  /\ ExecutorTypeOK' /\ SamplesTheNetwork' /\ StateAdvancesOnce' /\ NoPlanWhileCapturing'
         /\ step'.path = path
<1> DEFINE device == Run(HostPass(sh, tokens, context).launches)
<1>1. content' = device.content /\ written' = device.written
  BY DEF Executed
<1>2. /\ \A b \in Buffers : device.content[b].rows \in 0 .. MaximumTokens
      /\ device.content["sampled"] = Val("sampled", Final, tokens)
      /\ device.written = [l \in DOMAIN Layers |-> 1]
  BY PassResult
<1> HIDE DEF device
<1>3. step'.path = path /\ step'.tokens = tokens /\ step'.context = context
  BY DEF StepBy
<1>4. ExecutorTypeOK'
  <2>1. written' \in [DOMAIN Layers -> Nat]
    BY <1>1, <1>2
  <2>2. plans' \subseteq (1 .. MaximumTokens) \X Fp8Sites
    BY DEF PreparedPlans
  <2>. QED
    BY <1>1, <1>2, <1>3, <2>1, <2>2 DEF ExecutorTypeOK, Shapes
<1>5. SamplesTheNetwork'
  BY <1>1, <1>2, <1>3 DEF SamplesTheNetwork
<1>6. StateAdvancesOnce'
  BY <1>1, <1>2 DEF StateAdvancesOnce
<1>7. NoPlanWhileCapturing'
  BY DEF NoPlanWhileCapturing
<1>. QED
  BY <1>3, <1>4, <1>5, <1>6, <1>7

\* Graphs stay right when only the logical shapes change.
LEMMA GraphsStayCurrent ==
  ASSUME GraphsCurrent, shape \in Shapes, shape' \in Shapes, graphs' = graphs
  PROVE  GraphsCurrent'
<1>1. ASSUME NEW tokens \in 1 .. MaximumTokens, NEW context \in Contexts, NEW bucket \in DOMAIN graphs,
             cuda_graph_bucket(tokens, context) = bucket, graphs[bucket] # << >>
      PROVE  graphs[bucket] = HostPass(shape', tokens, context).launches
  <2>1. graphs[bucket] = HostPass(shape, tokens, context).launches
    BY <1>1 DEF GraphsCurrent
  <2>2. context \in Nat
    BY ExecutorAssumption
  <2>. QED
    BY <2>1, <2>2, LaunchesAlike
<1>. QED
  BY <1>1 DEF GraphsCurrent

\* Setting the shape of the sampled tokens.
LEMMA SampledShape ==
  ASSUME NEW sh \in Shapes
  PROVE  /\ [sh EXCEPT !["sampled"] = <<1, "one">>] \in Shapes
         /\ [sh EXCEPT !["sampled"] = <<1, "one">>]["sampled"] = <<1, "one">>
<1>1. <<1, "one">> \in (1 .. MaximumTokens) \X Widths
  BY ExecutorAssumption, WidthNames
<1>. QED
  BY <1>1, BufferNames DEF Shapes

\* A direct pass.
LEMMA DirectIsSound ==
  ASSUME ExecutorSound, NEW tokens \in 1 .. MaximumTokens, NEW context \in Contexts,
         Direct(tokens, context)
  PROVE  ExecutorSound'
<1> DEFINE pass == HostPass(shape, tokens, context)
<1>1. shape \in Shapes /\ plans = PreparedPlans /\ DOMAIN graphs = {"unsplit", "split8"} /\ GraphsCurrent
  BY DEF ExecutorSound, ExecutorTypeOK, Shapes, NoPlanWhileCapturing
<1>2. /\ shape' = pass.shape /\ failed' = ~pass.ok /\ plans' = plans \cup PlansOf(pass.launches)
      /\ Executed(pass.launches) /\ StepBy("direct", tokens, context) /\ graphs' = graphs
  BY DEF Direct
<1>3. /\ pass.shape \in Shapes /\ pass.ok = TRUE /\ pass.shape["sampled"] = <<tokens, "one">>
      /\ PlansOf(pass.launches) \subseteq PreparedPlans
  BY <1>1, PassResult
<1>4. /\ shape' \in Shapes /\ shape'["sampled"] = <<tokens, "one">> /\ plans' = PreparedPlans /\ ~failed'
      /\ DOMAIN graphs' = {"unsplit", "split8"}
  <2> HIDE DEF pass
  <2>. QED
    BY <1>1, <1>2, <1>3
<1>5. /\ ExecutorTypeOK' /\ SamplesTheNetwork' /\ StateAdvancesOnce' /\ NoPlanWhileCapturing'
      /\ step'.path = "direct"
  BY <1>1, <1>2, <1>4, StepIsDone
<1>6. GraphsCurrent'
  BY <1>1, <1>2, <1>4, GraphsStayCurrent
<1>7. ReplaysRecorded'
  BY <1>5 DEF ReplaysRecorded
<1>. QED
  BY <1>5, <1>6, <1>7 DEF ExecutorSound

\* A pass that is recorded, and run.
LEMMA CaptureIsSound ==
  ASSUME ExecutorSound, NEW tokens \in 1 .. MaximumTokens, NEW context \in Contexts,
         Capture(tokens, context)
  PROVE  ExecutorSound'
<1> DEFINE bucket == cuda_graph_bucket(tokens, context)
           sh == [shape EXCEPT !["sampled"] = <<1, "one">>]
           pass == HostPass(sh, tokens, context)
<1>1. shape \in Shapes /\ plans = PreparedPlans /\ DOMAIN graphs = {"unsplit", "split8"} /\ GraphsCurrent
  BY DEF ExecutorSound, ExecutorTypeOK, Shapes, NoPlanWhileCapturing
<1>2. /\ bucket # Unbucketed
      /\ shape' = pass.shape /\ failed' = ~pass.ok /\ plans' = plans \cup PlansOf(pass.launches)
      /\ Executed(pass.launches) /\ StepBy("capture", tokens, context)
      /\ graphs' = [graphs EXCEPT ![bucket] = pass.launches]
  BY DEF Capture, FirstRun
<1>3. sh \in Shapes
  BY <1>1, SampledShape
<1> HIDE DEF sh
<1>4. /\ pass.shape \in Shapes /\ pass.ok = TRUE /\ pass.shape["sampled"] = <<tokens, "one">>
      /\ PlansOf(pass.launches) \subseteq PreparedPlans
  BY <1>3, PassResult
<1>5. bucket \in {"unsplit", "split8"}
  BY <1>2, BucketNames
<1>6. /\ shape' \in Shapes /\ shape'["sampled"] = <<tokens, "one">> /\ plans' = PreparedPlans /\ ~failed'
      /\ DOMAIN graphs' = {"unsplit", "split8"}
  <2> HIDE DEF pass, bucket
  <2>. QED
    BY <1>1, <1>2, <1>4
<1>7. /\ ExecutorTypeOK' /\ SamplesTheNetwork' /\ StateAdvancesOnce' /\ NoPlanWhileCapturing'
      /\ step'.path = "capture"
  BY <1>2, <1>3, <1>6, StepIsDone
<1>8. GraphsCurrent'
  <2>1. ASSUME NEW more \in 1 .. MaximumTokens, NEW other \in Contexts, NEW b \in DOMAIN graphs',
               cuda_graph_bucket(more, other) = b, graphs'[b] # << >>
        PROVE  graphs'[b] = HostPass(shape', more, other).launches
    <3>1. CASE b = bucket
      <4>1. graphs'[b] = pass.launches
        <5> HIDE DEF bucket, pass
        <5>. QED
          BY <1>1, <1>2, <1>5, <3>1
      <4>2. HostPass(sh, tokens, context).launches = HostPass(shape', more, other).launches
        BY <1>2, <1>3, <1>6, <2>1, <3>1, BucketAlike
      <4>. QED
        BY <4>1, <4>2
    <3>2. CASE b # bucket
      <4>1. graphs'[b] = graphs[b] /\ b \in DOMAIN graphs
        <5> HIDE DEF bucket, pass
        <5>. QED
          BY <1>1, <1>2, <1>6, <3>2
      <4>2. graphs[b] = HostPass(shape, more, other).launches
        BY <1>1, <2>1, <4>1 DEF GraphsCurrent
      <4>3. other \in Nat
        BY ExecutorAssumption
      <4>4. HostPass(shape, more, other).launches = HostPass(shape', more, other).launches
        BY <1>1, <1>6, <4>3, LaunchesAlike
      <4>. QED
        BY <4>1, <4>2, <4>4
    <3>. QED
      BY <3>1, <3>2
  <2>. QED
    BY <2>1 DEF GraphsCurrent
<1>9. ReplaysRecorded'
  BY <1>7 DEF ReplaysRecorded
<1>. QED
  BY <1>7, <1>8, <1>9 DEF ExecutorSound

\* A recorded pass, run again for other tokens and another context.
LEMMA ReplayIsSound ==
  ASSUME ExecutorSound, NEW tokens \in 1 .. MaximumTokens, NEW context \in Contexts,
         Replay(tokens, context)
  PROVE  ExecutorSound'
<1> DEFINE bucket == cuda_graph_bucket(tokens, context)
<1>1. /\ shape \in Shapes /\ plans = PreparedPlans /\ DOMAIN graphs = {"unsplit", "split8"} /\ GraphsCurrent
      /\ ~failed
  BY DEF ExecutorSound, ExecutorTypeOK, Shapes, NoPlanWhileCapturing
<1>2. /\ bucket # Unbucketed /\ graphs[bucket] # << >>
      /\ shape' = [shape EXCEPT !["sampled"] = <<1, "one">>]
      /\ Executed(graphs[bucket]) /\ StepBy("replay", tokens, context)
      /\ graphs' = graphs /\ plans' = plans /\ failed' = failed
  BY DEF Replay, ReplayShape
<1>3. bucket \in DOMAIN graphs /\ tokens = 1
  BY <1>1, <1>2, BucketNames
<1>4. graphs[bucket] = HostPass(shape, tokens, context).launches
  BY <1>1, <1>2, <1>3 DEF GraphsCurrent
<1>5. shape' \in Shapes /\ shape'["sampled"] = <<tokens, "one">>
  BY <1>1, <1>2, <1>3, SampledShape
<1>6. Executed(HostPass(shape, tokens, context).launches)
  BY <1>2, <1>4
<1>7. /\ ExecutorTypeOK' /\ SamplesTheNetwork' /\ StateAdvancesOnce' /\ NoPlanWhileCapturing'
      /\ step'.path = "replay"
  BY <1>1, <1>2, <1>5, <1>6, StepIsDone
<1>8. GraphsCurrent'
  BY <1>1, <1>2, <1>5, GraphsStayCurrent
<1>9. ReplaysRecorded'
  <2>1. step'.tokens = tokens /\ step'.context = context
    BY <1>2 DEF StepBy
  <2>. QED
    BY <1>2, <1>3, <2>1 DEF ReplaysRecorded
<1>. QED
  BY <1>7, <1>8, <1>9 DEF ExecutorSound

\* It begins soundly.
LEMMA ExecutorBegins == Init => ExecutorSound
<1>1. SUFFICES ASSUME Init PROVE ExecutorSound
  OBVIOUS
<1>2. MaximumTokens \in 1 .. MaximumTokens
  BY ExecutorAssumption
<1>3. ExecutorTypeOK
  <2>1. shape \in [Buffers -> (1 .. MaximumTokens) \X Widths]
    <3>1. <<MaximumTokens, "new">> \in (1 .. MaximumTokens) \X Widths
      BY <1>2, WidthNames
    <3>. QED
      BY <1>1, <3>1 DEF Init
  <2>2. \A b \in Buffers : content[b].rows \in 0 .. MaximumTokens
    <3>1. Stale.rows = 0 /\ 0 \in 0 .. MaximumTokens
      BY ExecutorAssumption DEF Stale
    <3>. QED
      BY <1>1, <3>1 DEF Init
  <2>3. step.path = "none"
    BY <1>1 DEF Init
  <2>4. written \in [DOMAIN Layers -> Nat] /\ DOMAIN graphs = {"unsplit", "split8"} /\ ~failed
    BY <1>1 DEF Init
  <2>5. plans \subseteq (1 .. MaximumTokens) \X Fp8Sites
    BY <1>1 DEF Init, PreparedPlans
  <2>. QED
    BY <2>1, <2>2, <2>3, <2>4, <2>5 DEF ExecutorTypeOK, Ran
<1>4. step.path = "none" /\ plans = PreparedPlans /\ graphs = [bucket \in {"unsplit", "split8"} |-> << >>]
  BY <1>1 DEF Init
<1>5. SamplesTheNetwork /\ StateAdvancesOnce /\ NoPlanWhileCapturing /\ ReplaysRecorded
  BY <1>4 DEF SamplesTheNetwork, StateAdvancesOnce, NoPlanWhileCapturing, ReplaysRecorded, Ran
<1>6. GraphsCurrent
  BY <1>4 DEF GraphsCurrent
<1>. QED
  BY <1>3, <1>5, <1>6 DEF ExecutorSound

\* It stays so.
LEMMA ExecutorGoesOn == ExecutorSound /\ [Next]_vars => ExecutorSound'
<1>1. SUFFICES ASSUME ExecutorSound, [Next]_vars PROVE ExecutorSound'
  OBVIOUS
<1>2. CASE UNCHANGED vars
  BY <1>1, <1>2 DEF vars, ExecutorSound, ExecutorTypeOK, SamplesTheNetwork, StateAdvancesOnce,
     NoPlanWhileCapturing, GraphsCurrent, ReplaysRecorded, Ran
<1>3. CASE Next
  <2>1. PICK tokens \in 1 .. MaximumTokens, context \in Contexts :
          Direct(tokens, context) \/ Capture(tokens, context) \/ Replay(tokens, context)
    BY <1>3 DEF Next
  <2>2. CASE Direct(tokens, context)
    BY <1>1, <2>2, DirectIsSound
  <2>3. CASE Capture(tokens, context)
    BY <1>1, <2>3, CaptureIsSound
  <2>4. CASE Replay(tokens, context)
    BY <1>1, <2>4, ReplayIsSound
  <2>. QED
    BY <2>1, <2>2, <2>3, <2>4
<1>. QED
  BY <1>1, <1>2, <1>3

\* Whatever the layers, the FP8 weights and the lengths, and however steps run directly,
\* are recorded and replayed in any order: no check of the host fails, the tokens sampled
\* are those of the network for this step, each layer's state is written once, and no plan
\* is made while recording (DecodeExecutor in src/model/decode_executor.rs).
THEOREM ExecutorIsSound == Spec => []ExecutorSound
<1>. QED
  BY ExecutorBegins, ExecutorGoesOn, PTL DEF Spec

\* A graph recorded for one context holds, at every later step that finds it, exactly the
\* launches a direct pass would issue (docs/research/cuda-graphs-phase1.md:129).
THEOREM ReplaysAreDirect == Spec => []ReplayIsDirect
<1>1. ExecutorSound => ReplayIsDirect
  <2>1. SUFFICES ASSUME ExecutorSound, step.path = "replay"
                 PROVE  graphs[cuda_graph_bucket(step.tokens, step.context)]
                          = HostPass(shape, step.tokens, step.context).launches
    BY DEF ReplayIsDirect
  <2>2. step.tokens \in 1 .. MaximumTokens /\ step.context \in Contexts
    BY <2>1 DEF ExecutorSound, ExecutorTypeOK, Ran
  <2>3. PICK bucket \in DOMAIN graphs :
          bucket = cuda_graph_bucket(step.tokens, step.context) /\ graphs[bucket] # << >>
    BY <2>1 DEF ExecutorSound, ReplaysRecorded
  <2>. QED
    BY <2>1, <2>2, <2>3 DEF ExecutorSound, GraphsCurrent
<1>. QED
  BY <1>1, ExecutorIsSound, PTL
=============================================================================
