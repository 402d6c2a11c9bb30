--------------------------- MODULE DataPathProofs ---------------------------
(***************************************************************************)
(* What went into one tunnel end comes out of the other, for every block   *)
(* size, every field, every choice of coefficients and all packets.        *)
(*                                                                         *)
(* The argument.  A combination of packets is additive and scales, so the  *)
(* row operations of decode_block keep each row the combination that its   *)
(* coefficients say.  The columns left of the current one are those of the *)
(* unit matrix, so when the last is done the rows are the padded packets.  *)
(* The header of a packet gives back its length, and a filler has none.    *)
(* Row operations keep the vectors orthogonal to all rows, and multiply    *)
(* the determinant by an element that is not 0; a column without a pivot   *)
(* makes the determinant 0 and leaves such a vector, the unit matrix does  *)
(* neither, so decode_block fails exactly on dependent shards.             *)
(***************************************************************************)
EXTENDS DataPath, GF256Proofs

-----------------------------------------------------------------------------
(***************************************************************************)
(* Sums.                                                                   *)
(***************************************************************************)

Row == [Packet -> Elem]

\* A block has at least one packet.
LEMMA KFacts == K \in Nat /\ K > 0 /\ 0..K \subseteq Nat /\ 0 \in 0..K /\ K \in 0..K
BY DataPathAssumption

\* t holds the first n sums of f.
IsPartial(t, f, n) == t = [j \in 0..n |-> IF j = 0 THEN Zero ELSE Xor(t[j - 1], f[j - 1])]

\* The recursion has a solution.
LEMMA PartialExists == ASSUME NEW f, NEW n \in Nat PROVE \E t : IsPartial(t, f, n)
<1> DEFINE Good == {m \in Nat : \E t : IsPartial(t, f, m)}
<1>1. 0 \in Good
  <2> DEFINE t0 == [j \in 0..0 |-> Zero]
  <2>1. IsPartial(t0, f, 0)
    BY DEF IsPartial
  <2> QED BY <2>1
<1>2. ASSUME NEW m \in 0..(n - 1), m \in Good PROVE m + 1 \in Good
  <2>1. PICK t : IsPartial(t, f, m)
    BY <1>2
  <2> DEFINE u == [j \in 0..(m + 1) |-> IF j = m + 1 THEN Xor(t[m], f[m]) ELSE t[j]]
  <2>2. \A j \in 0..(m + 1) : u[j] = IF j = 0 THEN Zero ELSE Xor(u[j - 1], f[j - 1])
    BY <2>1 DEF IsPartial
  <2>3. IsPartial(u, f, m + 1)
    BY <2>2 DEF IsPartial
  <2> QED BY <2>3
<1> HIDE DEF Good
<1>3. 0..n \subseteq Good
  BY <1>1, <1>2, Induct
<1> QED BY <1>3 DEF Good

\* A sum term by term.
LEMMA PartialSteps ==
    \A f : /\ Partial(f)[0] = Zero
           /\ \A j \in Packet : Partial(f)[j + 1] = Xor(Partial(f)[j], f[j])
<1> TAKE f
<1> DEFINE t == Partial(f)
<1>1. K \in Nat
  BY KFacts
<1>2. \E u : IsPartial(u, f, K)
  BY <1>1, PartialExists
<1>3. IsPartial(t, f, K)
  BY <1>2 DEF Partial, IsPartial
<1> HIDE DEF t
<1>4. t[0] = Zero
  BY <1>1, <1>3 DEF IsPartial
<1>5. ASSUME NEW j \in Packet PROVE t[j + 1] = Xor(t[j], f[j])
  <2>1. j + 1 \in 0..K /\ j + 1 # 0 /\ (j + 1) - 1 = j
    BY <1>1 DEF Packet
  <2>2. t[j + 1] = IF j + 1 = 0 THEN Zero ELSE Xor(t[(j + 1) - 1], f[(j + 1) - 1])
    BY <1>3, <2>1 DEF IsPartial
  <2> QED BY <2>1, <2>2
<1> QED BY <1>4, <1>5 DEF t

\* The sum of bytes is a byte.
LEMMA SumType == ASSUME NEW f \in Row PROVE Sum(f) \in Elem
<1> DEFINE t == Partial(f)
           T == {j \in 0..K : t[j] \in Elem}
<1>1. t[0] = Zero /\ \A j \in Packet : t[j + 1] = Xor(t[j], f[j])
  BY PartialSteps, Zenon
<1>2. Sum(f) = t[K]
  BY DEF Sum
<1> HIDE DEF t
<1>3. 0 \in T
  BY <1>1, Bytes, KFacts
<1>4. ASSUME NEW j \in 0..(K - 1), j \in T PROVE j + 1 \in T
  <2>1. j \in Packet /\ j + 1 \in 0..K /\ f[j] \in Elem
    BY KFacts DEF Packet, Row
  <2> QED BY <1>1, <1>4, <2>1, XorType
<1> HIDE DEF T
<1>5. 0..K \subseteq T
  BY <1>3, <1>4, Induct, KFacts
<1> QED BY <1>2, <1>5, KFacts DEF T

\* Sums of sums.
LEMMA SumAdds ==
    ASSUME NEW f, NEW g, NEW h, \A j \in Packet : h[j] = Xor(f[j], g[j])
    PROVE  Sum(h) = Xor(Sum(f), Sum(g))
<1> DEFINE t == Partial(f)
           u == Partial(g)
           v == Partial(h)
           T == {j \in 0..K : v[j] = Xor(t[j], u[j])}
<1>1. t[0] = Zero /\ \A j \in Packet : t[j + 1] = Xor(t[j], f[j])
  BY PartialSteps, Zenon
<1>2. u[0] = Zero /\ \A j \in Packet : u[j + 1] = Xor(u[j], g[j])
  BY PartialSteps, Zenon
<1>3. v[0] = Zero /\ \A j \in Packet : v[j + 1] = Xor(v[j], h[j])
  BY PartialSteps, Zenon
<1>4. Sum(f) = t[K] /\ Sum(g) = u[K] /\ Sum(h) = v[K]
  BY DEF Sum
<1> HIDE DEF t, u, v
<1>5. 0 \in T
  BY <1>1, <1>2, <1>3, XorZero, KFacts
<1>6. ASSUME NEW j \in 0..(K - 1), j \in T PROVE j + 1 \in T
  <2>1. j \in Packet /\ j + 1 \in 0..K
    BY KFacts DEF Packet
  <2>2. v[j] = Xor(t[j], u[j]) /\ h[j] = Xor(f[j], g[j])
    BY <1>6, <2>1
  <2>3. /\ t[j + 1] = Xor(t[j], f[j])
        /\ u[j + 1] = Xor(u[j], g[j])
        /\ v[j + 1] = Xor(v[j], h[j])
    BY <1>1, <1>2, <1>3, <2>1
  <2> DEFINE x == t[j]
             y == u[j]
  <2>4. Xor(Xor(x, y), Xor(f[j], g[j])) = Xor(Xor(x, f[j]), Xor(y, g[j]))
    BY DEF Xor
  <2>5. v[j + 1] = Xor(t[j + 1], u[j + 1])
    BY <2>2, <2>3, <2>4, Zenon
  <2> QED BY <2>1, <2>5
<1> HIDE DEF T
<1>7. 0..K \subseteq T
  BY <1>5, <1>6, Induct, KFacts
<1> QED BY <1>4, <1>7, KFacts DEF T

\* Multiples of sums.
LEMMA SumScales ==
    ASSUME NEW a \in Elem, NEW f \in Row, NEW h, \A j \in Packet : h[j] = mul_table[a][f[j]]
    PROVE  Sum(h) = mul_table[a][Sum(f)]
<1> DEFINE t == Partial(f)
           v == Partial(h)
           T == {j \in 0..K : t[j] \in Elem /\ v[j] = mul_table[a][t[j]]}
<1>1. t[0] = Zero /\ \A j \in Packet : t[j + 1] = Xor(t[j], f[j])
  BY PartialSteps, Zenon
<1>2. v[0] = Zero /\ \A j \in Packet : v[j + 1] = Xor(v[j], h[j])
  BY PartialSteps, Zenon
<1>3. Sum(f) = t[K] /\ Sum(h) = v[K]
  BY DEF Sum
<1> HIDE DEF t, v
<1>4. 0 \in T
  BY <1>1, <1>2, ZeroTimes, Bytes, KFacts
<1>5. ASSUME NEW j \in 0..(K - 1), j \in T PROVE j + 1 \in T
  <2>1. j \in Packet /\ j + 1 \in 0..K /\ f[j] \in Elem
    BY KFacts DEF Packet, Row
  <2>2. t[j] \in Elem /\ v[j] = mul_table[a][t[j]] /\ h[j] = mul_table[a][f[j]]
    BY <1>5, <2>1
  <2>3. t[j + 1] = Xor(t[j], f[j]) /\ v[j + 1] = Xor(v[j], h[j])
    BY <1>1, <1>2, <2>1
  <2>4. mul_table[a][Xor(t[j], f[j])] = Xor(mul_table[a][t[j]], mul_table[a][f[j]])
    BY <2>1, <2>2, TimesAddsRight
  <2>5. t[j + 1] \in Elem
    BY <2>1, <2>2, <2>3, XorType
  <2>6. v[j + 1] = mul_table[a][t[j + 1]]
    BY <2>2, <2>3, <2>4, Zenon
  <2> QED BY <2>1, <2>5, <2>6
<1> HIDE DEF T
<1>6. 0..K \subseteq T
  BY <1>4, <1>5, Induct, KFacts
<1> QED BY <1>3, <1>6, KFacts DEF T

\* A sum with a single term.
LEMMA SumSingle ==
    ASSUME NEW s \in Packet, NEW f, \A j \in Packet : j # s => f[j] = Zero
    PROVE  Sum(f) = f[s]
<1> DEFINE t == Partial(f)
           T == {j \in 0..K : t[j] = IF j <= s THEN Zero ELSE f[s]}
<1>1. t[0] = Zero /\ \A j \in Packet : t[j + 1] = Xor(t[j], f[j])
  BY PartialSteps, Zenon
<1>2. Sum(f) = t[K]
  BY DEF Sum
<1> HIDE DEF t
<1>3. s \in 0..(K - 1) /\ K \in Nat
  BY KFacts DEF Packet
<1>4. 0 \in T
  BY <1>1, <1>3, KFacts
<1>5. ASSUME NEW j \in 0..(K - 1), j \in T PROVE j + 1 \in T
  <2>1. j \in Packet /\ j + 1 \in 0..K
    BY KFacts DEF Packet
  <2>2. t[j + 1] = Xor(t[j], f[j])
    BY <1>1, <2>1
  <2>3. t[j] = IF j <= s THEN Zero ELSE f[s]
    BY <1>5
  <2>4. CASE j = s
    <3>1. t[j + 1] = f[s]
      BY <2>2, <2>3, <2>4, <1>3, XorZero
    <3> QED BY <1>3, <2>1, <2>4, <3>1
  <2>5. CASE j # s
    <3>1. t[j + 1] = t[j]
      BY <2>1, <2>2, <2>5, XorZero
    <3>2. j + 1 <= s <=> j <= s
      BY <1>3, <2>5
    <3> QED BY <2>1, <2>3, <3>1, <3>2
  <2> QED BY <2>4, <2>5
<1> HIDE DEF T
<1>6. 0..K \subseteq T
  BY <1>4, <1>5, Induct, KFacts
<1>7. K \in T /\ ~(K <= s)
  BY <1>3, <1>6
<1> QED BY <1>2, <1>7 DEF T

-----------------------------------------------------------------------------
(***************************************************************************)
(* Rows: what a combination with coefficients c makes of the bytes v that  *)
(* the packets have at one position.                                       *)
(***************************************************************************)

Dot(c, v) == Sum([j \in Packet |-> mul_table[c[j]][v[j]]])

\* A combination of bytes is a byte.
LEMMA DotType == ASSUME NEW c \in Row, NEW v \in Row PROVE Dot(c, v) \in Elem
<1> DEFINE f == [j \in Packet |-> mul_table[c[j]][v[j]]]
<1>1. f \in Row
  BY TimesType DEF Row
<1> HIDE DEF f
<1>2. Sum(f) \in Elem
  BY <1>1, SumType
<1> QED BY <1>2 DEF Dot, f

\* The combination of the model's reference is this one.
LEMMA DotIsFieldSum ==
    ASSUME NEW c \in Row, NEW v \in Row
    PROVE  Sum([j \in Packet |-> Mul(c[j], v[j])]) = Dot(c, v)
<1>1. \A j \in Packet : mul_table[c[j]][v[j]] = Mul(c[j], v[j])
  BY TableIsProduct DEF Row
<1>2. [j \in Packet |-> mul_table[c[j]][v[j]]] = [j \in Packet |-> Mul(c[j], v[j])]
  BY <1>1
<1> QED BY <1>2 DEF Dot

\* A row scaled.
LEMMA DotScaled ==
    ASSUME NEW a \in Elem, NEW c \in Row, NEW v \in Row
    PROVE  /\ Scaled(a, c) \in Row
           /\ \A j \in Packet : Scaled(a, c)[j] = mul_table[a][c[j]]
           /\ Dot(Scaled(a, c), v) = mul_table[a][Dot(c, v)]
<1> DEFINE d == Scaled(a, c)
           f == [j \in Packet |-> mul_table[c[j]][v[j]]]
           h == [j \in Packet |-> mul_table[d[j]][v[j]]]
<1>1. /\ d \in Row
      /\ \A j \in Packet : d[j] = mul_table[a][c[j]]
  BY TimesType DEF Scaled, Row
<1>2. f \in Row
  BY TimesType DEF Row
<1> HIDE DEF d
<1>3. ASSUME NEW j \in Packet PROVE h[j] = mul_table[a][f[j]]
  <2>1. c[j] \in Elem /\ v[j] \in Elem
    BY DEF Row
  <2>2. mul_table[mul_table[a][c[j]]][v[j]] = mul_table[a][mul_table[c[j]][v[j]]]
    BY <2>1, TimesAssoc
  <2> QED BY <1>1, <2>2
<1>4. Dot(c, v) = Sum(f) /\ Dot(d, v) = Sum(h)
  BY DEF Dot
<1> HIDE DEF f, h
<1>5. Sum(h) = mul_table[a][Sum(f)]
  BY <1>2, <1>3, SumScales
<1> QED BY <1>1, <1>4, <1>5 DEF d

\* A multiple of a row added to another.
LEMMA DotAxpy ==
    ASSUME NEW a \in Elem, NEW c \in Row, NEW w \in Row, NEW v \in Row
    PROVE  /\ Axpy(c, a, w) \in Row
           /\ \A j \in Packet : Axpy(c, a, w)[j] = Xor(c[j], mul_table[a][w[j]])
           /\ Dot(Axpy(c, a, w), v) = Xor(Dot(c, v), mul_table[a][Dot(w, v)])
<1> DEFINE d == Axpy(c, a, w)
           e == Scaled(a, w)
           f == [j \in Packet |-> mul_table[c[j]][v[j]]]
           g == [j \in Packet |-> mul_table[e[j]][v[j]]]
           h == [j \in Packet |-> mul_table[d[j]][v[j]]]
<1>1. /\ e \in Row
      /\ \A j \in Packet : e[j] = mul_table[a][w[j]]
      /\ Dot(e, v) = mul_table[a][Dot(w, v)]
  BY DotScaled
<1>2. \A j \in Packet : d[j] = Xor(c[j], mul_table[a][w[j]])
  BY DEF Axpy, Row
<1>3. d \in Row
  <2>1. \A j \in Packet : Xor(c[j], mul_table[a][w[j]]) \in Elem
    BY TimesType, XorType DEF Row
  <2> QED BY <2>1 DEF Axpy, Row
<1> HIDE DEF d, e
<1>4. ASSUME NEW j \in Packet PROVE h[j] = Xor(f[j], g[j])
  <2>1. c[j] \in Elem /\ e[j] \in Elem /\ v[j] \in Elem
    BY <1>1 DEF Row
  <2>2. mul_table[Xor(c[j], e[j])][v[j]] = Xor(mul_table[c[j]][v[j]], mul_table[e[j]][v[j]])
    BY <2>1, TimesAddsLeft
  <2>3. d[j] = Xor(c[j], e[j])
    BY <1>1, <1>2
  <2> QED BY <2>2, <2>3
<1>5. Dot(c, v) = Sum(f) /\ Dot(e, v) = Sum(g) /\ Dot(d, v) = Sum(h)
  BY DEF Dot
<1> HIDE DEF f, g, h
<1>6. Sum(h) = Xor(Sum(f), Sum(g))
  BY <1>4, SumAdds
<1>7. Dot(d, v) = Xor(Dot(c, v), mul_table[a][Dot(w, v)])
  BY <1>1, <1>5, <1>6
<1> QED BY <1>2, <1>3, <1>7 DEF d

\* A row of the unit matrix picks a packet.
LEMMA DotUnit ==
    ASSUME NEW s \in Packet, NEW v \in Row, NEW c,
           \A j \in Packet : c[j] = IF s = j THEN One ELSE Zero
    PROVE  Dot(c, v) = v[s]
<1> DEFINE f == [j \in Packet |-> mul_table[c[j]][v[j]]]
<1>1. \A j \in Packet : v[j] \in Elem
  BY DEF Row
<1>2. ASSUME NEW j \in Packet, j # s PROVE f[j] = Zero
  <2>1. mul_table[Zero][v[j]] = Zero
    BY <1>1, ZeroTimes
  <2> QED BY <1>2, <2>1
<1>3. f[s] = v[s]
  <2>1. mul_table[One][v[s]] = v[s]
    BY <1>1, OneTimes
  <2> QED BY <2>1
<1> HIDE DEF f
<1>4. Sum(f) = f[s]
  BY <1>2, SumSingle
<1> QED BY <1>3, <1>4 DEF Dot, f

-----------------------------------------------------------------------------
(***************************************************************************)
(* The block that is encoded.                                              *)
(***************************************************************************)

\* What the TUN device hands over has the length its header says, 20 bytes at least.
LEMMA PacketFacts ==
    ASSUME NEW p \in Traffic
    PROVE  p.len \in Nat /\ p.len >= 20 /\ p.bytes \in [Below(p.len) -> Elem]
<1>1. IsPacket(p)
  BY TrafficAssumption
<1>2. p.len \in Nat /\ p.bytes \in [Below(p.len) -> Elem]
  BY <1>1 DEF IsPacket
<1>3. p.len >= 20
  BY <1>1, <1>2 DEF IsPacket
<1> QED BY <1>2, <1>3

\* The longest packet is one of the block, and no other is longer.
LEMMA Longest ==
    ASSUME pkts \in Seq(Traffic), pkts # << >>
    PROVE  /\ MaxLen \in Nat
           /\ \A i \in 1..Len(pkts) : pkts[i] \in Traffic /\ pkts[i].len <= MaxLen
<1> DEFINE T == {n \in Nat : n + 1 <= Len(pkts) =>
                    \E i \in 1..(n + 1) : \A j \in 1..(n + 1) : pkts[j].len <= pkts[i].len}
           lens == {p.len : p \in {pkts[i] : i \in DOMAIN pkts}}
<1>1. /\ Len(pkts) \in Nat /\ Len(pkts) > 0 /\ DOMAIN pkts = 1..Len(pkts)
      /\ \A i \in 1..Len(pkts) : pkts[i] \in Traffic /\ pkts[i].len \in Nat
  <2>1. /\ Len(pkts) \in Nat /\ Len(pkts) > 0 /\ DOMAIN pkts = 1..Len(pkts)
        /\ \A i \in 1..Len(pkts) : pkts[i] \in Traffic
    OBVIOUS
  <2>2. \A p \in Traffic : p.len \in Nat
    BY PacketFacts
  <2> QED BY <2>1, <2>2
<1>2. 0 \in T
  <2>1. \A j \in 1..(0 + 1) : pkts[j].len <= pkts[1].len
    BY <1>1
  <2> QED BY <2>1
<1>3. ASSUME NEW n \in 0..((Len(pkts) - 1) - 1), n \in T PROVE n + 1 \in T
  <2>1. PICK i \in 1..(n + 1) : \A j \in 1..(n + 1) : pkts[j].len <= pkts[i].len
    BY <1>1, <1>3
  <2>2. CASE pkts[n + 2].len <= pkts[i].len
    <3>1. \A j \in 1..(n + 2) : pkts[j].len <= pkts[i].len
      BY <1>1, <2>1, <2>2
    <3> QED BY <3>1
  <2>3. CASE ~(pkts[n + 2].len <= pkts[i].len)
    <3>1. \A j \in 1..(n + 2) : pkts[j].len <= pkts[n + 2].len
      BY <1>1, <2>1, <2>3
    <3> QED BY <3>1
  <2> QED BY <2>2, <2>3
<1> HIDE DEF T
<1>4. Len(pkts) - 1 \in T
  <2> DEFINE n == Len(pkts) - 1
  <2>1. n \in Nat /\ n \in 0..n
    BY <1>1
  <2> HIDE DEF n
  <2>2. 0..n \subseteq T
    <3>1. \A i \in 0..(n - 1) : i \in T => i + 1 \in T
      BY <1>3 DEF n
    <3> QED BY <1>2, <2>1, <3>1, Induct
  <2>3. n \in T
    BY <2>1, <2>2
  <2> QED BY <2>3 DEF n
<1>5. PICK i \in 1..Len(pkts) : \A j \in 1..Len(pkts) : pkts[j].len <= pkts[i].len
  BY <1>1, <1>4 DEF T
<1>6. pkts[i].len \in lens
  BY <1>1
<1>7. MaxLen \in lens /\ \A j \in DOMAIN pkts : pkts[j].len <= MaxLen
  BY <1>1, <1>5, <1>6 DEF MaxLen
<1>8. lens \subseteq Nat
  BY <1>1
<1> QED BY <1>1, <1>7, <1>8

\* The bytes of the block at one position.
At(s, x) == [j \in Packet |-> s[j][x]]

\* The padded packets of a block are as long as its longest.
LEMMA SourceType ==
    ASSUME pkts \in Seq(Traffic), pkts # << >>
    PROVE  /\ Source \in [Packet -> [Below(MaxLen) -> Elem]]
           /\ \A x \in Below(MaxLen) : At(Source, x) \in Row
<1>1. ASSUME NEW j \in Packet PROVE Source[j] \in [Below(MaxLen) -> Elem]
  <2>1. CASE j < Len(pkts)
    <3>1. j + 1 \in 1..Len(pkts)
      BY <2>1, KFacts DEF Packet
    <3> DEFINE p == pkts[j + 1]
    <3>2. p \in Traffic
      BY <3>1
    <3>3. p.len \in Nat /\ p.bytes \in [Below(p.len) -> Elem]
      BY <3>2, PacketFacts
    <3>4. Source[j] = Padded(p)
      BY <2>1 DEF Source
    <3> HIDE DEF p
    <3>5. \A x \in Below(MaxLen) : x < p.len => p.bytes[x] \in Elem
      BY <3>3 DEF Below
    <3> QED BY <3>4, <3>5, Bytes DEF Padded
  <2>2. CASE ~(j < Len(pkts))
    <3>1. Source[j] = Filler
      BY <2>2 DEF Source
    <3> QED BY <3>1, Bytes DEF Filler
  <2> QED BY <2>1, <2>2
<1>2. Source \in [Packet -> [Below(MaxLen) -> Elem]]
  BY <1>1 DEF Source
<1> HIDE DEF Source
<1>3. \A x \in Below(MaxLen) : At(Source, x) \in Row
  BY <1>2 DEF At, Row
<1> QED BY <1>2, <1>3

-----------------------------------------------------------------------------
(***************************************************************************)
(* The inductive invariant.                                                *)
(***************************************************************************)

Shape ==
    /\ inv_table = Inverses
    /\ pkts \in Seq(Traffic) /\ Len(pkts) <= K
    /\ pc = "fill" => written = << >>
    /\ pc # "fill" => pkts # << >> /\ len = MaxLen
    /\ pc = "decode" =>
          /\ mat \in [Packet -> Row] /\ dat \in [Packet -> [Below(len) -> Elem]]
          /\ col \in 0..K /\ written = << >>

\* Each row is the combination that its coefficients say.
Combined ==
    pc = "decode" =>
        \A r \in Packet, x \in Below(len) : dat[r][x] = Dot(mat[r], At(Source, x))

\* Left of the current column the matrix is the unit matrix.
Reduced ==
    pc = "decode" =>
        \A r, c \in Packet : c < col => mat[r][c] = IF r = c THEN One ELSE Zero

\* The first n packets of the block.
First(n) == [i \in 1..n |-> pkts[i]]

\* The rows are the padded packets, and those before col are written.
Recovered ==
    pc = "write" => /\ dat = Source /\ col \in Packet
                    /\ written = First(IF col < Len(pkts) THEN col ELSE Len(pkts))

Inv == Shape /\ Combined /\ Reduced /\ Recovered /\ WrittenAsRead

\* While no packet is read, the block to encode is the same.
LEMMA SameBlock ==
    ASSUME pkts' = pkts
    PROVE  /\ MaxLen' = MaxLen /\ Source' = Source
           /\ \A n : First(n)' = First(n)
<1>1. MaxLen' = MaxLen
  BY DEF MaxLen
<1>2. Filler' = Filler /\ \A p : Padded(p)' = Padded(p)
  BY <1>1 DEF Filler, Padded, Below
<1>3. Source' = Source
  BY <1>2 DEF Source
<1> QED BY <1>1, <1>3 DEF First

\* What try_decode hands over are rows of k coefficients.
LEMMA ShardsType == ASSUME NEW c \in Shards PROVE c \in [Packet -> Row]
<1>1. PICK m \in 0..MaxCoded :
        c \in {[r \in Packet |-> IF r < K - m THEN Unit(f[r]) ELSE g[r]] :
                f \in {h \in [0..(K - m - 1) -> Packet] :
                          \A q, r \in DOMAIN h : q < r => h[q] < h[r]},
                g \in [(K - m)..(K - 1) -> Coded]}
  BY DEF Shards
<1>2. PICK f \in [0..(K - m - 1) -> Packet], g \in [(K - m)..(K - 1) -> Coded] :
        c = [r \in Packet |-> IF r < K - m THEN Unit(f[r]) ELSE g[r]]
  BY <1>1
<1>3. \A s : Unit(s) \in Row
  BY Bytes DEF Unit, Row
<1>4. ASSUME NEW r \in Packet, ~(r < K - m) PROVE g[r] \in Row
  <2>1. r \in (K - m)..(K - 1)
    BY <1>4, KFacts, DataPathAssumption DEF Packet
  <2>2. g[r] \in [Packet -> Coefficient]
    BY <2>1 DEF Coded
  <2> QED BY <2>2, DataPathAssumption DEF Row
<1> QED BY <1>2, <1>3, <1>4

-----------------------------------------------------------------------------
(***************************************************************************)
(* The steps.                                                              *)
(***************************************************************************)

\* The start of main.
LEMMA InitInv == Init => Inv
<1> SUFFICES ASSUME Init PROVE Inv
  OBVIOUS
<1>1. Shape
  BY KFacts DEF Init, Shape
<1> QED BY <1>1 DEF Init, Inv, Combined, Reduced, Recovered, WrittenAsRead

\* tx_block_add_pkt.
LEMMA AddPktStep ==
    ASSUME Inv, NEW p \in Traffic, AddPkt(p)
    PROVE  Inv'
<1>1. Shape'
  <2>1. pkts' \in Seq(Traffic) /\ Len(pkts') = Len(pkts) + 1
    BY DEF Inv, Shape, AddPkt
  <2>2. Len(pkts') <= K
    BY <2>1, KFacts DEF Inv, Shape, AddPkt
  <2> QED BY <2>1, <2>2 DEF Inv, Shape, AddPkt
<1> QED BY <1>1 DEF Inv, AddPkt, Combined, Reduced, Recovered, WrittenAsRead

\* tx_block_flush: every shard is encoded as its coefficients say.
LEMMA FlushStep ==
    ASSUME Inv, NEW c \in Shards, Flush(c)
    PROVE  Inv'
<1>1. pkts' = pkts /\ pkts \in Seq(Traffic) /\ pkts # << >>
  BY DEF Inv, Shape, Flush
<1>2. MaxLen' = MaxLen /\ Source' = Source
  BY <1>1, SameBlock
<1>3. c \in [Packet -> Row]
  BY ShardsType
<1>4. \A x \in Below(MaxLen) : At(Source, x) \in Row
  BY <1>1, SourceType
<1>5. \A r \in Packet : dat'[r] = Combine(c[r], Source)
  BY DEF Flush
<1>6. ASSUME NEW r \in Packet, NEW x \in Below(MaxLen)
      PROVE  dat'[r][x] = Dot(c[r], At(Source, x))
  <2>1. Combine(c[r], Source)[x] = Sum([j \in Packet |-> mul_table[c[r][j]][Source[j][x]]])
    BY DEF Combine
  <2>2. [j \in Packet |-> mul_table[c[r][j]][Source[j][x]]]
          = [j \in Packet |-> mul_table[c[r][j]][At(Source, x)[j]]]
    BY DEF At
  <2> QED BY <1>5, <2>1, <2>2, Zenon DEF Dot
<1>7. dat' \in [Packet -> [Below(MaxLen) -> Elem]]
  <2>1. \A r \in Packet, x \in Below(MaxLen) : dat'[r][x] \in Elem
    BY <1>3, <1>4, <1>6, DotType
  <2>2. \A r \in Packet : dat'[r] = [x \in Below(MaxLen) |-> dat'[r][x]]
    BY <1>5 DEF Combine
  <2>3. \A r \in Packet : dat'[r] \in [Below(MaxLen) -> Elem]
    BY <2>1, <2>2
  <2>4. dat' = [r \in Packet |-> dat'[r]]
    BY DEF Flush
  <2> QED BY <2>3, <2>4
<1>8. /\ pc' = "decode" /\ len' = MaxLen /\ mat' = c /\ col' = 0
      /\ inv_table' = inv_table /\ written' = written /\ pc = "fill"
  BY DEF Flush
<1>9. Shape'
  BY <1>1, <1>2, <1>3, <1>7, <1>8, KFacts DEF Inv, Shape, Below
<1>10. Combined'
  <2>1. \A r \in Packet, x \in Below(MaxLen) : dat'[r][x] = Dot(mat'[r], At(Source', x))
    BY <1>2, <1>6, <1>8
  <2> QED BY <1>8, <2>1 DEF Combined, Below, At, Dot, Sum, Partial
<1>11. Reduced'
  BY <1>8, KFacts DEF Reduced, Packet
<1> QED BY <1>8, <1>9, <1>10, <1>11 DEF Inv, Recovered, WrittenAsRead

\* At the positions D the rows d are the combinations of s that m says.
Consistent(m, d, D, s) ==
    /\ m \in [Packet -> Row] /\ d \in [Packet -> [D -> Elem]]
    /\ \A x \in D : At(s, x) \in Row
    /\ \A q \in Packet, x \in D : d[q][x] = Dot(m[q], At(s, x))

\* Scaling the pivot row and clearing its column keeps rows and data together,
\* and every column in which the pivot row is zero.
LEMMA ClearRows ==
    ASSUME inv_table = Inverses, col \in Packet,
           NEW m, NEW d, NEW D, NEW s, Consistent(m, d, D, s),
           m[col][col] # Zero, Clear(m, d)
    PROVE  /\ Consistent(mat', dat', D, s)
           /\ \A q \in Packet : mat'[q][col] = IF q = col THEN One ELSE Zero
           /\ \A q, c \in Packet : m[col][c] = Zero => mat'[q][c] = m[q][c]
<1> DEFINE v   == m[col][col]
           inv == inv_table[v]
           mp  == Scaled(inv, m[col])
           dp  == Scaled(inv, d[col])
<1>1. /\ mat' = [q \in Packet |-> IF q = col THEN mp ELSE Axpy(m[q], m[q][col], mp)]
      /\ dat' = [q \in Packet |-> IF q = col THEN dp ELSE Axpy(d[q], m[q][col], dp)]
  BY DEF Clear
<1>0. /\ m \in [Packet -> Row] /\ d \in [Packet -> [D -> Elem]]
      /\ \A x \in D : At(s, x) \in Row
      /\ \A q \in Packet, x \in D : d[q][x] = Dot(m[q], At(s, x))
  BY DEF Consistent
<1>2. /\ \A q \in Packet : m[q] \in Row /\ \A c \in Packet : m[q][c] \in Elem
      /\ v \in Elem /\ v # Zero
  BY <1>0 DEF Row
<1>3. inv \in Elem /\ mul_table[v][inv] = One
  BY <1>2, InversesFound
<1>4. mul_table[inv][v] = One
  BY <1>2, <1>3, TimesComm
<1>5. /\ \A x \in D : dp[x] = mul_table[inv][d[col][x]]
      /\ \A q \in Packet, x \in D :
            Axpy(d[q], m[q][col], dp)[x] = Xor(d[q][x], mul_table[m[q][col]][dp[x]])
  BY <1>0 DEF Scaled, Axpy
<1>6. /\ DOMAIN dp = D /\ \A q \in Packet : DOMAIN Axpy(d[q], m[q][col], dp) = D
      /\ dp = [x \in D |-> dp[x]]
      /\ \A q \in Packet : Axpy(d[q], m[q][col], dp) = [x \in D |-> Axpy(d[q], m[q][col], dp)[x]]
  BY <1>0 DEF Scaled, Axpy
<1> HIDE DEF inv, v
<1>7. /\ mp \in Row
      /\ \A j \in Packet : mp[j] = mul_table[inv][m[col][j]]
  BY <1>2, <1>3, DotScaled DEF Row
<1>8. ASSUME NEW x \in D PROVE dp[x] = Dot(mp, At(s, x))
  <2>1. Dot(Scaled(inv, m[col]), At(s, x)) = mul_table[inv][Dot(m[col], At(s, x))]
    BY <1>0, <1>2, <1>3, DotScaled
  <2>2. d[col][x] = Dot(m[col], At(s, x))
    BY <1>0
  <2> QED BY <1>5, <2>1, <2>2
<1> HIDE DEF mp, dp
<1>9. ASSUME NEW q \in Packet
      PROVE  /\ Axpy(m[q], m[q][col], mp) \in Row
             /\ \A j \in Packet : Axpy(m[q], m[q][col], mp)[j]
                                    = Xor(m[q][j], mul_table[m[q][col]][mp[j]])
  <2>1. m[q] \in Row /\ m[q][col] \in Elem
    BY <1>2
  <2>2. [j \in Packet |-> Zero] \in Row
    BY Bytes DEF Row
  <2> QED BY <1>7, <2>1, <2>2, DotAxpy
<1>10. ASSUME NEW q \in Packet, NEW x \in D
       PROVE  Axpy(d[q], m[q][col], dp)[x] = Dot(Axpy(m[q], m[q][col], mp), At(s, x))
  <2>1. m[q] \in Row /\ m[q][col] \in Elem /\ At(s, x) \in Row
    BY <1>0, <1>2
  <2>2. Dot(Axpy(m[q], m[q][col], mp), At(s, x))
          = Xor(Dot(m[q], At(s, x)), mul_table[m[q][col]][Dot(mp, At(s, x))])
    BY <1>7, <2>1, DotAxpy
  <2>3. d[q][x] = Dot(m[q], At(s, x))
    BY <1>0
  <2> QED BY <1>5, <1>8, <2>2, <2>3
<1>11. mat' \in [Packet -> Row]
  BY <1>1, <1>7, <1>9
<1>12. \A q \in Packet, x \in D : dat'[q][x] = Dot(mat'[q], At(s, x))
  <2> SUFFICES ASSUME NEW q \in Packet, NEW x \in D PROVE dat'[q][x] = Dot(mat'[q], At(s, x))
    OBVIOUS
  <2>1. CASE q = col
    <3>1. dat'[q] = dp /\ mat'[q] = mp
      BY <1>1, <2>1
    <3> QED BY <3>1, <1>8
  <2>2. CASE q # col
    <3>1. dat'[q] = Axpy(d[q], m[q][col], dp) /\ mat'[q] = Axpy(m[q], m[q][col], mp)
      BY <1>1, <2>2
    <3> QED BY <3>1, <1>10
  <2> QED BY <2>1, <2>2
<1>13. dat' \in [Packet -> [D -> Elem]]
  <2>1. \A q \in Packet, x \in D : dat'[q][x] \in Elem
    BY <1>0, <1>11, <1>12, DotType
  <2>2. \A q \in Packet : dat'[q] = [x \in D |-> dat'[q][x]]
    BY <1>1, <1>6
  <2>3. \A q \in Packet : dat'[q] \in [D -> Elem]
    BY <2>1, <2>2
  <2>4. dat' = [q \in Packet |-> dat'[q]]
    BY <1>1
  <2> QED BY <2>3, <2>4
<1>14. ASSUME NEW q \in Packet PROVE mat'[q][col] = IF q = col THEN One ELSE Zero
  <2>1. mp[col] = One
    BY <1>4, <1>7 DEF v
  <2>2. CASE q = col
    <3>1. mat'[q] = mp
      BY <1>1, <2>2
    <3> QED BY <2>1, <2>2, <3>1
  <2>3. CASE q # col
    <3>1. mat'[q] = Axpy(m[q], m[q][col], mp)
      BY <1>1, <2>3
    <3>2. m[q][col] \in Elem
      BY <1>2
    <3>3. mul_table[m[q][col]][One] = m[q][col]
      BY <3>2, OneTimes, TimesComm, Bytes
    <3>4. mat'[q][col] = Xor(m[q][col], m[q][col])
      BY <1>9, <2>1, <3>1, <3>3
    <3> QED BY <2>3, <3>4, XorZero
  <2> QED BY <2>2, <2>3
<1>15. ASSUME NEW q \in Packet, NEW c \in Packet, m[col][c] = Zero PROVE mat'[q][c] = m[q][c]
  <2>1. mp[c] = Zero
    BY <1>3, <1>7, <1>15, ZeroTimes
  <2>2. CASE q = col
    <3>1. mat'[q] = mp
      BY <1>1, <2>2
    <3> QED BY <1>15, <2>1, <2>2, <3>1
  <2>3. CASE q # col
    <3>1. mat'[q] = Axpy(m[q], m[q][col], mp)
      BY <1>1, <2>3
    <3>2. m[q][col] \in Elem
      BY <1>2
    <3>3. mul_table[m[q][col]][Zero] = Zero
      BY <3>2, ZeroTimes
    <3>4. mat'[q][c] = Xor(m[q][c], Zero)
      BY <1>9, <2>1, <3>1, <3>3
    <3> QED BY <3>4, XorZero
  <2> QED BY <2>2, <2>3
<1>16. Consistent(mat', dat', D, s)
  BY <1>0, <1>11, <1>12, <1>13 DEF Consistent
<1> QED BY <1>14, <1>15, <1>16

\* Where row q comes from when the rows r and col are swapped.
Origin(q, r) == IF q = r THEN col ELSE IF q = col THEN r ELSE q

\* One column of decode_block: the pivot is found, scaled, and cleared from the other rows.
LEMMA EliminateStep == ASSUME Inv, Eliminate PROVE Inv'
<1>1. /\ pc = "decode" /\ pc' = "decode" /\ col < K /\ col' = col + 1
      /\ inv_table' = inv_table /\ pkts' = pkts /\ len' = len /\ written' = written
  BY DEF Eliminate
<1>2. /\ inv_table = Inverses /\ pkts \in Seq(Traffic) /\ pkts # << >> /\ len = MaxLen
      /\ mat \in [Packet -> Row] /\ dat \in [Packet -> [Below(len) -> Elem]]
      /\ col \in 0..K
  BY <1>1 DEF Inv, Shape
<1>3. col \in Packet /\ col' \in 0..K
  BY <1>1, <1>2, KFacts DEF Packet
<1>4. PICK r \in Packet : IsPivot(r) /\ Clear(Swap(mat, r), Swap(dat, r))
  BY DEF Eliminate, Column
<1> DEFINE m == Swap(mat, r)
           d == Swap(dat, r)
<1>5. /\ m \in [Packet -> Row]
      /\ \A q \in Packet : Origin(q, r) \in Packet /\ m[q] = mat[Origin(q, r)]
  BY <1>2, <1>3 DEF Swap, Origin
<1>6. /\ d \in [Packet -> [Below(len) -> Elem]]
      /\ \A q \in Packet : d[q] = dat[Origin(q, r)]
  <2> DEFINE S == [Below(len) -> Elem]
  <2>1. dat \in [Packet -> S]
    BY <1>2
  <2> HIDE DEF S
  <2>2. d \in [Packet -> S] /\ \A q \in Packet : d[q] = dat[Origin(q, r)]
    BY <1>3, <2>1 DEF Swap, Origin
  <2> QED BY <2>2 DEF S
<1> HIDE DEF m, d
<1>7. \A x \in Below(len) : At(Source, x) \in Row
  BY <1>2, SourceType
<1>8. \A q \in Packet, x \in Below(len) : d[q][x] = Dot(m[q], At(Source, x))
  BY <1>1, <1>5, <1>6 DEF Inv, Combined
<1>9. m[col][col] # Zero
  <2>1. m[col] = mat[r]
    BY <1>3, <1>5 DEF Origin
  <2> QED BY <1>4, <2>1 DEF IsPivot
<1>10. Clear(m, d)
  BY <1>4 DEF m, d
<1>11. /\ mat' \in [Packet -> Row] /\ dat' \in [Packet -> [Below(len) -> Elem]]
       /\ \A q \in Packet, x \in Below(len) : dat'[q][x] = Dot(mat'[q], At(Source, x))
       /\ \A q \in Packet : mat'[q][col] = IF q = col THEN One ELSE Zero
       /\ \A q, c \in Packet : m[col][c] = Zero => mat'[q][c] = m[q][c]
  <2>1. Consistent(m, d, Below(len), Source)
    BY <1>5, <1>6, <1>7, <1>8 DEF Consistent
  <2>2. /\ Consistent(mat', dat', Below(len), Source)
        /\ \A q \in Packet : mat'[q][col] = IF q = col THEN One ELSE Zero
        /\ \A q, c \in Packet : m[col][c] = Zero => mat'[q][c] = m[q][c]
    BY <1>2, <1>3, <1>9, <1>10, <2>1, ClearRows
  <2> QED BY <2>2 DEF Consistent
<1>12. MaxLen' = MaxLen /\ Source' = Source
  BY <1>1, SameBlock
<1>13. Shape'
  BY <1>1, <1>2, <1>3, <1>11, <1>12 DEF Inv, Shape, Below
<1>14. Combined'
  <2>1. \A q \in Packet, x \in Below(len) : dat'[q][x] = Dot(mat'[q], At(Source', x))
    BY <1>11, <1>12
  <2> QED BY <1>1, <2>1 DEF Combined, Below, At, Dot, Sum, Partial
<1>15. ASSUME NEW q \in Packet, NEW c \in Packet, c < col'
       PROVE  mat'[q][c] = IF q = c THEN One ELSE Zero
  <2>1. CASE c = col
    BY <1>11, <2>1
  <2>2. CASE c # col
    <3>1. c < col /\ r \in col..(K - 1) /\ r # c
      BY <1>1, <1>3, <1>4, <1>15, <2>2 DEF IsPivot, Packet
    <3>2. \A o \in Packet : mat[o][c] = IF o = c THEN One ELSE Zero
      BY <1>1, <3>1 DEF Inv, Reduced
    <3>3. m[q][c] = IF q = c THEN One ELSE Zero
      <4>1. Origin(q, r) = c <=> q = c
        BY <2>2, <3>1 DEF Origin
      <4> QED BY <1>5, <3>2, <4>1
    <3>4. m[col][c] = Zero
      <4>1. Origin(col, r) # c
        BY <2>2, <3>1 DEF Origin
      <4> QED BY <1>3, <1>5, <3>2, <4>1
    <3> QED BY <1>11, <3>3, <3>4
  <2> QED BY <2>1, <2>2
<1>16. Reduced'
  BY <1>1, <1>15 DEF Reduced, Packet
<1> QED BY <1>1, <1>13, <1>14, <1>16 DEF Inv, Recovered, WrittenAsRead

\* decode_block finds no pivot and returns -1.
LEMMA FailStep == ASSUME Inv, Fail PROVE Inv'
<1>1. /\ pc' = "dependent" /\ pc = "decode" /\ pkts' = pkts /\ len' = len
      /\ inv_table' = inv_table
  BY DEF Fail
<1>2. MaxLen' = MaxLen
  BY <1>1, SameBlock
<1>3. Shape'
  BY <1>1, <1>2 DEF Inv, Shape
<1> QED BY <1>1, <1>3 DEF Inv, Combined, Reduced, Recovered, WrittenAsRead

\* After the last column the rows are the padded packets.
LEMMA SucceedStep == ASSUME Inv, Succeed PROVE Inv'
<1>1. /\ pc = "decode" /\ col = K /\ pc' = "write" /\ col' = 0
      /\ pkts' = pkts /\ len' = len /\ inv_table' = inv_table /\ dat' = dat /\ written' = written
  BY DEF Succeed
<1>2. /\ pkts \in Seq(Traffic) /\ pkts # << >> /\ len = MaxLen /\ written = << >>
      /\ dat \in [Packet -> [Below(len) -> Elem]]
  BY <1>1 DEF Inv, Shape
<1>3. /\ Source \in [Packet -> [Below(len) -> Elem]]
      /\ \A x \in Below(len) : At(Source, x) \in Row
  BY <1>2, SourceType
<1>4. \A r, c \in Packet : mat[r][c] = IF r = c THEN One ELSE Zero
  BY <1>1, KFacts DEF Inv, Reduced, Packet
<1>5. ASSUME NEW r \in Packet, NEW x \in Below(len) PROVE dat[r][x] = Source[r][x]
  <2>1. Dot(mat[r], At(Source, x)) = At(Source, x)[r]
    BY <1>3, <1>4, DotUnit
  <2>2. dat[r][x] = Dot(mat[r], At(Source, x))
    BY <1>1 DEF Inv, Combined
  <2> QED BY <2>1, <2>2 DEF At
<1>6. dat = Source
  <2> DEFINE s == Source
  <2>1. s \in [Packet -> [Below(len) -> Elem]] /\ \A r \in Packet, x \in Below(len) : dat[r][x] = s[r][x]
    BY <1>3, <1>5
  <2> HIDE DEF s
  <2>2. \A r \in Packet : dat[r] = s[r]
    BY <1>2, <2>1
  <2>3. dat = s
    BY <1>2, <2>1, <2>2
  <2> QED BY <2>3 DEF s
<1>7. MaxLen' = MaxLen /\ Source' = Source
  BY <1>1, SameBlock
<1>8. Shape'
  BY <1>1, <1>7 DEF Inv, Shape
<1>9. Recovered'
  <2>1. Len(pkts) \in Nat /\ 0 < Len(pkts)
    BY <1>2
  <2>2. written' = First(0)'
    BY <1>1, <1>2 DEF First
  <2> QED BY <1>1, <1>6, <1>7, <2>1, <2>2, KFacts DEF Recovered, Packet
<1> QED BY <1>1, <1>8, <1>9 DEF Inv, Combined, Reduced, WrittenAsRead

\* A packet that was padded is written with its own length and bytes.
LEMMA PacketWritten ==
    ASSUME Inv, WritePacket, col < Len(pkts)
    PROVE  written' = Append(written, pkts[col + 1])
<1> DEFINE p == pkts[col + 1]
           v == dat[col]
           b == p.bytes[0]
           n == ip_packet_length(v[0], len)
<1>1. /\ pkts \in Seq(Traffic) /\ pkts # << >> /\ len = MaxLen /\ dat = Source /\ col \in Packet
  BY DEF Inv, Shape, Recovered, WritePacket
<1>2. p \in Traffic /\ col + 1 \in 1..Len(pkts)
  BY <1>1, KFacts DEF Packet
<1>3. MaxLen \in Nat /\ p.len <= MaxLen
  BY <1>1, <1>2, Longest
<1>4. p.len \in Nat /\ p.len >= 20 /\ p.bytes \in [Below(p.len) -> Elem]
  BY <1>2, PacketFacts
<1>5. v = [x \in Below(MaxLen) |-> IF x < p.len THEN p.bytes[x] ELSE Zero]
  BY <1>1 DEF Source, Padded
<1>6. IsPacket(p)
  BY <1>2, TrafficAssumption
<1> HIDE DEF p, v
<1>7. 0 \in Below(MaxLen) /\ \A x \in Below(p.len) : x \in Below(MaxLen) /\ x < p.len
  BY <1>3, <1>4, DataPathAssumption DEF Below
<1>8. v[0] = b /\ \A x \in Below(p.len) : v[x] = p.bytes[x]
  BY <1>4, <1>5, <1>7
<1>9. /\ p = [len |-> p.len, bytes |-> p.bytes]
      /\ \/ Header[b].version = 4 /\ Header[b].length = p.len /\ p.len >= 20
         \/ Header[b].version = 6 /\ (Header[b].length + 40) % 65536 = p.len /\ p.len >= 40
  BY <1>6 DEF IsPacket
<1> HIDE DEF b
<1>10. Header[b].version \in {4, 6} /\ n = p.len
  BY <1>1, <1>3, <1>4, <1>8, <1>9 DEF ip_packet_length
<1>11. tun_write(n, v)
  BY DEF WritePacket, v
<1> HIDE DEF n
<1>12. written' = Append(written, [len |-> n, bytes |-> [x \in Below(n) |-> v[x]]])
  BY <1>8, <1>10, <1>11 DEF tun_write
<1>13. [x \in Below(p.len) |-> v[x]] = p.bytes
  BY <1>4, <1>8
<1>14. written' = Append(written, [len |-> p.len, bytes |-> p.bytes])
  BY <1>10, <1>12, <1>13
<1> QED BY <1>9, <1>14 DEF p

\* A filler is no packet, and the TUN device refuses it.
LEMMA FillerRefused ==
    ASSUME Inv, WritePacket, ~(col < Len(pkts))
    PROVE  written' = written
<1>1. /\ pkts \in Seq(Traffic) /\ pkts # << >> /\ len = MaxLen /\ dat = Source /\ col \in Packet
  BY DEF Inv, Shape, Recovered, WritePacket
<1>2. MaxLen \in Nat /\ MaxLen >= 20
  <2>1. 1 \in 1..Len(pkts)
    BY <1>1
  <2>2. MaxLen \in Nat /\ pkts[1] \in Traffic /\ pkts[1].len <= MaxLen
    BY <1>1, <2>1, Longest
  <2>3. pkts[1].len \in Nat /\ pkts[1].len >= 20
    BY <2>2, PacketFacts
  <2> QED BY <2>2, <2>3
<1>3. dat[col] = [x \in Below(MaxLen) |-> Zero]
  BY <1>1 DEF Source, Filler
<1>4. 0 \in Below(MaxLen)
  BY <1>2, DataPathAssumption DEF Below
<1>5. Header[dat[col][0]].version = 0
  BY <1>3, <1>4, DataPathAssumption
<1>6. tun_write(ip_packet_length(dat[col][0], len), dat[col])
  BY DEF WritePacket
<1> QED BY <1>5, <1>6 DEF tun_write

\* One packet is cut to the length its header says and written, or refused.
LEMMA WritePacketStep == ASSUME Inv, WritePacket PROVE Inv'
<1>1. /\ pc = "write" /\ col' = col + 1 /\ pc' = (IF col + 1 = K THEN "done" ELSE "write")
      /\ pkts' = pkts /\ len' = len /\ inv_table' = inv_table /\ dat' = dat
  BY DEF WritePacket
<1>2. /\ pkts \in Seq(Traffic) /\ dat = Source /\ col \in Packet
      /\ written = First(IF col < Len(pkts) THEN col ELSE Len(pkts))
      /\ Len(pkts) \in Nat /\ Len(pkts) <= K /\ col \in Nat /\ col < K
  BY <1>1, KFacts DEF Inv, Shape, Recovered, Packet
<1>3. MaxLen' = MaxLen /\ Source' = Source /\ \A n : First(n)' = First(n)
  BY <1>1, SameBlock
<1>4. Shape'
  BY <1>1, <1>3 DEF Inv, Shape
<1>5. written' = First(IF col + 1 < Len(pkts) THEN col + 1 ELSE Len(pkts))
  <2>1. CASE col < Len(pkts)
    <3>1. written' = Append(First(col), pkts[col + 1])
      BY <1>2, <2>1, PacketWritten
    <3>2. Append(First(col), pkts[col + 1]) = First(col + 1)
      BY <1>2, <2>1 DEF First
    <3>3. col + 1 = IF col + 1 < Len(pkts) THEN col + 1 ELSE Len(pkts)
      BY <1>2, <2>1
    <3> QED BY <3>1, <3>2, <3>3
  <2>2. CASE ~(col < Len(pkts))
    <3>1. written' = First(Len(pkts))
      BY <1>2, <2>2, FillerRefused
    <3>2. ~(col + 1 < Len(pkts))
      BY <1>2, <2>2
    <3> QED BY <3>1, <3>2
  <2> QED BY <2>1, <2>2
<1>6. CASE col + 1 = K
  <2>1. written' = First(Len(pkts))
    BY <1>2, <1>5, <1>6
  <2>2. First(Len(pkts)) = pkts
    BY <1>2 DEF First
  <2> QED BY <1>1, <1>4, <1>6, <2>1, <2>2 DEF Inv, Combined, Reduced, Recovered, WrittenAsRead
<1>7. CASE col + 1 # K
  <2>1. col' \in Packet
    BY <1>1, <1>2, <1>7, KFacts DEF Packet
  <2>2. Recovered'
    BY <1>1, <1>2, <1>3, <1>5, <1>7, <2>1 DEF Recovered, First
  <2> QED BY <1>1, <1>4, <1>7, <2>2 DEF Inv, Combined, Reduced, WrittenAsRead
<1> QED BY <1>6, <1>7

\* Every step.
LEMMA NextInv == ASSUME Inv, [Next]_vars PROVE Inv'
<1>1. ASSUME NEW p \in Traffic, AddPkt(p) PROVE Inv'
  BY <1>1, AddPktStep
<1>2. ASSUME NEW c \in Shards, Flush(c) PROVE Inv'
  BY <1>2, FlushStep
<1>3. ASSUME UNCHANGED vars PROVE Inv'
  <2>1. MaxLen' = MaxLen /\ Source' = Source /\ \A n : First(n)' = First(n)
    BY <1>3, SameBlock DEF vars
  <2>2. Shape'
    BY <1>3, <2>1 DEF vars, Inv, Shape, Below
  <2>3. Combined'
    <3>1. pc' = pc /\ len' = len /\ dat' = dat /\ mat' = mat
      BY <1>3 DEF vars
    <3>2. CASE pc = "decode"
      <4>1. \A r \in Packet, x \in Below(len) : dat'[r][x] = Dot(mat'[r], At(Source', x))
        BY <2>1, <3>1, <3>2 DEF Inv, Combined
      <4>2. pc' = "decode" /\ len' = len
        BY <3>1, <3>2
      <4> QED BY <4>1, <4>2 DEF Combined, Below, At, Dot, Sum, Partial
    <3>3. CASE pc # "decode"
      BY <3>1, <3>3 DEF Combined
    <3> QED BY <3>2, <3>3
  <2>4. Reduced' /\ WrittenAsRead'
    BY <1>3 DEF vars, Inv, Reduced, WrittenAsRead
  <2>5. Recovered'
    BY <1>3, <2>1 DEF vars, Inv, Recovered, First
  <2> QED BY <2>2, <2>3, <2>4, <2>5 DEF Inv
<1> QED BY <1>1, <1>2, <1>3, EliminateStep, FailStep, SucceedStep, WritePacketStep DEF Next

\* Inv is an invariant of the data path.
LEMMA Invariance == Spec => []Inv
<1> QED BY InitInv, NextInv, PTL DEF Spec

-----------------------------------------------------------------------------
(***************************************************************************)
(* When decode_block fails.  The rows of a matrix are independent when no  *)
(* vector but 0 is orthogonal to all of them.  Row operations keep the     *)
(* vectors that are; a column without a pivot yields one, and the unit     *)
(* matrix has none.                                                        *)
(***************************************************************************)

Orthogonal(m, v) == \A r \in Packet : Dot(m[r], v) = Zero

Nothing == [j \in Packet |-> Zero]

Independent(m) == \A v \in Row : Orthogonal(m, v) => v = Nothing

\* decode_block returns -1 exactly when the k shards are linearly dependent: the
\* property FailsIffDependent by vectors instead of a determinant.
FailsExactly ==
    /\ pc = "dependent" => ~Independent(coeffs)
    /\ pc \in {"write", "done"} => Independent(coeffs)

SameKernel ==
    pc = "decode" => \A v \in Row : Orthogonal(mat, v) <=> Orthogonal(coeffs, v)

\* Clearing a column keeps the vectors that are orthogonal to all rows.
LEMMA ClearKernel ==
    ASSUME inv_table = Inverses, col \in Packet,
           NEW m \in [Packet -> Row], NEW d, m[col][col] # Zero, Clear(m, d), NEW v \in Row
    PROVE  Orthogonal(mat', v) <=> Orthogonal(m, v)
<1> DEFINE a   == m[col][col]
           inv == inv_table[a]
           mp  == Scaled(inv, m[col])
           y   == Dot(m[col], v)
           z   == Dot(mp, v)
<1>1. mat' = [q \in Packet |-> IF q = col THEN mp ELSE Axpy(m[q], m[q][col], mp)]
  BY DEF Clear
<1>2. /\ \A q \in Packet : m[q] \in Row /\ m[q][col] \in Elem
      /\ a \in Elem /\ a # Zero
  BY DEF Row
<1>3. inv \in Elem /\ mul_table[a][inv] = One
  BY <1>2, InversesFound
<1> HIDE DEF a, inv
<1>4. mp \in Row /\ z = mul_table[inv][y]
  BY <1>2, <1>3, DotScaled
<1>5. y \in Elem
  BY <1>2, DotType
<1> HIDE DEF mp, y, z
<1>6. z = Zero <=> y = Zero
  <2>1. y = Zero => z = Zero
    BY <1>3, <1>4, ZeroTimes
  <2>2. mul_table[a][z] = y
    <3>1. mul_table[a][mul_table[inv][y]] = mul_table[mul_table[a][inv]][y]
      BY <1>2, <1>3, <1>5, TimesAssoc
    <3> QED BY <1>3, <1>4, <1>5, <3>1, OneTimes
  <2>3. mul_table[a][Zero] = Zero
    BY <1>2, ZeroTimes
  <2> QED BY <2>1, <2>2, <2>3
<1>7. Dot(mat'[col], v) = z
  BY <1>1 DEF z
<1>8. ASSUME NEW q \in Packet, q # col
      PROVE  Dot(mat'[q], v) = Xor(Dot(m[q], v), mul_table[m[q][col]][z])
  <2>1. mat'[q] = Axpy(m[q], m[q][col], mp)
    BY <1>1, <1>8
  <2> QED BY <1>2, <1>4, <2>1, DotAxpy DEF z
<1>9. ASSUME NEW q \in Packet, q # col, z = Zero PROVE Dot(mat'[q], v) = Dot(m[q], v)
  <2>1. mul_table[m[q][col]][Zero] = Zero
    BY <1>2, ZeroTimes
  <2> QED BY <1>8, <1>9, <2>1, XorZero
<1>10. Dot(m[col], v) = y
  BY DEF y
<1> QED BY <1>6, <1>7, <1>9, <1>10 DEF Orthogonal

\* Without a pivot the column has no entry from the diagonal down.
LEMMA NoEntry ==
    ASSUME Inv, Fail
    PROVE  \A r \in Packet : col <= r => mat[r][col] = Zero
<1> DEFINE T == {r \in Packet : col <= r /\ mat[r][col] # Zero}
<1>1. pc = "decode" /\ col \in Packet /\ \A r \in Packet : ~IsPivot(r)
  BY KFacts DEF Inv, Shape, Fail, Packet
<1>2. T # {} => \E r \in T : \A q \in T : r <= q
  <2>1. T \subseteq Nat
    BY KFacts DEF Packet
  <2> HIDE DEF T
  <2> QED BY <2>1, LeastNatural
<1>3. ASSUME NEW r \in T, \A q \in T : r <= q PROVE FALSE
  <2>1. /\ r \in col..(K - 1) /\ mat[r][col] # Zero
        /\ \A q \in col..(r - 1) : mat[q][col] = Zero
    BY <1>1, <1>3, KFacts DEF Packet
  <2> QED BY <1>1, <1>3, <2>1 DEF IsPivot
<1> QED BY <1>2, <1>3

\* Without a pivot the columns up to the current one are dependent.
LEMMA NoPivot == ASSUME Inv, Fail PROVE \E v \in Row : v # Nothing /\ Orthogonal(mat, v)
<1>1. /\ pc = "decode" /\ col \in Packet
      /\ \A r \in Packet : ~IsPivot(r)
  BY KFacts DEF Inv, Shape, Fail, Packet
<1>2. \A r \in Packet : mat[r] \in Row /\ \A c \in Packet : mat[r][c] \in Elem
  BY <1>1 DEF Inv, Shape, Row
<1>3. \A r \in Packet : col <= r => mat[r][col] = Zero
  BY NoEntry
<1>4. \A r, c \in Packet : c < col => mat[r][c] = IF r = c THEN One ELSE Zero
  BY <1>1 DEF Inv, Reduced
<1> DEFINE v == [j \in Packet |-> IF j = col THEN One ELSE IF j < col THEN mat[j][col] ELSE Zero]
           e == [j \in Packet |-> IF j = col THEN One ELSE Zero]
<1>5. v \in Row /\ e \in Row
  BY <1>1, <1>2, Bytes DEF Row
<1>6. v # Nothing
  BY <1>1 DEF Nothing, One, Zero
<1>7. ASSUME NEW r \in Packet PROVE Dot(mat[r], v) = Zero
  <2> DEFINE f == [j \in Packet |-> mul_table[mat[r][j]][v[j]]]
             x == mat[r][col]
  <2>1. x \in Elem
    BY <1>1, <1>2
  <2>2. f[col] = x
    <3>1. v[col] = One /\ f[col] = mul_table[x][One]
      BY <1>1
    <3> QED BY <2>1, <3>1, OneTimes, TimesComm, Bytes
  <2>3. ASSUME NEW j \in Packet, col < j PROVE f[j] = Zero
    <3>1. v[j] = Zero
      BY <1>1, <2>3, KFacts DEF Packet
    <3>2. mul_table[mat[r][j]][Zero] = Zero
      BY <1>2, ZeroTimes
    <3> QED BY <3>1, <3>2
  <2>4. ASSUME NEW j \in Packet, j < col PROVE f[j] = IF j = r THEN x ELSE Zero
    <3>1. v[j] = mat[j][col] /\ mat[j][col] \in Elem
      BY <1>1, <1>2, <2>4, KFacts DEF Packet
    <3>2. CASE j = r
      <4>1. mat[r][j] = One
        BY <1>4, <2>4, <3>2
      <4>2. mul_table[One][mat[j][col]] = mat[j][col]
        BY <3>1, OneTimes
      <4> QED BY <3>1, <3>2, <4>1, <4>2
    <3>3. CASE j # r
      <4>1. mat[r][j] = Zero
        BY <1>4, <2>4, <3>3
      <4>2. mul_table[Zero][mat[j][col]] = Zero
        BY <3>1, ZeroTimes
      <4> QED BY <3>1, <3>3, <4>1, <4>2
    <3> QED BY <3>2, <3>3
  <2>5. Dot(mat[r], v) = Sum(f)
    BY DEF Dot
  <2> HIDE DEF f, v
  <2>6. CASE col <= r
    <3>1. x = Zero
      BY <1>3, <2>6
    <3>2. \A j \in Packet : j # col => f[j] = Zero
      <4> SUFFICES ASSUME NEW j \in Packet, j # col PROVE f[j] = Zero
        OBVIOUS
      <4>1. j < col \/ col < j
        BY <1>1, KFacts DEF Packet
      <4> QED BY <2>3, <2>4, <3>1, <4>1
    <3>3. Sum(f) = f[col]
      BY <1>1, <3>2, SumSingle
    <3> QED BY <2>2, <2>5, <3>1, <3>3
  <2>7. CASE ~(col <= r)
    <3> DEFINE g == [j \in Packet |-> IF j = col THEN x ELSE Zero]
               h == [j \in Packet |-> IF j = r THEN x ELSE Zero]
    <3>1. r < col /\ r # col
      BY <1>1, <2>7, KFacts DEF Packet
    <3>2. \A j \in Packet : f[j] = Xor(g[j], h[j])
      <4> SUFFICES ASSUME NEW j \in Packet PROVE f[j] = Xor(g[j], h[j])
        OBVIOUS
      <4>1. j < col \/ j = col \/ col < j
        BY <1>1, KFacts DEF Packet
      <4>2. CASE j < col
        <5>1. g[j] = Zero /\ h[j] = IF j = r THEN x ELSE Zero
          BY <1>1, <4>2, KFacts DEF Packet
        <5> QED BY <2>4, <4>2, <5>1, XorZero
      <4>3. CASE j = col
        <5>1. g[j] = x /\ h[j] = Zero
          BY <3>1, <4>3
        <5> QED BY <2>2, <4>3, <5>1, XorZero
      <4>4. CASE col < j
        <5>1. g[j] = Zero /\ h[j] = Zero
          BY <1>1, <3>1, <4>4, KFacts DEF Packet
        <5> QED BY <2>3, <4>4, <5>1, XorZero
      <4> QED BY <4>1, <4>2, <4>3, <4>4
    <3>3. /\ g[col] = x /\ h[r] = x
          /\ \A j \in Packet : j # col => g[j] = Zero
          /\ \A j \in Packet : j # r => h[j] = Zero
      BY <1>1
    <3> HIDE DEF g, h
    <3>4. Sum(g) = x
      BY <1>1, <3>3, SumSingle
    <3>5. Sum(h) = x
      BY <3>3, SumSingle
    <3>6. Sum(f) = Xor(Sum(g), Sum(h))
      BY <3>2, SumAdds
    <3> QED BY <2>5, <3>4, <3>5, <3>6, XorZero
  <2> QED BY <2>6, <2>7
<1> HIDE DEF v
<1> QED BY <1>5, <1>6, <1>7 DEF Orthogonal

KernelInv == SameKernel /\ FailsExactly

\* Every step keeps them, so a missing pivot tells of the shards as they arrived.
LEMMA KernelStep == ASSUME Inv, KernelInv, [Next]_vars PROVE KernelInv'
<1>1. ASSUME NEW p \in Traffic, AddPkt(p) PROVE KernelInv'
  BY <1>1 DEF AddPkt, KernelInv, SameKernel, FailsExactly
<1>2. ASSUME NEW c \in Shards, Flush(c) PROVE KernelInv'
  <2>1. pc' = "decode" /\ mat' = coeffs'
    BY <1>2 DEF Flush
  <2>2. \A v \in Row : Orthogonal(mat', v) <=> Orthogonal(coeffs', v)
    BY <2>1
  <2> QED BY <2>1, <2>2 DEF KernelInv, SameKernel, FailsExactly
<1>3. ASSUME Eliminate PROVE KernelInv'
  <2>1. /\ pc = "decode" /\ pc' = "decode" /\ col < K /\ coeffs' = coeffs
        /\ inv_table = Inverses /\ mat \in [Packet -> Row] /\ col \in Packet
    BY <1>3, KFacts DEF Eliminate, Inv, Shape, Packet
  <2>2. PICK r \in Packet : IsPivot(r) /\ Clear(Swap(mat, r), Swap(dat, r))
    BY <1>3 DEF Eliminate, Column
  <2> DEFINE m == Swap(mat, r)
             d == Swap(dat, r)
  <2>3. /\ m \in [Packet -> Row]
        /\ \A q \in Packet : Origin(q, r) \in Packet /\ m[q] = mat[Origin(q, r)]
    BY <2>1 DEF Swap, Origin
  <2>4. Clear(m, d)
    BY <2>2
  <2> HIDE DEF m, d
  <2>5. m[col][col] # Zero
    <3>1. m[col] = mat[r]
      BY <2>1, <2>3 DEF Origin
    <3> QED BY <2>2, <3>1 DEF IsPivot
  <2>6. \A v \in Row : Orthogonal(mat', v) <=> Orthogonal(m, v)
    BY <2>1, <2>3, <2>4, <2>5, ClearKernel
  <2>7. \A v \in Row : Orthogonal(m, v) <=> Orthogonal(mat, v)
    <3>1. \A q \in Packet : Origin(Origin(q, r), r) = q
      BY DEF Origin
    <3>2. \A q \in Packet : m[Origin(q, r)] = mat[q]
      BY <2>3, <3>1
    <3> QED BY <2>3, <3>2 DEF Orthogonal
  <2>8. \A v \in Row : Orthogonal(mat', v) <=> Orthogonal(coeffs', v)
    BY <2>1, <2>6, <2>7 DEF KernelInv, SameKernel
  <2> QED BY <2>1, <2>8 DEF KernelInv, SameKernel, FailsExactly
<1>4. ASSUME Fail PROVE KernelInv'
  <2>1. pc = "decode" /\ pc' = "dependent" /\ coeffs' = coeffs
    BY <1>4 DEF Fail
  <2>2. PICK v \in Row : v # Nothing /\ Orthogonal(mat, v)
    BY <1>4, NoPivot
  <2>3. ~Independent(coeffs)
    BY <2>1, <2>2 DEF KernelInv, SameKernel, Independent
  <2> QED BY <2>1, <2>3 DEF KernelInv, SameKernel, FailsExactly
<1>5. ASSUME Succeed PROVE KernelInv'
  <2>1. pc = "decode" /\ pc' = "write" /\ coeffs' = coeffs /\ col = K
    BY <1>5 DEF Succeed
  <2>2. \A r, c \in Packet : mat[r][c] = IF r = c THEN One ELSE Zero
    BY <2>1, KFacts DEF Inv, Reduced, Packet
  <2>3. ASSUME NEW v \in Row, Orthogonal(coeffs, v) PROVE v = Nothing
    <3>1. Orthogonal(mat, v)
      BY <2>1, <2>3 DEF KernelInv, SameKernel
    <3>2. ASSUME NEW r \in Packet PROVE v[r] = Zero
      <4>1. Dot(mat[r], v) = v[r]
        BY <2>2, DotUnit
      <4> QED BY <3>1, <4>1 DEF Orthogonal
    <3> QED BY <3>2 DEF Row, Nothing
  <2>4. Independent(coeffs)
    BY <2>3 DEF Independent
  <2> QED BY <2>1, <2>4 DEF KernelInv, SameKernel, FailsExactly
<1>6. ASSUME WritePacket PROVE KernelInv'
  BY <1>6 DEF WritePacket, KernelInv, SameKernel, FailsExactly
<1>7. ASSUME UNCHANGED vars PROVE KernelInv'
  BY <1>7 DEF vars, KernelInv, SameKernel, FailsExactly
<1> QED BY <1>1, <1>2, <1>3, <1>4, <1>5, <1>6, <1>7 DEF Next

-----------------------------------------------------------------------------
(***************************************************************************)
(* Products of the field.                                                  *)
(***************************************************************************)

\* The products of GaloisField have the laws of those of the table.
LEMMA MulFacts ==
    ASSUME NEW a \in Elem, NEW b \in Elem, NEW c \in Elem
    PROVE  /\ Mul(a, b) \in Elem /\ Mul(a, b) = Mul(b, a)
           /\ Mul(Mul(a, b), c) = Mul(a, Mul(b, c))
           /\ Mul(a, Xor(b, c)) = Xor(Mul(a, b), Mul(a, c))
           /\ Mul(a, Zero) = Zero /\ Mul(Zero, a) = Zero
           /\ Mul(One, a) = a
<1>1. mul_table[a][b] \in Elem /\ mul_table[b][c] \in Elem
  BY TimesType
<1>2. /\ Mul(a, b) = mul_table[a][b] /\ Mul(b, a) = mul_table[b][a]
      /\ Mul(b, c) = mul_table[b][c]
  BY TableIsProduct
<1>3. Mul(a, b) \in Elem /\ Mul(b, c) \in Elem
  BY <1>1, <1>2
<1>4. /\ Mul(Mul(a, b), c) = mul_table[Mul(a, b)][c]
      /\ Mul(a, Mul(b, c)) = mul_table[a][Mul(b, c)]
  BY <1>3, TableIsProduct
<1>5. Mul(a, Zero) = Zero /\ Mul(Zero, a) = Zero /\ Mul(One, a) = a
  BY TableIsProduct, ZeroTimes, OneTimes, Bytes
<1>6. mul_table[a][b] = mul_table[b][a]
  BY TimesComm
<1>7. mul_table[mul_table[a][b]][c] = mul_table[a][mul_table[b][c]]
  BY TimesAssoc
<1>8. Mul(a, Xor(b, c)) = Xor(Mul(a, b), Mul(a, c))
  BY MulAdds
<1>9. Mul(Mul(a, b), c) = Mul(a, Mul(b, c))
  BY <1>2, <1>4, <1>7
<1>10. Mul(a, b) = Mul(b, a)
  BY <1>2, <1>6
<1> QED BY <1>3, <1>5, <1>8, <1>9, <1>10

\* t holds the first n products of f.
IsProducts(t, f, n) == t = [j \in 0..n |-> IF j = 0 THEN One ELSE Mul(t[j - 1], f[j - 1])]

\* The recursion has a solution.
LEMMA ProductsExist == ASSUME NEW f, NEW n \in Nat PROVE \E t : IsProducts(t, f, n)
<1> DEFINE Good == {m \in Nat : \E t : IsProducts(t, f, m)}
<1>1. 0 \in Good
  <2> DEFINE t0 == [j \in 0..0 |-> One]
  <2>1. IsProducts(t0, f, 0)
    BY DEF IsProducts
  <2> QED BY <2>1
<1>2. ASSUME NEW m \in 0..(n - 1), m \in Good PROVE m + 1 \in Good
  <2>1. PICK t : IsProducts(t, f, m)
    BY <1>2
  <2> DEFINE u == [j \in 0..(m + 1) |-> IF j = m + 1 THEN Mul(t[m], f[m]) ELSE t[j]]
  <2>2. \A j \in 0..(m + 1) : u[j] = IF j = 0 THEN One ELSE Mul(u[j - 1], f[j - 1])
    BY <2>1 DEF IsProducts
  <2>3. IsProducts(u, f, m + 1)
    BY <2>2 DEF IsProducts
  <2> QED BY <2>3
<1> HIDE DEF Good
<1>3. 0..n \subseteq Good
  BY <1>1, <1>2, Induct
<1> QED BY <1>3 DEF Good

\* A product factor by factor.
LEMMA ProductSteps ==
    \A f : /\ PartialProduct(f)[0] = One
           /\ \A j \in Packet : PartialProduct(f)[j + 1] = Mul(PartialProduct(f)[j], f[j])
<1> TAKE f
<1> DEFINE t == PartialProduct(f)
<1>1. K \in Nat
  BY KFacts
<1>2. \E u : IsProducts(u, f, K)
  BY <1>1, ProductsExist
<1>3. IsProducts(t, f, K)
  BY <1>2 DEF PartialProduct, IsProducts
<1> HIDE DEF t
<1>4. t[0] = One
  BY <1>1, <1>3 DEF IsProducts
<1>5. ASSUME NEW j \in Packet PROVE t[j + 1] = Mul(t[j], f[j])
  <2>1. j + 1 \in 0..K /\ j + 1 # 0 /\ (j + 1) - 1 = j
    BY <1>1 DEF Packet
  <2>2. t[j + 1] = IF j + 1 = 0 THEN One ELSE Mul(t[(j + 1) - 1], f[(j + 1) - 1])
    BY <1>3, <2>1 DEF IsProducts
  <2> QED BY <2>1, <2>2
<1> QED BY <1>4, <1>5 DEF t

\* The product of all of f.
Prod(f) == PartialProduct(f)[K]

\* The product of bytes is a byte.
LEMMA ProdType ==
    ASSUME NEW f \in Row
    PROVE  Prod(f) \in Elem /\ \A j \in 0..K : PartialProduct(f)[j] \in Elem
<1> DEFINE t == PartialProduct(f)
           T == {j \in 0..K : t[j] \in Elem}
<1>1. t[0] = One /\ \A j \in Packet : t[j + 1] = Mul(t[j], f[j])
  BY ProductSteps, Zenon
<1>2. Prod(f) = t[K]
  BY DEF Prod
<1> HIDE DEF t
<1>3. 0 \in T
  BY <1>1, Bytes, KFacts
<1>4. ASSUME NEW j \in 0..(K - 1), j \in T PROVE j + 1 \in T
  <2>1. j \in Packet /\ j + 1 \in 0..K /\ f[j] \in Elem
    BY KFacts DEF Packet, Row
  <2>2. t[j] \in Elem
    BY <1>4
  <2>3. t[j + 1] \in Elem
    BY <1>1, <2>1, <2>2, MulFacts
  <2> QED BY <2>1, <2>3
<1> HIDE DEF T
<1>5. 0..K \subseteq T
  BY <1>3, <1>4, Induct, KFacts
<1>6. \A j \in 0..K : t[j] \in Elem
  BY <1>5 DEF T
<1> QED BY <1>2, <1>6, KFacts DEF t

\* One factor taken out: it is replaced by 1.
Without(f, q) == [j \in Packet |-> IF j = q THEN One ELSE f[j]]

\* A factor taken out stands in front of the rest of the product.
LEMMA TakeOut ==
    ASSUME NEW f \in Row, NEW q \in Packet
    PROVE  /\ Without(f, q) \in Row
           /\ Prod(f) = Mul(f[q], Prod(Without(f, q)))
<1> DEFINE g == Without(f, q)
           t == PartialProduct(f)
           u == PartialProduct(g)
           x == f[q]
           T == {j \in 0..K : t[j] = IF j <= q THEN u[j] ELSE Mul(x, u[j])}
<1>1. g \in Row /\ g[q] = One /\ x \in Elem /\ \A j \in Packet : j # q => g[j] = f[j]
  BY Bytes DEF Without, Row
<1>2. q \in 0..(K - 1) /\ K \in Nat
  BY KFacts DEF Packet
<1>3. t[0] = One /\ \A j \in Packet : t[j + 1] = Mul(t[j], f[j])
  BY ProductSteps, Zenon
<1>4. u[0] = One /\ \A j \in Packet : u[j + 1] = Mul(u[j], g[j])
  BY ProductSteps, Zenon
<1>5. \A j \in 0..K : u[j] \in Elem
  BY <1>1, ProdType
<1>6. Prod(f) = t[K] /\ Prod(g) = u[K]
  BY DEF Prod
<1> HIDE DEF g, t, u, x
<1>7. 0 \in T
  BY <1>2, <1>3, <1>4
<1>8. ASSUME NEW j \in 0..(K - 1), j \in T PROVE j + 1 \in T
  <2>1. j \in Packet /\ j + 1 \in 0..K /\ j \in 0..K /\ f[j] \in Elem /\ u[j] \in Elem
    BY <1>2, <1>5 DEF Packet, Row
  <2>2. t[j + 1] = Mul(t[j], f[j]) /\ u[j + 1] = Mul(u[j], g[j])
    BY <1>3, <1>4, <2>1
  <2>3. CASE j < q
    <3>1. t[j] = u[j] /\ g[j] = f[j] /\ j + 1 <= q
      BY <1>1, <1>2, <1>8, <2>1, <2>3
    <3> QED BY <2>1, <2>2, <3>1
  <2>4. CASE j = q
    <3>1. t[j] = u[j] /\ f[j] = x /\ g[j] = One /\ ~(j + 1 <= q)
      BY <1>1, <1>2, <1>8, <2>4 DEF x
    <3>2. u[j + 1] = u[j]
      <4>1. Mul(u[j], One) = Mul(One, u[j]) /\ Mul(One, u[j]) = u[j]
        BY <2>1, MulFacts, Bytes
      <4> QED BY <2>2, <3>1, <4>1
    <3>3. t[j + 1] = Mul(x, u[j + 1])
      <4>1. Mul(u[j], x) = Mul(x, u[j])
        BY <1>1, <2>1, MulFacts
      <4> QED BY <2>2, <3>1, <3>2, <4>1
    <3> QED BY <2>1, <3>1, <3>3
  <2>5. CASE j > q
    <3>1. t[j] = Mul(x, u[j]) /\ g[j] = f[j] /\ ~(j + 1 <= q)
      BY <1>1, <1>2, <1>8, <2>1, <2>5
    <3>2. Mul(Mul(x, u[j]), f[j]) = Mul(x, Mul(u[j], f[j]))
      <4>1. x \in Elem /\ u[j] \in Elem /\ f[j] \in Elem
        BY <1>1, <2>1
      <4> DEFINE y == u[j]
                 z == f[j]
      <4>2. y \in Elem /\ z \in Elem
        BY <4>1
      <4> HIDE DEF y, z
      <4>3. Mul(Mul(x, y), z) = Mul(x, Mul(y, z))
        BY <4>1, <4>2, MulFacts
      <4> QED BY <4>3 DEF y, z
    <3>3. t[j + 1] = Mul(x, u[j + 1])
      BY <2>2, <3>1, <3>2
    <3> QED BY <2>1, <3>1, <3>3
  <2> QED BY <1>2, <2>3, <2>4, <2>5
<1> HIDE DEF T
<1>9. 0..K \subseteq T
  BY <1>7, <1>8, Induct, KFacts
<1>10. K \in T /\ ~(K <= q)
  BY <1>2, <1>9
<1>11. Prod(f) = Mul(x, Prod(g))
  BY <1>6, <1>10 DEF T
<1> QED BY <1>1, <1>11 DEF g, x

\* A factor 0 makes the product 0.
LEMMA ProdZero ==
    ASSUME NEW f \in Row, NEW q \in Packet, f[q] = Zero
    PROVE  Prod(f) = Zero
<1>1. Prod(f) = Mul(Zero, Prod(Without(f, q))) /\ Without(f, q) \in Row
  BY TakeOut
<1>2. Prod(Without(f, q)) \in Elem
  BY <1>1, ProdType
<1> QED BY <1>1, <1>2, MulFacts

\* Factors 1 make the product 1.
LEMMA ProdOne ==
    ASSUME NEW f, \A j \in Packet : f[j] = One
    PROVE  Prod(f) = One
<1> DEFINE t == PartialProduct(f)
           T == {j \in 0..K : t[j] = One}
<1>1. t[0] = One /\ \A j \in Packet : t[j + 1] = Mul(t[j], f[j])
  BY ProductSteps, Zenon
<1>2. Prod(f) = t[K]
  BY DEF Prod
<1> HIDE DEF t
<1>3. 0 \in T
  BY <1>1, KFacts
<1>4. ASSUME NEW j \in 0..(K - 1), j \in T PROVE j + 1 \in T
  <2>1. j \in Packet /\ j + 1 \in 0..K
    BY KFacts DEF Packet
  <2>2. Mul(One, One) = One
    BY Bytes, MulFacts
  <2>3. t[j + 1] = One
    BY <1>1, <1>4, <2>1, <2>2
  <2> QED BY <2>1, <2>3
<1> HIDE DEF T
<1>5. 0..K \subseteq T
  BY <1>3, <1>4, Induct, KFacts
<1> QED BY <1>2, <1>5, KFacts DEF T

\* Two factors may change places.
LEMMA ProdSwapped ==
    ASSUME NEW f \in Row, NEW g \in Row, NEW p \in Packet, NEW q \in Packet, p # q,
           g[p] = f[q], g[q] = f[p], \A j \in Packet \ {p, q} : g[j] = f[j]
    PROVE  Prod(g) = Prod(f)
<1> DEFINE f1 == Without(f, p)
           g1 == Without(g, p)
           f2 == Without(f1, q)
           g2 == Without(g1, q)
           x  == f[p]
           y  == f[q]
           z  == Prod(f2)
<1>1. /\ f1 \in Row /\ Prod(f) = Mul(x, Prod(f1))
      /\ g1 \in Row /\ Prod(g) = Mul(y, Prod(g1))
  BY TakeOut
<1>2. f1[q] = y /\ g1[q] = x
  BY DEF Without
<1>3. g2 = f2
  BY DEF Without
<1>4. x \in Elem /\ y \in Elem
  BY DEF Row
<1>5. /\ f2 \in Row /\ Prod(f1) = Mul(f1[q], Prod(f2))
      /\ g2 \in Row /\ Prod(g1) = Mul(g1[q], Prod(g2))
  <2> HIDE DEF f1, g1
  <2> QED BY <1>1, TakeOut
<1>6. z \in Elem
  BY <1>5, ProdType
<1>7. Prod(f) = Mul(x, Mul(y, z)) /\ Prod(g) = Mul(y, Mul(x, z))
  BY <1>1, <1>2, <1>3, <1>5
<1> HIDE DEF f1, g1, f2, g2, x, y, z
<1>8. Mul(x, Mul(y, z)) = Mul(y, Mul(x, z))
  <2>1. Mul(Mul(x, y), z) = Mul(x, Mul(y, z)) /\ Mul(Mul(y, x), z) = Mul(y, Mul(x, z))
    BY <1>4, <1>6, MulFacts
  <2>2. Mul(x, y) = Mul(y, x)
    BY <1>4, MulFacts
  <2> QED BY <2>1, <2>2
<1> QED BY <1>7, <1>8

\* A factor that is a sum.
LEMMA ProdAdds ==
    ASSUME NEW f \in Row, NEW g \in Row, NEW h \in Row, NEW q \in Packet, NEW a \in Elem,
           h[q] = Xor(f[q], Mul(a, g[q])),
           \A j \in Packet \ {q} : h[j] = f[j] /\ g[j] = f[j]
    PROVE  Prod(h) = Xor(Prod(f), Mul(a, Prod(g)))
<1> DEFINE x == f[q]
           y == g[q]
           z == Prod(Without(f, q))
<1>1. Without(g, q) = Without(f, q) /\ Without(h, q) = Without(f, q)
  BY DEF Without
<1>2. /\ Without(f, q) \in Row
      /\ Prod(f) = Mul(x, z) /\ Prod(g) = Mul(y, z)
      /\ Prod(h) = Mul(h[q], z)
  BY <1>1, TakeOut
<1>3. x \in Elem /\ y \in Elem /\ z \in Elem
  BY <1>2, ProdType DEF Row
<1>4. h[q] = Xor(x, Mul(a, y))
  OBVIOUS
<1> HIDE DEF x, y, z
<1>5. Mul(a, y) \in Elem /\ Xor(x, Mul(a, y)) \in Elem
  BY <1>3, MulFacts, XorType
<1>6. Mul(Xor(x, Mul(a, y)), z) = Xor(Mul(x, z), Mul(a, Mul(y, z)))
  <2>1. Mul(Xor(x, Mul(a, y)), z) = Mul(z, Xor(x, Mul(a, y)))
    BY <1>3, <1>5, MulFacts
  <2>2. Mul(z, Xor(x, Mul(a, y))) = Xor(Mul(z, x), Mul(z, Mul(a, y)))
    BY <1>3, <1>5, MulFacts
  <2>3. Mul(z, x) = Mul(x, z) /\ Mul(z, Mul(a, y)) = Mul(Mul(a, y), z)
    BY <1>3, <1>5, MulFacts
  <2>4. Mul(Mul(a, y), z) = Mul(a, Mul(y, z))
    BY <1>3, MulFacts
  <2> QED BY <2>1, <2>2, <2>3, <2>4
<1> QED BY <1>2, <1>4, <1>6

\* A factor that is scaled scales the product.
LEMMA ProdScaled ==
    ASSUME NEW f \in Row, NEW h \in Row, NEW q \in Packet, NEW a \in Elem,
           h[q] = Mul(a, f[q]), \A j \in Packet \ {q} : h[j] = f[j]
    PROVE  Prod(h) = Mul(a, Prod(f))
<1> DEFINE x == f[q]
           z == Prod(Without(f, q))
<1>1. Without(h, q) = Without(f, q)
  BY DEF Without
<1>2. /\ Without(f, q) \in Row
      /\ Prod(f) = Mul(x, z) /\ Prod(h) = Mul(Mul(a, x), z)
  BY <1>1, TakeOut
<1>3. x \in Elem /\ z \in Elem
  BY <1>2, ProdType DEF Row
<1> HIDE DEF x, z
<1>4. Mul(Mul(a, x), z) = Mul(a, Mul(x, z))
  BY <1>3, MulFacts
<1> QED BY <1>2, <1>4

-----------------------------------------------------------------------------
(***************************************************************************)
(* Sums over sets of permutations.                                         *)
(***************************************************************************)

\* The sum of the bytes F[f], for f in P.
XSum(P, F) == {e \in Bit : Cardinality({f \in P : e \in F[f]}) % 2 = 1}

\* There are finitely many permutations: their graphs are subsets of a finite
\* product.
LEMMA PermutationsFinite == IsFiniteSet(Permutation)
<1> DEFINE A == Packet \X Packet
           g == [f \in Permutation |-> {<<j, f[j]>> : j \in Packet}]
<1>1. IsFiniteSet(SUBSET A)
  <2>1. IsFiniteSet(Packet)
    BY KFacts, FS_Interval DEF Packet
  <2>2. IsFiniteSet(A)
    BY <2>1, FS_Product
  <2> QED BY <2>2, FS_SUBSET
<1>2. g \in [Permutation -> SUBSET A]
  BY DEF Permutation
<1>3. ASSUME NEW f \in Permutation, NEW h \in Permutation, g[f] = g[h] PROVE f = h
  <2>1. ASSUME NEW j \in Packet PROVE f[j] = h[j]
    <3>1. <<j, f[j]>> \in g[f]
      OBVIOUS
    <3>2. PICK l \in Packet : <<j, f[j]>> = <<l, h[l]>>
      BY <1>3, <3>1
    <3> QED BY <3>2
  <2> QED BY <2>1 DEF Permutation
<1> HIDE DEF g, A
<1>4. g \in Injection(Permutation, SUBSET A)
  BY <1>2, <1>3 DEF Injection, IsInjective
<1> QED BY <1>1, <1>4, FS_Injection

\* Sums are bytes.
LEMMA XSumType == \A P, F : XSum(P, F) \in Elem
BY DEF XSum, Elem, Bit

\* Sums of sums.
LEMMA XSumAdds ==
    ASSUME NEW P, IsFiniteSet(P), NEW F, NEW G, NEW H,
           \A f \in P : H[f] = Xor(F[f], G[f])
    PROVE  XSum(P, H) = Xor(XSum(P, F), XSum(P, G))
<1>1. ASSUME NEW e \in Bit
      PROVE  e \in XSum(P, H) <=> ~(e \in XSum(P, F) <=> e \in XSum(P, G))
  <2> DEFINE x == {f \in P : e \in F[f]}
             y == {f \in P : e \in G[f]}
             z == {f \in P : e \in H[f]}
  <2>1. z = Xor(x, y)
    BY DEF Xor
  <2>2. IsFiniteSet(x) /\ IsFiniteSet(y)
    <3>1. x \in SUBSET P /\ y \in SUBSET P
      OBVIOUS
    <3> HIDE DEF x, y
    <3> QED BY <3>1, FS_Subset
  <2>3. /\ e \in XSum(P, F) <=> Cardinality(x) % 2 = 1
        /\ e \in XSum(P, G) <=> Cardinality(y) % 2 = 1
        /\ e \in XSum(P, H) <=> Cardinality(z) % 2 = 1
    BY DEF XSum
  <2> HIDE DEF x, y, z
  <2> QED BY <2>1, <2>2, <2>3, OddXor
<1>2. XSum(P, F) \subseteq Bit /\ XSum(P, G) \subseteq Bit /\ XSum(P, H) \subseteq Bit
  BY DEF XSum
<1> QED BY <1>1, <1>2 DEF Xor

\* The sum over one more.
LEMMA XSumOneMore ==
    ASSUME NEW P, IsFiniteSet(P), NEW F, NEW x, x \notin P, F[x] \in Elem
    PROVE  XSum(P \cup {x}, F) = Xor(XSum(P, F), F[x])
<1>1. ASSUME NEW e \in Bit
      PROVE  e \in XSum(P \cup {x}, F) <=> ~(e \in XSum(P, F) <=> e \in F[x])
  <2> DEFINE S == {f \in P : e \in F[f]}
             T == {f \in P \cup {x} : e \in F[f]}
  <2>1. T = IF e \in F[x] THEN S \cup {x} ELSE S
    OBVIOUS
  <2>2. IsFiniteSet(S) /\ x \notin S
    <3>1. S \in SUBSET P
      OBVIOUS
    <3> HIDE DEF S
    <3> QED BY <3>1, FS_Subset
  <2>3. /\ e \in XSum(P, F) <=> Cardinality(S) % 2 = 1
        /\ e \in XSum(P \cup {x}, F) <=> Cardinality(T) % 2 = 1
    BY DEF XSum
  <2> HIDE DEF S, T
  <2>4. Cardinality(S) \in Nat /\ Cardinality(S \cup {x}) = Cardinality(S) + 1
    BY <2>2, FS_CardinalityType, FS_AddElement
  <2>5. (Cardinality(S) + 1) % 2 = 1 <=> ~(Cardinality(S) % 2 = 1)
    BY <2>4
  <2> QED BY <2>1, <2>3, <2>4, <2>5
<1>2. XSum(P, F) \subseteq Bit /\ XSum(P \cup {x}, F) \subseteq Bit /\ F[x] \subseteq Bit
  BY DEF XSum, Elem, Bit
<1> QED BY <1>1, <1>2 DEF Xor

\* The sum over none.
LEMMA XSumNone ==
    ASSUME NEW P, NEW F, \A f \in P : F[f] = Zero
    PROVE  XSum(P, F) = Zero
<1>1. ASSUME NEW e \in Bit PROVE e \notin XSum(P, F)
  <2>1. {f \in P : e \in F[f]} = {}
    BY DEF Zero
  <2>2. Cardinality({f \in P : e \in F[f]}) = 0
    BY <2>1, FS_EmptySet, Zenon
  <2> QED BY <2>2 DEF XSum
<1>2. XSum(P, F) \subseteq Bit
  BY DEF XSum
<1> QED BY <1>1, <1>2 DEF Zero

\* Multiples of sums, by induction on the number of terms.
LEMMA XSumScales ==
    ASSUME NEW P, IsFiniteSet(P), NEW a \in Elem, NEW F, NEW H,
           \A f \in P : F[f] \in Elem /\ H[f] = Mul(a, F[f])
    PROVE  XSum(P, H) = Mul(a, XSum(P, F))
<1> DEFINE n == Cardinality(P)
           Good == {l \in Nat : \A S \in SUBSET P :
                        Cardinality(S) = l => XSum(S, H) = Mul(a, XSum(S, F))}
<1>1. n \in Nat
  BY FS_CardinalityType
<1>2. 0 \in Good
  <2> SUFFICES ASSUME NEW S \in SUBSET P, Cardinality(S) = 0
               PROVE  XSum(S, H) = Mul(a, XSum(S, F))
    OBVIOUS
  <2>1. S = {}
    BY FS_Subset, FS_EmptySet
  <2>2. XSum(S, H) = Zero /\ XSum(S, F) = Zero
    BY <2>1, XSumNone
  <2> QED BY <2>2, MulFacts
<1>3. ASSUME NEW l \in 0..(n - 1), l \in Good PROVE l + 1 \in Good
  <2> SUFFICES ASSUME NEW S \in SUBSET P, Cardinality(S) = l + 1
               PROVE  XSum(S, H) = Mul(a, XSum(S, F))
    BY <1>1
  <2>1. IsFiniteSet(S) /\ l \in Nat
    BY <1>1, FS_Subset
  <2>2. S # {}
    BY <2>1, FS_EmptySet
  <2>3. PICK x \in S : TRUE
    BY <2>2
  <2>4. \A T \in SUBSET P : Cardinality(T) = l => XSum(T, H) = Mul(a, XSum(T, F))
    BY <1>3
  <2> HIDE DEF Good, n
  <2> DEFINE T == S \ {x}
             y == XSum(T, F)
             z == F[x]
  <2>5. IsFiniteSet(T) /\ Cardinality(T) = l
    <3>1. IsFiniteSet(T) /\ Cardinality(T) = Cardinality(S) - 1
      BY <2>1, <2>3, FS_RemoveElement
    <3> QED BY <2>1, <3>1
  <2>6. T \in SUBSET P /\ S = T \cup {x} /\ x \notin T /\ x \in P
    OBVIOUS
  <2>7. z \in Elem /\ H[x] = Mul(a, z)
    BY <2>6
  <2>8. XSum(T, H) = Mul(a, y)
    BY <2>4, <2>5, <2>6
  <2> HIDE DEF T
  <2>9. XSum(S, F) = Xor(y, z)
    BY <2>5, <2>6, <2>7, XSumOneMore
  <2>10. y \in Elem
    BY XSumType
  <2> HIDE DEF y, z
  <2>11. Mul(a, z) \in Elem
    BY <2>7, MulFacts
  <2>12. XSum(S, H) = Xor(Mul(a, y), Mul(a, z))
    <3>1. XSum(T \cup {x}, H) = Xor(XSum(T, H), H[x])
      BY <2>5, <2>6, <2>7, <2>11, XSumOneMore
    <3> QED BY <2>6, <2>7, <2>8, <3>1
  <2>13. Mul(a, Xor(y, z)) = Xor(Mul(a, y), Mul(a, z))
    BY <2>7, <2>10, MulFacts
  <2> QED BY <2>9, <2>12, <2>13
<1> HIDE DEF Good
<1>4. 0..n \subseteq Good
  BY <1>1, <1>2, <1>3, Induct
<1>5. n \in Good
  BY <1>1, <1>4
<1> QED BY <1>5 DEF Good

\* Sets that an involution maps to each other have the same size.
LEMMA SameSize ==
    ASSUME NEW X, NEW Y, NEW s, IsFiniteSet(X),
           \A f \in X : s[f] \in Y /\ s[s[f]] = f,
           \A f \in Y : s[f] \in X /\ s[s[f]] = f
    PROVE  IsFiniteSet(Y) /\ Cardinality(Y) = Cardinality(X)
<1> DEFINE b == [f \in X |-> s[f]]
<1>1. b \in [X -> Y]
  OBVIOUS
<1>2. ASSUME NEW f \in X, NEW g \in X, b[f] = b[g] PROVE f = g
  BY <1>2
<1>3. \A t \in Y : \E f \in X : b[f] = t
  OBVIOUS
<1> HIDE DEF b
<1>4. b \in Bijection(X, Y)
  BY <1>1, <1>2, <1>3 DEF Bijection, Injection, IsInjective, Surjection
<1> QED BY <1>4, FS_Bijection DEF ExistsBijection

\* Terms that come in pairs cancel: the involution s pairs them, and A has one
\* of each pair.
LEMMA XSumPairs ==
    ASSUME NEW P, IsFiniteSet(P), NEW F, NEW s, NEW A,
           \A f \in P : /\ s[f] \in P /\ s[s[f]] = f /\ F[s[f]] = F[f]
                        /\ f \in A <=> s[f] \notin A
    PROVE  XSum(P, F) = Zero
<1>1. ASSUME NEW e \in Bit PROVE e \notin XSum(P, F)
  <2> DEFINE S == {f \in P : e \in F[f]}
             X == S \cap A
             Y == S \ A
  <2>1. IsFiniteSet(S)
    <3>1. S \in SUBSET P
      OBVIOUS
    <3> HIDE DEF S
    <3> QED BY <3>1, FS_Subset
  <2>2. /\ \A f \in X : s[f] \in Y /\ s[s[f]] = f
        /\ \A f \in Y : s[f] \in X /\ s[s[f]] = f
    OBVIOUS
  <2>3. e \in XSum(P, F) <=> Cardinality(S) % 2 = 1
    BY DEF XSum
  <2> HIDE DEF S
  <2>4. /\ IsFiniteSet(X) /\ Cardinality(X) \in Nat
        /\ Cardinality(Y) = Cardinality(S) - Cardinality(X)
        /\ Cardinality(S) \in Nat
    BY <2>1, FS_Intersection, FS_Difference, FS_CardinalityType
  <2> HIDE DEF X, Y
  <2>5. Cardinality(Y) = Cardinality(X)
    BY <2>2, <2>4, SameSize
  <2>6. Cardinality(S) = 2 * Cardinality(X)
    BY <2>4, <2>5
  <2>7. (2 * Cardinality(X)) % 2 = 0
    BY <2>4
  <2> QED BY <2>3, <2>6, <2>7
<1>2. XSum(P, F) \subseteq Bit
  BY DEF XSum
<1> QED BY <1>1, <1>2 DEF Zero

\* The order of the terms does not matter: s renames them.
LEMMA XSumRenamed ==
    ASSUME NEW P, IsFiniteSet(P), NEW F, NEW G, NEW s,
           \A f \in P : s[f] \in P /\ s[s[f]] = f /\ G[s[f]] = F[f]
    PROVE  XSum(P, G) = XSum(P, F)
<1>1. ASSUME NEW e \in Bit PROVE e \in XSum(P, G) <=> e \in XSum(P, F)
  <2> DEFINE X == {f \in P : e \in F[f]}
             Y == {f \in P : e \in G[f]}
  <2>1. IsFiniteSet(X)
    <3>1. X \in SUBSET P
      OBVIOUS
    <3> HIDE DEF X
    <3> QED BY <3>1, FS_Subset
  <2>2. /\ \A f \in X : s[f] \in Y /\ s[s[f]] = f
        /\ \A f \in Y : s[f] \in X /\ s[s[f]] = f
    <3>1. \A f \in P : F[s[f]] = G[f]
      OBVIOUS
    <3> QED BY <3>1
  <2>3. /\ e \in XSum(P, F) <=> Cardinality(X) % 2 = 1
        /\ e \in XSum(P, G) <=> Cardinality(Y) % 2 = 1
    BY DEF XSum
  <2> HIDE DEF X, Y
  <2>4. Cardinality(Y) = Cardinality(X)
    BY <2>1, <2>2, SameSize
  <2> QED BY <2>3, <2>4
<1>2. XSum(P, F) \subseteq Bit /\ XSum(P, G) \subseteq Bit
  BY DEF XSum
<1> QED BY <1>1, <1>2

-----------------------------------------------------------------------------
(***************************************************************************)
(* Determinants.                                                           *)
(***************************************************************************)

Entries(m, f) == [j \in Packet |-> m[j][f[j]]]

\* The terms of the determinant are products of bytes.
LEMMA TermFacts ==
    ASSUME NEW m \in [Packet -> Row], NEW f \in Permutation
    PROVE  /\ Entries(m, f) \in Row
           /\ Term(m, f) = Prod(Entries(m, f)) /\ Term(m, f) \in Elem
<1>1. Entries(m, f) \in Row
  BY DEF Entries, Permutation, Row
<1>2. Term(m, f) = Prod(Entries(m, f))
  BY DEF Term, Prod, Entries
<1> QED BY <1>1, <1>2, ProdType

Terms(m) == [f \in Permutation |-> Term(m, f)]

\* The determinant is a sum over permutations.
LEMMA DetIsSum == ASSUME NEW m PROVE Determinant(m) = XSum(Permutation, Terms(m))
<1>1. ASSUME NEW e \in Bit
      PROVE  {f \in Permutation : e \in Term(m, f)} = {f \in Permutation : e \in Terms(m)[f]}
  BY DEF Terms
<1> QED BY <1>1 DEF Determinant, XSum

\* Two places of a permutation changed.
Exchange(p, q) ==
    [f \in Permutation |->
        [j \in Packet |-> IF j = p THEN f[q] ELSE IF j = q THEN f[p] ELSE f[j]]]

\* An exchange gives a permutation, and done twice it gives the first one back.
LEMMA ExchangeFacts ==
    ASSUME NEW p \in Packet, NEW q \in Packet, p # q, NEW f \in Permutation
    PROVE  /\ Exchange(p, q)[f] \in Permutation
           /\ Exchange(p, q)[Exchange(p, q)[f]] = f
           /\ Exchange(p, q)[f][p] = f[q] /\ Exchange(p, q)[f][q] = f[p]
           /\ \A j \in Packet \ {p, q} : Exchange(p, q)[f][j] = f[j]
<1> DEFINE g == Exchange(p, q)[f]
<1>1. g = [j \in Packet |-> IF j = p THEN f[q] ELSE IF j = q THEN f[p] ELSE f[j]]
  BY DEF Exchange
<1>2. f \in [Packet -> Packet] /\ \A i, j \in Packet : i # j => f[i] # f[j]
  BY DEF Permutation
<1> HIDE DEF g
<1>3. g \in [Packet -> Packet]
  BY <1>1, <1>2
<1>4. \A i, j \in Packet : i # j => g[i] # g[j]
  BY <1>1, <1>2
<1>5. g \in Permutation
  BY <1>3, <1>4 DEF Permutation
<1>6. Exchange(p, q)[g] = f
  <2>1. Exchange(p, q)[g] = [j \in Packet |-> IF j = p THEN g[q] ELSE IF j = q THEN g[p] ELSE g[j]]
    BY <1>5 DEF Exchange
  <2>2. \A j \in Packet : (IF j = p THEN g[q] ELSE IF j = q THEN g[p] ELSE g[j]) = f[j]
    BY <1>1
  <2> QED BY <1>2, <2>1, <2>2
<1> QED BY <1>1, <1>5, <1>6 DEF g

\* Two rows exchanged leave the determinant as it is.
LEMMA DetSwapped ==
    ASSUME NEW m \in [Packet -> Row], NEW n \in [Packet -> Row],
           NEW p \in Packet, NEW q \in Packet, p # q,
           n[p] = m[q], n[q] = m[p], \A j \in Packet \ {p, q} : n[j] = m[j]
    PROVE  Determinant(n) = Determinant(m)
<1> DEFINE s == Exchange(p, q)
<1>1. ASSUME NEW f \in Permutation
      PROVE  s[f] \in Permutation /\ s[s[f]] = f /\ Terms(n)[s[f]] = Terms(m)[f]
  <2> DEFINE g == s[f]
  <2>1. /\ g \in Permutation /\ s[g] = f
        /\ g[p] = f[q] /\ g[q] = f[p]
        /\ \A j \in Packet \ {p, q} : g[j] = f[j]
    BY ExchangeFacts
  <2> HIDE DEF g
  <2> DEFINE u == Entries(m, f)
             v == Entries(n, g)
  <2>2. /\ v[p] = u[q] /\ v[q] = u[p]
        /\ \A j \in Packet \ {p, q} : v[j] = u[j]
    BY <2>1 DEF Entries
  <2>3. u \in Row /\ Term(m, f) = Prod(u) /\ v \in Row /\ Term(n, g) = Prod(v)
    BY <2>1, TermFacts
  <2> HIDE DEF u, v
  <2>4. Prod(v) = Prod(u)
    BY <2>2, <2>3, ProdSwapped
  <2> QED BY <2>1, <2>3, <2>4 DEF Terms, g
<1> HIDE DEF s
<1>2. XSum(Permutation, Terms(n)) = XSum(Permutation, Terms(m))
  BY <1>1, PermutationsFinite, XSumRenamed
<1> QED BY <1>2, DetIsSum

\* Two equal rows make it 0: the terms cancel in pairs.
LEMMA DetEqualRows ==
    ASSUME NEW m \in [Packet -> Row], NEW p \in Packet, NEW q \in Packet, p # q, m[p] = m[q]
    PROVE  Determinant(m) = Zero
<1> DEFINE s == Exchange(p, q)
           A == {f \in Permutation : f[p] < f[q]}
<1>1. ASSUME NEW f \in Permutation
      PROVE  /\ s[f] \in Permutation /\ s[s[f]] = f /\ Terms(m)[s[f]] = Terms(m)[f]
             /\ f \in A <=> s[f] \notin A
  <2> DEFINE g == s[f]
  <2>1. /\ g \in Permutation /\ s[g] = f
        /\ g[p] = f[q] /\ g[q] = f[p]
        /\ \A j \in Packet \ {p, q} : g[j] = f[j]
    BY ExchangeFacts
  <2>2. f[p] \in Nat /\ f[q] \in Nat /\ f[p] # f[q]
    BY KFacts DEF Permutation, Packet
  <2> HIDE DEF g
  <2> DEFINE u == Entries(m, f)
             v == Entries(m, g)
  <2>3. /\ v[p] = u[q] /\ v[q] = u[p]
        /\ \A j \in Packet \ {p, q} : v[j] = u[j]
    BY <2>1 DEF Entries
  <2>4. u \in Row /\ Term(m, f) = Prod(u) /\ v \in Row /\ Term(m, g) = Prod(v)
    BY <2>1, TermFacts
  <2> HIDE DEF u, v
  <2>5. Prod(v) = Prod(u)
    BY <2>3, <2>4, ProdSwapped
  <2>6. f \in A <=> g \notin A
    BY <2>1, <2>2
  <2> QED BY <2>1, <2>4, <2>5, <2>6 DEF Terms, g
<1> HIDE DEF s, A
<1>2. XSum(Permutation, Terms(m)) = Zero
  BY <1>1, PermutationsFinite, XSumPairs
<1> QED BY <1>2, DetIsSum

\* It is additive in each row.
LEMMA DetAdds ==
    ASSUME NEW m \in [Packet -> Row], NEW n \in [Packet -> Row], NEW w \in [Packet -> Row],
           NEW q \in Packet, NEW a \in Elem,
           \A c \in Packet : n[q][c] = Xor(m[q][c], Mul(a, w[q][c])),
           \A j \in Packet \ {q} : n[j] = m[j] /\ w[j] = m[j]
    PROVE  Determinant(n) = Xor(Determinant(m), Mul(a, Determinant(w)))
<1> DEFINE G == [f \in Permutation |-> Mul(a, Term(w, f))]
<1>1. ASSUME NEW f \in Permutation
      PROVE  Term(n, f) = Xor(Term(m, f), Mul(a, Term(w, f)))
  <2> DEFINE u == Entries(m, f)
             v == Entries(w, f)
             x == Entries(n, f)
  <2>1. /\ u \in Row /\ Term(m, f) = Prod(u)
        /\ v \in Row /\ Term(w, f) = Prod(v)
        /\ x \in Row /\ Term(n, f) = Prod(x)
    BY TermFacts
  <2>2. f[q] \in Packet
    BY DEF Permutation
  <2>3. x[q] = Xor(u[q], Mul(a, v[q])) /\ \A j \in Packet \ {q} : x[j] = u[j] /\ v[j] = u[j]
    BY <2>2 DEF Entries
  <2> HIDE DEF u, v, x
  <2> QED BY <2>1, <2>3, ProdAdds
<1>2. XSum(Permutation, Terms(n)) = Xor(XSum(Permutation, Terms(m)), XSum(Permutation, G))
  <2>1. \A f \in Permutation : Terms(n)[f] = Xor(Terms(m)[f], G[f])
    BY <1>1 DEF Terms
  <2> HIDE DEF G
  <2> QED BY <2>1, PermutationsFinite, XSumAdds
<1>3. XSum(Permutation, G) = Mul(a, XSum(Permutation, Terms(w)))
  <2>1. \A f \in Permutation : Terms(w)[f] \in Elem /\ G[f] = Mul(a, Terms(w)[f])
    BY TermFacts DEF Terms
  <2> HIDE DEF G
  <2> QED BY <2>1, PermutationsFinite, XSumScales
<1> HIDE DEF G
<1> QED BY <1>2, <1>3, DetIsSum

\* A row that is scaled scales the determinant.
LEMMA DetScaled ==
    ASSUME NEW m \in [Packet -> Row], NEW n \in [Packet -> Row], NEW q \in Packet, NEW a \in Elem,
           \A c \in Packet : n[q][c] = Mul(a, m[q][c]),
           \A j \in Packet \ {q} : n[j] = m[j]
    PROVE  Determinant(n) = Mul(a, Determinant(m))
<1>1. ASSUME NEW f \in Permutation PROVE Term(n, f) = Mul(a, Term(m, f))
  <2> DEFINE u == Entries(m, f)
             x == Entries(n, f)
  <2>1. /\ u \in Row /\ Term(m, f) = Prod(u)
        /\ x \in Row /\ Term(n, f) = Prod(x)
    BY TermFacts
  <2>2. f[q] \in Packet
    BY DEF Permutation
  <2>3. x[q] = Mul(a, u[q]) /\ \A j \in Packet \ {q} : x[j] = u[j]
    BY <2>2 DEF Entries
  <2> HIDE DEF u, x
  <2> QED BY <2>1, <2>3, ProdScaled
<1>2. \A f \in Permutation : Terms(m)[f] \in Elem /\ Terms(n)[f] = Mul(a, Terms(m)[f])
  BY <1>1, TermFacts DEF Terms
<1>3. XSum(Permutation, Terms(n)) = Mul(a, XSum(Permutation, Terms(m)))
  BY <1>2, PermutationsFinite, XSumScales
<1> QED BY <1>3, DetIsSum

\* A multiple of one row added to another leaves it as it is.
LEMMA DetRowAdded ==
    ASSUME NEW m \in [Packet -> Row], NEW n \in [Packet -> Row],
           NEW p \in Packet, NEW q \in Packet, p # q, NEW a \in Elem,
           \A c \in Packet : n[q][c] = Xor(m[q][c], Mul(a, m[p][c])),
           \A j \in Packet \ {q} : n[j] = m[j]
    PROVE  Determinant(n) = Determinant(m)
<1> DEFINE w == [j \in Packet |-> IF j = q THEN m[p] ELSE m[j]]
<1>1. /\ w \in [Packet -> Row] /\ w[q] = m[p] /\ w[p] = m[p]
      /\ \A j \in Packet \ {q} : w[j] = m[j]
  OBVIOUS
<1> HIDE DEF w
<1>2. Determinant(w) = Zero
  BY <1>1, DetEqualRows
<1>3. Determinant(n) = Xor(Determinant(m), Mul(a, Determinant(w)))
  <2>1. \A c \in Packet : n[q][c] = Xor(m[q][c], Mul(a, w[q][c]))
    BY <1>1
  <2>2. \A j \in Packet \ {q} : n[j] = m[j] /\ w[j] = m[j]
    BY <1>1
  <2> QED BY <1>1, <2>1, <2>2, DetAdds
<1>4. Mul(a, Zero) = Zero
  BY MulFacts
<1> QED BY <1>2, <1>3, <1>4, XorZero

\* The unit matrix has determinant 1: the identity alone picks no 0.
LEMMA DetUnit ==
    ASSUME NEW m \in [Packet -> Row],
           \A r, c \in Packet : m[r][c] = IF r = c THEN One ELSE Zero
    PROVE  Determinant(m) # Zero
<1> DEFINE id == [j \in Packet |-> j]
           S  == {f \in Permutation : 0 \in Terms(m)[f]}
<1>1. id \in Permutation
  BY DEF Permutation
<1>2. Term(m, id) = One
  <2>1. \A j \in Packet : Entries(m, id)[j] = One
    BY DEF Entries
  <2> HIDE DEF id
  <2> QED BY <1>1, <2>1, ProdOne, TermFacts
<1>3. ASSUME NEW f \in Permutation, f # id PROVE Term(m, f) = Zero
  <2>1. f \in [Packet -> Packet]
    BY DEF Permutation
  <2>2. PICK j \in Packet : f[j] # j
    BY <1>3, <2>1
  <2>3. Entries(m, f)[j] = Zero
    BY <2>1, <2>2 DEF Entries
  <2> QED BY <2>3, ProdZero, TermFacts
<1>4. S = {id}
  <2>1. Terms(m)[id] = One /\ id \in Permutation
    BY <1>1, <1>2 DEF Terms
  <2>2. \A f \in Permutation : f # id => Terms(m)[f] = Zero
    BY <1>3 DEF Terms
  <2> HIDE DEF id
  <2> QED BY <2>1, <2>2 DEF One, Zero
<1> HIDE DEF S
<1>5. Cardinality(S) = 1
  BY <1>4, FS_Singleton
<1>6. 0 \in Bit
  BY FieldAssumption DEF Bit
<1>7. 0 \in XSum(Permutation, Terms(m))
  BY <1>5, <1>6 DEF XSum, S
<1> QED BY <1>7, DetIsSum DEF Zero

\* If no row from c on has an entry up to column c, every permutation picks a 0:
\* there are more such rows than columns that are left for them.
LEMMA DetNoPivot ==
    ASSUME NEW m \in [Packet -> Row], NEW c \in Packet,
           \A r, l \in Packet : c <= r /\ l <= c => m[r][l] = Zero
    PROVE  Determinant(m) = Zero
<1>1. ASSUME NEW f \in Permutation PROVE Term(m, f) = Zero
  <2> DEFINE S == c..(K - 1)
             T == (c + 1)..(K - 1)
             g == [r \in S |-> f[r]]
  <2>1. c \in Nat /\ K \in Nat /\ c <= K - 1 /\ S \subseteq Packet
    BY KFacts DEF Packet
  <2>2. f \in [Packet -> Packet] /\ \A i, j \in Packet : i # j => f[i] # f[j]
    BY DEF Permutation
  <2>3. \E r \in S : f[r] <= c
    <3> SUFFICES ASSUME \A r \in S : ~(f[r] <= c) PROVE FALSE
      OBVIOUS
    <3>1. ASSUME NEW r \in S PROVE f[r] \in T
      <4>1. f[r] \in 0..(K - 1)
        BY <2>1, <2>2 DEF Packet
      <4>2. ~(f[r] <= c)
        OBVIOUS
      <4> QED BY <2>1, <4>1, <4>2
    <3>2. g \in [S -> T]
      BY <3>1
    <3>3. IsFiniteSet(S) /\ IsFiniteSet(T) /\ Cardinality(T) < Cardinality(S)
      <4>1. IsFiniteSet(S) /\ Cardinality(S) = K - c
        BY <2>1, FS_Interval
      <4>2. IsFiniteSet(T) /\ Cardinality(T) = K - 1 - c
        BY <2>1, FS_Interval
      <4> QED BY <2>1, <4>1, <4>2
    <3>4. \A x, y \in S : x # y => g[x] # g[y]
      BY <2>1, <2>2
    <3> HIDE DEF S, T, g
    <3> QED BY <3>2, <3>3, <3>4, FS_PigeonHole
  <2>4. PICK r \in S : f[r] <= c
    BY <2>3
  <2>5. r \in Packet /\ c <= r /\ f[r] \in Packet
    BY <2>1, <2>2
  <2>6. Entries(m, f)[r] = Zero
    BY <2>4, <2>5 DEF Entries
  <2> QED BY <2>5, <2>6, ProdZero, TermFacts
<1>2. \A f \in Permutation : Terms(m)[f] = Zero
  BY <1>1 DEF Terms
<1> QED BY <1>2, XSumNone, DetIsSum

\* Clearing a column multiplies the determinant by the inverse of the pivot:
\* the pivot row is scaled, then the other rows change one after the other.
LEMMA DetClear ==
    ASSUME inv_table = Inverses, col \in Packet,
           NEW m \in [Packet -> Row], NEW d, m[col][col] # Zero, Clear(m, d)
    PROVE  Determinant(mat') = Zero <=> Determinant(m) = Zero
<1> DEFINE a   == m[col][col]
           inv == inv_table[a]
           mp  == Scaled(inv, m[col])
           D(n) == [q \in Packet |->
                       IF q = col THEN mp
                       ELSE IF q < n THEN Axpy(m[q], m[q][col], mp) ELSE m[q]]
           T == {n \in 0..K : Determinant(D(n)) = Mul(inv, Determinant(m))}
<1>1. mat' = [q \in Packet |-> IF q = col THEN mp ELSE Axpy(m[q], m[q][col], mp)]
  BY DEF Clear
<1>2. /\ \A q \in Packet : m[q] \in Row /\ m[q][col] \in Elem
      /\ a \in Elem /\ a # Zero
  BY DEF Row
<1>3. inv \in Elem /\ mul_table[a][inv] = One
  BY <1>2, InversesFound
<1> HIDE DEF a, inv
<1>4. mp \in Row /\ \A c \in Packet : mp[c] = Mul(inv, m[col][c])
  <2>1. mp \in Row /\ \A c \in Packet : mp[c] = mul_table[inv][m[col][c]]
    BY <1>2, <1>3, DotScaled
  <2>2. \A c \in Packet : m[col][c] \in Elem
    BY <1>2 DEF Row
  <2> QED BY <1>3, <2>1, <2>2, TableIsProduct
<1> HIDE DEF mp
<1>5. ASSUME NEW q \in Packet
      PROVE  /\ Axpy(m[q], m[q][col], mp) \in Row
             /\ \A c \in Packet : Axpy(m[q], m[q][col], mp)[c] = Xor(m[q][c], Mul(m[q][col], mp[c]))
  <2>1. /\ Axpy(m[q], m[q][col], mp) \in Row
        /\ \A c \in Packet :
              Axpy(m[q], m[q][col], mp)[c] = Xor(m[q][c], mul_table[m[q][col]][mp[c]])
    BY <1>2, <1>4, DotAxpy
  <2>2. \A c \in Packet : mul_table[m[q][col]][mp[c]] = Mul(m[q][col], mp[c])
    BY <1>2, <1>4, TableIsProduct DEF Row
  <2> QED BY <2>1, <2>2
<1>6. \A n : D(n) \in [Packet -> Row]
  BY <1>2, <1>4, <1>5
<1>7. 0 \in T
  <2>1. D(0)[col] = mp /\ \A q \in Packet \ {col} : D(0)[q] = m[q]
    BY KFacts DEF Packet
  <2>2. D(0) \in [Packet -> Row]
    BY <1>6
  <2> HIDE DEF D
  <2>3. \A c \in Packet : D(0)[col][c] = Mul(inv, m[col][c])
    BY <1>4, <2>1
  <2>4. Determinant(D(0)) = Mul(inv, Determinant(m))
    BY <1>3, <2>1, <2>2, <2>3, DetScaled
  <2> QED BY <2>4, KFacts
<1>8. ASSUME NEW n \in 0..(K - 1), n \in T PROVE n + 1 \in T
  <2>1. n \in Packet /\ n + 1 \in 0..K
    BY KFacts DEF Packet
  <2>2. D(n) \in [Packet -> Row] /\ D(n + 1) \in [Packet -> Row]
    BY <1>6
  <2>3. \A q \in Packet \ {n} : D(n + 1)[q] = D(n)[q]
    BY <2>1, KFacts DEF Packet
  <2>4. Determinant(D(n)) = Mul(inv, Determinant(m))
    BY <1>8
  <2>5. CASE n = col
    <3>1. D(n + 1)[n] = D(n)[n]
      BY <2>5
    <3> HIDE DEF D
    <3>2. D(n + 1) = D(n)
      BY <2>2, <2>3, <3>1
    <3> QED BY <2>1, <2>4, <3>2
  <2>6. CASE n # col
    <3>1. D(n)[n] = m[n] /\ D(n)[col] = mp /\ D(n + 1)[n] = Axpy(m[n], m[n][col], mp)
      BY <2>1, <2>6, KFacts DEF Packet
    <3>2. m[n][col] \in Elem
      BY <1>2, <2>1
    <3> HIDE DEF D
    <3>3. \A c \in Packet : D(n + 1)[n][c] = Xor(D(n)[n][c], Mul(m[n][col], D(n)[col][c]))
      BY <1>5, <2>1, <3>1
    <3>4. Determinant(D(n + 1)) = Determinant(D(n))
      BY <2>1, <2>2, <2>3, <2>6, <3>2, <3>3, DetRowAdded
    <3> QED BY <2>1, <2>4, <3>4
  <2> QED BY <2>5, <2>6
<1>9. Determinant(D(K)) = Mul(inv, Determinant(m))
  <2> HIDE DEF T
  <2>1. 0..K \subseteq T
    BY <1>7, <1>8, Induct, KFacts
  <2> QED BY <2>1, KFacts DEF T
<1>10. D(K) = mat'
  BY <1>1, KFacts DEF Packet
<1> HIDE DEF D
<1>11. Determinant(m) \in Elem
  BY DetIsSum, XSumType
<1>12. inv # Zero
  <2>1. mul_table[a][Zero] = Zero /\ One # Zero
    BY <1>2, ZeroTimes DEF One, Zero
  <2> QED BY <1>3, <2>1
<1>13. Mul(inv, Determinant(m)) = Zero <=> Determinant(m) = Zero
  <2>1. Mul(inv, Zero) = Zero
    BY <1>3, MulFacts
  <2> QED BY <1>3, <1>11, <1>12, <2>1, IrreducibleAssumption
<1> QED BY <1>9, <1>10, <1>13

\* What makes FailsIffDependent inductive: during the elimination the matrix is
\* singular if and only if the one that arrived is.
SameSingularity ==
    pc = "decode" => (Determinant(mat) = Zero <=> Determinant(coeffs) = Zero)

DetInv == SameSingularity /\ FailsIffDependent

\* Every step keeps it.
LEMMA DetStep == ASSUME Inv, DetInv, [Next]_vars PROVE DetInv'
<1>1. ASSUME NEW p \in Traffic, AddPkt(p) PROVE DetInv'
  BY <1>1 DEF AddPkt, DetInv, SameSingularity, FailsIffDependent
<1>2. ASSUME NEW c \in Shards, Flush(c) PROVE DetInv'
  <2>1. pc' = "decode" /\ mat' = coeffs'
    BY <1>2 DEF Flush
  <2> QED BY <2>1 DEF DetInv, SameSingularity, FailsIffDependent
<1>3. ASSUME Eliminate PROVE DetInv'
  <2>1. /\ pc = "decode" /\ pc' = "decode" /\ col < K /\ coeffs' = coeffs
        /\ inv_table = Inverses /\ mat \in [Packet -> Row] /\ col \in Packet
    BY <1>3, KFacts DEF Eliminate, Inv, Shape, Packet
  <2>2. PICK r \in Packet : IsPivot(r) /\ Clear(Swap(mat, r), Swap(dat, r))
    BY <1>3 DEF Eliminate, Column
  <2> DEFINE m == Swap(mat, r)
             d == Swap(dat, r)
  <2>3. /\ m \in [Packet -> Row] /\ m[col] = mat[r] /\ m[r] = mat[col]
        /\ \A j \in Packet \ {col, r} : m[j] = mat[j]
    BY <2>1 DEF Swap
  <2>4. Clear(m, d)
    BY <2>2
  <2> HIDE DEF m, d
  <2>5. m[col][col] # Zero
    BY <2>2, <2>3 DEF IsPivot
  <2>6. Determinant(mat') = Zero <=> Determinant(m) = Zero
    BY <2>1, <2>3, <2>4, <2>5, DetClear
  <2>7. Determinant(m) = Determinant(mat)
    <3>1. CASE r = col
      <4>1. m = mat
        BY <2>1, <2>3, <3>1
      <4> QED BY <4>1
    <3>2. CASE r # col
      BY <2>1, <2>3, <3>2, DetSwapped
    <3> QED BY <3>1, <3>2
  <2>8. Determinant(mat') = Zero <=> Determinant(coeffs') = Zero
    BY <2>1, <2>6, <2>7 DEF DetInv, SameSingularity
  <2> QED BY <2>1, <2>8 DEF DetInv, SameSingularity, FailsIffDependent
<1>4. ASSUME Fail PROVE DetInv'
  <2>1. /\ pc = "decode" /\ pc' = "dependent" /\ coeffs' = coeffs
        /\ mat \in [Packet -> Row] /\ col \in Packet
    BY <1>4, KFacts DEF Fail, Inv, Shape, Packet
  <2>2. ASSUME NEW r \in Packet, NEW l \in Packet, col <= r, l <= col
        PROVE  mat[r][l] = Zero
    <3>1. CASE l = col
      BY <1>4, <2>2, <3>1, NoEntry
    <3>2. CASE l # col
      <4>1. l < col /\ r # l
        BY <2>1, <2>2, <3>2, KFacts DEF Packet
      <4> QED BY <2>1, <4>1 DEF Inv, Reduced
    <3> QED BY <3>1, <3>2
  <2>3. Determinant(mat) = Zero
    BY <2>1, <2>2, DetNoPivot
  <2>4. Determinant(coeffs') = Zero
    BY <2>1, <2>3 DEF DetInv, SameSingularity
  <2> QED BY <2>1, <2>4 DEF DetInv, SameSingularity, FailsIffDependent
<1>5. ASSUME Succeed PROVE DetInv'
  <2>1. /\ pc = "decode" /\ pc' = "write" /\ coeffs' = coeffs /\ col = K
        /\ mat \in [Packet -> Row]
    BY <1>5 DEF Succeed, Inv, Shape
  <2>2. \A r, c \in Packet : mat[r][c] = IF r = c THEN One ELSE Zero
    BY <2>1, KFacts DEF Inv, Reduced, Packet
  <2>3. Determinant(coeffs') # Zero
    BY <2>1, <2>2, DetUnit DEF DetInv, SameSingularity
  <2> QED BY <2>1, <2>3 DEF DetInv, SameSingularity, FailsIffDependent
<1>6. ASSUME WritePacket PROVE DetInv'
  <2>1. pc' # "decode" /\ pc' # "dependent" /\ ~(pc' = "write" /\ col' = 0)
    <3>1. col \in Nat /\ col' = col + 1 /\ pc' \in {"done", "write"}
      BY <1>6, KFacts DEF WritePacket, Inv, Recovered, Packet
    <3> QED BY <3>1
  <2> QED BY <2>1 DEF DetInv, SameSingularity, FailsIffDependent
<1>7. ASSUME UNCHANGED vars PROVE DetInv'
  BY <1>7 DEF vars, DetInv, SameSingularity, FailsIffDependent
<1> QED BY <1>1, <1>2, <1>3, <1>4, <1>5, <1>6, <1>7 DEF Next

-----------------------------------------------------------------------------
(***************************************************************************)
(* The theorems.                                                           *)
(***************************************************************************)

\* The tables of gf256_init are those of the field before the first packet is
\* read (src/gf256.c:gf256_init).
THEOREM TablesCorrect == Spec => []TablesAreField
<1>1. Inv => TablesAreField
  <2> SUFFICES ASSUME Inv PROVE TablesAreField
    OBVIOUS
  <2>1. inv_table = Inverses
    BY DEF Inv, Shape
  <2>2. ASSUME NEW a \in Elem \ {Zero} PROVE IsInv(a, Inverses[a])
    <3>1. Inverses[a] \in Elem /\ mul_table[a][Inverses[a]] = One
      BY InversesFound
    <3> QED BY <3>1, TableIsProduct DEF IsInv
  <2> QED BY <2>1, <2>2, TableIsProduct DEF TablesAreField
<1> QED BY <1>1, Invariance, PTL

\* Swapping, scaling and clearing rows keep matrix and data together
\* (src/codec.c:decode_block).
THEOREM RowsStayConsistent == Spec => []RowsConsistent
<1>1. Inv => RowsConsistent
  <2> SUFFICES ASSUME Inv, pc = "decode", NEW r \in Packet, NEW x \in Below(len)
               PROVE  dat[r][x] = FieldSum(mat[r], Source, x)
    BY DEF RowsConsistent
  <2>1. pkts \in Seq(Traffic) /\ pkts # << >> /\ len = MaxLen /\ mat[r] \in Row
    BY DEF Inv, Shape
  <2>2. At(Source, x) \in Row
    BY <2>1, SourceType
  <2>3. dat[r][x] = Dot(mat[r], At(Source, x))
    BY DEF Inv, Combined
  <2>4. Sum([j \in Packet |-> Mul(mat[r][j], At(Source, x)[j])]) = Dot(mat[r], At(Source, x))
    BY <2>1, <2>2, DotIsFieldSum
  <2>5. [j \in Packet |-> Mul(mat[r][j], At(Source, x)[j])]
          = [j \in Packet |-> Mul(mat[r][j], Source[j][x])]
    BY DEF At
  <2> QED BY <2>3, <2>4, <2>5 DEF FieldSum
<1> QED BY <1>1, Invariance, PTL

\* decode_block gives up on k shards exactly when their rows are dependent
\* (src/codec.c:decode_block, the search for a pivot).
THEOREM FailsOnlyIfDependent == Spec => []FailsExactly
<1>1. Init => KernelInv
  BY DEF Init, KernelInv, SameKernel, FailsExactly
<1>2. KernelInv => FailsExactly
  BY DEF KernelInv
<1> QED BY <1>1, <1>2, KernelStep, Invariance, PTL DEF Spec

\* decode_block gives up on k shards exactly when the determinant of their
\* coefficients is 0 (src/codec.c:decode_block).
THEOREM FailsIffSingular == Spec => []FailsIffDependent
<1>1. Init => DetInv
  BY DEF Init, DetInv, SameSingularity, FailsIffDependent
<1>2. DetInv => FailsIffDependent
  BY DEF DetInv
<1> QED BY <1>1, <1>2, DetStep, Invariance, PTL DEF Spec

\* Whatever k independent shards of a block arrive, what the receiver writes to
\* its TUN device are the packets that the sender read from its own, in order,
\* with their lengths and bytes (src/tx.c, src/codec.c, src/rx.c).
THEOREM PacketsComeOut == Spec => []WrittenAsRead
<1>1. Inv => WrittenAsRead
  BY DEF Inv
<1> QED BY <1>1, Invariance, PTL
=============================================================================
