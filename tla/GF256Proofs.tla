---------------------------- MODULE GF256Proofs ----------------------------
(***************************************************************************)
(* The tables of gf256_init are those of the field, for every width and    *)
(* every irreducible polynomial.                                           *)
(*                                                                         *)
(* The argument.  The inner loop adds up the doublings of a that the bits  *)
(* of b select, so a product is additive in both factors, and a product    *)
(* with a single bit is a repeated doubling.  The polynomial product with  *)
(* long division has the same two properties, and two such products are    *)
(* equal.                                                                  *)
(*                                                                         *)
(* Recursive functions are unfolded here by induction: a set of naturals   *)
(* that has 0 and the successors of its members has them all.              *)
(***************************************************************************)
EXTENDS GF256, FiniteSetTheorems, WellFoundedInduction, TLAPS

-----------------------------------------------------------------------------
(***************************************************************************)
(* Induction.                                                              *)
(***************************************************************************)

\* Every nonempty set of natural numbers has a least element.
LEMMA LeastNatural ==
    ASSUME NEW T, T \subseteq Nat, T # {}
    PROVE  \E n \in T : \A m \in T : n <= m
<1> DEFINE Less == {ss \in Nat \X Nat : ss[1] < ss[2]}
<1>1. IsWellFoundedOn(Less, Nat)
  BY NatLessThanWellFounded, Zenon DEF OpToRel
<1> HIDE DEF Less
<1>2. PICK n \in T : \A m \in T : ~(<<m, n>> \in Less)
  BY <1>1, WFMin
<1>3. \A m \in T : ~(m < n)
  BY <1>2 DEF Less
<1> QED BY <1>2, <1>3

\* Induction up to a bound.
LEMMA Induct ==
    ASSUME NEW n \in Nat, NEW T, 0 \in T,
           \A i \in 0..(n - 1) : i \in T => i + 1 \in T
    PROVE  0..n \subseteq T
<1> DEFINE Bad == {i \in 0..n : i \notin T}
<1> SUFFICES ASSUME Bad # {} PROVE FALSE
  OBVIOUS
<1>0. Bad \subseteq Nat
  OBVIOUS
<1> HIDE DEF Bad
<1>1. PICK i \in Bad : \A m \in Bad : i <= m
  BY <1>0, LeastNatural
<1> USE DEF Bad
<1>2. i # 0 /\ i - 1 \in 0..(n - 1) /\ i - 1 \notin Bad
  BY <1>1
<1> QED BY <1>1, <1>2

-----------------------------------------------------------------------------
(***************************************************************************)
(* Addition is a group, in which every element is its own inverse.         *)
(***************************************************************************)

\* Bytes are closed under XOR.
LEMMA XorType == ASSUME NEW a \in Elem, NEW b \in Elem PROVE Xor(a, b) \in Elem
BY DEF Elem, Xor

\* XOR is commutative and associative.
LEMMA XorComm == \A a, b : Xor(a, b) = Xor(b, a)
BY DEF Xor

\* Addition is associative.
LEMMA XorAssoc == \A a, b, c : Xor(Xor(a, b), c) = Xor(a, Xor(b, c))
BY DEF Xor

\* 0 is neutral, and a byte cancels itself.
LEMMA XorZero == \A a : Xor(a, Zero) = a /\ Xor(Zero, a) = a /\ Xor(a, a) = Zero
BY DEF Xor, Zero

-----------------------------------------------------------------------------
(***************************************************************************)
(* Doubling.                                                               *)
(***************************************************************************)

\* What a shift does to each bit.
LEMMA ShiftBits ==
    ASSUME NEW a \in Elem
    PROVE  /\ \A t \in Bit : t \in ShiftLeft(a) <=> t - 1 \in a
           /\ ShiftLeft(a) \in Elem
           /\ \A t \in Nat : t \in ShiftRight(a) <=> t + 1 \in a
BY FieldAssumption DEF Elem, ShiftLeft, ShiftRight, Bit

\* A byte doubled is a byte.
LEMMA DoubleType == ASSUME NEW a \in Elem PROVE Double(a) \in Elem
<1>1. Reduction \in Elem
  BY ReductionAssumption, FieldAssumption DEF Elem
<1> QED BY <1>1, ShiftBits, XorType DEF Double

\* The shift is additive, ...
LEMMA ShiftAdds ==
    ASSUME NEW a \in Elem, NEW b \in Elem
    PROVE  ShiftLeft(Xor(a, b)) = Xor(ShiftLeft(a), ShiftLeft(b))
<1>1. \A t \in Bit : t \in ShiftLeft(Xor(a, b)) <=> t \in Xor(ShiftLeft(a), ShiftLeft(b))
  <2>1. \A t \in Bit : t \in ShiftLeft(Xor(a, b)) <=> t - 1 \in Xor(a, b)
    BY ShiftBits, XorType
  <2> QED BY <2>1, ShiftBits DEF Xor
<1>2. ShiftLeft(Xor(a, b)) \in Elem /\ Xor(ShiftLeft(a), ShiftLeft(b)) \in Elem
  BY ShiftBits, XorType
<1> QED BY <1>1, <1>2 DEF Elem, Bit

\* ... and so is the doubling with its reduction.
LEMMA DoubleAdds ==
    ASSUME NEW a \in Elem, NEW b \in Elem
    PROVE  Double(Xor(a, b)) = Xor(Double(a), Double(b))
<1> DEFINE A == ShiftLeft(a)
           B == ShiftLeft(b)
<1>1. ShiftLeft(Xor(a, b)) = Xor(A, B)
  BY ShiftAdds
<1>2. Width - 1 \in Xor(a, b) <=> ~(Width - 1 \in a <=> Width - 1 \in b)
  BY DEF Xor
<1> HIDE DEF A, B
<1>3. Xor(Xor(A, B), Reduction) = Xor(Xor(A, Reduction), B)
  BY DEF Xor
<1>4. Xor(Xor(A, B), Reduction) = Xor(A, Xor(B, Reduction))
  BY DEF Xor
<1>5. Xor(A, B) = Xor(Xor(A, Reduction), Xor(B, Reduction))
  BY DEF Xor
<1> QED BY <1>1, <1>2, <1>3, <1>4, <1>5 DEF Double, A, B

-----------------------------------------------------------------------------
(***************************************************************************)
(* The inner loop of gf256_init.                                           *)
(***************************************************************************)

\* s holds the locals of the first n rounds.
IsLoop(s, a, b, n) ==
    s = [i \in 0..n |-> IF i = 0 THEN [p |-> Zero, aa |-> a, bb |-> b] ELSE Round(s[i - 1])]

\* The recursion has a solution.
LEMMA LoopExists == ASSUME NEW a, NEW b, NEW n \in Nat PROVE \E s : IsLoop(s, a, b, n)
<1> DEFINE Good == {m \in Nat : \E s : IsLoop(s, a, b, m)}
<1>1. 0 \in Good
  <2> DEFINE s0 == [i \in 0..0 |-> [p |-> Zero, aa |-> a, bb |-> b]]
  <2>1. IsLoop(s0, a, b, 0)
    BY DEF IsLoop
  <2> QED BY <2>1
<1>2. ASSUME NEW m \in 0..(n - 1), m \in Good PROVE m + 1 \in Good
  <2>1. PICK s : IsLoop(s, a, b, m)
    BY <1>2
  <2> DEFINE u == [i \in 0..(m + 1) |-> IF i = m + 1 THEN Round(s[m]) ELSE s[i]]
  <2>2. \A i \in 0..(m + 1) :
            u[i] = IF i = 0 THEN [p |-> Zero, aa |-> a, bb |-> b] ELSE Round(u[i - 1])
    BY <2>1 DEF IsLoop
  <2>3. IsLoop(u, a, b, m + 1)
    BY <2>2 DEF IsLoop
  <2> QED BY <2>3
<1> HIDE DEF Good
<1>3. 0..n \subseteq Good
  BY <1>1, <1>2, Induct
<1> QED BY <1>3 DEF Good

\* The locals that the loop of gf256_mul has computed are the ones it should.
LEMMA LoopIs == \A a, b : IsLoop(Loop(a, b), a, b, Width)
<1> TAKE a, b
<1>1. \E u : IsLoop(u, a, b, Width)
  BY LoopExists, FieldAssumption
<1> QED BY <1>1 DEF Loop, IsLoop

\* The locals before the first round.
LEMMA LoopStart == \A a, b : Loop(a, b)[0] = [p |-> Zero, aa |-> a, bb |-> b]
<1> TAKE a, b
<1> DEFINE s == Loop(a, b)
<1>1. IsLoop(s, a, b, Width) /\ 0 \in 0..Width
  BY LoopIs, FieldAssumption
<1> HIDE DEF s
<1>2. s[0] = [p |-> Zero, aa |-> a, bb |-> b]
  BY <1>1 DEF IsLoop
<1> QED BY <1>2 DEF s

\* The locals round by round.
LEMMA LoopStep ==
    ASSUME NEW a, NEW b, NEW i \in 0..(Width - 1)
    PROVE  Loop(a, b)[i + 1] = Round(Loop(a, b)[i])
<1> DEFINE s == Loop(a, b)
<1>1. IsLoop(s, a, b, Width)
  BY LoopIs
<1>2. i + 1 \in 0..Width /\ i + 1 # 0 /\ (i + 1) - 1 = i
  BY FieldAssumption
<1> HIDE DEF s
<1>3. s[i + 1] = Round(s[i])
  BY <1>1, <1>2 DEF IsLoop
<1> QED BY <1>3 DEF s

\* The sum after i rounds, and the byte a after i doublings.
Acc(a, b, i) == Loop(a, b)[i].p
Pow(a, i)    == Loop(a, Zero)[i].aa

\* The doublings of a.
LEMMA PowFacts ==
    ASSUME NEW a \in Elem
    PROVE  /\ Pow(a, 0) = a
           /\ \A i \in 0..(Width - 1) : Pow(a, i + 1) = Double(Pow(a, i))
           /\ \A i \in 0..Width : Pow(a, i) \in Elem
<1>1. Pow(a, 0) = a
  <2>1. Loop(a, Zero)[0] = [p |-> Zero, aa |-> a, bb |-> Zero]
    BY LoopStart, Zenon
  <2> QED BY <2>1 DEF Pow
<1>2. ASSUME NEW i \in 0..(Width - 1) PROVE Pow(a, i + 1) = Double(Pow(a, i))
  <2>1. Loop(a, Zero)[i + 1] = Round(Loop(a, Zero)[i])
    BY LoopStep
  <2> QED BY <2>1 DEF Pow, Round
<1> DEFINE T == {i \in 0..Width : Pow(a, i) \in Elem}
<1>3. 0 \in T /\ \A i \in 0..(Width - 1) : i \in T => i + 1 \in T
  BY <1>1, <1>2, DoubleType, FieldAssumption
<1> HIDE DEF T
<1>4. 0..Width \subseteq T
  BY <1>3, Induct, FieldAssumption
<1> QED BY <1>1, <1>2, <1>4 DEF T

\* In round i the byte a has been doubled i times and bit i of b is the lowest.
LEMMA LoopLocals ==
    ASSUME NEW a \in Elem, NEW b \in Elem, NEW i \in 0..Width
    PROVE  /\ Loop(a, b)[i].aa = Pow(a, i)
           /\ \A t \in Nat : t \in Loop(a, b)[i].bb <=> t + i \in b
<1> DEFINE T == {j \in 0..Width : /\ Loop(a, b)[j].aa = Pow(a, j)
                                  /\ Loop(a, b)[j].bb \subseteq Bit
                                  /\ \A t \in Nat : t \in Loop(a, b)[j].bb <=> t + j \in b}
<1>1. 0 \in T
  <2>1. b \subseteq Bit /\ 0 \in 0..Width
    BY FieldAssumption DEF Elem, Bit
  <2>0. Loop(a, b)[0] = [p |-> Zero, aa |-> a, bb |-> b]
    BY LoopStart, Zenon
  <2>2. Loop(a, b)[0].aa = a /\ Loop(a, b)[0].bb = b
    BY <2>0
  <2> QED BY <2>1, <2>2, PowFacts
<1>2. ASSUME NEW j \in 0..(Width - 1), j \in T PROVE j + 1 \in T
  <2>1. Loop(a, b)[j + 1] = Round(Loop(a, b)[j])
    BY LoopStep
  <2>2. /\ Loop(a, b)[j + 1].aa = Double(Loop(a, b)[j].aa)
        /\ Loop(a, b)[j + 1].bb = ShiftRight(Loop(a, b)[j].bb)
    BY <2>1 DEF Round
  <2>3. Loop(a, b)[j + 1].aa = Pow(a, j + 1)
    BY <1>2, <2>2, PowFacts
  <2> DEFINE B == Loop(a, b)[j].bb
  <2>4. B \subseteq Bit /\ \A t \in Nat : t \in B <=> t + j \in b
    BY <1>2
  <2> HIDE DEF B
  <2>5. /\ ShiftRight(B) \subseteq Bit
        /\ \A t \in Nat : t \in ShiftRight(B) <=> t + 1 \in B
    BY <2>4, FieldAssumption DEF ShiftRight, Bit
  <2>6. \A t \in Nat : t \in ShiftRight(B) <=> t + (j + 1) \in b
    <3>1. \A t \in Nat : t + 1 \in Nat /\ (t + 1) + j = t + (j + 1)
      OBVIOUS
    <3> QED BY <2>4, <2>5, <3>1
  <2>7. Loop(a, b)[j + 1].bb = ShiftRight(B)
    BY <2>2 DEF B
  <2> QED BY <2>3, <2>5, <2>6, <2>7, FieldAssumption
<1> HIDE DEF T
<1>3. 0..Width \subseteq T
  BY <1>1, <1>2, Induct, FieldAssumption
<1> QED BY <1>3 DEF T

\* So the loop adds up the doublings that the bits of b select.
LEMMA AccFacts ==
    ASSUME NEW a \in Elem, NEW b \in Elem
    PROVE  /\ Acc(a, b, 0) = Zero
           /\ \A i \in 0..(Width - 1) :
                 Acc(a, b, i + 1) = IF i \in b THEN Xor(Acc(a, b, i), Pow(a, i)) ELSE Acc(a, b, i)
           /\ \A i \in 0..Width : Acc(a, b, i) \in Elem
           /\ mul_table[a][b] = Acc(a, b, Width)
<1>1. Acc(a, b, 0) = Zero
  <2>1. Loop(a, b)[0] = [p |-> Zero, aa |-> a, bb |-> b]
    BY LoopStart, Zenon
  <2> QED BY <2>1 DEF Acc
<1>2. ASSUME NEW i \in 0..(Width - 1)
      PROVE  Acc(a, b, i + 1) = IF i \in b THEN Xor(Acc(a, b, i), Pow(a, i)) ELSE Acc(a, b, i)
  <2>0. Loop(a, b)[i + 1] = Round(Loop(a, b)[i])
    BY LoopStep
  <2>1. Loop(a, b)[i + 1].p = IF 0 \in Loop(a, b)[i].bb
                              THEN Xor(Loop(a, b)[i].p, Loop(a, b)[i].aa) ELSE Loop(a, b)[i].p
    BY <2>0 DEF Round
  <2>2. 0 \in Loop(a, b)[i].bb <=> 0 + i \in b
    BY LoopLocals, FieldAssumption
  <2> QED BY <2>1, <2>2, LoopLocals, FieldAssumption DEF Acc
<1> DEFINE T == {i \in 0..Width : Acc(a, b, i) \in Elem}
<1>3. 0 \in T
  BY <1>1, FieldAssumption DEF Elem, Zero
<1>4. ASSUME NEW i \in 0..(Width - 1), i \in T PROVE i + 1 \in T
  BY <1>2, <1>4, XorType, PowFacts, FieldAssumption
<1> HIDE DEF T
<1>5. 0..Width \subseteq T
  BY <1>3, <1>4, Induct, FieldAssumption
<1>6. mul_table[a][b] = Acc(a, b, Width)
  BY DEF mul_table, Acc
<1> QED BY <1>1, <1>2, <1>5, <1>6 DEF T

-----------------------------------------------------------------------------
(***************************************************************************)
(* Products are additive in both factors.                                  *)
(***************************************************************************)

\* The special elements and the bits are bytes.
LEMMA Bytes ==
    /\ Zero \in Elem /\ One \in Elem /\ Reduction \in Elem
    /\ \A i \in Bit : {i} \in Elem
    /\ Width \in Nat /\ Width > 0 /\ 0..Width \subseteq Nat /\ 0 \in 0..Width /\ Width \in 0..Width
<1>1. Width \in Nat /\ Width > 0
  BY FieldAssumption
<1>2. Zero \in Elem /\ One \in Elem
  BY <1>1 DEF Elem, Zero, One
<1>3. Reduction \in Elem
  BY FieldAssumption, ReductionAssumption DEF Elem
<1>4. \A i \in Bit : {i} \in Elem
  BY DEF Elem, Bit
<1>5. 0..Width \subseteq Nat /\ 0 \in 0..Width /\ Width \in 0..Width
  BY <1>1
<1> QED BY <1>1, <1>2, <1>3, <1>4, <1>5, Zenon

\* A product is a byte.
LEMMA TimesType == ASSUME NEW a \in Elem, NEW b \in Elem PROVE mul_table[a][b] \in Elem
<1>1. mul_table[a][b] = Acc(a, b, Width)
  BY AccFacts
<1>2. \A i \in 0..Width : Acc(a, b, i) \in Elem
  BY AccFacts
<1> QED BY <1>1, <1>2, Bytes

\* Doublings are additive, and can be made in any order.
LEMMA PowAdds ==
    ASSUME NEW a \in Elem, NEW c \in Elem, NEW i \in 0..Width
    PROVE  Pow(Xor(a, c), i) = Xor(Pow(a, i), Pow(c, i))
<1> DEFINE T == {j \in 0..Width : Pow(Xor(a, c), j) = Xor(Pow(a, j), Pow(c, j))}
<1>0. Xor(a, c) \in Elem
  BY XorType
<1>1. 0 \in T
  BY <1>0, PowFacts, Bytes
<1>2. ASSUME NEW j \in 0..(Width - 1), j \in T PROVE j + 1 \in T
  <2>1. j \in 0..Width /\ j + 1 \in 0..Width
    BY Bytes
  <2>2. Double(Xor(Pow(a, j), Pow(c, j))) = Xor(Double(Pow(a, j)), Double(Pow(c, j)))
    BY <2>1, DoubleAdds, PowFacts
  <2> QED BY <1>0, <1>2, <2>1, <2>2, PowFacts
<1> HIDE DEF T
<1>3. 0..Width \subseteq T
  BY <1>1, <1>2, Induct, Bytes
<1> QED BY <1>3 DEF T

\* Doubling first or last is the same.
LEMMA PowDouble ==
    ASSUME NEW a \in Elem, NEW i \in 0..Width
    PROVE  Pow(Double(a), i) = Double(Pow(a, i))
<1> DEFINE T == {j \in 0..Width : Pow(Double(a), j) = Double(Pow(a, j))}
<1>0. Double(a) \in Elem
  BY DoubleType
<1>1. 0 \in T
  BY <1>0, PowFacts, Bytes
<1>2. ASSUME NEW j \in 0..(Width - 1), j \in T PROVE j + 1 \in T
  <2>1. j \in 0..Width /\ j + 1 \in 0..Width
    BY Bytes
  <2> QED BY <1>0, <1>2, <2>1, PowFacts
<1> HIDE DEF T
<1>3. 0..Width \subseteq T
  BY <1>1, <1>2, Induct, Bytes
<1> QED BY <1>3 DEF T

\* A product is additive in its first factor, ...
LEMMA TimesAddsLeft ==
    ASSUME NEW a \in Elem, NEW c \in Elem, NEW b \in Elem
    PROVE  mul_table[Xor(a, c)][b] = Xor(mul_table[a][b], mul_table[c][b])
<1> DEFINE T == {j \in 0..Width : Acc(Xor(a, c), b, j) = Xor(Acc(a, b, j), Acc(c, b, j))}
<1>0. Xor(a, c) \in Elem
  BY XorType
<1>1. 0 \in T
  BY <1>0, AccFacts, Bytes, XorZero
<1>2. ASSUME NEW j \in 0..(Width - 1), j \in T PROVE j + 1 \in T
  <2>1. j \in 0..Width /\ j + 1 \in 0..Width
    BY Bytes
  <2>2. Xor(Xor(Acc(a, b, j), Acc(c, b, j)), Pow(Xor(a, c), j))
          = Xor(Xor(Acc(a, b, j), Pow(a, j)), Xor(Acc(c, b, j), Pow(c, j)))
    <3> DEFINE x == Acc(a, b, j)
               y == Acc(c, b, j)
               d == Pow(a, j)
               e == Pow(c, j)
    <3>1. Pow(Xor(a, c), j) = Xor(d, e)
      BY <2>1, PowAdds
    <3> HIDE DEF x, y, d, e
    <3>2. Xor(Xor(x, y), Xor(d, e)) = Xor(Xor(x, d), Xor(y, e))
      BY DEF Xor
    <3> QED BY <3>1, <3>2 DEF x, y, d, e
  <2>3. Acc(Xor(a, c), b, j) = Xor(Acc(a, b, j), Acc(c, b, j))
    BY <1>2
  <2>4. Acc(Xor(a, c), b, j + 1) = Xor(Acc(a, b, j + 1), Acc(c, b, j + 1))
    <3>1. CASE j \in b
      BY <1>0, <2>2, <2>3, <3>1, AccFacts
    <3>2. CASE j \notin b
      BY <1>0, <2>3, <3>2, AccFacts
    <3> QED BY <3>1, <3>2
  <2> QED BY <2>1, <2>4
<1> HIDE DEF T
<1>3. 0..Width \subseteq T
  BY <1>1, <1>2, Induct, Bytes
<1>4. Acc(Xor(a, c), b, Width) = Xor(Acc(a, b, Width), Acc(c, b, Width))
  BY <1>3, Bytes DEF T
<1> QED BY <1>0, <1>4, AccFacts

\* ... and in its second.
LEMMA TimesAddsRight ==
    ASSUME NEW a \in Elem, NEW b \in Elem, NEW c \in Elem
    PROVE  mul_table[a][Xor(b, c)] = Xor(mul_table[a][b], mul_table[a][c])
<1> DEFINE T == {j \in 0..Width : Acc(a, Xor(b, c), j) = Xor(Acc(a, b, j), Acc(a, c, j))}
<1>0. Xor(b, c) \in Elem
  BY XorType
<1>1. 0 \in T
  BY <1>0, AccFacts, Bytes, XorZero
<1>2. ASSUME NEW j \in 0..(Width - 1), j \in T PROVE j + 1 \in T
  <2> DEFINE x == Acc(a, b, j)
             y == Acc(a, c, j)
             d == Pow(a, j)
  <2>1. j \in 0..Width /\ j + 1 \in 0..Width
    BY Bytes
  <2>2. /\ Acc(a, b, j + 1) = IF j \in b THEN Xor(x, d) ELSE x
        /\ Acc(a, c, j + 1) = IF j \in c THEN Xor(y, d) ELSE y
        /\ Acc(a, Xor(b, c), j + 1) = IF j \in Xor(b, c) THEN Xor(Xor(x, y), d) ELSE Xor(x, y)
    BY <1>0, <1>2, AccFacts
  <2>3. j \in Xor(b, c) <=> ~(j \in b <=> j \in c)
    BY DEF Xor
  <2> HIDE DEF x, y, d
  <2>4. /\ Xor(Xor(x, y), d) = Xor(Xor(x, d), y)
        /\ Xor(Xor(x, y), d) = Xor(x, Xor(y, d))
        /\ Xor(x, y) = Xor(Xor(x, d), Xor(y, d))
    BY DEF Xor
  <2>5. Acc(a, Xor(b, c), j + 1) = Xor(Acc(a, b, j + 1), Acc(a, c, j + 1))
    BY <2>2, <2>3, <2>4
  <2> QED BY <2>1, <2>5
<1> HIDE DEF T
<1>3. 0..Width \subseteq T
  BY <1>1, <1>2, Induct, Bytes
<1>4. Acc(a, Xor(b, c), Width) = Xor(Acc(a, b, Width), Acc(a, c, Width))
  BY <1>3, Bytes DEF T
<1> QED BY <1>0, <1>4, AccFacts

\* Doubling a factor doubles the product.
LEMMA TimesDouble ==
    ASSUME NEW a \in Elem, NEW b \in Elem
    PROVE  mul_table[Double(a)][b] = Double(mul_table[a][b])
<1> DEFINE T == {j \in 0..Width : Acc(Double(a), b, j) = Double(Acc(a, b, j))}
<1>0. Double(a) \in Elem
  BY DoubleType
<1>1. 0 \in T
  <2>1. Double(Zero) = Zero
    BY FieldAssumption DEF Double, ShiftLeft, Zero
  <2> QED BY <1>0, <2>1, AccFacts, Bytes
<1>2. ASSUME NEW j \in 0..(Width - 1), j \in T PROVE j + 1 \in T
  <2>1. j \in 0..Width /\ j + 1 \in 0..Width
    BY Bytes
  <2>2. Double(Xor(Acc(a, b, j), Pow(a, j))) = Xor(Double(Acc(a, b, j)), Double(Pow(a, j)))
    BY <2>1, DoubleAdds, AccFacts, PowFacts
  <2>3. Acc(Double(a), b, j) = Double(Acc(a, b, j)) /\ Pow(Double(a), j) = Double(Pow(a, j))
    BY <1>2, <2>1, PowDouble
  <2>4. Acc(Double(a), b, j + 1) = Double(Acc(a, b, j + 1))
    <3>1. CASE j \in b
      BY <1>0, <2>2, <2>3, <3>1, AccFacts
    <3>2. CASE j \notin b
      BY <1>0, <2>3, <3>2, AccFacts
    <3> QED BY <3>1, <3>2
  <2> QED BY <2>1, <2>4
<1> HIDE DEF T
<1>3. 0..Width \subseteq T
  BY <1>1, <1>2, Induct, Bytes
<1>4. Acc(Double(a), b, Width) = Double(Acc(a, b, Width))
  BY <1>3, Bytes DEF T
<1> QED BY <1>0, <1>4, AccFacts

-----------------------------------------------------------------------------
(***************************************************************************)
(* Products are commutative and associative.                               *)
(***************************************************************************)

\* Repeated doubling of a factor doubles the product as often.
LEMMA TimesPow ==
    ASSUME NEW a \in Elem, NEW b \in Elem, NEW i \in 0..Width
    PROVE  mul_table[Pow(a, i)][b] = Pow(mul_table[a][b], i)
<1> DEFINE T == {j \in 0..Width : mul_table[Pow(a, j)][b] = Pow(mul_table[a][b], j)}
<1>0. mul_table[a][b] \in Elem
  BY TimesType
<1>1. 0 \in T
  BY <1>0, PowFacts, Bytes
<1>2. ASSUME NEW j \in 0..(Width - 1), j \in T PROVE j + 1 \in T
  <2>1. j \in 0..Width /\ j + 1 \in 0..Width
    BY Bytes
  <2>2. Pow(a, j) \in Elem /\ Pow(a, j + 1) = Double(Pow(a, j))
    BY <2>1, PowFacts
  <2>3. Pow(mul_table[a][b], j + 1) = Double(Pow(mul_table[a][b], j))
    BY <1>0, PowFacts
  <2>4. mul_table[Double(Pow(a, j))][b] = Double(mul_table[Pow(a, j)][b])
    BY <2>2, TimesDouble
  <2> QED BY <1>2, <2>1, <2>2, <2>3, <2>4
<1> HIDE DEF T
<1>3. 0..Width \subseteq T
  BY <1>1, <1>2, Induct, Bytes
<1> QED BY <1>3 DEF T

\* A product with a single bit is a repeated doubling.
LEMMA TimesBit ==
    ASSUME NEW a \in Elem, NEW i \in Bit
    PROVE  mul_table[a][{i}] = Pow(a, i)
<1> DEFINE T == {j \in 0..Width : Acc(a, {i}, j) = IF j <= i THEN Zero ELSE Pow(a, i)}
<1>0. {i} \in Elem /\ i \in 0..(Width - 1) /\ i \in 0..Width
  BY Bytes DEF Bit
<1>1. 0 \in T
  BY <1>0, AccFacts, Bytes
<1>2. ASSUME NEW j \in 0..(Width - 1), j \in T PROVE j + 1 \in T
  <2>1. Acc(a, {i}, j + 1) = IF j = i THEN Xor(Acc(a, {i}, j), Pow(a, j)) ELSE Acc(a, {i}, j)
    <3> DEFINE b == {i}
    <3>1. b \in Elem /\ (j \in b <=> j = i)
      BY <1>0
    <3> HIDE DEF b
    <3>2. Acc(a, b, j + 1) = IF j \in b THEN Xor(Acc(a, b, j), Pow(a, j)) ELSE Acc(a, b, j)
      BY <3>1, AccFacts
    <3> QED BY <3>1, <3>2 DEF b
  <2>2. Xor(Zero, Pow(a, i)) = Pow(a, i)
    BY XorZero
  <2> QED BY <1>0, <1>2, <2>1, <2>2, Bytes
<1> HIDE DEF T
<1>3. 0..Width \subseteq T
  BY <1>1, <1>2, Induct, Bytes
<1>4. Width \in T /\ ~(Width <= i)
  BY <1>0, <1>3, Bytes
<1>5. Acc(a, {i}, Width) = Pow(a, i)
  BY <1>4 DEF T
<1> QED BY <1>0, <1>5, AccFacts

\* The bits of b below n.
Low(b, n) == b \cap 0..(n - 1)

\* They grow bit by bit.
LEMMA LowFacts ==
    ASSUME NEW b \in Elem
    PROVE  /\ Low(b, 0) = Zero /\ Low(b, Width) = b
           /\ \A i \in Bit : Low(b, i + 1) = IF i \in b THEN Xor(Low(b, i), {i}) ELSE Low(b, i)
           /\ \A i \in 0..Width : Low(b, i) \in Elem
<1>1. Low(b, 0) = Zero /\ Low(b, Width) = b
  <2>1. 0..(0 - 1) = {}
    OBVIOUS
  <2>2. b \subseteq 0..(Width - 1)
    BY DEF Elem
  <2> QED BY <2>1, <2>2 DEF Low, Zero
<1>2. \A i \in 0..Width : Low(b, i) \in Elem
  BY DEF Low, Elem
<1>3. ASSUME NEW i \in Bit PROVE Low(b, i + 1) = IF i \in b THEN Xor(Low(b, i), {i}) ELSE Low(b, i)
  <2>1. 0..((i + 1) - 1) = 0..(i - 1) \cup {i} /\ i \notin 0..(i - 1)
    BY Bytes DEF Bit
  <2> QED BY <2>1 DEF Low, Xor
<1> QED BY <1>1, <1>2, <1>3

\* 1 doubled i times is the bit i.
LEMMA PowOne == ASSUME NEW i \in Bit PROVE Pow(One, i) = {i}
<1> DEFINE T == {j \in 0..(Width - 1) : Pow(One, j) = {j}}
<1>1. 0 \in T
  BY PowFacts, Bytes DEF One
<1>2. ASSUME NEW j \in 0..((Width - 1) - 1), j \in T PROVE j + 1 \in T
  <2>1. j \in 0..(Width - 1) /\ j + 1 \in 0..(Width - 1) /\ {j} \in Elem /\ Width - 1 \notin {j}
    BY Bytes DEF Bit
  <2>2. ShiftLeft({j}) = {j + 1}
    BY <2>1 DEF ShiftLeft, Bit
  <2>3. Double({j}) = {j + 1}
    BY <2>1, <2>2 DEF Double
  <2>4. Pow(One, j + 1) = Double(Pow(One, j))
    BY <2>1, PowFacts, Bytes
  <2> QED BY <1>2, <2>1, <2>3, <2>4
<1> HIDE DEF T
<1>3. 0..(Width - 1) \subseteq T
  BY <1>1, <1>2, Induct, Bytes
<1> QED BY <1>3 DEF T, Bit

\* 1 is the neutral element, ...
LEMMA OneTimes == ASSUME NEW b \in Elem PROVE mul_table[One][b] = b
<1> DEFINE T == {j \in 0..Width : Acc(One, b, j) = Low(b, j)}
<1>1. 0 \in T
  BY AccFacts, LowFacts, Bytes
<1>2. ASSUME NEW j \in 0..(Width - 1), j \in T PROVE j + 1 \in T
  <2>1. j \in Bit /\ j + 1 \in 0..Width
    BY Bytes DEF Bit
  <2>2. Acc(One, b, j + 1) = IF j \in b THEN Xor(Acc(One, b, j), Pow(One, j)) ELSE Acc(One, b, j)
    BY AccFacts, Bytes
  <2>3. Low(b, j + 1) = IF j \in b THEN Xor(Low(b, j), {j}) ELSE Low(b, j)
    BY <2>1, LowFacts
  <2> QED BY <1>2, <2>1, <2>2, <2>3, PowOne
<1> HIDE DEF T
<1>3. 0..Width \subseteq T
  BY <1>1, <1>2, Induct, Bytes
<1>4. Acc(One, b, Width) = Low(b, Width)
  BY <1>3, Bytes DEF T
<1>5. mul_table[One][b] = Acc(One, b, Width)
  BY AccFacts, Bytes
<1> QED BY <1>4, <1>5, LowFacts

\* ... and a factor 0 makes the product 0.
LEMMA ZeroTimes ==
    ASSUME NEW a \in Elem
    PROVE  mul_table[a][Zero] = Zero /\ mul_table[Zero][a] = Zero
<1>1. mul_table[a][Xor(a, a)] = Xor(mul_table[a][a], mul_table[a][a])
  BY TimesAddsRight
<1>2. mul_table[Xor(a, a)][a] = Xor(mul_table[a][a], mul_table[a][a])
  BY TimesAddsLeft
<1>3. Xor(a, a) = Zero /\ Xor(mul_table[a][a], mul_table[a][a]) = Zero
  BY XorZero
<1> QED BY <1>1, <1>2, <1>3

\* Products are commutative: with a single bit, so with any byte.
LEMMA TimesComm ==
    ASSUME NEW a \in Elem, NEW b \in Elem
    PROVE  mul_table[a][b] = mul_table[b][a]
<1> DEFINE T == {j \in 0..Width : mul_table[Low(a, j)][b] = mul_table[b][Low(a, j)]}
<1>1. 0 \in T
  <2>1. Low(a, 0) = Zero
    BY LowFacts
  <2> QED BY <2>1, ZeroTimes, Bytes
<1>2. ASSUME NEW j \in 0..(Width - 1), j \in T PROVE j + 1 \in T
  <2>1. j \in Bit /\ j \in 0..Width /\ j + 1 \in 0..Width
    BY Bytes DEF Bit
  <2>2. {j} \in Elem /\ Low(a, j) \in Elem
    BY <2>1, Bytes, LowFacts
  <2>3. mul_table[{j}][b] = mul_table[b][{j}]
    <3>1. mul_table[Pow(One, j)][b] = Pow(mul_table[One][b], j)
      BY <2>1, TimesPow, Bytes
    <3> QED BY <2>1, <3>1, PowOne, OneTimes, TimesBit
  <2>4. CASE j \in a
    <3>1. Low(a, j + 1) = Xor(Low(a, j), {j})
      BY <2>1, <2>4, LowFacts
    <3>2. mul_table[Xor(Low(a, j), {j})][b] = Xor(mul_table[Low(a, j)][b], mul_table[{j}][b])
      BY <2>2, TimesAddsLeft
    <3>3. mul_table[b][Xor(Low(a, j), {j})] = Xor(mul_table[b][Low(a, j)], mul_table[b][{j}])
      BY <2>2, TimesAddsRight
    <3> QED BY <1>2, <2>1, <2>3, <3>1, <3>2, <3>3
  <2>5. CASE j \notin a
    <3>1. Low(a, j + 1) = Low(a, j)
      BY <2>1, <2>5, LowFacts
    <3> QED BY <1>2, <2>1, <3>1
  <2> QED BY <2>4, <2>5
<1> HIDE DEF T
<1>3. 0..Width \subseteq T
  BY <1>1, <1>2, Induct, Bytes
<1>4. Width \in T
  BY <1>3, Bytes
<1> QED BY <1>4, LowFacts DEF T

\* Products are associative: a doubling commutes with every product.
LEMMA TimesAssoc ==
    ASSUME NEW a \in Elem, NEW b \in Elem, NEW c \in Elem
    PROVE  mul_table[mul_table[a][b]][c] = mul_table[a][mul_table[b][c]]
<1> DEFINE x == mul_table[a][b]
           T == {j \in 0..Width : Acc(x, c, j) = mul_table[a][Acc(b, c, j)]}
<1>0. x \in Elem
  BY TimesType
<1>1. 0 \in T
  <2>1. Acc(x, c, 0) = Zero /\ Acc(b, c, 0) = Zero
    BY <1>0, AccFacts
  <2>2. mul_table[a][Zero] = Zero
    BY ZeroTimes
  <2> QED BY <2>1, <2>2, Bytes
<1>2. ASSUME NEW j \in 0..(Width - 1), j \in T PROVE j + 1 \in T
  <2>1. j \in 0..Width /\ j + 1 \in 0..Width
    BY Bytes
  <2>2. Pow(b, j) \in Elem /\ Acc(b, c, j) \in Elem
    BY <2>1, PowFacts, AccFacts
  <2>3. Pow(x, j) = mul_table[a][Pow(b, j)]
    <3>1. x = mul_table[b][a]
      BY TimesComm
    <3>2. mul_table[Pow(b, j)][a] = Pow(mul_table[b][a], j)
      BY <2>1, TimesPow
    <3>3. mul_table[a][Pow(b, j)] = mul_table[Pow(b, j)][a]
      BY <2>2, TimesComm
    <3> QED BY <3>1, <3>2, <3>3
  <2>4. mul_table[a][Xor(Acc(b, c, j), Pow(b, j))]
          = Xor(mul_table[a][Acc(b, c, j)], mul_table[a][Pow(b, j)])
    BY <2>2, TimesAddsRight
  <2>5. Acc(x, c, j + 1) = IF j \in c THEN Xor(Acc(x, c, j), Pow(x, j)) ELSE Acc(x, c, j)
    BY <1>0, AccFacts
  <2>6. Acc(b, c, j + 1) = IF j \in c THEN Xor(Acc(b, c, j), Pow(b, j)) ELSE Acc(b, c, j)
    BY AccFacts
  <2>7. Acc(x, c, j) = mul_table[a][Acc(b, c, j)]
    BY <1>2
  <2> HIDE DEF x
  <2>8. Acc(x, c, j + 1) = mul_table[a][Acc(b, c, j + 1)]
    BY <2>3, <2>4, <2>5, <2>6, <2>7
  <2> QED BY <2>1, <2>8
<1> HIDE DEF T
<1>3. 0..Width \subseteq T
  BY <1>1, <1>2, Induct, Bytes
<1>4. Acc(x, c, Width) = mul_table[a][Acc(b, c, Width)]
  BY <1>3, Bytes DEF T
<1>5. mul_table[x][c] = Acc(x, c, Width) /\ mul_table[b][c] = Acc(b, c, Width)
  BY <1>0, AccFacts
<1> QED BY <1>4, <1>5

-----------------------------------------------------------------------------
(***************************************************************************)
(* The product of polynomials has the same properties.                     *)
(***************************************************************************)

\* Parities add up.
LEMMA OddXor ==
    ASSUME NEW x, NEW y, IsFiniteSet(x), IsFiniteSet(y)
    PROVE  Cardinality(Xor(x, y)) % 2 = 1
             <=> ~(Cardinality(x) % 2 = 1 <=> Cardinality(y) % 2 = 1)
<1> DEFINE u == x \ y
           v == y \ x
           w == x \cap y
<1>1. /\ IsFiniteSet(u) /\ Cardinality(u) = Cardinality(x) - Cardinality(w)
      /\ IsFiniteSet(v) /\ Cardinality(v) = Cardinality(y) - Cardinality(y \cap x)
  BY FS_Difference
<1>2. y \cap x = w /\ u \cap v = {}
  OBVIOUS
<1>3. /\ Cardinality(x) \in Nat /\ Cardinality(y) \in Nat
      /\ IsFiniteSet(w) /\ Cardinality(w) \in Nat
  BY FS_CardinalityType, FS_Intersection
<1>4. Cardinality(u \cup v) = Cardinality(u) + Cardinality(v) - Cardinality(u \cap v)
  BY <1>1, FS_Union
<1>5. Cardinality({}) = 0
  BY FS_EmptySet
<1>6. u \cup v = Xor(x, y)
  BY DEF Xor
<1> HIDE DEF u, v, w
<1>7. Cardinality(Xor(x, y)) = Cardinality(x) + Cardinality(y) - 2 * Cardinality(w)
  <2>1. Cardinality(Xor(x, y)) = Cardinality(u) + Cardinality(v) - Cardinality({})
    BY <1>2, <1>4, <1>6, Zenon
  <2>2. Cardinality(v) = Cardinality(y) - Cardinality(w)
    BY <1>1, <1>2, Zenon
  <2> DEFINE cx == Cardinality(x)
             cy == Cardinality(y)
             cw == Cardinality(w)
  <2>3. Cardinality(Xor(x, y)) = (cx - cw) + (cy - cw) - 0
    BY <1>1, <1>5, <2>1, <2>2, Zenon
  <2>4. cx \in Nat /\ cy \in Nat /\ cw \in Nat
    BY <1>3, Zenon
  <2> HIDE DEF cx, cy, cw
  <2>5. (cx - cw) + (cy - cw) - 0 = cx + cy - 2 * cw
    BY <2>4
  <2>6. Cardinality(Xor(x, y)) = cx + cy - 2 * cw
    BY <2>3, <2>5, Zenon
  <2> QED BY <2>6, Zenon DEF cx, cy, cw
<1> QED BY <1>3, <1>7

\* The product of polynomials is additive.
LEMMA ProductAdds ==
    ASSUME NEW a \in Elem, NEW b \in Elem, NEW c \in Elem
    PROVE  Product(a, Xor(b, c)) = Xor(Product(a, b), Product(a, c))
<1> SUFFICES ASSUME NEW e \in 0..(2 * Width - 2)
             PROVE  e \in Product(a, Xor(b, c)) <=> ~(e \in Product(a, b) <=> e \in Product(a, c))
  BY DEF Product, Xor
<1> DEFINE x == {i \in a : (e - i) \in b}
           y == {i \in a : (e - i) \in c}
           z == {i \in a : (e - i) \in Xor(b, c)}
<1>1. IsFiniteSet(a)
  <2>1. IsFiniteSet(0..(Width - 1))
    BY FS_Interval, Bytes
  <2> QED BY <2>1, FS_Subset DEF Elem
<1>2. IsFiniteSet(x) /\ IsFiniteSet(y)
  <2>1. x \subseteq a /\ y \subseteq a
    OBVIOUS
  <2> QED BY <1>1, <2>1, FS_Subset
<1>3. z = Xor(x, y)
  BY DEF Xor
<1>4. /\ e \in Product(a, b) <=> Cardinality(x) % 2 = 1
      /\ e \in Product(a, c) <=> Cardinality(y) % 2 = 1
      /\ e \in Product(a, Xor(b, c)) <=> Cardinality(z) % 2 = 1
  BY DEF Product
<1> HIDE DEF x, y, z
<1> QED BY <1>2, <1>3, <1>4, OddXor

\* A product with a single term is a shift.
LEMMA ProductBit ==
    ASSUME NEW a \in Elem, NEW i \in Bit
    PROVE  Product(a, {i}) = {t + i : t \in a}
<1>1. a \subseteq 0..(Width - 1) /\ i \in 0..(Width - 1) /\ Width \in Nat
  BY Bytes DEF Elem, Bit
<1>2. ASSUME NEW e \in 0..(2 * Width - 2)
      PROVE  e \in Product(a, {i}) <=> e - i \in a
  <2> DEFINE x == {j \in a : (e - j) \in {i}}
  <2>1. e \in Product(a, {i}) <=> Cardinality(x) % 2 = 1
    BY DEF Product
  <2>2. CASE e - i \in a
    <3>1. \A j : j \in x <=> j \in a /\ e - j = i
      OBVIOUS
    <3>2. \A j \in a : e - j = i <=> j = e - i
      BY <1>1
    <3> HIDE DEF x
    <3>3. x = {e - i}
      BY <2>2, <3>1, <3>2
    <3>4. Cardinality(x) = 1
      BY <3>3, FS_Singleton
    <3> QED BY <2>1, <2>2, <3>4
  <2>3. CASE e - i \notin a
    <3>1. \A j : j \in x <=> j \in a /\ e - j = i
      OBVIOUS
    <3>2. \A j \in a : e - j = i <=> j = e - i
      BY <1>1
    <3> HIDE DEF x
    <3>3. x = {}
      BY <2>3, <3>1, <3>2
    <3>4. Cardinality(x) = 0
      BY <3>3, FS_EmptySet
    <3> QED BY <2>1, <2>3, <3>4
  <2> QED BY <2>2, <2>3
<1>3. Product(a, {i}) \subseteq 0..(2 * Width - 2)
  BY DEF Product
<1>4. ASSUME NEW t \in a PROVE t + i \in 0..(2 * Width - 2) /\ (t + i) - i = t
  BY <1>1
<1>5. ASSUME NEW e \in Product(a, {i}) PROVE e - i \in a /\ e = (e - i) + i
  <2>1. e \in 0..(2 * Width - 2)
    BY <1>3
  <2>2. e - i \in a
    BY <1>2, <2>1, Zenon
  <2> QED BY <1>1, <2>1, <2>2
<1>6. Product(a, {i}) \subseteq {t + i : t \in a}
  BY <1>5
<1>7. {t + i : t \in a} \subseteq Product(a, {i})
  BY <1>2, <1>4
<1> QED BY <1>6, <1>7

-----------------------------------------------------------------------------
(***************************************************************************)
(* Long division.                                                          *)
(***************************************************************************)

\* r holds the first n steps of the division.
IsCleared(r, f, n) ==
    r = [d \in 0..n |-> IF d = 0 THEN f ELSE Cancel(r[d - 1], 2 * Width - 1 - d)]

\* The recursion has a solution.
LEMMA ClearedExists == ASSUME NEW f, NEW n \in Nat PROVE \E r : IsCleared(r, f, n)
<1> DEFINE Good == {m \in Nat : \E r : IsCleared(r, f, m)}
<1>1. 0 \in Good
  <2> DEFINE r0 == [d \in 0..0 |-> f]
  <2>1. IsCleared(r0, f, 0)
    BY DEF IsCleared
  <2> QED BY <2>1
<1>2. ASSUME NEW m \in 0..(n - 1), m \in Good PROVE m + 1 \in Good
  <2>1. PICK r : IsCleared(r, f, m)
    BY <1>2
  <2> DEFINE u == [d \in 0..(m + 1) |->
                      IF d = m + 1 THEN Cancel(r[m], 2 * Width - 1 - d) ELSE r[d]]
  <2>2. \A d \in 0..(m + 1) :
            u[d] = IF d = 0 THEN f ELSE Cancel(u[d - 1], 2 * Width - 1 - d)
    BY <2>1 DEF IsCleared
  <2>3. IsCleared(u, f, m + 1)
    BY <2>2 DEF IsCleared
  <2> QED BY <2>3
<1> HIDE DEF Good
<1>3. 0..n \subseteq Good
  BY <1>1, <1>2, Induct
<1> QED BY <1>3 DEF Good

\* The division step by step.
LEMMA ClearedSteps ==
    \A f : /\ Cleared(f)[0] = f
           /\ \A d \in 0..(Width - 2) :
                 Cleared(f)[d + 1] = Cancel(Cleared(f)[d], 2 * Width - 2 - d)
<1> TAKE f
<1> DEFINE r == Cleared(f)
<1>1. Width \in Nat /\ Width > 0 /\ Width - 1 \in Nat
  BY FieldAssumption
<1>2. \E u : IsCleared(u, f, Width - 1)
  BY <1>1, ClearedExists
<1>3. IsCleared(r, f, Width - 1)
  BY <1>2 DEF Cleared, IsCleared
<1> HIDE DEF r
<1>4. r[0] = f
  BY <1>1, <1>3 DEF IsCleared
<1>5. ASSUME NEW d \in 0..(Width - 2) PROVE r[d + 1] = Cancel(r[d], 2 * Width - 2 - d)
  <2>1. /\ d + 1 \in 0..(Width - 1) /\ d + 1 # 0 /\ (d + 1) - 1 = d
        /\ 2 * Width - 1 - (d + 1) = 2 * Width - 2 - d
    BY <1>1
  <2>2. r[d + 1] = IF d + 1 = 0 THEN f ELSE Cancel(r[(d + 1) - 1], 2 * Width - 1 - (d + 1))
    BY <1>3, <2>1 DEF IsCleared
  <2> QED BY <2>1, <2>2
<1> QED BY <1>4, <1>5 DEF r

\* A step of the division is additive, ...
LEMMA CancelAdds ==
    ASSUME NEW p, NEW q, NEW e
    PROVE  Cancel(Xor(p, q), e) = Xor(Cancel(p, e), Cancel(q, e))
<1> DEFINE m == {e} \cup {t + e - Width : t \in Poly}
<1>1. /\ Cancel(Xor(p, q), e) = IF e \in Xor(p, q) THEN Xor(Xor(p, q), m) ELSE Xor(p, q)
      /\ Cancel(p, e) = IF e \in p THEN Xor(p, m) ELSE p
      /\ Cancel(q, e) = IF e \in q THEN Xor(q, m) ELSE q
  BY DEF Cancel
<1>2. e \in Xor(p, q) <=> ~(e \in p <=> e \in q)
  BY DEF Xor
<1> HIDE DEF m
<1>3. /\ Xor(Xor(p, q), m) = Xor(Xor(p, m), q)
      /\ Xor(Xor(p, q), m) = Xor(p, Xor(q, m))
      /\ Xor(p, q) = Xor(Xor(p, m), Xor(q, m))
  BY DEF Xor
<1> QED BY <1>1, <1>2, <1>3

\* ... and so is what is left in the end.
LEMMA RemainderAdds ==
    ASSUME NEW f, NEW g
    PROVE  Remainder(Xor(f, g)) = Xor(Remainder(f), Remainder(g))
<1> DEFINE T == {d \in 0..(Width - 1) :
                    Cleared(Xor(f, g))[d] = Xor(Cleared(f)[d], Cleared(g)[d])}
<1>1. 0 \in T
  <2>1. Cleared(Xor(f, g))[0] = Xor(f, g) /\ Cleared(f)[0] = f /\ Cleared(g)[0] = g
    BY ClearedSteps, Zenon
  <2> QED BY <2>1, Bytes
<1>2. ASSUME NEW d \in 0..((Width - 1) - 1), d \in T PROVE d + 1 \in T
  <2> DEFINE e == 2 * Width - 2 - d
  <2>1. d \in 0..(Width - 2) /\ d + 1 \in 0..(Width - 1)
    BY Bytes
  <2>2. /\ Cleared(Xor(f, g))[d + 1] = Cancel(Cleared(Xor(f, g))[d], e)
        /\ Cleared(f)[d + 1] = Cancel(Cleared(f)[d], e)
        /\ Cleared(g)[d + 1] = Cancel(Cleared(g)[d], e)
    BY <2>1, ClearedSteps
  <2> HIDE DEF e
  <2>3. Cleared(Xor(f, g))[d + 1] = Xor(Cleared(f)[d + 1], Cleared(g)[d + 1])
    BY <1>2, <2>2, CancelAdds
  <2> QED BY <2>1, <2>3
<1> HIDE DEF T
<1>3. 0..(Width - 1) \subseteq T
  BY <1>1, <1>2, Induct, Bytes
<1>4. Width - 1 \in T
  BY <1>3, Bytes
<1> QED BY <1>4 DEF T, Remainder

\* The terms of q, each one degree up.
Up(q) == {t + 1 : t \in q}

\* The division clears a term of degree e for good, ...
LEMMA CancelLowers ==
    ASSUME NEW e \in Int, e >= Width, NEW q, q \subseteq 0..e
    PROVE  Cancel(q, e) \subseteq 0..(e - 1)
<1> DEFINE m == {t + e - Width : t \in Poly}
<1>1. Width \in Nat /\ Width > 0 /\ Poly \subseteq 0..(Width - 1)
  BY FieldAssumption
<1>2. m \subseteq 0..(e - 1)
  BY <1>1
<1>3. Cancel(q, e) = IF e \in q THEN Xor(q, {e} \cup m) ELSE q
  BY DEF Cancel
<1> HIDE DEF m
<1>4. Xor(q, {e} \cup m) \subseteq 0..(e - 1) \/ e \notin q
  BY <1>2 DEF Xor
<1>5. e \notin q => q \subseteq 0..(e - 1)
  OBVIOUS
<1> QED BY <1>3, <1>4, <1>5

\* ... so that what is left is an element.
LEMMA Degrees ==
    ASSUME NEW f, f \subseteq 0..(2 * Width - 2)
    PROVE  /\ \A d \in 0..(Width - 1) : Cleared(f)[d] \subseteq 0..(2 * Width - 2 - d)
           /\ Remainder(f) \in Elem
<1> DEFINE c == Cleared(f)
           T == {d \in 0..(Width - 1) : c[d] \subseteq 0..(2 * Width - 2 - d)}
<1>1. Width \in Nat /\ Width > 0 /\ Width - 1 \in Nat
  BY FieldAssumption
<1>2. c[0] = f /\ \A d \in 0..(Width - 2) : c[d + 1] = Cancel(c[d], 2 * Width - 2 - d)
  BY ClearedSteps, Zenon
<1>3. Remainder(f) = c[Width - 1]
  BY DEF Remainder
<1> HIDE DEF c
<1>4. 0 \in T
  <2>1. 0 \in 0..(Width - 1) /\ 2 * Width - 2 - 0 = 2 * Width - 2
    BY <1>1
  <2>2. c[0] \subseteq 0..(2 * Width - 2 - 0)
    BY <1>2, <2>1, Zenon
  <2> QED BY <2>1, <2>2, Zenon
<1>5. ASSUME NEW d \in 0..((Width - 1) - 1), d \in T PROVE d + 1 \in T
  <2> DEFINE e == 2 * Width - 2 - d
  <2>1. d \in 0..(Width - 2) /\ d + 1 \in 0..(Width - 1) /\ e \in Int /\ e >= Width
    BY <1>1
  <2>2. c[d] \subseteq 0..e
    BY <1>5
  <2>3. c[d + 1] = Cancel(c[d], e)
    BY <1>2, <2>1
  <2>4. e - 1 = 2 * Width - 2 - (d + 1)
    BY <1>1
  <2> HIDE DEF e
  <2>5. c[d + 1] \subseteq 0..(e - 1)
    BY <2>1, <2>2, <2>3, CancelLowers
  <2> QED BY <2>1, <2>4, <2>5
<1> HIDE DEF T
<1>6. 0..(Width - 1) \subseteq T
  BY <1>1, <1>4, <1>5, Induct
<1>7. \A d \in 0..(Width - 1) : c[d] \subseteq 0..(2 * Width - 2 - d)
  BY <1>6 DEF T
<1>8. c[Width - 1] \subseteq 0..(2 * Width - 2 - (Width - 1))
  BY <1>1, <1>7
<1>9. 2 * Width - 2 - (Width - 1) = Width - 1
  BY <1>1
<1>10. Remainder(f) \in Elem
  BY <1>3, <1>8, <1>9, Zenon DEF Elem
<1> QED BY <1>7, <1>10 DEF c

\* An element is its own remainder.
LEMMA RemainderOfElem == ASSUME NEW a \in Elem PROVE Remainder(a) = a
<1> DEFINE c == Cleared(a)
           T == {d \in 0..(Width - 1) : c[d] = a}
<1>1. Width \in Nat /\ Width > 0 /\ Width - 1 \in Nat /\ a \subseteq 0..(Width - 1)
  BY FieldAssumption DEF Elem
<1>2. c[0] = a /\ \A d \in 0..(Width - 2) : c[d + 1] = Cancel(c[d], 2 * Width - 2 - d)
  BY ClearedSteps, Zenon
<1>3. Remainder(a) = c[Width - 1]
  BY DEF Remainder
<1> HIDE DEF c
<1>4. 0 \in T
  BY <1>1, <1>2
<1>5. ASSUME NEW d \in 0..((Width - 1) - 1), d \in T PROVE d + 1 \in T
  <2> DEFINE e == 2 * Width - 2 - d
  <2>1. d \in 0..(Width - 2) /\ d + 1 \in 0..(Width - 1) /\ e \notin a
    BY <1>1
  <2>2. c[d + 1] = Cancel(c[d], e)
    BY <1>2, <2>1
  <2> HIDE DEF e
  <2> QED BY <1>5, <2>1, <2>2 DEF Cancel
<1> HIDE DEF T
<1>6. 0..(Width - 1) \subseteq T
  BY <1>1, <1>4, <1>5, Induct
<1> QED BY <1>1, <1>3, <1>6 DEF T

-----------------------------------------------------------------------------
(***************************************************************************)
(* A polynomial one degree up leaves the remainder doubled.                *)
(***************************************************************************)

\* What the polynomial one degree up consists of.
LEMMA UpMember ==
    ASSUME NEW q, q \subseteq Int
    PROVE  \A x : x \in Up(q) <=> x \in Int /\ x - 1 \in q
<1> TAKE x
<1>1. ASSUME x \in Up(q) PROVE x \in Int /\ x - 1 \in q
  BY <1>1 DEF Up
<1>2. ASSUME x \in Int, x - 1 \in q PROVE x \in Up(q)
  <2>1. x = (x - 1) + 1
    BY <1>2
  <2> QED BY <1>2, <2>1 DEF Up
<1> QED BY <1>1, <1>2

\* Clearing a term commutes with the shift.
LEMMA CancelUp ==
    ASSUME NEW e \in Int, NEW q, q \subseteq Int
    PROVE  Up(Cancel(q, e)) = Cancel(Up(q), e + 1)
<1> DEFINE m(x) == {x} \cup {t + x - Width : t \in Poly}
<1>1. Width \in Nat /\ Poly \subseteq Int
  BY FieldAssumption
<1>2. m(e) \subseteq Int
  BY <1>1
<1>3. m(e + 1) = Up(m(e))
  BY <1>1 DEF Up
<1>4. /\ Cancel(q, e) = IF e \in q THEN Xor(q, m(e)) ELSE q
      /\ Cancel(Up(q), e + 1) = IF e + 1 \in Up(q) THEN Xor(Up(q), m(e + 1)) ELSE Up(q)
  BY DEF Cancel
<1> HIDE DEF m
<1>5. e + 1 \in Up(q) <=> e \in q
  BY DEF Up
<1>6. Up(Xor(q, m(e))) = Xor(Up(q), Up(m(e)))
  <2> DEFINE n == m(e)
  <2>1. q \subseteq Int /\ n \subseteq Int /\ Xor(q, n) \subseteq Int
    BY <1>2 DEF Xor
  <2> HIDE DEF n
  <2>2. /\ \A x : x \in Up(q) <=> x \in Int /\ x - 1 \in q
        /\ \A x : x \in Up(n) <=> x \in Int /\ x - 1 \in n
        /\ \A x : x \in Up(Xor(q, n)) <=> x \in Int /\ x - 1 \in Xor(q, n)
    BY <2>1, UpMember
  <2>3. \A x : x \in Up(Xor(q, n)) <=> x \in Xor(Up(q), Up(n))
    BY <2>2 DEF Xor
  <2> QED BY <2>3 DEF n
<1> QED BY <1>3, <1>4, <1>5, <1>6

\* The last step of the division is the reduction of a doubling.
LEMMA CancelDoubles ==
    ASSUME NEW a \in Elem
    PROVE  Cancel(Up(a), Width) = Double(a)
<1> DEFINE m == {t + Width - Width : t \in Poly}
<1>1. Width \in Nat /\ Width > 0 /\ Poly \subseteq 0..(Width - 1) /\ a \subseteq 0..(Width - 1)
  BY FieldAssumption DEF Elem
<1>2. m = Poly
  <2>1. \A t \in Poly : t + Width - Width = t
    BY <1>1
  <2> QED BY <2>1
<1>3. Cancel(Up(a), Width) = IF Width \in Up(a) THEN Xor(Up(a), {Width} \cup m) ELSE Up(a)
  BY DEF Cancel
<1>4. Width \in Up(a) <=> Width - 1 \in a
  BY <1>1 DEF Up
<1>5. ShiftLeft(a) = Up(a) \cap 0..(Width - 1)
  BY DEF ShiftLeft, Up, Bit
<1>6. Up(a) \subseteq 0..Width
  BY <1>1 DEF Up
<1> HIDE DEF m
<1>7. CASE Width \in Up(a)
  <2>1. Xor(Up(a), {Width} \cup Poly) = Xor(ShiftLeft(a), Poly)
    BY <1>1, <1>5, <1>6, <1>7 DEF Xor
  <2> QED BY <1>2, <1>3, <1>4, <1>7, <2>1, ReductionAssumption DEF Double
<1>8. CASE Width \notin Up(a)
  <2>1. Up(a) = ShiftLeft(a)
    BY <1>1, <1>5, <1>6, <1>8
  <2> QED BY <1>3, <1>4, <1>8, <2>1 DEF Double
<1> QED BY <1>7, <1>8

\* Long division commutes with the step one degree up, up to the reduction that Double does.
LEMMA RemainderUp ==
    ASSUME Width >= 2, NEW f, f \subseteq 0..(2 * Width - 3)
    PROVE  Remainder(Up(f)) = Double(Remainder(f))
<1> DEFINE c == Cleared(f)
           u == Cleared(Up(f))
           T == {d \in 0..(Width - 2) : u[d] = Up(c[d + 1])}
<1>1. Width \in Nat /\ Width - 2 \in Nat
  BY FieldAssumption
<1>2. c[0] = f /\ \A d \in 0..(Width - 2) : c[d + 1] = Cancel(c[d], 2 * Width - 2 - d)
  BY ClearedSteps, Zenon
<1>3. u[0] = Up(f) /\ \A d \in 0..(Width - 2) : u[d + 1] = Cancel(u[d], 2 * Width - 2 - d)
  BY ClearedSteps, Zenon
<1>4. /\ \A d \in 0..(Width - 1) : c[d] \subseteq 0..(2 * Width - 2 - d)
      /\ Remainder(f) \in Elem
  <2>1. f \subseteq 0..(2 * Width - 2)
    BY <1>1
  <2> QED BY <2>1, Degrees
<1>5. Remainder(f) = c[Width - 1] /\ Remainder(Up(f)) = u[Width - 1]
  BY DEF Remainder
<1> HIDE DEF c, u
<1>6. 0 \in T
  <2>1. c[1] = Cancel(c[0], 2 * Width - 2)
    <3>1. 0 \in 0..(Width - 2) /\ 0 + 1 = 1 /\ 2 * Width - 2 - 0 = 2 * Width - 2
      BY <1>1
    <3> QED BY <1>2, <3>1
  <2>2. 2 * Width - 2 \notin f
    BY <1>1
  <2>3. c[1] = f
    BY <1>2, <2>1, <2>2 DEF Cancel
  <2> QED BY <1>1, <1>3, <2>3
<1>7. ASSUME NEW d \in 0..((Width - 2) - 1), d \in T PROVE d + 1 \in T
  <2> DEFINE e == 2 * Width - 2 - (d + 1)
  <2>1. /\ d \in 0..(Width - 2) /\ d + 1 \in 0..(Width - 2) /\ d + 1 \in 0..(Width - 1)
        /\ e \in Int /\ 2 * Width - 2 - d = e + 1
    BY <1>1
  <2>2. u[d] = Up(c[d + 1])
    BY <1>7
  <2>3. c[(d + 1) + 1] = Cancel(c[d + 1], e)
    BY <1>2, <2>1
  <2>4. u[d + 1] = Cancel(u[d], e + 1)
    BY <1>3, <2>1
  <2>5. c[d + 1] \subseteq Int
    BY <1>4, <2>1
  <2> HIDE DEF e
  <2>6. u[d + 1] = Up(c[(d + 1) + 1])
    BY <2>1, <2>2, <2>3, <2>4, <2>5, CancelUp
  <2> QED BY <2>1, <2>6
<1> HIDE DEF T
<1>8. 0..(Width - 2) \subseteq T
  BY <1>1, <1>6, <1>7, Induct
<1>9. u[Width - 2] = Up(c[Width - 1])
  <2>1. Width - 2 \in T /\ (Width - 2) + 1 = Width - 1
    BY <1>1, <1>8
  <2> QED BY <2>1 DEF T
<1>10. u[Width - 1] = Cancel(u[Width - 2], Width)
  <2>1. /\ Width - 2 \in 0..(Width - 2) /\ (Width - 2) + 1 = Width - 1
        /\ 2 * Width - 2 - (Width - 2) = Width
    BY <1>1
  <2> QED BY <1>3, <2>1
<1>11. Cancel(Up(c[Width - 1]), Width) = Double(c[Width - 1])
  BY <1>4, <1>5, CancelDoubles
<1> QED BY <1>5, <1>9, <1>10, <1>11

-----------------------------------------------------------------------------
(***************************************************************************)
(* The tables are those of the field.                                      *)
(***************************************************************************)

\* A field product with a single bit is a repeated doubling.
LEMMA MulBit == ASSUME NEW a \in Elem, NEW i \in Bit PROVE Mul(a, {i}) = Pow(a, i)
<1> DEFINE Sh(j) == {t + j : t \in a}
           T == {j \in Bit : Remainder(Sh(j)) = Pow(a, j)}
<1>1. Width \in Nat /\ Width > 0 /\ Width - 1 \in Nat /\ a \subseteq 0..(Width - 1)
  BY FieldAssumption DEF Elem
<1>2. 0 \in T
  <2>1. Sh(0) = a
    BY <1>1
  <2>2. 0 \in Bit
    BY <1>1 DEF Bit
  <2> QED BY <2>1, <2>2, RemainderOfElem, PowFacts
<1>3. ASSUME NEW j \in 0..((Width - 1) - 1), j \in T PROVE j + 1 \in T
  <2>1. j \in 0..(Width - 1) /\ j + 1 \in Bit /\ Width >= 2
    BY <1>1 DEF Bit
  <2>2. Sh(j) \subseteq 0..(2 * Width - 3)
    BY <1>1
  <2>3. Sh(j + 1) = Up(Sh(j))
    <3>1. \A t \in a : t + (j + 1) = (t + j) + 1
      BY <1>1
    <3> QED BY <3>1 DEF Up
  <2>4. Remainder(Sh(j)) = Pow(a, j)
    BY <1>3
  <2> HIDE DEF Sh
  <2>5. Remainder(Up(Sh(j))) = Double(Remainder(Sh(j)))
    BY <2>1, <2>2, RemainderUp
  <2>6. Pow(a, j + 1) = Double(Pow(a, j))
    BY <2>1, PowFacts
  <2> QED BY <2>1, <2>3, <2>4, <2>5, <2>6
<1>4. Mul(a, {i}) = Remainder(Sh(i))
  BY ProductBit DEF Mul
<1> HIDE DEF T, Sh
<1>5. 0..(Width - 1) \subseteq T
  BY <1>1, <1>2, <1>3, Induct
<1> QED BY <1>4, <1>5 DEF T, Bit

\* Field products are additive.
LEMMA MulAdds ==
    ASSUME NEW a \in Elem, NEW b \in Elem, NEW c \in Elem
    PROVE  Mul(a, Xor(b, c)) = Xor(Mul(a, b), Mul(a, c))
<1>1. Product(a, Xor(b, c)) = Xor(Product(a, b), Product(a, c))
  BY ProductAdds
<1>2. Remainder(Xor(Product(a, b), Product(a, c)))
        = Xor(Remainder(Product(a, b)), Remainder(Product(a, c)))
  BY RemainderAdds
<1> QED BY <1>1, <1>2 DEF Mul

\* The multiplication table of gf256_init holds the products of the field.
THEOREM TableIsProduct == \A a, b \in Elem : mul_table[a][b] = Mul(a, b)
<1> SUFFICES ASSUME NEW a \in Elem, NEW b \in Elem PROVE mul_table[a][b] = Mul(a, b)
  OBVIOUS
<1> DEFINE T == {j \in 0..Width : mul_table[a][Low(b, j)] = Mul(a, Low(b, j))}
<1>1. 0 \in T
  <2>1. Product(a, Zero) = Zero
    <3>1. ASSUME NEW e PROVE e \notin Product(a, Zero)
      <4>1. {i \in a : (e - i) \in Zero} = {}
        BY DEF Zero
      <4>2. Cardinality({i \in a : (e - i) \in Zero}) = 0
        BY <4>1, FS_EmptySet, Zenon
      <4>3. e \in Product(a, Zero) => Cardinality({i \in a : (e - i) \in Zero}) % 2 = 1
        BY DEF Product
      <4> QED BY <4>2, <4>3
    <3> QED BY <3>1 DEF Zero
  <2>2. Mul(a, Zero) = Zero
    BY <2>1, RemainderOfElem, Bytes DEF Mul
  <2> QED BY <2>2, ZeroTimes, LowFacts, Bytes
<1>2. ASSUME NEW j \in 0..(Width - 1), j \in T PROVE j + 1 \in T
  <2> DEFINE x == {j}
             y == Low(b, j)
  <2>1. j \in Bit /\ j \in 0..Width /\ j + 1 \in 0..Width
    BY Bytes DEF Bit
  <2>2. x \in Elem /\ y \in Elem
    BY <2>1, Bytes, LowFacts
  <2>3. mul_table[a][x] = Mul(a, x)
    BY <2>1, TimesBit, MulBit
  <2>4. mul_table[a][y] = Mul(a, y)
    BY <1>2
  <2>5. Low(b, j + 1) = IF j \in b THEN Xor(y, x) ELSE y
    BY <2>1, LowFacts
  <2> HIDE DEF x, y
  <2>6. /\ mul_table[a][Xor(y, x)] = Xor(mul_table[a][y], mul_table[a][x])
        /\ Mul(a, Xor(y, x)) = Xor(Mul(a, y), Mul(a, x))
    BY <2>2, TimesAddsRight, MulAdds
  <2>7. mul_table[a][Low(b, j + 1)] = Mul(a, Low(b, j + 1))
    BY <2>3, <2>4, <2>5, <2>6
  <2> QED BY <2>1, <2>7
<1> HIDE DEF T
<1>3. 0..Width \subseteq T
  BY <1>1, <1>2, Induct, Bytes
<1>4. Width \in T
  BY <1>3, Bytes
<1> QED BY <1>4, LowFacts DEF T

\* Multiplying by a nonzero element permutes the elements, so one product is 1.
LEMMA InverseExists ==
    ASSUME NEW a \in Elem, a # Zero
    PROVE  \E b \in Elem : mul_table[a][b] = One
<1> DEFINE f == [b \in Elem |-> mul_table[a][b]]
<1>1. f \in [Elem -> Elem]
  BY TimesType
<1>2. ASSUME NEW b \in Elem, NEW c \in Elem, f[b] = f[c] PROVE b = c
  <2>1. mul_table[a][Xor(b, c)] = Xor(mul_table[a][b], mul_table[a][c])
    BY TimesAddsRight
  <2>2. mul_table[a][Xor(b, c)] = Zero
    BY <1>2, <2>1, XorZero
  <2>3. Xor(b, c) \in Elem
    BY XorType
  <2>4. Mul(a, Xor(b, c)) = Zero
    BY <2>2, <2>3, TableIsProduct
  <2>5. Xor(b, c) = Zero
    BY <2>3, <2>4, IrreducibleAssumption
  <2> QED BY <2>5 DEF Xor, Zero
<1> HIDE DEF f
<1>3. IsFiniteSet(Elem)
  <2>1. IsFiniteSet(0..(Width - 1))
    BY FS_Interval, FieldAssumption
  <2> QED BY <2>1, FS_SUBSET DEF Elem
<1>4. f \in Injection(Elem, Elem)
  BY <1>1, <1>2 DEF Injection, IsInjective
<1>5. f \in Surjection(Elem, Elem)
  BY <1>3, <1>4, FS_Injection
<1>6. \E b \in Elem : f[b] = One
  BY <1>5, Bytes DEF Surjection
<1> QED BY <1>6 DEF f

\* The search for inverses finds one for every element but 0.
THEOREM InversesFound ==
    \A a \in Elem \ {Zero} : Inverses[a] \in Elem /\ mul_table[a][Inverses[a]] = One
<1> SUFFICES ASSUME NEW a \in Elem, a # Zero
             PROVE  Inverses[a] \in Elem /\ mul_table[a][Inverses[a]] = One
  OBVIOUS
<1> DEFINE found == {b \in Elem : mul_table[a][b] = One}
<1>1. PICK b \in Elem : mul_table[a][b] = One
  BY InverseExists
<1>2. b \in found
  BY <1>1
<1>3. Inverses[a] = IF found = {} THEN Zero ELSE CHOOSE c \in found : TRUE
  BY DEF Inverses
<1>4. Inverses[a] \in found
  <2> HIDE DEF found
  <2> QED BY <1>2, <1>3
<1> QED BY <1>4
=============================================================================
