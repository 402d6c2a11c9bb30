------------------------------- MODULE GF256 --------------------------------
(***************************************************************************)
(* The tables of src/gf256.c: products by repeated doubling and the search *)
(* for inverses.  A byte is the set of its bits.                           *)
(***************************************************************************)
EXTENDS GaloisField

CONSTANT Reduction   \* the constant 0x1d of the code, as a set of bits

ASSUME ReductionAssumption == Reduction = Poly

Bit == 0..(Width - 1)

\* Shifts of a byte: the bit that leaves it is lost.
ShiftLeft(x)  == {t + 1 : t \in x} \cap Bit
ShiftRight(x) == {t - 1 : t \in x} \cap Bit

\* Mutant: the bit that overflows is not reduced.
DoubleUnreduced(x) == ShiftLeft(x)

Double(x) == IF Width - 1 \in x THEN Xor(ShiftLeft(x), Reduction) ELSE ShiftLeft(x)

\* One round of the inner loop of gf256_init on its locals p, aa and bb.
Round(q) == [p  |-> IF 0 \in q.bb THEN Xor(q.p, q.aa) ELSE q.p,
             aa |-> Double(q.aa),
             bb |-> ShiftRight(q.bb)]

\* The locals after i rounds.
Loop(a, b) ==
    LET s[i \in 0..Width] == IF i = 0 THEN [p |-> Zero, aa |-> a, bb |-> b] ELSE Round(s[i - 1])
    IN  s

mul_table == [a \in Elem |-> [b \in Elem |-> Loop(a, b)[Width].p]]

\* What the search for inverses leaves in inv_table, which is zero at first: 0
\* has no inverse, and no other element has two.
Inverses ==
    [a \in Elem |->
        LET found == {b \in Elem : mul_table[a][b] = One}
        IN  IF found = {} THEN Zero ELSE CHOOSE b \in found : TRUE]
=============================================================================
