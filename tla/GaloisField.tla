---------------------------- MODULE GaloisField -----------------------------
(***************************************************************************)
(* The field GF(2^Width) by its definition: an element is a polynomial     *)
(* over GF(2), written as the set of the exponents of its terms, and       *)
(* products are taken modulo x^Width + Poly.  For the code Width = 8 and   *)
(* Poly = {4, 3, 2, 0}, that is 0x11d; addition is XOR of bytes.           *)
(***************************************************************************)
EXTENDS Integers, FiniteSets

CONSTANTS
    Width,   \* 8 in the code
    Poly     \* the terms of the modulus below x^Width

ASSUME FieldAssumption == Width \in Nat \ {0} /\ Poly \subseteq 0..(Width - 1)

Elem == SUBSET (0..(Width - 1))
Zero == {}
One  == {0}

Xor(a, b) == (a \ b) \cup (b \ a)

\* The product of two polynomials, before reduction.
Product(a, b) ==
    {e \in 0..(2 * Width - 2) :
        Cardinality({i \in a : (e - i) \in b}) % 2 = 1}

\* Clear the term of degree e: subtract the modulus, shifted.
Cancel(q, e) == IF e \in q THEN Xor(q, {e} \cup {t + e - Width : t \in Poly}) ELSE q

\* Long division: f after the d highest of 2 * Width - 1 terms were cleared.
Cleared(f) ==
    LET r[d \in 0..(Width - 1)] ==
            IF d = 0 THEN f ELSE Cancel(r[d - 1], 2 * Width - 1 - d)
    IN  r

\* What is left of degree Width - 1 and below.
Remainder(f) == Cleared(f)[Width - 1]

Mul(a, b) == Remainder(Product(a, b))

\* b is the inverse of a.
IsInv(a, b) == Mul(a, b) = One

\* The polynomial is irreducible: nothing but 0 divides 0.
ASSUME IrreducibleAssumption == \A a, b \in Elem \ {Zero} : Mul(a, b) # Zero
=============================================================================
