------------------------------ MODULE DataPath ------------------------------
(***************************************************************************)
(* One block from the TUN device of the sender to that of the receiver:    *)
(* tx_block_add_pkt and tx_block_flush (src/tx.c), encode_block and        *)
(* decode_block (src/codec.c), try_decode and ip_packet_length (src/rx.c), *)
(* over the tables of GF256.                                               *)
(*                                                                         *)
(* Every byte position of a block is coded alone and in the same way, so a *)
(* few positions stand for all of them; lengths are those of the code.     *)
(* The byte at position 0 stands for the first six of a packet, with its   *)
(* version and its length field.                                           *)
(***************************************************************************)
EXTENDS GF256, Sequences

CONSTANTS
    K,          \* cfg.k, packets of a block
    Coefficient,  \* the values drawn for coefficients; rand() may give any but 0
    MaxCoded,   \* bound on the coded shards among the k that are decoded
    Position,   \* the byte positions looked at
    Header,     \* the version and the length field that a first byte stands for
    Traffic     \* the packets of the TUN device: their length and bytes

Packet == 0..(K - 1)

ASSUME DataPathAssumption ==
    /\ K \in Nat \ {0} /\ MaxCoded \in 0..K
    /\ Coefficient \subseteq Elem \ {Zero}
    /\ Position \subseteq Nat /\ 0 \in Position
    /\ Header[Zero].version = 0     \* no IP packet starts with a zero byte

VARIABLES
    inv_table, \* the inverses, filled by gf256_init and never changed
    pc,       \* "fill", "decode", "write", then "done" or "dependent"
    pkts,     \* the packets of the block, in the order of their arrival
    coeffs,   \* the coefficients of the k shards that are decoded
    len,      \* their length; it is the same for all shards of a block
    mat, dat, \* the locals of decode_block
    col,      \* the column of the Gauss-Jordan loop
    written   \* what the TUN device of the receiver has accepted

vars == <<inv_table, pc, pkts, coeffs, len, mat, dat, col, written>>

Init ==
    /\ inv_table = Inverses
    /\ pc = "fill" /\ pkts = << >>
    /\ coeffs = << >> /\ len = 0 /\ mat = << >> /\ dat = << >> /\ col = 0
    /\ written = << >>

Below(n) == {x \in Position : x < n}

\* A whole IP packet: the length field counts the bytes that are there.
IsPacket(p) ==
    /\ p = [len |-> p.len, bytes |-> p.bytes]
    /\ p.len \in Nat /\ p.bytes \in [Below(p.len) -> Elem]
    /\ \/ /\ Header[p.bytes[0]].version = 4
          /\ Header[p.bytes[0]].length = p.len /\ p.len >= 20
       \/ /\ Header[p.bytes[0]].version = 6
          /\ (Header[p.bytes[0]].length + 40) % 65536 = p.len /\ p.len >= 40

\* The TUN device hands over nothing else.
ASSUME TrafficAssumption == \A p \in Traffic : IsPacket(p)

-----------------------------------------------------------------------------
(***************************************************************************)
(* The sender.                                                             *)
(***************************************************************************)
\* tx_block_add_pkt.
AddPkt(p) ==
    /\ pc = "fill" /\ Len(pkts) < K
    /\ pkts' = Append(pkts, p)
    /\ UNCHANGED <<inv_table, pc, coeffs, len, mat, dat, col, written>>

MaxLen == CHOOSE n \in {p.len : p \in {pkts[i] : i \in DOMAIN pkts}} :
              \A i \in DOMAIN pkts : pkts[i].len <= n

Padded(p) == [x \in Below(MaxLen) |-> IF x < p.len THEN p.bytes[x] ELSE Zero]
Filler    == [x \in Below(MaxLen) |-> Zero]

\* Mutant: the slots that are left repeat the last packet.
SourceRepeats == [j \in Packet |-> Padded(pkts[IF j < Len(pkts) THEN j + 1 ELSE Len(pkts)])]

\* The block that is encoded: packets are padded with zeros to the length of
\* the longest, and the slots that are left hold zeros.
Source == [j \in Packet |-> IF j < Len(pkts) THEN Padded(pkts[j + 1]) ELSE Filler]

(***************************************************************************)
(* encode_block: k systematic shards, then random combinations in which no *)
(* coefficient is zero.                                                    *)
(***************************************************************************)
Unit(s) == [j \in Packet |-> IF j = s THEN One ELSE Zero]
Coded   == [Packet -> Coefficient]

\* The sums of the first terms of f, and of all of them.
Partial(f) ==
    LET t[j \in 0..K] == IF j = 0 THEN Zero ELSE Xor(t[j - 1], f[j - 1]) IN t
Sum(f) == Partial(f)[K]

Combine(c, s) == [x \in Below(MaxLen) |-> Sum([j \in Packet |-> mul_table[c[j]][s[j][x]]])]

\* The shards try_decode hands over, in the order of their index.
Shards ==
    UNION {{[r \in Packet |-> IF r < K - m THEN Unit(f[r]) ELSE g[r]] :
                f \in {h \in [0..(K - m - 1) -> Packet] :
                          \A q, r \in DOMAIN h : q < r => h[q] < h[r]},
                g \in [(K - m)..(K - 1) -> Coded]} :
           m \in 0..MaxCoded}

\* tx_block_flush of a block that is full or has timed out; k of its shards
\* reach the receiver.
Flush(c) ==
    /\ pc = "fill" /\ pkts # << >>
    /\ coeffs' = c /\ mat' = c
    /\ len' = MaxLen
    /\ dat' = LET s == Source IN [r \in Packet |-> Combine(c[r], s)]
    /\ pc' = "decode" /\ col' = 0
    /\ UNCHANGED <<inv_table, pkts, written>>

-----------------------------------------------------------------------------
(***************************************************************************)
(* decode_block: one step per column.                                      *)
(***************************************************************************)
\* Mutant: only the diagonal entry is tried.
IsPivotDiagonal(r) == r = col /\ mat[r][col] # Zero

IsPivot(r) == /\ r \in col..(K - 1) /\ mat[r][col] # Zero
              /\ \A q \in col..(r - 1) : mat[q][col] = Zero

Swap(f, r) == [f EXCEPT ![col] = f[r], ![r] = f[col]]

Scaled(a, v)  == [x \in DOMAIN v |-> mul_table[a][v[x]]]
Axpy(v, a, w) == [x \in DOMAIN v |-> Xor(v[x], mul_table[a][w[x]])]

\* Scale the pivot row, then clear the column in the other rows; a row whose
\* entry is zero stays as it is.
Clear(m, d) ==
    LET inv == inv_table[m[col][col]]
        mp  == Scaled(inv, m[col])
        dp  == Scaled(inv, d[col])
    IN  /\ mat' = [q \in Packet |-> IF q = col THEN mp ELSE Axpy(m[q], m[q][col], mp)]
        /\ dat' = [q \in Packet |-> IF q = col THEN dp ELSE Axpy(d[q], m[q][col], dp)]

\* Mutant: the data of two rows that are swapped stay where they are.
ColumnMatrixOnly(r) == Clear(Swap(mat, r), dat)

Column(r) == Clear(Swap(mat, r), Swap(dat, r))

Eliminate ==
    /\ pc = "decode" /\ col < K
    /\ \E r \in Packet : IsPivot(r) /\ Column(r)
    /\ col' = col + 1
    /\ UNCHANGED <<inv_table, pc, pkts, coeffs, len, written>>

\* No pivot: the shards are linearly dependent and nothing is written.
Fail ==
    /\ pc = "decode" /\ col < K
    /\ \A r \in Packet : ~IsPivot(r)
    /\ pc' = "dependent"
    /\ UNCHANGED <<inv_table, pkts, coeffs, len, mat, dat, col, written>>

Succeed ==
    /\ pc = "decode" /\ col = K
    /\ pc' = "write" /\ col' = 0
    /\ UNCHANGED <<inv_table, pkts, coeffs, len, mat, dat, written>>

(***************************************************************************)
(* The end of try_decode.                                                  *)
(***************************************************************************)
\* The length of a packet by its header; the sum is one of 16 bits.
ip_packet_length(x, padded_len) ==
    LET h == Header[x]
        total == (h.length + 40) % 65536
    IN  IF padded_len >= 20 /\ h.version = 4 /\ h.length \in 20..padded_len THEN h.length
        ELSE IF padded_len >= 40 /\ h.version = 6 /\ total \in 40..padded_len THEN total
        ELSE padded_len

\* A TUN device refuses what is neither IPv4 nor IPv6 (the kernel's part).
tun_write(n, v) ==
    written' = IF Header[v[0]].version \in {4, 6}
               THEN Append(written, [len |-> n, bytes |-> [x \in Below(n) |-> v[x]]])
               ELSE written

\* The packets are written one by one, and a failure does not end the loop.
WritePacket ==
    /\ pc = "write"
    /\ tun_write(ip_packet_length(dat[col][0], len), dat[col])
    /\ col' = col + 1
    /\ pc' = IF col + 1 = K THEN "done" ELSE "write"
    /\ UNCHANGED <<inv_table, pkts, coeffs, len, mat, dat>>

Next ==
    \/ \E p \in Traffic : AddPkt(p)
    \/ \E c \in Shards : Flush(c)
    \/ Eliminate \/ Fail \/ Succeed \/ WritePacket

Spec == Init /\ [][Next]_vars

-----------------------------------------------------------------------------
(***************************************************************************)
(* Properties.                                                             *)
(***************************************************************************)
\* Reference: a combination in the field of GaloisField, by its definition.
FieldSum(c, s, x) == Sum([j \in Packet |-> Mul(c[j], s[j][x])])

\* Reference: the determinant.  In a field where -1 = 1 it is the sum, over all
\* permutations, of the products of the entries they pick.
Permutation == {f \in [Packet -> Packet] : \A i, j \in Packet : i # j => f[i] # f[j]}

PartialProduct(f) ==
    LET t[j \in 0..K] == IF j = 0 THEN One ELSE Mul(t[j - 1], f[j - 1]) IN t

Term(m, f) == PartialProduct([j \in Packet |-> m[j][f[j]]])[K]

Determinant(m) ==
    {e \in Bit : Cardinality({f \in Permutation : e \in Term(m, f)}) % 2 = 1}

\* The tables that gf256_init leaves, before the first packet is read: products
\* are those of the field, and every element but 0 has its inverse.
TablesAreField ==
    pc = "fill" /\ pkts = << >> =>
        /\ \A a, b \in Elem : mul_table[a][b] = Mul(a, b)
        /\ \A a \in Elem \ {Zero} : IsInv(a, inv_table[a])

\* Between two columns each row still says what its combination of the padded
\* packets is: swapping, scaling and clearing keep matrix and data together.
RowsConsistent ==
    pc = "decode" =>
        LET s == Source
        IN  \A r \in Packet, x \in Below(len) :
                dat[r][x] = FieldSum(mat[r], s, x)

\* decode_block returns -1 exactly when the k shards are linearly dependent.
FailsIffDependent ==
    /\ pc = "dependent" => Determinant(coeffs) = Zero
    /\ pc = "write" /\ col = 0 => Determinant(coeffs) # Zero

\* Any k independent shards bring out of the receiver's TUN device exactly the
\* packets that went into the sender's, in their order, with their lengths and
\* bytes, although they travelled padded, combined and with fillers.
WrittenAsRead == pc = "done" => written = pkts
=============================================================================
