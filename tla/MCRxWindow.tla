----------------------------- MODULE MCRxWindow -----------------------------
(***************************************************************************)
(* TLC instances of RxWindow with k = 2.  Over a field, two coefficient    *)
(* vectors are independent exactly when they are not parallel, so a shard  *)
(* is its direction: e0 and e1 for the systematic shards, one value per    *)
(* class of parallel coded vectors.                                        *)
(***************************************************************************)
EXTENDS RxWindow

CONSTANTS
    MaxBlockId,   \* the blocks that are sent: 0 .. MaxBlockId
    Direction     \* the direction of the shard of each index

MCShard == {Direction[i] : i \in DOMAIN Direction}

MCDatagram ==
    {[block_id |-> b, shard_idx |-> i, k |-> 2, shard |-> Direction[i]] :
        b \in 0..MaxBlockId, i \in DOMAIN Direction}

MCDecodable(f) ==
    \A i, j \in DOMAIN f : i # j => f[i] # f[j]

\* Two systematic shards and one coded shard.
OneCoded == [i \in 0..2 |-> <<"e0", "e1", "c">>[i + 1]]

\* The same and a shard of index MaxN = 3, beyond the arrays of a slot.
OneTooMany == [i \in 0..3 |-> <<"e0", "e1", "c", "c">>[i + 1]]

\* Wrap is the reduction of a uint32_t on every value it is used on.
ASSUME WrapIsModulo == \A x \in (1 - IdMod)..IdMod : Wrap(x) = x % IdMod
=============================================================================
