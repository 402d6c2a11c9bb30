------------------------------ MODULE MCTunnel ------------------------------
(***************************************************************************)
(* A TLC instance of Tunnel with k = 2.  A shard is the direction of its   *)
(* coefficient vector, as in MCRxWindow, and the block it was encoded from.*)
(* Shard 1 never arrives, and shards 2 and 3 are coded with parallel       *)
(* coefficients: decode_block fails on the two of them.                    *)
(***************************************************************************)
EXTENDS Tunnel

MCEncoding == [epoch : 0..MaxRestarts, number : 0..(MaxSent - 1)]

MCDirection == [j \in {0, 2, 3} |-> IF j = 0 THEN "e0" ELSE "c"]

MCShard == [dir : {"e0", "c"}, enc : MCEncoding]

MCDatagram ==
    {[block_id |-> e.number, shard_idx |-> j, k |-> 2,
      shard |-> [dir |-> MCDirection[j], enc |-> e]] :
        e \in MCEncoding, j \in DOMAIN MCDirection}

MCDecodable(f) == \A i, j \in DOMAIN f : i # j => f[i].dir # f[j].dir
=============================================================================
