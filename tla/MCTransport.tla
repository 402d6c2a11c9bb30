---------------------------- MODULE MCTransport -----------------------------
(***************************************************************************)
(* A TLC instance of Transport: gateways a and b with two paths and two    *)
(* addresses each.                                                         *)
(***************************************************************************)
EXTENDS Transport

MCPeer    == {"a", "b"}
MCAddress == {"a0", "a1", "b0", "b1"}
MCOwner   == [x \in MCAddress |-> IF x \in {"a0", "a1"} THEN "a" ELSE "b"]

Entry(x, e, o) == [remote_ip |-> x, enabled |-> e, opens |-> o]
Pair(x, y)     == [i \in 0..1 |-> IF i = 0 THEN x ELSE y]
Both(t, u)     == [p \in MCPeer |-> IF p = "a" THEN t ELSE u]

\* The addresses in the same or in opposite order, shared, one path disabled
\* at one end, or without a socket.
TablesOf(x, y) == {
    Pair(Entry(x, TRUE, TRUE), Entry(y, TRUE, TRUE)),
    Pair(Entry(y, TRUE, TRUE), Entry(x, TRUE, TRUE)),
    Pair(Entry(x, TRUE, TRUE), Entry(x, TRUE, TRUE)),
    Pair(Entry(x, FALSE, TRUE), Entry(y, TRUE, TRUE)),
    Pair(Entry(x, TRUE, FALSE), Entry(y, TRUE, TRUE))}

MCTables == {Both(t, u) : t \in TablesOf("b0", "b1"), u \in TablesOf("a0", "a1")}

\* One network per path, or a single interface at a.
Straight == Both([x \in {"b0", "b1"} |-> IF x = "b0" THEN "a0" ELSE "a1"],
                 [x \in {"a0", "a1"} |-> IF x = "a0" THEN "b0" ELSE "b1"])
OneHomed == [Straight EXCEPT !["a"] = [x \in {"b0", "b1"} |-> "a0"]]

MCRoutes  == {Straight, OneHomed}
MCMode    == Both("both", "rx")
MCKey     == Both("key", "key")
MCShardId == [block_id : {0}, shard_idx : {1}]

\* Too short, no magic, an unknown type, a truncated probe and shard, and
\* counts beyond the arrays.
Alien(m, t, n, k, l) ==
    [env |-> [src |-> "b1", dst |-> "a0", magic |-> m, type |-> t, n |-> n],
     k |-> k, payload_len |-> l]

MCForeign == {
    Alien(TRUE, TYPE_DATA, HdrSize - 1, 0, 0),
    Alien(FALSE, TYPE_DATA, HdrSize, 0, 0),
    Alien(TRUE, 0, HdrSize, 0, 0),
    Alien(TRUE, TYPE_PROBE, HdrSize + 7, 0, 0),
    Alien(TRUE, TYPE_DATA, HdrSize + MaxK, MaxK, 1),
    Alien(TRUE, TYPE_DATA, HdrSize + MaxK + 1, MaxK + 1, 0),
    Alien(TRUE, TYPE_DATA, HdrSize + MaxPayload + 1, 0, MaxPayload + 1)}

\* Whatever is accepted lies in the bytes received and fits the arrays that
\* take it.
ASSUME CopiesInside ==
    \A d \in [env : [magic : BOOLEAN, type : 0..4, n : 0..(HdrSize + 12)],
              k : 0..4, payload_len : 0..4] :
        Accepts(d) /\ d.env.type = TYPE_DATA =>
            d.k <= MaxK /\ d.payload_len <= MaxPayload
            /\ HdrSize + d.k + d.payload_len <= d.env.n
=============================================================================
