----------------------------- MODULE Transport ------------------------------
(***************************************************************************)
(* What two gateways say to each other: src/transport.c, the XOR of        *)
(* src/crypto.c, and the dispatch of datagrams in src/main.c.              *)
(*                                                                         *)
(* A gateway has one socket per path to send with and one to receive with, *)
(* so a datagram tells the receiver no path: it carries the address that   *)
(* the kernel chose for its sender (route), and transport_recv looks for   *)
(* the first path with that remote address.  Probes are answered on the    *)
(* path found in this way, and the echo is booked on the path found for    *)
(* it in turn.                                                             *)
(*                                                                         *)
(* The tables of a gateway are those of transport_init: a reload does not  *)
(* change them.  The network loses, duplicates and reorders datagrams, and *)
(* datagrams of other programs may arrive at the port.                     *)
(***************************************************************************)
EXTENDS Integers, FiniteSets

CONSTANTS
    Peer,           \* the two gateways
    Path,           \* 0 .. path_count - 1
    Address,        \* their network addresses
    Owner,          \* the gateway that has an address
    NoAddress,      \* 0.0.0.0
    Tables,         \* the paths configured: remote_ip, enabled, and whether the
                    \* socket can be opened and the address read
    Routes,         \* the source address the kernel picks for a destination
    Mode,           \* cfg.mode of each gateway
    Key,            \* cfg.crypto_key of each gateway
    NoKey,          \* the empty key
    ShardId,        \* the shards that are sent: block_id and shard_idx
    Lengths,        \* the lengths of their payloads
    MaxK,           \* MAX_K
    MaxPayload,     \* MAX_PAYLOAD
    Word,           \* 2^32: the halves of a timestamp
    Offsets,        \* how far a gateway's clock may be ahead of the other's
    Foreign,        \* datagrams that other programs may send to the port
    MaxTime,        \* bound on the time
    MaxNet          \* bound on the datagrams in the network

HdrSize == 14
TYPE_DATA == 1
TYPE_PROBE == 2
TYPE_PROBE_ECHO == 3

ASSUME WireAssumption == /\ Word \in Nat \ {0}
                         /\ MaxK \in Nat \ {0} /\ MaxPayload \in Nat \ {0}
                         /\ Lengths \subseteq 1..MaxPayload
                         /\ Offsets \subseteq Nat

\* A tunnel has two ends, each of which is configured with at least one path
\* and with addresses of the other.
TableType == [Path -> [remote_ip : Address, enabled : BOOLEAN, opens : BOOLEAN]]

ASSUME TunnelAssumption ==
    /\ \A p, q, r \in Peer : p = q \/ q = r \/ p = r
    /\ Path \subseteq Nat /\ 0 \in Path
    /\ Owner \in [Address -> Peer]
    /\ Tables \subseteq [Peer -> TableType]
    /\ \A c \in Tables, p \in Peer, i \in Path : Owner[c[p][i].remote_ip] # p

VARIABLES
    table, route, offset,   \* chosen at the start
    now,                    \* the time; now + offset[p] is now_us() of p
    net,                    \* the datagrams on their way
    stored,                 \* the shards of the receiver and how they are masked
    booked                  \* history: the last booking on a path, if any

tables == <<table, route, offset>>
vars == <<tables, now, net, stored, booked>>

\* transport_init: a path that is disabled or whose socket cannot be had keeps
\* the zeros of calloc for its remote address.
PathSock(c) ==
    [enabled |-> c.enabled, socket |-> c.enabled /\ c.opens,
     remote |-> IF c.enabled /\ c.opens THEN c.remote_ip ELSE NoAddress]

Init ==
    /\ \E c \in Tables : table = [p \in Peer |-> [i \in Path |-> PathSock(c[p][i])]]
    /\ route \in Routes
    /\ offset \in [Peer -> Offsets]
    /\ now = 0
    /\ net = {}
    /\ stored = [p \in Peer |-> [s \in {} |-> {}]]
    /\ booked = {}

is_tx(p) == Mode[p] \in {"tx", "both"}
is_rx(p) == Mode[p] \in {"rx", "both"}

Clock(p) == now + offset[p]

-----------------------------------------------------------------------------
(***************************************************************************)
(* The wire.  "n" is the length that recvfrom returns.  A timestamp goes   *)
(* as two words; the other fields are written and read in network order.   *)
(* "origin" and "sent" are history: the path and time of the first sending.*)
(***************************************************************************)
\* Mutant: the low word is not cut off.
ToWireUncut(ts) == <<ts \div Word, ts>>

ToWire(ts)  == <<ts \div Word, ts % Word>>
FromWire(w) == w[1] * Word + w[2]

\* crypto_xor: the keystream of a key and a nonce is laid over the payload;
\* laid over it twice it is gone.
Nonce(s) == s.block_id * 256 + s.shard_idx

Toggle(mask, p, s) ==
    IF Key[p] = NoKey THEN mask
    ELSE LET x == <<Key[p], Nonce(s)>>
         IN  (mask \ {x}) \cup ({x} \ mask)

\* send_buf: nothing is sent on a path that has no socket.
CanSend(p, i) == table[p][i].enabled /\ table[p][i].socket

Envelope(p, i, type, n) ==
    [src |-> route[p][table[p][i].remote], dst |-> table[p][i].remote,
     magic |-> TRUE, type |-> type, n |-> n]

ShardDatagram(p, i, s, k, len) ==
    [env |-> Envelope(p, i, TYPE_DATA, HdrSize + k + len), origin |-> i,
     id |-> s, k |-> k, payload_len |-> len, mask |-> Toggle({}, p, s)]

ProbeDatagram(p, i, type, ts, origin, sent) ==
    [env |-> Envelope(p, i, type, HdrSize + 8), origin |-> origin,
     ts |-> ToWire(ts), sent |-> sent]

-----------------------------------------------------------------------------
(***************************************************************************)
(* Sending.                                                                *)
(***************************************************************************)
Transmit(d) == net' = net \cup {d}

\* tx_block_flush and transport_send_shard, for one shard of a block.
SendShard(p, i, s, k, len) ==
    /\ is_tx(p) /\ CanSend(p, i) /\ Cardinality(net) < MaxNet
    /\ Transmit(ShardDatagram(p, i, s, k, len))
    /\ UNCHANGED <<tables, now, stored, booked>>

\* The probe of one path; the event loop probes the paths that are alive, one
\* after the other.
SendProbe(p, i) ==
    /\ is_tx(p) /\ CanSend(p, i) /\ Cardinality(net) < MaxNet
    /\ Transmit(ProbeDatagram(p, i, TYPE_PROBE, Clock(p), i, now))
    /\ UNCHANGED <<tables, now, stored, booked>>

-----------------------------------------------------------------------------
(***************************************************************************)
(* Receiving.                                                              *)
(***************************************************************************)
\* Mutant: a payload must be shorter than the array that takes it.
AcceptsShorter(d) ==
    /\ d.env.n >= HdrSize
    /\ d.env.magic
    /\ \/ /\ d.env.type = TYPE_DATA
          /\ d.k <= MaxK
          /\ d.payload_len < MaxPayload
          /\ d.env.n >= HdrSize + d.k + d.payload_len
       \/ /\ d.env.type \in {TYPE_PROBE, TYPE_PROBE_ECHO}
          /\ d.env.n >= HdrSize + 8

\* The checks of transport_recv.
Accepts(d) ==
    /\ d.env.n >= HdrSize
    /\ d.env.magic
    /\ \/ /\ d.env.type = TYPE_DATA
          /\ d.k <= MaxK
          /\ d.payload_len <= MaxPayload
          /\ d.env.n >= HdrSize + d.k + d.payload_len
       \/ /\ d.env.type \in {TYPE_PROBE, TYPE_PROBE_ECHO}
          /\ d.env.n >= HdrSize + 8

\* Mutant: the first enabled path is taken, whatever its address.
AttributedFirst(p, src) ==
    LET match == {i \in Path : table[p][i].enabled}
    IN  IF match = {} THEN 0 ELSE CHOOSE i \in match : \A j \in match : i <= j

\* The path of a datagram: the first enabled one with the sender's address.
Attributed(p, src) ==
    LET match == {i \in Path : table[p][i].enabled /\ table[p][i].remote = src}
    IN  IF match = {} THEN 0 ELSE CHOOSE i \in match : \A j \in match : i <= j

\* Mutant: a duplicate of a shard is decrypted again.
StoreAgain(p, d) ==
    LET old == stored[p]
        mask == IF d.id \in DOMAIN old THEN old[d.id] ELSE d.mask
    IN  [s \in DOMAIN old \cup {d.id} |->
            IF s = d.id THEN Toggle(mask, p, s) ELSE old[s]]

\* rx_window_insert: a shard is decrypted when it is stored, and only then.
Store(p, d) ==
    [s \in DOMAIN stored[p] \cup {d.id} |->
        IF s \in DOMAIN stored[p] THEN stored[p][s] ELSE Toggle(d.mask, p, s)]

Book(p, i, d, rtt) ==
    booked' = {[peer |-> p, path |-> i, type |-> d.env.type,
                origin |-> d.origin, rtt |-> rtt]}

\* A data shard: only a receiver looks at it.
HandleData(p, i, d) ==
    /\ d.env.type = TYPE_DATA /\ is_rx(p)
    /\ stored' = [stored EXCEPT ![p] = Store(p, d)]
    /\ Book(p, i, d, <<>>)
    /\ UNCHANGED net

\* Mutant: the echo carries the time at which it is sent.
HandleProbeOwnTime(p, i, d) ==
    /\ d.env.type = TYPE_PROBE
    /\ CanSend(p, i)
    /\ Transmit(ProbeDatagram(p, i, TYPE_PROBE_ECHO, Clock(p), d.origin, d.sent))
    /\ UNCHANGED <<stored, booked>>

\* A probe: every gateway answers it, on the path it is attributed to.
HandleProbe(p, i, d) ==
    /\ d.env.type = TYPE_PROBE
    /\ IF CanSend(p, i)
       THEN Transmit(ProbeDatagram(p, i, TYPE_PROBE_ECHO, FromWire(d.ts), d.origin, d.sent))
       ELSE UNCHANGED net
    /\ UNCHANGED <<stored, booked>>

\* An echo: strategy_update_probe is told of the path and the round-trip time.
HandleEcho(p, i, d) ==
    /\ d.env.type = TYPE_PROBE_ECHO /\ is_tx(p)
    /\ Book(p, i, d, <<Clock(p) - FromWire(d.ts), now - d.sent>>)
    /\ UNCHANGED <<net, stored>>

\* One datagram is read by the gateway that it was sent to.  It stays in the
\* network, which may deliver it again.
Receive(p, d) ==
    /\ Owner[d.env.dst] = p
    /\ Accepts(d)
    /\ LET i == Attributed(p, d.env.src)
       IN  HandleData(p, i, d) \/ HandleProbe(p, i, d) \/ HandleEcho(p, i, d)
    /\ UNCHANGED <<tables, now>>

\* A datagram that transport_recv refuses changes nothing.
ReceiveForeign(p, d) ==
    /\ ~Accepts(d)
    /\ UNCHANGED vars

Lose(d) == net' = net \ {d} /\ UNCHANGED <<tables, now, stored, booked>>

Tick == now < MaxTime /\ now' = now + 1 /\ UNCHANGED <<tables, net, stored, booked>>

Next ==
    \/ \E p \in Peer, i \in Path :
        \/ SendProbe(p, i)
        \/ \E s \in ShardId, len \in Lengths : SendShard(p, i, s, MaxK, len)
    \/ \E p \in Peer : \/ \E d \in net : Receive(p, d)
                       \/ \E d \in Foreign : ReceiveForeign(p, d)
    \/ \E d \in net : Lose(d)
    \/ Tick

Spec == Init /\ [][Next]_vars

-----------------------------------------------------------------------------
(***************************************************************************)
(* Properties.                                                             *)
(***************************************************************************)

\* Every variable keeps its type; the words of a timestamp have 32 bits each.
TypeOK ==
    /\ route \in Routes /\ offset \in [Peer -> Offsets] /\ now \in Nat
    /\ \A p \in Peer, i \in Path :
          table[p][i] \in [enabled : BOOLEAN, socket : BOOLEAN, remote : Address \cup {NoAddress}]
    /\ \A d \in net :
          IF d.env.type = TYPE_DATA THEN d.id \in ShardId /\ d.payload_len \in Lengths
          ELSE d.ts \in Nat \X (0..(Word - 1)) /\ d.sent \in Nat
    /\ \A p \in Peer : DOMAIN stored[p] \subseteq ShardId

\* The paths of a gateway that can be told apart by their remote address.
Distinct(p, i) ==
    \A j \in Path : j # i /\ table[p][j].enabled => table[p][j].remote # table[p][i].remote

Other(p) == CHOOSE q \in Peer : q # p

\* Path i of p and path j of the other gateway are the two ends of a link:
\* each sends to the address from which the other sends.
Paired(p, i, j) ==
    LET q == Other(p) IN
    /\ CanSend(p, i) /\ Distinct(p, i)
    /\ CanSend(q, j) /\ Distinct(q, j)
    /\ table[q][j].remote = route[p][table[p][i].remote]
    /\ table[p][i].remote = route[q][table[q][j].remote]

\* The echo of a probe is booked on the path that was probed, although it is
\* attributed twice by address alone, when both ends of the link have a path
\* for it that no enabled path shares the address with.
EchoOnItsPath ==
    \A b \in booked :
        (b.type = TYPE_PROBE_ECHO /\ \E j \in Path : Paired(b.peer, b.origin, j))
            => b.path = b.origin

\* A shard is counted on the other end of the path on which it was sent.
ShardOnItsPath ==
    \A b \in booked, j \in Path :
        (b.type = TYPE_DATA /\ Paired(Other(b.peer), b.origin, j)) => b.path = j

\* What transport_recv attributes by address is booked on the path it travelled,
\* echoes on the end that probed and shards on the end that receives, for
\* every pair of tables in which addresses tell the paths apart.
BookedOnItsPath == EchoOnItsPath /\ ShardOnItsPath

\* With the same key at both ends, or none, a stored shard is what the sender
\* encoded, whatever is duplicated: it was encrypted and decrypted once.
PayloadIntact ==
    (\A p, q \in Peer : Key[p] = Key[q]) =>
        \A p \in Peer : \A s \in DOMAIN stored[p] : stored[p][s] = {}

\* The round-trip time is the time that has passed since the probe was sent,
\* however far apart the clocks of the two gateways are.
RttIsRoundTrip ==
    \A b \in booked : b.type = TYPE_PROBE_ECHO => b.rtt[1] = b.rtt[2]

\* Everything a gateway sends passes the checks of transport_recv, the block
\* of MAX_K packets of MAX_PAYLOAD bytes included.
OwnDatagramsAccepted == \A d \in net : Accepts(d)
=============================================================================
