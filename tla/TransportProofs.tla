--------------------------- MODULE TransportProofs ---------------------------
(***************************************************************************)
(* Proofs about Transport for any number of gateways, paths, addresses,    *)
(* tables, keys and shards, and a network that loses, duplicates and       *)
(* reorders.                                                               *)
(***************************************************************************)
EXTENDS Transport, WellFoundedInduction, TLAPS

\* A shard on its way is masked once by every gateway's key; a stored one is
\* not masked at all.
MaskInv ==
    /\ \A d \in net : d.env.type = TYPE_DATA =>
          \A p \in Peer : d.mask = Toggle({}, p, d.id)
    /\ stored = [p \in Peer |-> stored[p]]
    /\ \A p \in Peer : stored[p] = [s \in DOMAIN stored[p] |-> {}]

\* All gateways have the same key, or none has one.
SameKey == \A p, q \in Peer : Key[p] = Key[q]

\* crypto_xor is its own inverse.
LEMMA ToggleTwice ==
    ASSUME NEW p, NEW s PROVE Toggle(Toggle({}, p, s), p, s) = {}
BY DEF Toggle

\* The key of one gateway is that of every other.
LEMMA ToggleSame ==
    ASSUME SameKey, NEW p \in Peer, NEW q \in Peer, NEW s
    PROVE  Toggle({}, p, s) = Toggle({}, q, s)
BY DEF Toggle, SameKey

\* Nothing is on its way or stored at the start.
LEMMA MaskInit == Init => MaskInv
BY DEF Init, MaskInv

\* A shard that is sent has been encrypted once.
LEMMA MaskSend ==
    ASSUME SameKey, MaskInv, NEW p \in Peer, NEW i \in Path, NEW s \in ShardId, NEW k, NEW len,
           SendShard(p, i, s, k, len)
    PROVE  MaskInv'
<1> DEFINE e == ShardDatagram(p, i, s, k, len)
<1>1. e.id = s /\ e.mask = Toggle({}, p, s)
  BY DEF ShardDatagram
<1>2. \A q \in Peer : e.mask = Toggle({}, q, e.id)
  BY <1>1, ToggleSame
<1>3. net' = net \cup {e} /\ stored' = stored
  BY DEF SendShard, Transmit
<1> HIDE DEF e
<1> QED BY <1>2, <1>3 DEF MaskInv, Toggle

\* Probes and their echoes are no shards.
LEMMA MaskProbe ==
    ASSUME MaskInv, UNCHANGED stored,
           NEW p, NEW i, NEW type \in {TYPE_PROBE, TYPE_PROBE_ECHO}, NEW ts, NEW o, NEW t,
           Transmit(ProbeDatagram(p, i, type, ts, o, t))
    PROVE  MaskInv'
<1> DEFINE e == ProbeDatagram(p, i, type, ts, o, t)
<1>1. e.env.type # TYPE_DATA
  BY DEF ProbeDatagram, Envelope, TYPE_DATA, TYPE_PROBE, TYPE_PROBE_ECHO
<1>2. net' = net \cup {e}
  BY DEF Transmit
<1> HIDE DEF e
<1> QED BY <1>1, <1>2 DEF MaskInv, Toggle

\* What was encrypted once is decrypted once, and a duplicate not again.
LEMMA MaskStore ==
    ASSUME MaskInv, NEW p \in Peer, NEW d \in net, d.env.type = TYPE_DATA
    PROVE  Store(p, d) = [s \in DOMAIN Store(p, d) |-> {}]
<1>1. Toggle(d.mask, p, d.id) = {}
  <2>1. d.mask = Toggle({}, p, d.id)
    BY DEF MaskInv
  <2> QED BY <2>1, ToggleTwice
<1>2. \A s \in DOMAIN stored[p] : stored[p][s] = {}
  BY DEF MaskInv
<1>3. \A s \in DOMAIN stored[p] \cup {d.id} :
        (IF s \in DOMAIN stored[p] THEN stored[p][s] ELSE Toggle(d.mask, p, s)) = {}
  BY <1>1, <1>2
<1> QED BY <1>3 DEF Store

\* Every datagram that is read preserves the invariant.
LEMMA MaskReceive ==
    ASSUME MaskInv, NEW p \in Peer, NEW d \in net, Receive(p, d)
    PROVE  MaskInv'
<1>1. PICK i : HandleData(p, i, d) \/ HandleProbe(p, i, d) \/ HandleEcho(p, i, d)
  BY DEF Receive
<1>2. CASE HandleData(p, i, d)
  <2>1. net' = net /\ d.env.type = TYPE_DATA /\ stored' = [stored EXCEPT ![p] = Store(p, d)]
    BY <1>2 DEF HandleData
  <2>2. Store(p, d) = [s \in DOMAIN Store(p, d) |-> {}]
    BY <2>1, MaskStore
  <2> QED BY <2>1, <2>2 DEF MaskInv, Toggle
<1>3. CASE HandleProbe(p, i, d) /\ CanSend(p, i)
  BY <1>3, MaskProbe DEF HandleProbe
<1>4. CASE UNCHANGED <<net, stored>>
  BY <1>4 DEF MaskInv, Toggle
<1> QED BY <1>1, <1>2, <1>3, <1>4 DEF HandleProbe, HandleEcho

\* Every step preserves the invariant.
LEMMA MaskNext == ASSUME SameKey, MaskInv, [Next]_vars PROVE MaskInv'
<1>1. CASE UNCHANGED <<net, stored>>
  BY <1>1 DEF MaskInv, Toggle
<1>2. ASSUME NEW p \in Peer, NEW i \in Path, SendProbe(p, i) PROVE MaskInv'
  <2>1. UNCHANGED stored /\ Transmit(ProbeDatagram(p, i, TYPE_PROBE, Clock(p), i, now))
    BY <1>2 DEF SendProbe
  <2> QED BY <2>1, MaskProbe
<1>3. ASSUME NEW d \in net, Lose(d) PROVE MaskInv'
  BY <1>3 DEF Lose, MaskInv, Toggle
<1>4. ASSUME NEW p \in Peer, NEW d \in Foreign, ReceiveForeign(p, d) PROVE MaskInv'
  BY <1>1, <1>4 DEF ReceiveForeign, vars
<1>5. CASE Tick
  BY <1>1, <1>5 DEF Tick
<1>6. CASE UNCHANGED vars
  BY <1>1, <1>6 DEF vars
<1>7. ASSUME NEW p \in Peer, NEW i \in Path, NEW s \in ShardId, NEW len \in Lengths,
             SendShard(p, i, s, MaxK, len)
      PROVE  MaskInv'
  BY <1>7, MaskSend
<1> QED BY <1>2, <1>3, <1>4, <1>5, <1>6, <1>7, MaskReceive DEF Next

-----------------------------------------------------------------------------
\* With one key for all gateways, or none, every shard that rx_window_insert
\* has stored is what the sender encoded, whatever the network duplicates.
THEOREM PayloadsIntact == Spec => []PayloadIntact
<1>1. CASE SameKey
  <2>1. MaskInv /\ [Next]_vars => MaskInv'
    BY <1>1, MaskNext
  <2>2. MaskInv => PayloadIntact
    BY DEF MaskInv, PayloadIntact
  <2> QED BY <2>1, <2>2, MaskInit, PTL DEF Spec
<1>2. CASE ~SameKey
  <2>1. PayloadIntact
    BY <1>2 DEF SameKey, PayloadIntact
  <2> QED BY <2>1, PTL
<1> QED BY <1>1, <1>2

\* A shard of a block of at most MAX_K packets of MAX_PAYLOAD bytes passes.
LEMMA ShardAccepted ==
    ASSUME NEW p, NEW i, NEW s, NEW len \in Lengths
    PROVE  Accepts(ShardDatagram(p, i, s, MaxK, len))
<1>1. len \in Nat /\ len <= MaxPayload /\ MaxK \in Nat
  BY WireAssumption
<1> DEFINE d == ShardDatagram(p, i, s, MaxK, len)
<1>2. /\ d.env.magic /\ d.env.type = TYPE_DATA /\ d.env.n = HdrSize + MaxK + len
      /\ d.k = MaxK /\ d.payload_len = len
  BY DEF ShardDatagram, Envelope
<1> HIDE DEF d
<1>3. d.env.n >= HdrSize
  BY <1>1, <1>2 DEF HdrSize
<1>4. d.env.n >= HdrSize + d.k + d.payload_len
  BY <1>1, <1>2 DEF HdrSize
<1>5. d.k <= MaxK /\ d.payload_len <= MaxPayload
  BY <1>1, <1>2
<1> QED BY <1>2, <1>3, <1>4, <1>5 DEF Accepts, d

\* So do probes and echoes.
LEMMA ProbeAccepted ==
    ASSUME NEW p, NEW i, NEW type \in {TYPE_PROBE, TYPE_PROBE_ECHO}, NEW ts, NEW o, NEW t
    PROVE  Accepts(ProbeDatagram(p, i, type, ts, o, t))
BY DEF Accepts, ProbeDatagram, Envelope, HdrSize

\* No check of transport_recv refuses what a gateway of the same build sends.
THEOREM OwnAccepted == Spec => []OwnDatagramsAccepted
<1>1. Init => OwnDatagramsAccepted
  BY DEF Init, OwnDatagramsAccepted
<1>2. OwnDatagramsAccepted /\ [Next]_vars => OwnDatagramsAccepted'
  <2> SUFFICES ASSUME OwnDatagramsAccepted, [Next]_vars, NEW d \in net', d \notin net
               PROVE  Accepts(d)
    BY DEF OwnDatagramsAccepted, Accepts
  <2>1. ASSUME NEW p \in Peer, NEW i \in Path, SendProbe(p, i) PROVE Accepts(d)
    BY <2>1, ProbeAccepted DEF SendProbe, Transmit
  <2>2. ASSUME NEW p \in Peer, NEW i \in Path, NEW s \in ShardId, NEW len \in Lengths,
               SendShard(p, i, s, MaxK, len)
        PROVE  Accepts(d)
    BY <2>2, ShardAccepted DEF SendShard, Transmit
  <2>3. ASSUME NEW p \in Peer, NEW e \in net, Receive(p, e) PROVE Accepts(d)
    <3>1. PICK i : HandleData(p, i, e) \/ HandleProbe(p, i, e) \/ HandleEcho(p, i, e)
      BY <2>3 DEF Receive
    <3>2. HandleProbe(p, i, e) /\ CanSend(p, i)
      BY <3>1 DEF HandleData, HandleProbe, HandleEcho
    <3> QED BY <3>2, ProbeAccepted DEF HandleProbe, Transmit
  <2> QED BY <2>1, <2>2, <2>3 DEF Next, ReceiveForeign, Lose, Tick, vars
<1> QED BY <1>1, <1>2, PTL DEF Spec
-----------------------------------------------------------------------------
(***************************************************************************)
(* Addresses and times.  Every datagram on its way names the end and the   *)
(* path it was sent on by its two addresses, and carries a time of the     *)
(* clock that an echo is compared with: that of the end that probed.       *)
(***************************************************************************)
Sender(d, s, i) ==
    /\ CanSend(s, i)
    /\ d.env.dst = table[s][i].remote
    /\ d.env.src = route[s][table[s][i].remote]

Probed(d, r) ==
    /\ d.sent \in Nat
    /\ d.ts \in Nat \X (0..(Word - 1))
    /\ FromWire(d.ts) = d.sent + offset[r]

GoodShard(d) ==
    /\ d.env.type = TYPE_DATA
    /\ d.id \in ShardId /\ d.payload_len \in Lengths
    /\ d.origin \in Path
    /\ \E s \in Peer : Sender(d, s, d.origin)

GoodProbe(d) ==
    /\ d.env.type = TYPE_PROBE
    /\ d.origin \in Path
    /\ \E s \in Peer : Sender(d, s, d.origin) /\ Probed(d, s)

\* The path on which s answers what r sent on its path o.
AnswerPath(s, r, o) == Attributed(s, route[r][table[r][o].remote])

\* The answer of s to the end r that probed.
GoodEcho(d) ==
    /\ d.env.type = TYPE_PROBE_ECHO
    /\ d.origin \in Path
    /\ \E r, s \in Peer :
          /\ r # s /\ Probed(d, r)
          /\ AnswerPath(s, r, d.origin) \in Path
          /\ Sender(d, s, AnswerPath(s, r, d.origin))

GoodNet == \A d \in net : GoodShard(d) \/ GoodProbe(d) \/ GoodEcho(d)

TableInv ==
    /\ \A p \in Peer, i \in Path :
          /\ table[p][i] \in [enabled : BOOLEAN, socket : BOOLEAN,
                              remote : Address \cup {NoAddress}]
          /\ CanSend(p, i) => /\ table[p][i].remote \in Address
                              /\ Owner[table[p][i].remote] \in Peer \ {p}
    /\ route \in Routes /\ offset \in [Peer -> Offsets]
    /\ now \in Nat

StoredInv ==
    /\ stored = [p \in Peer |-> stored[p]]
    /\ \A p \in Peer : DOMAIN stored[p] \subseteq ShardId

\* A timestamp is the same when its two words are put together again.
LEMMA WordsOfTime ==
    ASSUME NEW ts \in Nat
    PROVE  ToWire(ts) \in Nat \X (0..(Word - 1)) /\ FromWire(ToWire(ts)) = ts
<1>1. Word \in Nat \ {0}
  BY WireAssumption
<1>2. ts = Word * (ts \div Word) + (ts % Word)
  BY <1>1
<1>3. ts \div Word \in Nat /\ ts % Word \in 0..(Word - 1)
  BY <1>1
<1> DEFINE hi == ts \div Word
           lo == ts % Word
<1> HIDE DEF hi, lo
<1>4. hi * Word + lo = ts
  BY <1>1, <1>2, <1>3 DEF hi, lo
<1> QED BY <1>3, <1>4 DEF ToWire, FromWire, hi, lo

\* The tables, routes and clocks that transport_init leaves.
LEMMA TableInit == Init => TableInv /\ StoredInv /\ GoodNet /\ booked = {}
<1> SUFFICES ASSUME Init PROVE TableInv /\ StoredInv /\ GoodNet /\ booked = {}
  OBVIOUS
<1>1. PICK c \in Tables : table = [p \in Peer |-> [i \in Path |-> PathSock(c[p][i])]]
  BY DEF Init
<1>2. ASSUME NEW p \in Peer, NEW i \in Path
      PROVE  /\ table[p][i] \in [enabled : BOOLEAN, socket : BOOLEAN,
                                 remote : Address \cup {NoAddress}]
             /\ CanSend(p, i) => /\ table[p][i].remote \in Address
                                 /\ Owner[table[p][i].remote] \in Peer \ {p}
  <2>1. /\ c[p][i] \in [remote_ip : Address, enabled : BOOLEAN, opens : BOOLEAN]
        /\ Owner[c[p][i].remote_ip] # p /\ Owner \in [Address -> Peer]
    BY TunnelAssumption DEF TableType
  <2>2. table[p][i] = PathSock(c[p][i])
    BY <1>1
  <2> QED BY <2>1, <2>2 DEF PathSock, CanSend
<1>3. route \in Routes /\ offset \in [Peer -> Offsets] /\ now \in Nat
  BY DEF Init
<1>4. StoredInv /\ GoodNet /\ booked = {}
  BY DEF Init, StoredInv, GoodNet
<1> QED BY <1>2, <1>3, <1>4 DEF TableInv

\* Every set of paths that is not empty has a lowest index.
LEMMA LowestPath ==
    ASSUME NEW T, T \subseteq Path, T # {}
    PROVE  \E i \in T : \A j \in T : i <= j
<1>1. T \subseteq Nat
  BY TunnelAssumption
<1> DEFINE Below == {ss \in Nat \X Nat : ss[1] < ss[2]}
<1>2. IsWellFoundedOn(Below, Nat)
  BY NatLessThanWellFounded, Zenon DEF OpToRel
<1> HIDE DEF Below
<1>3. PICK i \in T : \A j \in T : ~(<<j, i>> \in Below)
  BY <1>1, <1>2, WFMin
<1>4. \A j \in T : ~(j < i)
  BY <1>1, <1>3 DEF Below
<1> QED BY <1>1, <1>4

\* transport_recv finds a path of the gateway for every address.
LEMMA AttributedIsPath ==
    ASSUME NEW p, NEW a PROVE Attributed(p, a) \in Path
<1> DEFINE match == {i \in Path : table[p][i].enabled /\ table[p][i].remote = a}
<1>1. CASE match = {}
  BY <1>1, TunnelAssumption DEF Attributed
<1>2. CASE match # {}
  <2>1. \E i \in match : \A j \in match : i <= j
    BY <1>2, LowestPath
  <2>2. (CHOOSE i \in match : \A j \in match : i <= j) \in match
    BY <2>1
  <2> QED BY <1>2, <2>2 DEF Attributed
<1> QED BY <1>1, <1>2

\* An address that one enabled path has, and no other, is attributed to it.
LEMMA AttributedDistinct ==
    ASSUME NEW p, NEW i \in Path, table[p][i].enabled, Distinct(p, i)
    PROVE  Attributed(p, table[p][i].remote) = i
<1> DEFINE a == table[p][i].remote
           match == {j \in Path : table[p][j].enabled /\ table[p][j].remote = a}
<1>1. match = {i}
  BY DEF Distinct
<1>2. i <= i
  BY TunnelAssumption
<1>3. (CHOOSE j \in {i} : \A k \in {i} : j <= k) = i
  BY <1>2
<1> QED BY <1>1, <1>3 DEF Attributed

-----------------------------------------------------------------------------
(***************************************************************************)
(* One lemma for each kind of datagram that is sent.                       *)
(***************************************************************************)
LinkInv == TableInv /\ StoredInv /\ GoodNet

\* A shard comes from the path on which its block's turn placed it.
LEMMA ShardIsGood ==
    ASSUME NEW p \in Peer, NEW i \in Path, NEW s \in ShardId, NEW len \in Lengths,
           CanSend(p, i)
    PROVE  GoodShard(ShardDatagram(p, i, s, MaxK, len))
BY DEF GoodShard, Sender, ShardDatagram, Envelope

\* A clock shows a natural number.
LEMMA ClockType ==
    ASSUME TableInv, NEW p \in Peer
    PROVE  now \in Nat /\ offset[p] \in Nat /\ Clock(p) \in Nat /\ Clock(p) = now + offset[p]
<1>1. now \in Nat /\ offset \in [Peer -> Offsets]
  BY DEF TableInv
<1>2. offset[p] \in Nat
  BY <1>1, WireAssumption
<1> QED BY <1>1, <1>2 DEF Clock

\* What a probe or an echo carries.
LEMMA ProbeFields ==
    ASSUME NEW p, NEW i, NEW type, NEW ts, NEW o, NEW t, NEW d,
           d = ProbeDatagram(p, i, type, ts, o, t)
    PROVE  /\ d.env.type = type /\ d.origin = o /\ d.sent = t /\ d.ts = ToWire(ts)
           /\ d.env.dst = table[p][i].remote
           /\ d.env.src = route[p][table[p][i].remote]
BY DEF ProbeDatagram, Envelope

\* A probe carries the time of the clock of the end that sends it.
LEMMA ProbeIsGood ==
    ASSUME TableInv, NEW p \in Peer, NEW i \in Path, CanSend(p, i),
           NEW d, d = ProbeDatagram(p, i, TYPE_PROBE, Clock(p), i, now)
    PROVE  GoodProbe(d)
<1>1. now \in Nat /\ Clock(p) \in Nat /\ Clock(p) = now + offset[p]
  BY ClockType
<1>2. /\ d.env.type = TYPE_PROBE /\ d.origin = i /\ d.sent = now /\ d.ts = ToWire(Clock(p))
      /\ d.env.dst = table[p][i].remote /\ d.env.src = route[p][table[p][i].remote]
  BY ProbeFields
<1>3. Sender(d, p, i)
  BY <1>2 DEF Sender
<1>4. Probed(d, p)
  BY <1>1, <1>2, WordsOfTime DEF Probed
<1> QED BY <1>2, <1>3, <1>4 DEF GoodProbe

\* A probe that arrives at p was sent by the other end; its echo goes out on
\* the path that its source address is attributed to, with its time.
LEMMA EchoIsGood ==
    ASSUME TableInv, NEW p \in Peer, NEW d, GoodProbe(d), Owner[d.env.dst] = p,
           NEW i, i = Attributed(p, d.env.src), CanSend(p, i),
           NEW e, e = ProbeDatagram(p, i, TYPE_PROBE_ECHO, FromWire(d.ts), d.origin, d.sent)
    PROVE  GoodEcho(e)
<1>1. PICK r \in Peer : Sender(d, r, d.origin) /\ Probed(d, r)
  BY DEF GoodProbe
<1>2. d.origin \in Path
  BY DEF GoodProbe
<1>3. r # p
  BY <1>1, <1>2 DEF TableInv, Sender
<1>4. i \in Path /\ i = AnswerPath(p, r, d.origin)
  BY <1>1, AttributedIsPath DEF Sender, AnswerPath
<1>5. /\ d.sent \in Nat /\ offset[r] \in Nat /\ FromWire(d.ts) = d.sent + offset[r]
      /\ FromWire(d.ts) \in Nat
  BY <1>1, ClockType DEF Probed
<1>6. /\ e.env.type = TYPE_PROBE_ECHO /\ e.origin = d.origin /\ e.sent = d.sent
      /\ e.ts = ToWire(FromWire(d.ts))
      /\ e.env.dst = table[p][i].remote /\ e.env.src = route[p][table[p][i].remote]
  BY ProbeFields
<1>7. Sender(e, p, i)
  BY <1>6 DEF Sender
<1>8. Probed(e, r)
  BY <1>5, <1>6, WordsOfTime DEF Probed
<1> QED BY <1>2, <1>3, <1>4, <1>6, <1>7, <1>8 DEF GoodEcho

\* What is known of a datagram depends on nothing that a step changes.
LEMMA GoodStays ==
    ASSUME UNCHANGED tables
    PROVE  /\ \A d : GoodShard(d)' <=> GoodShard(d)
           /\ \A d : GoodProbe(d)' <=> GoodProbe(d)
           /\ \A d : GoodEcho(d)' <=> GoodEcho(d)
           /\ TableInv /\ now' \in Nat => TableInv'
BY DEF tables, GoodShard, GoodProbe, GoodEcho, Probed, Sender, CanSend, AnswerPath, Attributed,
       TableInv

\* A datagram that is sent joins the others.
LEMMA LinkTransmit ==
    ASSUME LinkInv, UNCHANGED <<tables, now, stored>>, NEW d, Transmit(d),
           GoodShard(d) \/ GoodProbe(d) \/ GoodEcho(d)
    PROVE  LinkInv'
<1>1. TableInv' /\ StoredInv'
  BY GoodStays DEF LinkInv, TableInv, StoredInv
<1>2. ASSUME NEW e \in net' PROVE (GoodShard(e) \/ GoodProbe(e) \/ GoodEcho(e))'
  <2>1. GoodShard(e) \/ GoodProbe(e) \/ GoodEcho(e)
    BY DEF Transmit, LinkInv, GoodNet
  <2> QED BY <2>1, GoodStays
<1> QED BY <1>1, <1>2 DEF LinkInv, GoodNet

-----------------------------------------------------------------------------
(***************************************************************************)
(* What is booked when a datagram arrives.                                 *)
(***************************************************************************)
BookedInv == EchoOnItsPath /\ ShardOnItsPath /\ RttIsRoundTrip

\* The other end of the other end is the end itself.
LEMMA TheOtherEnd ==
    ASSUME NEW p \in Peer, NEW q \in Peer, p # q
    PROVE  Other(p) = q
<1>1. \A r \in Peer : r # p => r = q
  BY TunnelAssumption
<1> QED BY <1>1 DEF Other

\* An echo that arrives at p answers a probe of p.
LEMMA EchoOfMyProbe ==
    ASSUME TableInv, NEW p \in Peer, NEW d, GoodEcho(d), Owner[d.env.dst] = p
    PROVE  /\ d.origin \in Path /\ Probed(d, p)
           /\ Other(p) \in Peer /\ Other(p) # p
           /\ AnswerPath(Other(p), p, d.origin) \in Path
           /\ Sender(d, Other(p), AnswerPath(Other(p), p, d.origin))
<1>1. PICK r \in Peer, s \in Peer :
        /\ r # s /\ Probed(d, r)
        /\ AnswerPath(s, r, d.origin) \in Path
        /\ Sender(d, s, AnswerPath(s, r, d.origin))
  BY DEF GoodEcho
<1>2. p # s
  BY <1>1 DEF TableInv, Sender
<1>3. r = p
  BY <1>1, <1>2, TunnelAssumption
<1>4. Other(p) = s
  BY <1>2, TheOtherEnd
<1>5. d.origin \in Path
  BY DEF GoodEcho
<1> QED BY <1>1, <1>2, <1>3, <1>4, <1>5

\* The two differences of an echo's booking are the same: the clock of the
\* other end takes no part in them.
LEMMA EchoTime ==
    ASSUME TableInv, NEW p \in Peer, NEW d, GoodEcho(d), Owner[d.env.dst] = p
    PROVE  Clock(p) - FromWire(d.ts) = now - d.sent
<1>1. Probed(d, p)
  BY EchoOfMyProbe
<1>2. d.sent \in Nat /\ FromWire(d.ts) = d.sent + offset[p]
  BY <1>1 DEF Probed
<1>3. now \in Nat /\ offset[p] \in Nat /\ Clock(p) = now + offset[p]
  BY ClockType
<1> QED BY <1>2, <1>3

\* An echo comes back to the path that was probed, by way of the path of the
\* other end that the probe's source address was attributed to.
LEMMA EchoPath ==
    ASSUME TableInv, NEW p \in Peer, NEW d, GoodEcho(d), Owner[d.env.dst] = p,
           NEW j \in Path, Paired(p, d.origin, j)
    PROVE  Attributed(p, d.env.src) = d.origin
<1> DEFINE s == Other(p)
           o == d.origin
           i == AnswerPath(s, p, o)
<1>1. o \in Path /\ s \in Peer /\ s # p /\ Sender(d, s, i)
  BY EchoOfMyProbe
<1>2. /\ CanSend(p, o) /\ Distinct(p, o) /\ CanSend(s, j) /\ Distinct(s, j)
      /\ table[s][j].remote = route[p][table[p][o].remote]
      /\ table[p][o].remote = route[s][table[s][j].remote]
  BY DEF Paired
<1>3. i = j
  BY <1>2, AttributedDistinct DEF CanSend, AnswerPath
<1>4. d.env.src = table[p][o].remote
  BY <1>1, <1>2, <1>3 DEF Sender
<1> QED BY <1>1, <1>2, <1>4, AttributedDistinct DEF CanSend

\* A shard is attributed to the end of the link that its path is the other of.
LEMMA ShardPath ==
    ASSUME TableInv, NEW p \in Peer, NEW d, GoodShard(d), Owner[d.env.dst] = p,
           NEW j \in Path, Paired(Other(p), d.origin, j)
    PROVE  Attributed(p, d.env.src) = j
<1>1. d.origin \in Path
  BY DEF GoodShard
<1>2. PICK s \in Peer : Sender(d, s, d.origin)
  BY DEF GoodShard
<1>3. s # p
  BY <1>1, <1>2 DEF TableInv, Sender
<1>4. Other(p) = s /\ Other(s) = p
  BY <1>3, TheOtherEnd
<1>5. /\ CanSend(p, j) /\ Distinct(p, j)
      /\ table[p][j].remote = route[s][table[s][d.origin].remote]
  BY <1>4 DEF Paired
<1> QED BY <1>2, <1>5, AttributedDistinct DEF Sender, CanSend

\* The links are those of the tables, which no step changes.
LEMMA LinksStay ==
    ASSUME UNCHANGED tables
    PROVE  \A p, i, j : Paired(p, i, j)' <=> Paired(p, i, j)
<1>1. \A p, i : CanSend(p, i)' <=> CanSend(p, i)
  BY DEF CanSend, tables
<1>2. \A p, i : Distinct(p, i)' <=> Distinct(p, i)
  BY DEF Distinct, tables
<1> SUFFICES ASSUME NEW p, NEW i, NEW j PROVE Paired(p, i, j)' <=> Paired(p, i, j)
  OBVIOUS
<1>3. table' = table /\ route' = route
  BY DEF tables
<1> QED BY <1>1, <1>2, <1>3, Zenon DEF Paired, Other

\* What is booked stays right when nothing is booked.
LEMMA BookedStays ==
    ASSUME BookedInv, UNCHANGED <<tables, booked>> PROVE BookedInv'
<1>1. \A p, i, j : Paired(p, i, j)' <=> Paired(p, i, j)
  BY LinksStay
<1> QED BY <1>1, Zenon DEF BookedInv, EchoOnItsPath, ShardOnItsPath, RttIsRoundTrip, Other

\* A booking that holds for the state it is made in holds afterwards.
LEMMA BookedAnew ==
    ASSUME UNCHANGED tables, NEW b, booked' = {b},
           b.type = TYPE_PROBE_ECHO => b.rtt[1] = b.rtt[2],
           b.type = TYPE_PROBE_ECHO =>
              \A j \in Path : Paired(b.peer, b.origin, j) => b.path = b.origin,
           b.type = TYPE_DATA =>
              \A j \in Path : Paired(Other(b.peer), b.origin, j) => b.path = j
    PROVE  BookedInv'
<1>1. \A p, i, j : Paired(p, i, j)' <=> Paired(p, i, j)
  BY LinksStay
<1> QED BY <1>1 DEF BookedInv, EchoOnItsPath, ShardOnItsPath, RttIsRoundTrip, Other

-----------------------------------------------------------------------------
(***************************************************************************)
(* The steps.                                                              *)
(***************************************************************************)
\* Only datagrams that were sent are read, and each is of one kind.
LEMMA KindOfDatagram ==
    ASSUME LinkInv, NEW d \in net
    PROVE  /\ d.env.type = TYPE_DATA => GoodShard(d)
           /\ d.env.type = TYPE_PROBE => GoodProbe(d)
           /\ d.env.type = TYPE_PROBE_ECHO => GoodEcho(d)
BY DEF LinkInv, GoodNet, GoodShard, GoodProbe, GoodEcho, TYPE_DATA, TYPE_PROBE, TYPE_PROBE_ECHO

\* A step that sends, stores and books nothing.
LEMMA LinkIdle ==
    ASSUME LinkInv, UNCHANGED <<tables, stored>>, net' \subseteq net, now' \in Nat
    PROVE  LinkInv'
<1>1. TableInv' /\ StoredInv'
  BY GoodStays DEF LinkInv, StoredInv
<1>2. ASSUME NEW e \in net' PROVE (GoodShard(e) \/ GoodProbe(e) \/ GoodEcho(e))'
  <2>1. GoodShard(e) \/ GoodProbe(e) \/ GoodEcho(e)
    BY DEF LinkInv, GoodNet
  <2> QED BY <2>1, GoodStays
<1> QED BY <1>1, <1>2 DEF LinkInv, GoodNet

\* A datagram that is read is stored, answered or booked.
LEMMA LinkReceive ==
    ASSUME LinkInv, NEW p \in Peer, NEW d \in net, Receive(p, d)
    PROVE  LinkInv'
<1> DEFINE i == Attributed(p, d.env.src)
<1>1. /\ HandleData(p, i, d) \/ HandleProbe(p, i, d) \/ HandleEcho(p, i, d)
      /\ Owner[d.env.dst] = p /\ UNCHANGED <<tables, now>>
  BY DEF Receive
<1>2. now \in Nat
  BY DEF LinkInv, TableInv
<1>3. CASE HandleData(p, i, d)
  <2>1. d.env.type = TYPE_DATA /\ net' = net /\ stored' = [stored EXCEPT ![p] = Store(p, d)]
    BY <1>3 DEF HandleData
  <2>2. d.id \in ShardId
    BY <2>1, KindOfDatagram DEF GoodShard
  <2>3. DOMAIN Store(p, d) \subseteq ShardId
    BY <2>2 DEF Store, LinkInv, StoredInv
  <2>4. StoredInv'
    BY <2>1, <2>3 DEF LinkInv, StoredInv
  <2>5. TableInv' /\ GoodNet'
    <3>1. TableInv'
      BY <1>1, <1>2, GoodStays DEF LinkInv
    <3>2. ASSUME NEW e \in net' PROVE (GoodShard(e) \/ GoodProbe(e) \/ GoodEcho(e))'
      <4>1. GoodShard(e) \/ GoodProbe(e) \/ GoodEcho(e)
        BY <2>1 DEF LinkInv, GoodNet
      <4> QED BY <1>1, <4>1, GoodStays
    <3> QED BY <3>1, <3>2 DEF GoodNet
  <2> QED BY <2>4, <2>5 DEF LinkInv
<1>4. CASE HandleProbe(p, i, d) /\ CanSend(p, i)
  <2>1. PICK e : e = ProbeDatagram(p, i, TYPE_PROBE_ECHO, FromWire(d.ts), d.origin, d.sent)
    OBVIOUS
  <2>2. d.env.type = TYPE_PROBE /\ Transmit(e) /\ UNCHANGED stored
    BY <1>4, <2>1 DEF HandleProbe
  <2>3. GoodProbe(d)
    BY <2>2, KindOfDatagram
  <2>4. GoodEcho(e)
    BY <1>1, <1>4, <2>1, <2>3, EchoIsGood DEF LinkInv
  <2> QED BY <1>1, <2>2, <2>4, LinkTransmit
<1>5. CASE UNCHANGED <<net, stored>>
  BY <1>1, <1>2, <1>5, LinkIdle
<1> QED BY <1>1, <1>3, <1>4, <1>5 DEF HandleProbe, HandleEcho

\* Every step keeps the datagrams on their way what they are.
LEMMA LinkNext == ASSUME LinkInv, [Next]_vars PROVE LinkInv'
<1>1. now \in Nat
  BY DEF LinkInv, TableInv
<1>2. CASE UNCHANGED vars
  BY <1>1, <1>2, LinkIdle DEF vars
<1>3. ASSUME NEW p \in Peer, NEW i \in Path, SendProbe(p, i) PROVE LinkInv'
  <2>1. PICK d : d = ProbeDatagram(p, i, TYPE_PROBE, Clock(p), i, now)
    OBVIOUS
  <2>2. CanSend(p, i) /\ Transmit(d) /\ UNCHANGED <<tables, now, stored>>
    BY <1>3, <2>1 DEF SendProbe
  <2>3. GoodProbe(d)
    BY <2>1, <2>2, ProbeIsGood DEF LinkInv
  <2> QED BY <2>2, <2>3, LinkTransmit
<1>4. ASSUME NEW p \in Peer, NEW i \in Path, NEW s \in ShardId, NEW len \in Lengths,
             SendShard(p, i, s, MaxK, len)
      PROVE  LinkInv'
  <2>1. PICK d : d = ShardDatagram(p, i, s, MaxK, len)
    OBVIOUS
  <2>2. CanSend(p, i) /\ Transmit(d) /\ UNCHANGED <<tables, now, stored>>
    BY <1>4, <2>1 DEF SendShard
  <2>3. GoodShard(d)
    BY <2>1, <2>2, ShardIsGood
  <2> QED BY <2>2, <2>3, LinkTransmit
<1>5. ASSUME NEW d \in net, Lose(d) PROVE LinkInv'
  BY <1>1, <1>5, LinkIdle DEF Lose
<1>6. ASSUME NEW p \in Peer, NEW d \in Foreign, ReceiveForeign(p, d) PROVE LinkInv'
  BY <1>2, <1>6 DEF ReceiveForeign
<1>7. CASE Tick
  BY <1>1, <1>7, LinkIdle DEF Tick
<1> QED BY <1>2, <1>3, <1>4, <1>5, <1>6, <1>7, LinkReceive DEF Next

\* What is booked when a datagram is read.
LEMMA BookedReceive ==
    ASSUME LinkInv, BookedInv, NEW p \in Peer, NEW d \in net, Receive(p, d)
    PROVE  BookedInv'
<1> DEFINE i == Attributed(p, d.env.src)
<1>1. /\ HandleData(p, i, d) \/ HandleProbe(p, i, d) \/ HandleEcho(p, i, d)
      /\ Owner[d.env.dst] = p /\ UNCHANGED <<tables, now>>
  BY DEF Receive
<1>2. TableInv
  BY DEF LinkInv
<1>3. CASE HandleData(p, i, d)
  <2>1. PICK b : b = [peer |-> p, path |-> i, type |-> d.env.type, origin |-> d.origin, rtt |-> <<>>]
    OBVIOUS
  <2>2. d.env.type = TYPE_DATA /\ booked' = {b}
    BY <1>3, <2>1 DEF HandleData, Book
  <2>3. \A j \in Path : Paired(Other(p), d.origin, j) => i = j
    BY <1>1, <1>2, <2>2, KindOfDatagram, ShardPath
  <2>4. b.type # TYPE_PROBE_ECHO
    BY <2>1, <2>2 DEF TYPE_DATA, TYPE_PROBE_ECHO
  <2>5. \A j \in Path : Paired(Other(b.peer), b.origin, j) => b.path = j
    BY <2>1, <2>3
  <2> QED BY <1>1, <2>2, <2>4, <2>5, BookedAnew
<1>4. CASE HandleEcho(p, i, d)
  <2>1. PICK b : b = [peer |-> p, path |-> i, type |-> d.env.type, origin |-> d.origin,
                      rtt |-> <<Clock(p) - FromWire(d.ts), now - d.sent>>]
    OBVIOUS
  <2>2. d.env.type = TYPE_PROBE_ECHO /\ booked' = {b}
    BY <1>4, <2>1 DEF HandleEcho, Book
  <2>3. \A j \in Path : Paired(p, d.origin, j) => i = d.origin
    BY <1>1, <1>2, <2>2, KindOfDatagram, EchoPath
  <2>4. b.type # TYPE_DATA
    BY <2>1, <2>2 DEF TYPE_DATA, TYPE_PROBE_ECHO
  <2>5. Clock(p) - FromWire(d.ts) = now - d.sent
    BY <1>1, <1>2, <2>2, KindOfDatagram, EchoTime
  <2>6. b.rtt[1] = b.rtt[2]
    BY <2>1, <2>5
  <2>7. \A j \in Path : Paired(b.peer, b.origin, j) => b.path = b.origin
    BY <2>1, <2>3
  <2> QED BY <1>1, <2>2, <2>4, <2>6, <2>7, BookedAnew
<1>5. CASE UNCHANGED booked
  BY <1>1, <1>5, BookedStays
<1> QED BY <1>1, <1>3, <1>4, <1>5 DEF HandleProbe

\* What every step books, if anything, is right.
LEMMA BookedNext == ASSUME LinkInv, BookedInv, [Next]_vars PROVE BookedInv'
<1>1. CASE UNCHANGED <<tables, booked>>
  BY <1>1, BookedStays
<1>2. ASSUME NEW p \in Peer, NEW i \in Path,
             SendProbe(p, i) \/ \E s \in ShardId, len \in Lengths : SendShard(p, i, s, MaxK, len)
      PROVE  BookedInv'
  BY <1>1, <1>2 DEF SendProbe, SendShard
<1>3. ASSUME NEW p \in Peer, NEW d \in Foreign, ReceiveForeign(p, d) PROVE BookedInv'
  BY <1>1, <1>3 DEF ReceiveForeign, vars
<1> QED BY <1>1, <1>2, <1>3, BookedReceive DEF Next, Lose, Tick, vars

\* The inductive invariant of the datagrams and of what is booked.
LEMMA LinkInvariant == Spec => [](LinkInv /\ BookedInv)
<1>1. Init => LinkInv /\ BookedInv
  <2>1. booked = {} => BookedInv
    BY DEF BookedInv, EchoOnItsPath, ShardOnItsPath, RttIsRoundTrip
  <2> QED BY <2>1, TableInit DEF LinkInv
<1>2. LinkInv /\ BookedInv /\ [Next]_vars => (LinkInv /\ BookedInv)'
  BY LinkNext, BookedNext
<1> QED BY <1>1, <1>2, PTL DEF Spec

-----------------------------------------------------------------------------
\* Every variable keeps its type for all tables and routes: the words of a
\* timestamp have 32 bits each whatever the clocks show.
THEOREM TypeCorrect == Spec => []TypeOK
<1>1. LinkInv => TypeOK
  <2> SUFFICES ASSUME LinkInv PROVE TypeOK
    OBVIOUS
  <2>1. ASSUME NEW d \in net
        PROVE  IF d.env.type = TYPE_DATA THEN d.id \in ShardId /\ d.payload_len \in Lengths
               ELSE d.ts \in Nat \X (0..(Word - 1)) /\ d.sent \in Nat
    <3>1. GoodShard(d) \/ GoodProbe(d) \/ GoodEcho(d)
      BY DEF LinkInv, GoodNet
    <3>2. ASSUME NEW r, Probed(d, r) PROVE d.ts \in Nat \X (0..(Word - 1)) /\ d.sent \in Nat
      BY <3>2 DEF Probed
    <3>3. d.env.type # TYPE_DATA => \E r : Probed(d, r)
      BY <3>1 DEF GoodShard, GoodProbe, GoodEcho
    <3>4. d.env.type = TYPE_DATA => GoodShard(d)
      BY <3>1 DEF GoodProbe, GoodEcho, TYPE_DATA, TYPE_PROBE, TYPE_PROBE_ECHO
    <3> QED BY <3>2, <3>3, <3>4 DEF GoodShard
  <2>2. \A p \in Peer : DOMAIN stored[p] \subseteq ShardId
    BY DEF LinkInv, StoredInv
  <2> QED BY <2>1, <2>2 DEF LinkInv, TableInv, TypeOK
<1> QED BY <1>1, LinkInvariant, PTL

\* Echoes and shards are booked on the path they travelled, for every pair of
\* tables, although transport_recv knows a datagram by its address alone.
THEOREM AddressesTellPaths == Spec => []BookedOnItsPath
<1>1. BookedInv => BookedOnItsPath
  BY DEF BookedInv, BookedOnItsPath
<1> QED BY <1>1, LinkInvariant, PTL

\* The round-trip time that strategy_update_probe is given is the time that
\* has passed since the probe, for every pair of clocks and every word size.
THEOREM RoundTripTime == Spec => []RttIsRoundTrip
<1>1. BookedInv => RttIsRoundTrip
  BY DEF BookedInv
<1> QED BY <1>1, LinkInvariant, PTL
=============================================================================
