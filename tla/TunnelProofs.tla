---------------------------- MODULE TunnelProofs ----------------------------
(***************************************************************************)
(* Proofs about Tunnel for every window, network delay, number of blocks   *)
(* and number of restarts.  The receiver's steps are those of RxWindow, so *)
(* its invariant carries over; a restart of the receiver establishes it    *)
(* anew.                                                                   *)
(***************************************************************************)
EXTENDS Tunnel, RxWindowProofs

\* The variables of RxWindow change only in its own steps and in a restart.
LEMMA StepCases ==
    ASSUME [TunnelNext]_tvars
    PROVE  \/ [Next]_vars
           \/ ReceiverRestart /\ Init'
BY DEF TunnelNext, tvars, vars, SendBlock, SenderRestart, ReceiverRestart,
       Receiver, Arrive, Next, Init

\* The invariant of the window survives every step of the two gateways.
LEMMA WindowInv == IInv /\ [TunnelNext]_tvars => IInv'
<1>1. Init => IInv
  BY InitInv
<1>2. Init' => IInv'
  BY <1>1, PTL
<1> QED BY <1>2, StepCases, NextInv

\* The network and the sender keep their types.
LEMMA TunnelTypeStep == TunnelTypeOK /\ IInv' /\ [TunnelNext]_tvars => TunnelTypeOK'
<1> SUFFICES ASSUME TunnelTypeOK, IInv', [TunnelNext]_tvars PROVE TunnelTypeOK'
  OBVIOUS
<1>1. TypeOK'
  BY DEF IInv
<1>2. CASE SendBlock
  <2>1. next_id \in BlockId /\ next_id' \in 0..MaxSent
    BY <1>2, TunnelAssumption, HalfFacts DEF SendBlock, TunnelTypeOK, BlockId
  <2>2. [epoch |-> epoch, number |-> next_id] \in Encoding
    BY <2>1 DEF Encoding, TunnelTypeOK
  <2>3. Append(air, [epoch |-> epoch, number |-> next_id]) \in Seq(Encoding)
    BY <2>2 DEF TunnelTypeOK
  <2>4. Tail(Append(air, [epoch |-> epoch, number |-> next_id])) \in Seq(Encoding)
    BY <2>2 DEF TunnelTypeOK
  <2>5. air' \in Seq(Encoding)
    BY <1>2, <2>3, <2>4 DEF SendBlock, Newest
  <2> QED BY <1>1, <1>2, <2>1, <2>5 DEF SendBlock, TunnelTypeOK
<1>3. CASE SenderRestart \/ ReceiverRestart \/ Receiver \/ UNCHANGED tvars
  BY <1>1, <1>3, TunnelAssumption
     DEF SenderRestart, ReceiverRestart, Receiver, tvars, TunnelTypeOK
<1> QED BY <1>2, <1>3 DEF TunnelNext

\* TunnelInv is an invariant of the two gateways.
THEOREM TunnelInvariance == TunnelSpec => []TunnelInv
<1>1. TunnelInit => TunnelInv
  <2> SUFFICES ASSUME TunnelInit PROVE TunnelInv
    OBVIOUS
  <2>1. IInv
    BY InitInv DEF TunnelInit
  <2> QED BY <2>1, TunnelAssumption DEF TunnelInit, TunnelInv, TunnelTypeOK, IInv
<1>2. TunnelInv /\ [TunnelNext]_tvars => TunnelInv'
  BY WindowInv, TunnelTypeStep DEF TunnelInv
<1> QED BY <1>1, <1>2, PTL DEF TunnelSpec

\* Within one run of the receiver the positions of the blocks it writes rise,
\* whatever runs of the sender they come from.
THEOREM WritesAreOrdered == TunnelSpec => WrittenInOrder
<1>1. TunnelInv /\ [TunnelNext]_tvars
        => [decode_success' > decode_success => delivered' > delivered]_tvars
  <2> SUFFICES ASSUME TunnelInv, [TunnelNext]_tvars, decode_success' > decode_success
               PROVE  delivered' > delivered
    OBVIOUS
  <2>1. IInv /\ decode_success \in Nat /\ delivered \in Int /\ advanced \in Nat
    BY DEF TunnelInv, IInv, TypeOK
  <2>2. CASE [Next]_vars
    <3>1. Channel!Next \/ UNCHANGED Channel!cvars
      BY <2>1, <2>2, StepMaps
    <3>2. Channel!Deliver
      BY <2>1, <3>1 DEF Channel!Next, Channel!Decide, Channel!cvars
    <3> QED BY <2>1, <3>2, HalfFacts DEF Channel!Deliver
  <2>3. CASE Init'
    BY <2>1, <2>3 DEF Init
  <2> QED BY <2>2, <2>3, StepCases
<1> QED BY <1>1, TunnelInvariance, PTL DEF TunnelSpec, WrittenInOrder

-----------------------------------------------------------------------------
(***************************************************************************)
(* A receiver that has fallen behind.                                      *)
(***************************************************************************)

\* What is on its way after a block was sent was on its way before, or is the
\* block that was still to come.
LEMMA ComingShrinks ==
    ASSUME TunnelInv, SendBlock
    PROVE  Coming' \subseteq Coming
<1> DEFINE e == [epoch |-> epoch, number |-> next_id]
           app == Append(air, e)
<1>1. air \in Seq(Encoding) /\ next_id \in Nat /\ next_id < MaxSent /\ MaxSent \in Nat
  BY TunnelAssumption DEF TunnelInv, TunnelTypeOK, SendBlock
<1>2. e \in Encoding
  BY <1>1, TunnelAssumption, HalfFacts DEF Encoding, BlockId, TunnelInv, TunnelTypeOK
<1>3. app \in Seq(Encoding) /\ \A j \in DOMAIN app : app[j].number \in Coming
  <2>1. app \in Seq(Encoding)
    BY <1>1, <1>2
  <2>2. ASSUME NEW j \in DOMAIN app PROVE app[j].number \in Coming
    <3>1. CASE j \in DOMAIN air
      BY <1>1, <1>2, <3>1 DEF Coming
    <3>2. CASE j \notin DOMAIN air
      BY <1>1, <1>2, <3>2 DEF Coming
    <3> QED BY <3>1, <3>2
  <2> QED BY <2>1, <2>2
<1>4. air' = app \/ air' = Tail(app)
  BY DEF SendBlock, Newest
<1> HIDE DEF app
<1>5. \A j \in DOMAIN air' : \E l \in DOMAIN app : air'[j] = app[l]
  <2>1. CASE air' = app
    BY <2>1
  <2>2. CASE air' = Tail(app)
    <3>1. CASE app = << >>
      BY <1>3, <2>2, <3>1
    <3>2. CASE app # << >>
      BY <1>3, <2>2, <3>2
    <3> QED BY <3>1, <3>2
  <2> QED BY <1>4, <2>1, <2>2
<1>6. next_id' = next_id + 1
  BY DEF SendBlock
<1>7. next_id'..(MaxSent - 1) \subseteq next_id..(MaxSent - 1)
  BY <1>1, <1>6
<1> QED BY <1>3, <1>5, <1>7 DEF Coming

\* A step of the receiver alone leaves a stalled receiver stalled.
LEMMA ReceiverStalled ==
    ASSUME TunnelInv, Stalled, Receiver
    PROVE  Stalled' /\ decode_success' = decode_success
<1>1. IInv /\ UNCHANGED <<epoch, next_id, air, lifetime>>
  BY DEF TunnelInv, Receiver
<1>2. /\ UNCHANGED <<base_id, decode_success>>
      /\ \A i \in Slot : /\ slots'[i].block_id = slots[i].block_id
                         /\ slots'[i].shards = slots[i].shards
  <2>1. ASSUME NEW d \in Datagram, InAir(d.shard.enc), Receive(d)
        PROVE  UNCHANGED <<base_id, decode_success, slots>>
    <3>1. d.block_id \in Coming
      BY <2>1, TunnelAssumption DEF InAir, Coming
    <3>2. ~InWindow(d.block_id)
      BY <3>1 DEF Stalled
    <3> QED BY <2>1, <3>2 DEF Receive, Accept, Discard
  <2>2. CASE Advance
    <3>1. \A i \in Slot : ~AtBase(i) /\ ~Newer(i)
      BY <1>1, AtBaseUnique DEF Stalled
    <3> QED BY <2>2, <3>1 DEF Advance, AdvanceFree, AdvanceSkip, AdvanceStop
  <2>3. CASE Tick \/ SetBack
    BY <1>1, <2>3, TickBlocks, SetBackBlocks DEF Tick, SetBack
  <2> QED BY <2>1, <2>2, <2>3 DEF Receiver, Arrive
<1>3. \A i \in Slot : Occupied(slots'[i]) <=> Occupied(slots[i])
  BY <1>2 DEF Occupied, Received
<1>4. \A i \in Slot : ~Newer(i)' /\ ~Holds(i, base_id)'
  BY <1>2, <1>3 DEF Stalled, Newer, Holds
<1>5. Coming' = Coming
  BY <1>1 DEF Coming
<1>6. \A id \in Coming : ~InWindow(id)'
  BY <1>2 DEF Stalled, InWindow
<1> QED BY <1>2, <1>4, <1>5, <1>6 DEF Stalled

\* A gap of window_size blocks ends the delivery until a gateway restarts, for
\* every window size, delay of the network and number of blocks.
THEOREM StallsForEver == TunnelSpec => StalledForEver
<1>1. TunnelInv /\ [TunnelNext]_tvars
        => [Stalled => \/ Stalled' /\ decode_success' = decode_success
                       \/ epoch' # epoch \/ lifetime' # lifetime]_tvars
  <2> SUFFICES ASSUME TunnelInv, [TunnelNext]_tvars, Stalled
               PROVE  \/ Stalled' /\ decode_success' = decode_success
                      \/ epoch' # epoch \/ lifetime' # lifetime
    OBVIOUS
  <2>1. CASE SendBlock
    <3>1. UNCHANGED vars
      BY <2>1 DEF SendBlock
    <3>2. \A id \in Coming' : ~InWindow(id)'
      BY <2>1, <3>1, ComingShrinks DEF Stalled, InWindow, vars
    <3> QED BY <3>1, <3>2 DEF Stalled, Newer, Holds, vars
  <2>2. CASE SenderRestart \/ ReceiverRestart
    BY <2>2 DEF SenderRestart, ReceiverRestart, TunnelInv, TunnelTypeOK
  <2>3. CASE Receiver
    BY <2>3, ReceiverStalled
  <2>4. CASE UNCHANGED tvars
    BY <2>4 DEF tvars, vars, Stalled, Newer, Holds, Coming, InWindow
  <2> QED BY <2>1, <2>2, <2>3, <2>4 DEF TunnelNext
<1> QED BY <1>1, TunnelInvariance, PTL DEF TunnelSpec, StalledForEver

-----------------------------------------------------------------------------
(***************************************************************************)
(* Blocks are not mixed up as long as the sender is not restarted.         *)
(***************************************************************************)

\* What a slot holds after a datagram was stored in it: what it held before
\* and the datagram's shard.
LEMMA StoredShards ==
    ASSUME IInv, NEW d \in Datagram, NEW i \in Slot, Accept(i, d),
           NEW j \in Received(Stored(i, d))
    PROVE  \/ Stored(i, d).shards[j] = d.shard
           \/ /\ slots[i].block_id = d.block_id
              /\ j \in Received(slots[i])
              /\ Stored(i, d).shards[j] = slots[i].shards[j]
<1>1. slots[i] \in RxBlock /\ d.block_id \in BlockId
  BY DatagramAssumption DEF IInv, TypeOK, BlockId
<1>2. CASE FindsHeld(i, d.block_id)
  <2>1. /\ Found(i, d.block_id) = slots[i]
        /\ slots[i].block_id = d.block_id
    BY <1>2 DEF FindsHeld, Held, Holds, Found
  <2> QED BY <1>1, <2>1 DEF Stored, Insert, Put, Received, RxBlock
<1>3. CASE FindsFree(i, d.block_id)
  <2>1. /\ Found(i, d.block_id) = FreshBlock(d.block_id)
        /\ Received(FreshBlock(d.block_id)) = {}
        /\ FreshBlock(d.block_id) \in RxBlock
    BY <1>1, <1>3, FreshType DEF FindsFree, Found, Occupied
  <2> QED BY <2>1 DEF Stored, Insert, Put, Received, RxBlock
<1> QED BY <1>2, <1>3 DEF Accept

\* The shards of a slot come from the block its id names in the first run.
LEMMA FirstRunStep ==
    ASSUME TunnelInv, FirstRunOnly, [TunnelNext]_tvars
    PROVE  FirstRunOnly'
<1> USE DEF FirstRunOnly
<1>0. IInv /\ IInv'
  BY WindowInv DEF TunnelInv
<1>1. CASE SendBlock
  <2> DEFINE app == Append(air, [epoch |-> epoch, number |-> next_id])
  <2>1. UNCHANGED <<vars, epoch>> /\ (air' = app \/ air' = Tail(app))
    BY <1>1 DEF SendBlock, Newest
  <2>2. air \in Seq(Encoding)
    BY DEF TunnelInv, TunnelTypeOK
  <2>3. ASSUME epoch = 0, NEW j \in DOMAIN air' PROVE air'[j].epoch = 0
    <3>1. \A l \in DOMAIN app : app[l].epoch = 0
      BY <2>2, <2>3
    <3>2. CASE air' = app
      BY <2>3, <3>1, <3>2
    <3>3. CASE air' = Tail(app)
      <4>1. Len(app) \in Nat /\ Len(app) > 0 /\ DOMAIN app = 1..Len(app)
        BY <2>2
      <4>2. j + 1 \in DOMAIN app /\ air'[j] = app[j + 1]
        BY <2>2, <2>3, <3>3, <4>1
      <4> QED BY <3>1, <4>2
    <3> QED BY <2>1, <3>2, <3>3
  <2> QED BY <2>1, <2>3 DEF vars
<1>2. CASE SenderRestart
  BY <1>2 DEF SenderRestart, TunnelInv, TunnelTypeOK
<1>3. CASE ReceiverRestart
  <2>1. \A i \in Slot : Received(slots'[i]) = {}
    BY <1>3, HalfFacts, FreshType DEF ReceiverRestart, BlockId, Occupied
  <2> QED BY <1>3, <2>1 DEF ReceiverRestart
<1>4. CASE Receiver
  <2>0. UNCHANGED <<epoch, air>>
    BY <1>4 DEF Receiver
  <2> SUFFICES ASSUME epoch = 0, NEW i \in Slot, NEW j \in Received(slots'[i])
               PROVE  slots'[i].shards[j].enc = [epoch |-> 0, number |-> slots'[i].block_id]
    BY <2>0
  <2>1. ASSUME NEW d \in Datagram, InAir(d.shard.enc), Receive(d)
        PROVE  slots'[i].shards[j].enc = [epoch |-> 0, number |-> slots'[i].block_id]
    <3>1. CASE Discard(d)
      BY <3>1 DEF Discard
    <3>2. ASSUME NEW l \in Slot, Accept(l, d)
          PROVE  slots'[i].shards[j].enc = [epoch |-> 0, number |-> slots'[i].block_id]
      <4>1. CASE i # l
        BY <1>0, <2>1, <3>2, <4>1, AcceptSlots
      <4>2. CASE i = l
        <5>a. /\ Processed(i, d).block_id = d.block_id
              /\ Processed(i, d).shards = Stored(i, d).shards
          BY <1>0, <3>2, <4>2, AcceptedBlock DEF Accept, IInv
        <5>b. slots'[i] = Processed(i, d)
          BY <1>0, <2>1, <3>2, <4>2, AcceptSlots
        <5>1. /\ slots'[i].block_id = d.block_id
              /\ slots'[i].shards = Stored(i, d).shards
          BY <5>a, <5>b
        <5>2. j \in Received(Stored(i, d))
          BY <5>1 DEF Received
        <5>3. d.shard.enc = [epoch |-> 0, number |-> d.block_id]
          <6>1. d.shard.enc.epoch = 0
            BY <2>1 DEF InAir
          <6>2. d.shard.enc \in Encoding /\ d.block_id = d.shard.enc.number
            BY TunnelAssumption, DatagramAssumption
          <6> QED BY <6>1, <6>2 DEF Encoding
        <5>4. CASE Stored(i, d).shards[j] = d.shard
          BY <5>1, <5>3, <5>4
        <5>5. CASE /\ slots[i].block_id = d.block_id
                   /\ j \in Received(slots[i])
                   /\ Stored(i, d).shards[j] = slots[i].shards[j]
          BY <5>1, <5>5
        <5> QED BY <1>0, <3>2, <4>2, <5>2, <5>4, <5>5, StoredShards
      <4> QED BY <4>1, <4>2
    <3> QED BY <2>1, <3>1, <3>2 DEF Receive
  <2>2. CASE Advance
    <3>1. CASE AdvanceFree
      <4>1. PICK l \in Slot : slots' = [slots EXCEPT ![l] = FreshBlock(0)]
        BY <3>1 DEF AdvanceFree
      <4>2. Received(FreshBlock(0)) = {}
        BY HalfFacts, FreshType DEF BlockId, Occupied
      <4>3. i # l /\ slots'[i] = slots[i]
        BY <1>0, <4>1, <4>2 DEF IInv, TypeOK
      <4> QED BY <4>3
    <3>2. CASE AdvanceSkip \/ AdvanceStop
      BY <3>2 DEF AdvanceSkip, AdvanceStop
    <3> QED BY <2>2, <3>1, <3>2 DEF Advance
  <2>3. CASE Tick \/ SetBack
    <3>1. slots'[i].block_id = slots[i].block_id /\ slots'[i].shards = slots[i].shards
      BY <1>0, <2>3, TickBlocks, SetBackBlocks
    <3> QED BY <3>1 DEF Received
  <2> QED BY <1>4, <2>1, <2>2, <2>3 DEF Receiver, Arrive
<1>5. CASE UNCHANGED tvars
  BY <1>5 DEF tvars, vars
<1> QED BY <1>1, <1>2, <1>3, <1>4, <1>5 DEF TunnelNext

\* Until the sender is restarted every slot holds shards of one block, for
\* every window and network: a block is never put together from two.
THEOREM IntactFirstRun == TunnelSpec => []IntactUntilSenderRestarts
<1>1. TunnelInit => FirstRunOnly
  <2> SUFFICES ASSUME TunnelInit PROVE FirstRunOnly
    OBVIOUS
  <2>1. \A i \in Slot : Received(slots[i]) = {}
    BY HalfFacts, FreshType DEF TunnelInit, Init, BlockId, Occupied
  <2> QED BY <2>1 DEF TunnelInit, FirstRunOnly
<1>2. FirstRunOnly => IntactUntilSenderRestarts
  <2> SUFFICES ASSUME FirstRunOnly, epoch = 0, NEW i \in Slot,
                      NEW j \in Received(slots[i]), NEW l \in Received(slots[i])
               PROVE  /\ slots[i].shards[j].enc = slots[i].shards[l].enc
                      /\ slots[i].shards[j].enc.number = slots[i].block_id
    BY DEF IntactUntilSenderRestarts, Intact
  <2> DEFINE e == [epoch |-> 0, number |-> slots[i].block_id]
  <2>1. slots[i].shards[j].enc = e /\ slots[i].shards[l].enc = e
    BY DEF FirstRunOnly
  <2>2. e.number = slots[i].block_id
    OBVIOUS
  <2> QED BY ONLY <2>1, <2>2
<1>3. TunnelInv /\ FirstRunOnly /\ [TunnelNext]_tvars => FirstRunOnly'
  BY FirstRunStep
<1> QED BY <1>1, <1>2, <1>3, TunnelInvariance, PTL DEF TunnelSpec

-----------------------------------------------------------------------------
(***************************************************************************)
(* A block is written as soon as its shards allow it.                      *)
(***************************************************************************)

\* Whether the shards of a slot decode depends on its id and its shards.
LEMMA SameShards ==
    ASSUME NEW s, NEW r, r.shards = s.shards
    PROVE  /\ Received(r) = Received(s) /\ (Occupied(r) <=> Occupied(s))
           /\ \A k : Collected(r, k) = Collected(s, k)
BY DEF Received, Occupied, Collected

\* The slot a datagram was stored in has been tried with the k it came with,
\* which every datagram of its block carries.
LEMMA AcceptTries ==
    ASSUME IInv, NEW i \in Slot, NEW d \in Datagram, Accept(i, d), Receive(d),
           NEW e \in Datagram, slots'[i].block_id = e.block_id,
           Cardinality(Received(slots'[i])) >= e.k,
           Decodable(Collected(slots'[i], e.k))
    PROVE  slots'[i].decoded
<1>1. /\ slots'[i] = Processed(i, d)
      /\ Processed(i, d).block_id = d.block_id
      /\ Processed(i, d).shards = Stored(i, d).shards
      /\ Processed(i, d).decoded <=> (Stored(i, d).decoded \/ Decodes(Stored(i, d), d.k))
  BY AcceptSlots, AcceptedBlock DEF Accept, IInv
<1>2. e.k = d.k
  BY <1>1, TunnelAssumption
<1>3. /\ Received(slots'[i]) = Received(Stored(i, d))
      /\ Collected(slots'[i], d.k) = Collected(Stored(i, d), d.k)
  BY <1>1, SameShards
<1>4. Stored(i, d).decoded \/ Decodes(Stored(i, d), d.k)
  BY <1>2, <1>3 DEF Decodes
<1> QED BY <1>1, <1>4

\* No step leaves a slot undecoded whose shards decode.
LEMMA TriedStep ==
    ASSUME IInv, TriedAtOnce, [TunnelNext]_tvars
    PROVE  TriedAtOnce'
<1> SUFFICES ASSUME NEW i \in Slot, NEW e \in Datagram,
                    Occupied(slots'[i]), slots'[i].block_id = e.block_id,
                    Cardinality(Received(slots'[i])) >= e.k,
                    Decodable(Collected(slots'[i], e.k))
             PROVE  slots'[i].decoded
  BY DEF TriedAtOnce
<1>1. e.k \in Nat \ {0}
  BY DatagramAssumption
<1>2. ASSUME slots'[i].block_id = slots[i].block_id, slots'[i].shards = slots[i].shards,
             slots'[i].decoded = slots[i].decoded
      PROVE  slots'[i].decoded
  BY <1>2, SameShards DEF TriedAtOnce
<1>3. ASSUME NEW d \in Datagram, Receive(d) PROVE slots'[i].decoded
  <2>1. CASE Discard(d)
    BY <1>2, <2>1 DEF Discard
  <2>2. ASSUME NEW l \in Slot, Accept(l, d) PROVE slots'[i].decoded
    <3>1. CASE i = l
      BY <1>3, <2>2, <3>1, AcceptTries
    <3>2. CASE i # l
      <4>1. slots'[i] = slots[i]
        BY <1>3, <2>2, <3>2, AcceptSlots
      <4> QED BY <1>2, <4>1
    <3> QED BY <3>1, <3>2
  <2> QED BY <1>3, <2>1, <2>2 DEF Receive
<1>4. CASE Advance
  <2>1. CASE AdvanceFree
    <3>1. PICK l \in Slot : slots' = [slots EXCEPT ![l] = FreshBlock(0)]
      BY <2>1 DEF AdvanceFree
    <3>2. ~Occupied(FreshBlock(0))
      BY HalfFacts, FreshType DEF BlockId
    <3>3. i # l /\ slots'[i] = slots[i]
      BY <3>1, <3>2 DEF IInv, TypeOK
    <3> QED BY <1>2, <3>3
  <2>2. CASE AdvanceSkip \/ AdvanceStop
    BY <1>2, <2>2 DEF AdvanceSkip, AdvanceStop
  <2> QED BY <1>4, <2>1, <2>2 DEF Advance
<1>5. CASE Tick \/ SetBack
  BY <1>2, <1>5, TickBlocks, SetBackBlocks
<1>6. CASE Init'
  <2>1. ~Occupied(slots'[i])
    BY <1>6, HalfFacts, FreshType DEF Init, BlockId
  <2> QED BY <2>1
<1>7. CASE UNCHANGED vars
  BY <1>2, <1>7 DEF vars
<1> QED BY <1>3, <1>4, <1>5, <1>6, <1>7, StepCases DEF Next

\* Between two datagrams no slot holds k shards of its block that decode, for
\* every window, every network and whatever restarts come: the gateway never
\* sits on a block that it could write to the TUN device.
THEOREM NeverSitsOnABlock == TunnelSpec => []DecodedAtOnce
<1>1. TunnelInit => TriedAtOnce
  <2> SUFFICES ASSUME TunnelInit, NEW i \in Slot PROVE ~Occupied(slots[i])
    BY DEF TriedAtOnce
  <2> QED BY HalfFacts, FreshType DEF TunnelInit, Init, BlockId
<1>2. TunnelInv /\ TriedAtOnce /\ [TunnelNext]_tvars => TriedAtOnce'
  BY TriedStep DEF TunnelInv
<1>3. TunnelInv /\ TriedAtOnce => DecodedAtOnce
  BY DEF TunnelInv, IInv, DecodedPending, TriedAtOnce, DecodedAtOnce
<1> QED BY <1>1, <1>2, <1>3, TunnelInvariance, PTL DEF TunnelSpec

-----------------------------------------------------------------------------
(***************************************************************************)
(* End to end: what the receiver writes was sent.                          *)
(***************************************************************************)

\* In the first half of the ids the signed difference is the difference.
LEMMA PlainDifference ==
    ASSUME NEW n \in Nat, n <= Half, NEW a \in Nat, a < n, NEW b \in Nat, b <= n
    PROVE  SDiff(a, b) = a - b
BY HalfFacts DEF SDiff, Wrap

\* The sender does not come back to its first run.
LEMMA FirstHalfBefore ==
    ASSUME TunnelInv, [TunnelNext]_tvars, FirstHalf'
    PROVE  FirstHalf /\ next_id <= next_id'
BY HalfFacts DEF TunnelInv, TunnelTypeOK, TunnelNext, tvars, FirstHalf,
   SendBlock, SenderRestart, ReceiverRestart, Receiver

\* What SentOnly says of the variables' values and of what is held.
LEMMA SentFacts ==
    ASSUME TunnelInv, SentOnly, FirstHalf
    PROVE  /\ next_id \in Nat /\ next_id <= Half /\ Half \in Nat /\ Half < IdMod
           /\ base_id = advanced /\ base_id \in Nat /\ advanced <= next_id
           /\ newest \in Int /\ newest < next_id
           /\ delivered \in Int /\ delivered < next_id
           /\ \A a \in Nat : a < next_id => Unwrapped(a) = a /\ SDiff(a, base_id) = a - base_id
           /\ \A i \in Slot : slots[i].block_id \in Nat
<1>1. /\ next_id \in Nat /\ next_id <= Half /\ Half \in Nat /\ Half < IdMod
      /\ base_id = advanced /\ base_id \in Nat /\ advanced <= next_id
      /\ newest \in Int /\ newest < next_id
      /\ delivered \in Int /\ delivered < next_id
  BY HalfFacts, TunnelAssumption
     DEF TunnelInv, TunnelTypeOK, TypeOK, SentOnly, FirstHalf, BlockId
<1>2. ASSUME NEW a \in Nat, a < next_id
      PROVE  Unwrapped(a) = a /\ SDiff(a, base_id) = a - base_id
  <2>1. SDiff(a, base_id) = a - base_id
    BY <1>1, <1>2, PlainDifference
  <2> QED BY <1>1, <2>1 DEF Unwrapped
<1>3. \A i \in Slot : slots[i].block_id \in Nat
  BY HalfFacts DEF TunnelInv, TunnelTypeOK, TypeOK, RxBlock, BlockId
<1> QED BY <1>1, <1>2, <1>3

\* Handling a datagram of a block that was sent.
LEMMA SentReceive ==
    ASSUME TunnelInv, SentOnly, FirstHalf,
           NEW d \in Datagram, InAir(d.shard.enc), Receive(d)
    PROVE  /\ d.block_id \in Nat /\ d.block_id < next_id
           /\ base_id' = base_id /\ advanced' = advanced
           /\ newest' < next_id /\ delivered' < next_id
           /\ decode_success' # decode_success => delivered' = d.block_id
           /\ \A i \in Slot : Occupied(slots'[i]) => slots'[i].block_id < next_id
<1>1. d.block_id \in Nat /\ d.block_id < next_id
  <2>1. PICK j \in DOMAIN air : air[j] = d.shard.enc
    BY DEF InAir
  <2>2. air[j].number < next_id /\ d.block_id = d.shard.enc.number
    BY TunnelAssumption DEF SentOnly
  <2>3. d.block_id \in Nat
    BY DatagramAssumption, HalfFacts
  <2> QED BY <2>1, <2>2, <2>3
<1>2. Unwrapped(d.block_id) = d.block_id
  BY <1>1, SentFacts
<1>3. base_id' = base_id /\ advanced' = advanced
  BY DEF Receive
<1>4. CASE Discard(d)
  BY <1>1, <1>3, <1>4, SentFacts DEF Discard, SentOnly
<1>5. ASSUME NEW i \in Slot, Accept(i, d)
      PROVE  /\ newest' < next_id /\ delivered' < next_id
             /\ decode_success' # decode_success => delivered' = d.block_id
             /\ \A j \in Slot : Occupied(slots'[j]) => slots'[j].block_id < next_id
  <2>1. newest' < next_id
    BY <1>1, <1>2, <1>5, SentFacts DEF Accept
  <2>2. delivered' < next_id /\ (decode_success' # decode_success => delivered' = d.block_id)
    BY <1>1, <1>2, <1>5, SentFacts DEF Accept
  <2>3. IInv /\ TypeOK
    BY DEF TunnelInv, IInv
  <2>4. slots'[i] = Processed(i, d) /\ \A j \in Slot \ {i} : slots'[j] = slots[j]
    BY <1>5, <2>3, AcceptSlots
  <2>5. Processed(i, d).block_id = d.block_id
    BY <1>5, <2>3, AcceptedBlock DEF Accept
  <2>6. ASSUME NEW j \in Slot, Occupied(slots'[j]) PROVE slots'[j].block_id < next_id
    <3>1. CASE j = i
      BY <1>1, <2>4, <2>5, <3>1
    <3>2. CASE j # i
      <4>1. slots'[j] = slots[j]
        BY <2>4, <3>2
      <4> QED BY <2>6, <4>1 DEF SentOnly
    <3> QED BY <3>1, <3>2
  <2> QED BY <2>1, <2>2, <2>6
<1> QED BY <1>1, <1>3, <1>4, <1>5 DEF Receive

\* The base moves on only past blocks that were sent.
LEMMA SentAdvance ==
    ASSUME TunnelInv, SentOnly, FirstHalf, Advance
    PROVE  /\ base_id' = advanced' /\ advanced' <= next_id
           /\ newest' = newest /\ delivered' = delivered
           /\ \A i \in Slot : Occupied(slots'[i]) => slots'[i].block_id < next_id
<1>1. ASSUME base_id < next_id, IncBase PROVE base_id' = advanced' /\ advanced' <= next_id
  <2>1. /\ next_id \in Nat /\ next_id <= Half /\ Half \in Nat /\ Half < IdMod
        /\ base_id = advanced /\ base_id \in Nat /\ IdMod \in Nat
    BY SentFacts, HalfFacts
  <2> QED BY <1>1, <2>1 DEF IncBase, Wrap
<1>2. CASE AdvanceFree
  <2>1. PICK i \in Slot : AtBase(i) /\ slots' = [slots EXCEPT ![i] = FreshBlock(0)]
    BY <1>2 DEF AdvanceFree
  <2>2. base_id < next_id
    BY <2>1 DEF AtBase, FindsHeld, Holds, SentOnly
  <2>3. ~Occupied(FreshBlock(0))
    BY HalfFacts, FreshType DEF BlockId
  <2>4. \A j \in Slot : Occupied(slots'[j]) => slots'[j] = slots[j]
    BY <2>1, <2>3 DEF TunnelInv, IInv, TypeOK
  <2>5. \A j \in Slot : Occupied(slots'[j]) => slots'[j].block_id < next_id
    BY <2>4 DEF SentOnly
  <2> QED BY <1>1, <1>2, <2>2, <2>5 DEF AdvanceFree
<1>3. CASE AdvanceSkip
  <2>1. PICK i \in Slot : Newer(i)
    BY <1>3 DEF AdvanceSkip
  <2>2. Occupied(slots[i]) /\ SDiff(slots[i].block_id, base_id) > 0
    BY <2>1 DEF Newer
  <2>3. slots[i].block_id < next_id /\ slots[i].block_id \in Nat
    BY <2>2, SentFacts DEF SentOnly
  <2>4. base_id < next_id
    BY <2>2, <2>3, SentFacts
  <2> QED BY <1>1, <1>3, <2>4 DEF AdvanceSkip, SentOnly
<1>4. CASE AdvanceStop
  BY <1>4 DEF AdvanceStop, SentOnly
<1> QED BY <1>2, <1>3, <1>4 DEF Advance

\* No step makes the receiver know of a block that was not sent.
LEMMA SentStep ==
    ASSUME TunnelInv, SentOnly, [TunnelNext]_tvars
    PROVE  SentOnly'
<1> SUFFICES ASSUME FirstHalf'
             PROVE  /\ base_id' = advanced' /\ advanced' <= next_id'
                    /\ newest' < next_id' /\ delivered' < next_id'
                    /\ \A j \in DOMAIN air' : air'[j].number < next_id'
                    /\ \A i \in Slot : Occupied(slots'[i]) => slots'[i].block_id < next_id'
  BY DEF SentOnly, Occupied, Received
<1>0. FirstHalf /\ next_id <= next_id'
  BY FirstHalfBefore
<1>1. CASE SendBlock
  <2> DEFINE app == Append(air, [epoch |-> epoch, number |-> next_id])
  <2>1. UNCHANGED vars /\ next_id' = next_id + 1 /\ (air' = app \/ air' = Tail(app))
    BY <1>1 DEF SendBlock, Newest
  <2>2. air \in Seq(Encoding)
    BY DEF TunnelInv, TunnelTypeOK
  <2>3. \A j \in DOMAIN air : air[j].number < next_id
    BY <1>0 DEF SentOnly
  <2>4. \A j \in DOMAIN air : air[j].number \in Nat
    <3>1. \A j \in DOMAIN air : air[j] \in Encoding
      BY <2>2
    <3> QED BY <3>1, HalfFacts DEF Encoding, BlockId
  <2>5. ASSUME NEW l \in DOMAIN app PROVE app[l].number < next_id + 1
    <3>1. CASE l \in DOMAIN air
      BY <1>0, <2>2, <2>3, <2>4, <3>1, SentFacts
    <3>2. CASE l \notin DOMAIN air
      BY <1>0, <2>2, <3>2, SentFacts
    <3> QED BY <3>1, <3>2
  <2>6. Len(app) \in Nat /\ Len(app) > 0 /\ DOMAIN app = 1..Len(app)
    BY <2>2
  <2>7. ASSUME NEW j \in DOMAIN air' PROVE air'[j].number < next_id'
    <3>1. CASE air' = app
      BY <2>1, <2>5, <3>1
    <3>2. CASE air' = Tail(app)
      <4>1. j + 1 \in DOMAIN app /\ air'[j] = app[j + 1]
        BY <2>2, <2>6, <2>7, <3>2
      <4> QED BY <2>1, <2>5, <4>1
    <3> QED BY <2>1, <3>1, <3>2
  <2> HIDE DEF app
  <2>8. \A i \in Slot : Occupied(slots'[i]) => slots'[i].block_id < next_id'
    BY <1>0, <2>1, SentFacts DEF SentOnly, vars
  <2> QED BY <1>0, <2>1, <2>7, <2>8, SentFacts DEF vars
<1>2. CASE SenderRestart
  BY <1>2 DEF SenderRestart, FirstHalf, TunnelInv, TunnelTypeOK
<1>3. CASE ReceiverRestart
  <2>1. \A i \in Slot : ~Occupied(slots'[i])
    BY <1>3, HalfFacts, FreshType DEF ReceiverRestart, BlockId
  <2> QED BY <1>0, <1>3, <2>1, SentFacts DEF ReceiverRestart, SentOnly
<1>4. CASE Receiver
  <2>1. air' = air /\ next_id' = next_id
    BY <1>4 DEF Receiver
  <2>2. \A j \in DOMAIN air' : air'[j].number < next_id'
    BY <1>0, <2>1 DEF SentOnly
  <2>3. ASSUME NEW d \in Datagram, InAir(d.shard.enc), Receive(d)
        PROVE  /\ base_id' = advanced' /\ advanced' <= next_id
               /\ newest' < next_id /\ delivered' < next_id
               /\ \A i \in Slot : Occupied(slots'[i]) => slots'[i].block_id < next_id
    BY <1>0, <2>3, SentReceive, SentFacts
  <2>4. CASE Advance
    BY <1>0, <2>1, <2>2, <2>4, SentAdvance, SentFacts
  <2>5. CASE Tick \/ SetBack
    <3>1. IInv
      BY DEF TunnelInv
    <3>2. \A i \in Slot : /\ slots'[i].block_id = slots[i].block_id
                          /\ slots'[i].shards = slots[i].shards
      BY <2>5, <3>1, TickBlocks, SetBackBlocks
    <3>3. UNCHANGED <<base_id, advanced, newest, delivered>>
      BY <2>5 DEF Tick, SetBack
    <3>4. \A i \in Slot : Occupied(slots'[i]) => slots'[i].block_id < next_id
      BY <1>0, <3>2 DEF SentOnly, Occupied, Received
    <3> QED BY <1>0, <2>1, <2>2, <3>3, <3>4, SentFacts
  <2> QED BY <1>4, <2>1, <2>2, <2>3, <2>4, <2>5 DEF Receiver, Arrive
<1>5. CASE UNCHANGED tvars
  BY <1>0, <1>5 DEF tvars, vars, SentOnly
<1> QED BY <1>1, <1>2, <1>3, <1>4, <1>5 DEF TunnelNext

\* The invariants of the tunnel that the theorems below rest on.
LEMMA SentInvariance == TunnelSpec => [](FirstRunOnly /\ SentOnly)
<1>1. TunnelInit => FirstRunOnly /\ SentOnly
  <2> SUFFICES ASSUME TunnelInit PROVE FirstRunOnly /\ SentOnly
    OBVIOUS
  <2>1. \A i \in Slot : Received(slots[i]) = {}
    BY HalfFacts, FreshType DEF TunnelInit, Init, BlockId, Occupied
  <2> QED BY <2>1 DEF TunnelInit, Init, FirstRunOnly, SentOnly, Occupied
<1>2. TunnelInv /\ FirstRunOnly /\ SentOnly /\ [TunnelNext]_tvars
        => FirstRunOnly' /\ SentOnly'
  BY FirstRunStep, SentStep
<1> QED BY <1>1, <1>2, TunnelInvariance, PTL DEF TunnelSpec

\* A step that writes a block: it was sent, it comes after all that were written,
\* and the slot it was decoded in held shards of this block alone.
LEMMA WriteStep ==
    ASSUME TunnelInv, FirstRunOnly, SentOnly, [TunnelNext]_tvars,
           FirstHalf, decode_success' > decode_success
    PROVE  /\ delivered' \in (delivered + 1)..(next_id - 1)
           /\ \E i \in Slot :
                 /\ slots'[i].decoded /\ ~slots[i].decoded
                 /\ \A j \in Received(slots'[i]) :
                       slots'[i].shards[j].enc = [epoch |-> 0, number |-> delivered']
<1>1. IInv /\ TypeOK /\ decode_success \in Nat
  BY DEF TunnelInv, IInv, TypeOK
<1>2. PICK d \in Datagram : InAir(d.shard.enc) /\ Receive(d)
  <2>1. CASE SendBlock \/ SenderRestart \/ UNCHANGED tvars
    BY <1>1, <2>1 DEF SendBlock, SenderRestart, tvars, vars
  <2>2. CASE ReceiverRestart
    BY <1>1, <2>2 DEF ReceiverRestart
  <2>3. CASE Advance \/ Tick \/ SetBack
    BY <1>1, <2>3 DEF Advance, AdvanceFree, AdvanceSkip, AdvanceStop, Tick, SetBack
  <2> QED BY <2>1, <2>2, <2>3 DEF TunnelNext, Receiver, Arrive
<1>3. PICK i \in Slot : Accept(i, d)
  BY <1>1, <1>2 DEF Receive, Discard
<1>4. Decodes(Stored(i, d), d.k)
  BY <1>1, <1>3 DEF Accept
<1>5. /\ delivered' = d.block_id /\ delivered' < next_id /\ d.block_id \in Nat
      /\ next_id \in Nat /\ delivered \in Int
  BY <1>1, <1>2, SentReceive, SentFacts
<1>6. delivered' > delivered
  <2>1. [Next]_vars
    BY <1>2 DEF Next
  <2>2. Channel!Next \/ UNCHANGED Channel!cvars
    BY <1>1, <2>1, StepMaps
  <2>3. Channel!Deliver
    BY <1>1, <2>2 DEF Channel!Next, Channel!Decide, Channel!cvars
  <2> QED BY <1>1, <2>3, HalfFacts DEF Channel!Deliver, TypeOK
<1>7. /\ slots'[i] = Processed(i, d)
      /\ Processed(i, d).block_id = d.block_id
      /\ Processed(i, d).decoded
      /\ ~Found(i, d.block_id).decoded
  <2>1. /\ Stored(i, d).decoded = Found(i, d.block_id).decoded
        /\ Processed(i, d).block_id = d.block_id
        /\ Processed(i, d).decoded <=> (Stored(i, d).decoded \/ Decodes(Stored(i, d), d.k))
    BY <1>1, <1>3, AcceptedBlock DEF Accept
  <2> QED BY <1>1, <1>2, <1>3, <1>4, <2>1, AcceptSlots DEF Decodes
<1>8. ~slots[i].decoded
  <2>1. CASE Held(d.block_id)
    BY <1>7, <2>1 DEF Found
  <2>2. CASE ~Held(d.block_id)
    <3>1. ~Occupied(slots[i])
      BY <1>3, <2>2 DEF Accept, FindsHeld, FindsFree, Held
    <3> QED BY <1>1, <3>1 DEF IInv, DecodedPending
  <2> QED BY <2>1, <2>2
<1>9. \A j \in Received(slots'[i]) :
         slots'[i].shards[j].enc = [epoch |-> 0, number |-> delivered']
  <2>1. epoch' = 0
    BY <1>2 DEF FirstHalf, TunnelNext, Receiver, SendBlock, SenderRestart, ReceiverRestart,
                tvars, Receive, vars
  <2>2. FirstRunOnly'
    BY FirstRunStep
  <2> QED BY <1>5, <1>7, <2>1, <2>2 DEF FirstRunOnly, Received
<1> QED BY <1>5, <1>6, <1>7, <1>8, <1>9

\* What a receiver writes while the sender is in its first run is what was sent,
\* in order and unmixed: src/tx.c at one end, src/rx.c at the other, for every
\* window, network and number of restarts of the receiver.
THEOREM WritesWhatWasSent == TunnelSpec => WrittenAsSent
<1>1. TunnelInv /\ FirstRunOnly /\ SentOnly /\ [TunnelNext]_tvars
        => [FirstHalf /\ decode_success' > decode_success =>
              /\ delivered' \in (delivered + 1)..(next_id - 1)
              /\ \E i \in Slot :
                    /\ slots'[i].decoded /\ ~slots[i].decoded
                    /\ \A j \in Received(slots'[i]) :
                          slots'[i].shards[j].enc = [epoch |-> 0, number |-> delivered']]_tvars
  BY WriteStep
<1> QED BY <1>1, TunnelInvariance, SentInvariance, PTL DEF TunnelSpec, WrittenAsSent
=============================================================================
