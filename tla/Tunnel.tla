------------------------------- MODULE Tunnel -------------------------------
(***************************************************************************)
(* A sending gateway, the network and a receiving gateway, both of which   *)
(* may be restarted (deploy/coding-gateway.service: Restart=on-failure).   *)
(*                                                                         *)
(* The sender numbers its blocks from 0 each time it starts (main.c,       *)
(* next_block_id) and nothing on the wire tells one run of it from the     *)
(* next: only the content of a shard depends on the run.  The receiver is  *)
(* RxWindow, which loses everything when it restarts.  The network loses,  *)
(* duplicates and reorders; a datagram is overtaken by MaxDelay blocks at  *)
(* most.                                                                   *)
(***************************************************************************)
EXTENDS RxWindow, Sequences

CONSTANTS
    MaxDelay,       \* how many blocks may overtake a datagram
    MaxSent,        \* bound on the blocks of one run of the sender
    MaxRestarts     \* bound on the restarts of each gateway

VARIABLES
    epoch,          \* the run of the sender: the restarts so far
    next_id,        \* the blocks the sender has sent since it started
    air,            \* the blocks whose datagrams may still arrive, oldest first
    lifetime        \* the restarts of the receiver so far

tvars == <<vars, epoch, next_id, air, lifetime>>

\* What was encoded: the blocks of two runs differ, whatever their ids.
Encoding == [epoch : Nat, number : BlockId]

ASSUME TunnelAssumption ==
    /\ MaxDelay \in Nat /\ MaxRestarts \in Nat
    /\ MaxSent \in Nat /\ MaxSent <= IdMod
    /\ \A s \in Shard : s.enc \in Encoding
    /\ \A d \in Datagram : d.block_id = d.shard.enc.number
    /\ \A d, e \in Datagram : d.block_id = e.block_id => d.k = e.k

TunnelInit ==
    /\ Init
    /\ epoch = 0
    /\ next_id = 0
    /\ air = << >>
    /\ lifetime = 0

InAir(e) == \E j \in DOMAIN air : air[j] = e

\* tx_block_flush and the increment of next_block_id: the next block is sent.
Newest(s) == IF Len(s) > MaxDelay + 1 THEN Tail(s) ELSE s

SendBlock ==
    /\ next_id < MaxSent
    /\ air' = Newest(Append(air, [epoch |-> epoch, number |-> next_id]))
    /\ next_id' = next_id + 1
    /\ UNCHANGED <<vars, epoch, lifetime>>

\* The sender starts again: the first block has id 0.
SenderRestart ==
    /\ epoch < MaxRestarts
    /\ epoch' = epoch + 1
    /\ next_id' = 0
    /\ UNCHANGED <<vars, air, lifetime>>

\* The receiver starts again: rx_window_init clears the window.
ReceiverRestart ==
    /\ lifetime < MaxRestarts
    /\ lifetime' = lifetime + 1
    /\ slots' = [i \in Slot |-> FreshBlock(0)]
    /\ base_id' = 0
    /\ pc' = "idle"
    /\ decode_success' = 0
    /\ advanced' = 0
    /\ delivered' = -1
    /\ newest' = -1
    /\ UNCHANGED <<epoch, next_id, air>>

Arrive == \E d \in Datagram : InAir(d.shard.enc) /\ Receive(d)

\* A step of the receiver alone.
Receiver ==
    /\ Arrive \/ Advance \/ Tick \/ SetBack
    /\ UNCHANGED <<epoch, next_id, air, lifetime>>

TunnelNext == SendBlock \/ SenderRestart \/ ReceiverRestart \/ Receiver

TunnelSpec == TunnelInit /\ [][TunnelNext]_tvars

-----------------------------------------------------------------------------
(***************************************************************************)
(* Properties.                                                             *)
(***************************************************************************)

\* Every variable keeps its type.
TunnelTypeOK ==
    /\ TypeOK
    /\ epoch \in Nat /\ lifetime \in Nat
    /\ next_id \in 0..MaxSent
    /\ air \in Seq(Encoding)

\* The invariant of RxWindow survives the restarts of both gateways.
TunnelInv == TunnelTypeOK /\ IInv

\* While the receiver runs, what it writes to the TUN device has rising
\* positions, although a restarted sender uses the same ids again.
WrittenInOrder ==
    [][decode_success' > decode_success => delivered' > delivered]_tvars

\* All shards of a slot are of one encoded block, the one its id names.
Intact(s) == \A j, l \in Received(s) :
                /\ s.shards[j].enc = s.shards[l].enc
                /\ s.shards[j].enc.number = s.block_id

\* As long as the sender has not restarted no block that try_decode writes
\* was put together from shards of different blocks, whatever stale shards
\* earlier blocks left in the slots.
IntactUntilSenderRestarts ==
    epoch = 0 => \A i \in Slot : Occupied(slots[i]) => Intact(slots[i])

\* Between two datagrams a slot with k shards of its block or more is one for
\* which decode_block failed: the shards it was given are dependent, and a shard
\* that makes them independent completes the block.
DecodedAtOnce ==
    pc = "idle" =>
        \A i \in Slot, d \in Datagram :
            (/\ Occupied(slots[i]) /\ slots[i].block_id = d.block_id
             /\ Cardinality(Received(slots[i])) >= d.k)
            => ~Decodable(Collected(slots[i], d.k))

\* What makes DecodedAtOnce inductive: a slot whose shards decode is decoded.
TriedAtOnce ==
    \A i \in Slot, d \in Datagram :
        (/\ Occupied(slots[i]) /\ slots[i].block_id = d.block_id
         /\ Cardinality(Received(slots[i])) >= d.k
         /\ Decodable(Collected(slots[i], d.k)))
        => slots[i].decoded

\* Nothing that is on its way or that the sender will send before its ids
\* run out is of a block of the window, and no slot can move the base.
Coming == {air[j].number : j \in DOMAIN air} \cup next_id..(MaxSent - 1)

Stalled ==
    /\ \A i \in Slot : ~Newer(i) /\ ~Holds(i, base_id)
    /\ \A id \in Coming : ~InWindow(id)

\* A receiver that missed window_size blocks in a row, in a burst of losses or
\* because it was restarted while the sender ran on, writes nothing more until
\* one of the gateways restarts: rx_find drops what is beyond the window and
\* the base does not follow.
StalledForEver ==
    [][Stalled => \/ Stalled' /\ decode_success' = decode_success
                  \/ epoch' # epoch \/ lifetime' # lifetime]_tvars

\* What makes IntactUntilSenderRestarts inductive.
FirstRunOnly ==
    epoch = 0 =>
        /\ \A j \in DOMAIN air : air[j].epoch = 0
        /\ \A i \in Slot : \A j \in Received(slots[i]) :
              slots[i].shards[j].enc = [epoch |-> 0, number |-> slots[i].block_id]

\* The sender is in its first run and has used at most half of its ids.
FirstHalf == epoch = 0 /\ next_id <= Half

\* End to end: while the sender is in its first run, what a receiver that runs
\* writes is a block that was sent, after all it wrote before, and it was put
\* together from shards of that very block, whatever the network lost, delayed
\* and repeated, and wherever in the sequence the receiver was restarted.
WrittenAsSent ==
    [][FirstHalf /\ decode_success' > decode_success =>
        /\ delivered' \in (delivered + 1)..(next_id - 1)
        /\ \E i \in Slot :
              /\ slots'[i].decoded /\ ~slots[i].decoded
              /\ \A j \in Received(slots'[i]) :
                    slots'[i].shards[j].enc = [epoch |-> 0, number |-> delivered']]_tvars

\* What makes WrittenAsSent inductive: in the first half of the ids the receiver
\* reads ids as the positions that they are, and knows of no block not sent.
SentOnly ==
    FirstHalf =>
        /\ base_id = advanced /\ advanced <= next_id
        /\ newest < next_id /\ delivered < next_id
        /\ \A j \in DOMAIN air : air[j].number < next_id
        /\ \A i \in Slot : Occupied(slots[i]) => slots[i].block_id < next_id

\* README: "Once any k linearly independent shards for a block have arrived,
\* Gaussian elimination over GF(2^8) recovers the original k packets".  What
\* try_decode writes was decoded from shards of one block.
RecoversOriginal ==
    \A i \in Slot : slots[i].decoded => Intact(slots[i])
=============================================================================
