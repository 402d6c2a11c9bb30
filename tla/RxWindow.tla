------------------------------ MODULE RxWindow ------------------------------
(***************************************************************************)
(* The receiver's sliding window: src/rx.c, driven by the TYPE_DATA branch *)
(* of the event loop in src/main.c.                                        *)
(*                                                                         *)
(* One datagram is handled by rx_window_insert, rx_window_try_decode and   *)
(* rx_window_advance, in that order and before anything else is read.  The *)
(* do-while loop of rx_window_advance reads the clock on every iteration,  *)
(* so each iteration is a step of its own (pc = "advance") and time may    *)
(* pass between two of them; no other datagram is handled until the loop   *)
(* has ended (pc = "idle").                                                *)
(*                                                                         *)
(* The network is the weakest one: any datagram of Datagram may arrive at  *)
(* any time, any number of times, in any order, or never.                  *)
(***************************************************************************)
EXTENDS Integers, FiniteSets

CONSTANTS
    IdMod,          \* number of block ids: 2^32 for the uint32_t of the code
    WindowSize,     \* cfg.window_size, clamped to 1..MAX_WINDOW by config_load
    MaxN,           \* MAX_N, the shards a slot can hold
    RxTimeout,      \* RX_BLOCK_TIMEOUT_US, in ticks of the model's clock
    MaxBack,        \* how far the wall clock may be set back, in ticks
    Shard,          \* what the window can tell apart of a shard's content
    Datagram,       \* the data datagrams that can arrive
    Decodable(_),   \* decode_block(shards) = 0: the shards are independent
    MaxAdvance      \* bound on the number of blocks the window moves over

Half == IdMod \div 2

ASSUME IdModAssumption == IdMod \in Nat /\ Half \in Nat /\ IdMod = 2 * Half
ASSUME WindowAssumption == WindowSize \in Nat \ {0} /\ WindowSize < Half
ASSUME TimeoutAssumption == RxTimeout \in Nat \ {0} /\ MaxBack \in Nat
ASSUME MaxNAssumption == MaxN \in Nat
ASSUME MaxAdvanceAssumption == MaxAdvance \in Nat
\* k is at least 1 in what a gateway sends (the clamp at config.c:162); the
\* check of transport_recv would also let a foreign datagram with k = 0 pass.
ASSUME DatagramAssumption ==
    Datagram \subseteq [block_id : 0..(IdMod - 1), shard_idx : Nat,
                        k : Nat \ {0}, shard : Shard]

VARIABLES
    slots,            \* win->slots[0 .. window_size - 1]
    base_id,          \* win->base_id
    pc,               \* "advance" while rx_window_advance is looping
    decode_success,   \* g_metrics.decode_success
    advanced,         \* history: how often base_id was incremented
    delivered,        \* history: unwrapped id of the last block written to TUN
    newest            \* history: highest unwrapped id a slot was given to

vars == <<slots, base_id, pc, decode_success, advanced, delivered, newest>>

BlockId  == 0..(IdMod - 1)
Slot     == 0..(WindowSize - 1)
ShardIdx == 0..(MaxN - 1)
ShardMap == UNION {[S -> Shard] : S \in SUBSET ShardIdx}

(***************************************************************************)
(* uint32_t arithmetic on block ids, and the int32_t reading of a          *)
(* difference.  The arguments of Wrap are at most one modulus away, so     *)
(* Wrap(x) is x % IdMod.                                                   *)
(***************************************************************************)
Wrap(x) == IF x >= IdMod THEN x - IdMod ELSE IF x < 0 THEN x + IdMod ELSE x

SDiff(a, b) == LET d == Wrap(a - b) IN IF d >= Half THEN d - IdMod ELSE d

\* The position of a block in the unwrapped sequence of blocks.
Unwrapped(id) == advanced + SDiff(id, base_id)

(***************************************************************************)
(* struct rx_block.  "shards" stands for the arrays shards[], received[]   *)
(* and for recv_count: its domain is the set of indices received.  "age"   *)
(* is now_us() - first_recv_us, which only matters up to the timeout.  The *)
(* clock is the wall clock, so the age of a block may become negative; the *)
(* code's difference is unsigned, and a negative age reads as a huge one.  *)
(***************************************************************************)
RxBlock == [block_id : BlockId, shards : ShardMap, decoded : BOOLEAN,
            age : (-MaxBack)..RxTimeout]

Received(s)  == DOMAIN s.shards
Occupied(s)  == Received(s) # {}
Expired(s)   == s.age < 0 \/ s.age >= RxTimeout
FreshBlock(id) == [block_id |-> id, shards |-> [i \in {} |-> i],
                   decoded |-> FALSE, age |-> 0]

Init ==
    /\ slots = [i \in Slot |-> FreshBlock(0)]
    /\ base_id = 0
    /\ pc = "idle"
    /\ decode_success = 0
    /\ advanced = 0
    /\ delivered = -1
    /\ newest = -1

-----------------------------------------------------------------------------
(***************************************************************************)
(* rx_find: the slot that holds the block, else the first free one.        *)
(***************************************************************************)
\* Mutant: blocks behind the base are not refused.
InWindowNoLowerBound(id) == SDiff(id, base_id) < WindowSize

InWindow(id) == SDiff(id, base_id) >= 0 /\ SDiff(id, base_id) < WindowSize
\* Mutant: any block that has a shard is taken for the one looked for.
HoldsAny(i, id) == Occupied(slots[i])

Holds(i, id) == Occupied(slots[i]) /\ slots[i].block_id = id
Held(id)     == \E i \in Slot : Holds(i, id)

FindsHeld(i, id) == Holds(i, id) /\ \A j \in 0..(i - 1) : ~Holds(j, id)
FindsFree(i, id) == /\ ~Held(id)
                    /\ ~Occupied(slots[i])
                    /\ \A j \in 0..(i - 1) : Occupied(slots[j])

NoSlot(id) == \/ ~InWindow(id)
              \/ ~Held(id) /\ \A i \in Slot : Occupied(slots[i])

\* The block rx_find returns: a free slot is cleared and given the id.
Found(i, id) == IF Held(id) THEN slots[i] ELSE FreshBlock(id)

(***************************************************************************)
(* rx_window_insert on the block found.                                    *)
(***************************************************************************)
Put(f, i, x) == [j \in DOMAIN f \cup {i} |-> IF j = i THEN x ELSE f[j]]

\* Mutant: the bounds check on the shard index is missing.
InsertUnchecked(s, d) ==
    IF s.decoded \/ d.shard_idx \in Received(s)
    THEN s
    ELSE [s EXCEPT !.shards = Put(s.shards, d.shard_idx, d.shard),
                   !.age = IF Occupied(s) THEN s.age ELSE 0]

Insert(s, d) ==
    IF s.decoded \/ d.shard_idx >= MaxN \/ d.shard_idx \in Received(s)
    THEN s
    ELSE [s EXCEPT !.shards = Put(s.shards, d.shard_idx, d.shard),
                   !.age = IF Occupied(s) THEN s.age ELSE 0]

(***************************************************************************)
(* try_decode: only the k received shards of lowest index are tried.       *)
(***************************************************************************)
Collected(s, k) ==
    LET first == {i \in Received(s) : Cardinality({j \in Received(s) : j < i}) < k}
    IN  [i \in first |-> s.shards[i]]

\* Mutant: one shard more than needed is waited for.
DecodesLate(s, k) == /\ ~s.decoded
                     /\ Cardinality(Received(s)) > k
                     /\ Decodable(Collected(s, k))

Decodes(s, k) == /\ ~s.decoded
                 /\ Cardinality(Received(s)) >= k
                 /\ Decodable(Collected(s, k))

\* The block's state after the insertion and the attempt to decode.
Stored(i, d)    == Insert(Found(i, d.block_id), d)
Processed(i, d) == [Stored(i, d) EXCEPT !.decoded = @ \/ Decodes(Stored(i, d), d.k)]

(***************************************************************************)
(* The TYPE_DATA branch of the event loop up to rx_window_advance.         *)
(***************************************************************************)
Discard(d) ==
    /\ NoSlot(d.block_id)
    /\ UNCHANGED <<slots, decode_success, delivered, newest>>

\* Mutant: a block beyond the window is given a slot too.
AcceptBeyond(i, d) ==
    /\ SDiff(d.block_id, base_id) >= 0
    /\ FindsHeld(i, d.block_id) \/ FindsFree(i, d.block_id)
    /\ slots' = [slots EXCEPT ![i] = Stored(i, d)]
    /\ UNCHANGED <<decode_success, delivered, newest>>

Accept(i, d) ==
    /\ InWindow(d.block_id)
    /\ FindsHeld(i, d.block_id) \/ FindsFree(i, d.block_id)
    /\ slots' = [slots EXCEPT ![i] = Processed(i, d)]
    /\ IF Decodes(Stored(i, d), d.k)
       THEN /\ decode_success' = decode_success + 1
            /\ delivered' = Unwrapped(d.block_id)
       ELSE UNCHANGED <<decode_success, delivered>>
    /\ newest' = IF Unwrapped(d.block_id) > newest THEN Unwrapped(d.block_id) ELSE newest

Receive(d) ==
    /\ pc = "idle"
    /\ advanced < MaxAdvance
    /\ pc' = "advance"
    /\ Discard(d) \/ \E i \in Slot : Accept(i, d)
    /\ UNCHANGED <<base_id, advanced>>

(***************************************************************************)
(* rx_window_advance, one iteration of the do-while loop.                  *)
(***************************************************************************)
AtBase(i)   == FindsHeld(i, base_id)
\* Mutant: only the timeout releases a block.
FinishedExpiredOnly(i) == Expired(slots[i])

Finished(i) == slots[i].decoded \/ Expired(slots[i])
\* Mutant: any other block counts as a newer one.
NewerUnsigned(i) == Occupied(slots[i]) /\ slots[i].block_id # base_id

\* Mutant: any block that has a shard counts as a newer one.
NewerAny(i) == Occupied(slots[i])

Newer(i)    == Occupied(slots[i]) /\ SDiff(slots[i].block_id, base_id) > 0

IncBase == base_id' = Wrap(base_id + 1) /\ advanced' = advanced + 1

\* Mutant: the slot is cleared and base_id is not incremented.
AdvanceFreeInPlace ==
    /\ pc = "advance"
    /\ \E i \in Slot : /\ AtBase(i) /\ Finished(i)
                       /\ slots' = [slots EXCEPT ![i] = FreshBlock(0)]
    /\ UNCHANGED <<base_id, advanced>>
    /\ UNCHANGED <<pc, decode_success, delivered, newest>>

\* The block at the base is decoded or too old: clear its slot and move on.
AdvanceFree ==
    /\ pc = "advance"
    /\ \E i \in Slot : /\ AtBase(i) /\ Finished(i)
                       /\ slots' = [slots EXCEPT ![i] = FreshBlock(0)]
    /\ IncBase
    /\ UNCHANGED <<pc, decode_success, delivered, newest>>

\* Mutant: found is set and base_id is not incremented.
AdvanceSkipInPlace ==
    /\ pc = "advance"
    /\ ~\E i \in Slot : AtBase(i) /\ Finished(i)
    /\ \E i \in Slot : Newer(i)
    /\ UNCHANGED vars

\* Otherwise move over the base as soon as any newer block has a shard.
AdvanceSkip ==
    /\ pc = "advance"
    /\ ~\E i \in Slot : AtBase(i) /\ Finished(i)
    /\ \E i \in Slot : Newer(i)
    /\ IncBase
    /\ UNCHANGED <<slots, pc, decode_success, delivered, newest>>

AdvanceStop ==
    /\ pc = "advance"
    /\ ~\E i \in Slot : AtBase(i) /\ Finished(i)
    /\ ~\E i \in Slot : Newer(i)
    /\ pc' = "idle"
    /\ UNCHANGED <<slots, base_id, decode_success, advanced, delivered, newest>>

Advance == AdvanceFree \/ AdvanceSkip \/ AdvanceStop

\* Time passes for every block that has a first shard.
Aged(s) == IF Occupied(s) /\ s.age < RxTimeout THEN [s EXCEPT !.age = @ + 1] ELSE s

Tick ==
    /\ slots' = [i \in Slot |-> Aged(slots[i])]
    /\ UNCHANGED <<base_id, pc, decode_success, advanced, delivered, newest>>

\* The wall clock is set back by a tick.  A block whose age is at the timeout
\* may be older than that.
Younger(s) == IF ~Occupied(s) THEN {s}
              ELSE {[s EXCEPT !.age = @ - 1]} \cup (IF s.age = RxTimeout THEN {s} ELSE {})

SetBack ==
    /\ \A i \in Slot : Occupied(slots[i]) => slots[i].age > -MaxBack
    /\ slots' \in {f \in [Slot -> UNION {Younger(slots[i]) : i \in Slot}] :
                      \A i \in Slot : f[i] \in Younger(slots[i])}
    /\ UNCHANGED <<base_id, pc, decode_success, advanced, delivered, newest>>

Next == (\E d \in Datagram : Receive(d)) \/ Advance \/ Tick \/ SetBack

Spec == Init /\ [][Next]_vars

(***************************************************************************)
(* The loop runs until it ends and the clock does not stop; nothing is     *)
(* assumed of the network.                                                 *)
(***************************************************************************)
FairSpec == Spec /\ WF_vars(Advance) /\ WF_vars(Tick)

-----------------------------------------------------------------------------
(***************************************************************************)
(* Properties.                                                             *)
(***************************************************************************)

\* Every variable keeps its type; in particular a slot never holds a shard
\* index of MAX_N or more (rx.c, idx >= MAX_N) and base_id stays a uint32_t.
TypeOK ==
    /\ slots \in [Slot -> RxBlock]
    /\ base_id \in BlockId
    /\ pc \in {"idle", "advance"}
    /\ decode_success \in Nat
    /\ advanced \in Nat
    /\ delivered \in Int
    /\ newest \in Int

\* A block is written to the TUN device at most once, and later blocks only
\* after earlier ones, whatever is lost, duplicated or reordered: each time
\* try_decode succeeds, the block comes after every block written before.
DeliveredOnce ==
    [][decode_success' # decode_success => delivered' > delivered]_vars

\* When the handler of a datagram has ended, no slot holds a decoded block:
\* rx_window_advance has given back the slot of every block that was decoded.
DecodedReleased == pc = "idle" => \A i \in Slot : ~slots[i].decoded

\* rx_window_advance never moves base_id further than just past the newest
\* block that was given a slot, so the next block sent is not behind it.  This
\* holds for the first half of the block ids: later a slot that was left
\* behind the base reads as newer (rx.c, the signed comparison).
BaseFollowsTraffic == advanced < Half => advanced - 1 <= newest

\* What makes BaseFollowsTraffic inductive: until half of the ids are used, no
\* slot holds a block that was never given one.
SlotsFollowTraffic ==
    advanced < Half =>
        \A i \in Slot : Occupied(slots[i]) =>
            Unwrapped(slots[i].block_id) \in 0..newest

\* A skipped block keeps its slot for good, but never the last slot: one slot
\* is always free or holds a block that is not behind the base, so the
\* receiver can go on, if only block by block.
LastSlotUsable ==
    \E i \in Slot : Occupied(slots[i]) => SDiff(slots[i].block_id, base_id) >= 0

\* The do-while loop of rx_window_advance ends.
AdvanceTerminates == (pc = "advance") ~> (pc = "idle")

\* The window is an ordered, at-most-once, lossy channel of blocks.
Channel == INSTANCE OrderedDelivery
           WITH decided <- advanced, last <- delivered, count <- decode_success,
                Horizon <- WindowSize
ImplementsOrderedDelivery == Channel!Spec

\* No two slots hold shards of the same block: rx_find looks for the block
\* in every slot before it takes a free one.
UniqueIds ==
    \A i, j \in Slot :
        (Occupied(slots[i]) /\ Occupied(slots[j])
            /\ slots[i].block_id = slots[j].block_id) => i = j

\* A decoded block is the last one delivered, it is not behind the base, and
\* the loop of rx_window_advance is still running.
DecodedPending ==
    \A j \in Slot : slots[j].decoded =>
        /\ pc = "advance"
        /\ Occupied(slots[j])
        /\ SDiff(slots[j].block_id, base_id) >= 0
        /\ Unwrapped(slots[j].block_id) = delivered

\* While the last block delivered is not behind the base its slot is decoded.
DeliveredPending ==
    delivered >= advanced => \E j \in Slot : slots[j].decoded

\* The invariant that makes rx_window_advance correct: it is inductive, and
\* DecodedReleased and the ordered channel follow from it.
IInv == TypeOK /\ UniqueIds /\ DecodedPending /\ DeliveredPending

-----------------------------------------------------------------------------
(***************************************************************************)
(* What the documents say of the window and the code does not do.          *)
(***************************************************************************)

\* README: "Incoming shards are placed into the corresponding window slot by
\* block_id".  Between two datagrams every block of the window can be stored.
SlotForEveryBlock ==
    pc = "idle" => \A id \in BlockId : InWindow(id) => ~NoSlot(id)
=============================================================================
