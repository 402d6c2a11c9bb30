--------------------------- MODULE RxWindowProofs ---------------------------
(***************************************************************************)
(* Proofs about RxWindow for every number of block ids, every window size, *)
(* every set of datagrams and every notion of decodability.                *)
(*                                                                         *)
(* The argument.  Between two datagrams no slot is decoded and nothing     *)
(* delivered is ahead of the base (DecodedPending, DeliveredPending).  A   *)
(* datagram decodes at most its own block, and the loop of                 *)
(* rx_window_advance cannot end before it has passed that block: while the *)
(* block is ahead of the base it is "newer", at the base it is finished.   *)
(* IInv, defined in RxWindow and checked there by TLC, is inductive.       *)
(***************************************************************************)
EXTENDS RxWindow, FiniteSetTheorems, TLAPS

-----------------------------------------------------------------------------
(***************************************************************************)
(* Block id arithmetic.                                                    *)
(***************************************************************************)

\* Half of the block ids is a natural number that exceeds the window.
LEMMA HalfFacts ==
    Half \in Nat /\ IdMod = 2 * Half /\ IdMod \in Nat /\ WindowSize \in Nat
    /\ 0 < WindowSize /\ WindowSize < Half
BY IdModAssumption, WindowAssumption

\* Incrementing a uint32_t block id yields a block id.
LEMMA WrapInc == ASSUME NEW b \in BlockId PROVE Wrap(b + 1) \in BlockId
BY HalfFacts DEF Wrap, BlockId

\* The signed difference of two block ids lies in -2^31 .. 2^31 - 1.
LEMMA SDiffRange ==
    ASSUME NEW a \in BlockId, NEW b \in BlockId
    PROVE  SDiff(a, b) \in Int /\ -Half <= SDiff(a, b) /\ SDiff(a, b) < Half
BY HalfFacts DEF SDiff, Wrap, BlockId

\* Only equal block ids have difference zero.
LEMMA SDiffZero ==
    ASSUME NEW a \in BlockId, NEW b \in BlockId
    PROVE  SDiff(a, b) = 0 <=> a = b
BY HalfFacts DEF SDiff, Wrap, BlockId

\* Moving the base by one moves every block that is not behind it one closer.
LEMMA SDiffInc ==
    ASSUME NEW a \in BlockId, NEW b \in BlockId, SDiff(a, b) >= 0
    PROVE  SDiff(a, Wrap(b + 1)) = SDiff(a, b) - 1
BY HalfFacts DEF SDiff, Wrap, BlockId

-----------------------------------------------------------------------------
(***************************************************************************)
(* What handling a datagram does to a block.                               *)
(***************************************************************************)

\* A cleared slot is a block without shards.
LEMMA FreshType ==
    ASSUME NEW id \in BlockId
    PROVE  /\ FreshBlock(id) \in RxBlock
           /\ FreshBlock(id).block_id = id
           /\ ~FreshBlock(id).decoded
           /\ ~Occupied(FreshBlock(id))
<1>1. [i \in {} |-> i] \in [{} -> Shard]
  OBVIOUS
<1>2. [i \in {} |-> i] \in ShardMap
  BY <1>1 DEF ShardMap
<1>3. 0 \in (-MaxBack)..RxTimeout
  BY TimeoutAssumption
<1> QED BY <1>2, <1>3 DEF FreshBlock, RxBlock, Occupied, Received

\* Storing one more shard keeps the map of shards well typed.
LEMMA PutType ==
    ASSUME NEW f \in ShardMap, NEW i \in ShardIdx, NEW x \in Shard
    PROVE  Put(f, i, x) \in ShardMap
<1>1. PICK S \in SUBSET ShardIdx : f \in [S -> Shard]
  BY DEF ShardMap
<1>2. Put(f, i, x) \in [S \cup {i} -> Shard]
  BY <1>1 DEF Put
<1>3. S \cup {i} \in SUBSET ShardIdx
  OBVIOUS
<1> QED BY <1>2, <1>3 DEF ShardMap

\* rx_window_insert keeps the block's id and decoded flag.
LEMMA InsertType ==
    ASSUME NEW s \in RxBlock, NEW d \in Datagram
    PROVE  /\ Insert(s, d) \in RxBlock
           /\ Insert(s, d).block_id = s.block_id
           /\ Insert(s, d).decoded = s.decoded
<1>1. d.shard_idx \in Nat /\ d.shard \in Shard
  BY DatagramAssumption
<1>2. CASE s.decoded \/ d.shard_idx >= MaxN \/ d.shard_idx \in Received(s)
  BY <1>2 DEF Insert
<1>3. CASE ~(s.decoded \/ d.shard_idx >= MaxN \/ d.shard_idx \in Received(s))
  <2>1. d.shard_idx \in ShardIdx
    BY <1>1, <1>3, MaxNAssumption DEF ShardIdx
  <2>2. Put(s.shards, d.shard_idx, d.shard) \in ShardMap
    BY <1>1, <2>1, PutType DEF RxBlock
  <2>3. (IF Occupied(s) THEN s.age ELSE 0) \in (-MaxBack)..RxTimeout
    BY TimeoutAssumption DEF RxBlock
  <2> QED BY <1>3, <2>2, <2>3 DEF Insert, RxBlock
<1> QED BY <1>2, <1>3

\* A block that decodes has shards: at least k of them, and k is positive.
LEMMA DecodesOccupied ==
    ASSUME NEW s \in RxBlock, NEW k \in Nat \ {0}, Decodes(s, k)
    PROVE  Occupied(s)
<1>1. SUFFICES ASSUME Received(s) = {} PROVE FALSE
  BY DEF Occupied
<1>2. Cardinality(Received(s)) = 0
  BY <1>1, FS_EmptySet
<1> QED BY <1>2 DEF Decodes

\* What Accept writes to its slot.
LEMMA AcceptedBlock ==
    ASSUME TypeOK, NEW i \in Slot, NEW d \in Datagram,
           FindsHeld(i, d.block_id) \/ FindsFree(i, d.block_id)
    PROVE  /\ Stored(i, d) \in RxBlock
           /\ Stored(i, d).block_id = d.block_id
           /\ Stored(i, d).decoded = Found(i, d.block_id).decoded
           /\ Processed(i, d) \in RxBlock
           /\ Processed(i, d).block_id = d.block_id
           /\ Processed(i, d).shards = Stored(i, d).shards
           /\ Processed(i, d).decoded
                <=> (Found(i, d.block_id).decoded \/ Decodes(Stored(i, d), d.k))
<1>1. d.block_id \in BlockId
  BY DatagramAssumption DEF BlockId
<1>2. Found(i, d.block_id) \in RxBlock /\ Found(i, d.block_id).block_id = d.block_id
  <2>1. CASE FindsHeld(i, d.block_id)
    BY <2>1 DEF FindsHeld, Held, Holds, Found, TypeOK
  <2>2. CASE FindsFree(i, d.block_id)
    BY <1>1, <2>2, FreshType DEF FindsFree, Found
  <2> QED BY <2>1, <2>2
<1>3. /\ Stored(i, d) \in RxBlock
      /\ Stored(i, d).block_id = d.block_id
      /\ Stored(i, d).decoded = Found(i, d.block_id).decoded
  BY <1>2, InsertType DEF Stored
<1>4. Stored(i, d).decoded \in BOOLEAN
  BY <1>3 DEF RxBlock
<1>5. Decodes(Stored(i, d), d.k) \in BOOLEAN
  BY DEF Decodes
<1>6. Processed(i, d) =
        [Stored(i, d) EXCEPT !.decoded =
            Stored(i, d).decoded \/ Decodes(Stored(i, d), d.k)]
  BY <1>3 DEF Processed, RxBlock
<1>7. (Stored(i, d).decoded \/ Decodes(Stored(i, d), d.k)) \in BOOLEAN
  BY <1>4, <1>5
<1> HIDE DEF Stored, Decodes
<1>8. /\ Processed(i, d) \in RxBlock
      /\ Processed(i, d).block_id = d.block_id
      /\ Processed(i, d).shards = Stored(i, d).shards
      /\ Processed(i, d).decoded =
            (Stored(i, d).decoded \/ Decodes(Stored(i, d), d.k))
  BY <1>3, <1>6, <1>7 DEF RxBlock
<1> QED BY <1>3, <1>8

-----------------------------------------------------------------------------
(***************************************************************************)
(* Inductiveness.                                                          *)
(***************************************************************************)

\* rx_window_init establishes the invariant.
LEMMA InitInv == Init => IInv
<1> SUFFICES ASSUME Init PROVE IInv
  OBVIOUS
<1>1. 0 \in BlockId
  BY HalfFacts DEF BlockId
<1>2. TypeOK
  BY <1>1, FreshType DEF Init, TypeOK
<1>3. \A i \in Slot : ~slots[i].decoded /\ ~Occupied(slots[i])
  BY <1>1, FreshType DEF Init
<1>4. UniqueIds /\ DecodedPending
  BY <1>3 DEF UniqueIds, DecodedPending
<1>5. DeliveredPending
  BY DEF Init, DeliveredPending
<1> QED BY <1>2, <1>4, <1>5 DEF IInv

\* Between two datagrams nothing is decoded and everything delivered is
\* behind the base.
LEMMA IdleFacts ==
    ASSUME IInv, pc = "idle"
    PROVE  (\A j \in Slot : ~slots[j].decoded) /\ delivered < advanced
<1>1. \A j \in Slot : ~slots[j].decoded
  BY DEF IInv, DecodedPending
<1> QED BY <1>1 DEF IInv, DeliveredPending, TypeOK

\* A datagram for which rx_find has no slot.
LEMMA DiscardInv ==
    ASSUME IInv, NEW d \in Datagram, Receive(d), Discard(d)
    PROVE  IInv'
<1>1. UNCHANGED <<slots, base_id, decode_success, advanced, delivered>> /\ pc' = "advance"
  BY DEF Receive, Discard
<1>2. TypeOK'
  BY <1>1 DEF IInv, TypeOK, Discard, Receive
<1>3. UniqueIds'
  BY <1>1 DEF IInv, UniqueIds
<1>4. DecodedPending'
  BY <1>1, IdleFacts DEF Receive, DecodedPending
<1>5. DeliveredPending'
  BY <1>1 DEF IInv, DeliveredPending
<1> QED BY <1>2, <1>3, <1>4, <1>5 DEF IInv

\* What an accepted datagram does to the slots.
LEMMA AcceptSlots ==
    ASSUME IInv, NEW d \in Datagram, Receive(d), NEW i \in Slot, Accept(i, d)
    PROVE  /\ slots'[i] = Processed(i, d)
           /\ \A j \in Slot \ {i} : slots'[j] = slots[j]
           /\ \A j \in Slot \ {i} : ~Holds(j, d.block_id)
           /\ slots'[i].decoded <=> Decodes(Stored(i, d), d.k)
           /\ d.block_id \in BlockId
           /\ Unwrapped(d.block_id) \in advanced..(advanced + WindowSize - 1)
<1>1. d.block_id \in BlockId
  BY DatagramAssumption DEF BlockId
<1>2. /\ slots'[i] = Processed(i, d)
      /\ \A j \in Slot \ {i} : slots'[j] = slots[j]
  BY DEF Accept, IInv, TypeOK
<1>3. \A j \in Slot \ {i} : ~Holds(j, d.block_id)
  BY DEF Accept, FindsHeld, FindsFree, Held, Holds, IInv, UniqueIds
<1>4. ~Found(i, d.block_id).decoded
  BY <1>1, IdleFacts, FreshType DEF Receive, Found
<1>5. slots'[i].decoded <=> Decodes(Stored(i, d), d.k)
  BY <1>2, <1>4, AcceptedBlock DEF Accept, IInv
<1>6. Unwrapped(d.block_id) \in advanced..(advanced + WindowSize - 1)
  BY <1>1, HalfFacts, SDiffRange DEF Accept, InWindow, Unwrapped, IInv, TypeOK
<1> QED BY <1>1, <1>2, <1>3, <1>5, <1>6

\* A datagram whose shard is stored, with or without a successful decoding.
LEMMA AcceptInv ==
    ASSUME IInv, NEW d \in Datagram, Receive(d), NEW i \in Slot, Accept(i, d)
    PROVE  IInv'
<1> USE AcceptSlots
<1>1. UNCHANGED <<base_id, advanced>> /\ pc' = "advance"
  BY DEF Receive
<1>2. Processed(i, d) \in RxBlock /\ Processed(i, d).block_id = d.block_id
  BY AcceptedBlock DEF Accept, IInv
<1>3. TypeOK'
  <2>1. slots' \in [Slot -> RxBlock]
    BY <1>2 DEF Accept, IInv, TypeOK
  <2>2. Unwrapped(d.block_id) \in Int
    BY DEF IInv, TypeOK
  <2>3. decode_success' \in Nat /\ delivered' \in Int /\ newest' \in Int
    BY <2>2 DEF Accept, IInv, TypeOK
  <2> QED BY <1>1, <2>1, <2>3 DEF IInv, TypeOK
<1>4. UniqueIds'
  <2> SUFFICES ASSUME NEW j \in Slot, NEW l \in Slot,
                      Occupied(slots'[j]), Occupied(slots'[l]),
                      slots'[j].block_id = slots'[l].block_id
               PROVE  j = l
    BY DEF UniqueIds
  <2>1. CASE j # i /\ l # i
    BY <2>1 DEF IInv, UniqueIds
  <2>2. CASE j = i /\ l # i
    BY <1>2, <2>2 DEF Holds
  <2>3. CASE j # i /\ l = i
    BY <1>2, <2>3 DEF Holds
  <2> QED BY <2>1, <2>2, <2>3
<1>5. DecodedPending'
  <2> SUFFICES ASSUME NEW j \in Slot, slots'[j].decoded
               PROVE  /\ pc' = "advance"
                      /\ Occupied(slots'[j])
                      /\ SDiff(slots'[j].block_id, base_id') >= 0
                      /\ advanced' + SDiff(slots'[j].block_id, base_id') = delivered'
    BY DEF DecodedPending, Unwrapped
  <2>1. j = i
    BY IdleFacts DEF Receive
  <2>2. Decodes(Stored(i, d), d.k)
    BY <2>1
  <2>3. Occupied(slots'[j])
    <3>1. d.k \in Nat \ {0}
      BY DatagramAssumption
    <3>2. Occupied(Stored(i, d))
      BY <2>2, <3>1, AcceptedBlock, DecodesOccupied DEF Accept, IInv
    <3>3. slots'[j] = Processed(i, d)
      BY <2>1
    <3>4. Processed(i, d).shards = Stored(i, d).shards
      BY AcceptedBlock DEF Accept, IInv
    <3> QED BY ONLY <3>2, <3>3, <3>4 DEF Occupied, Received
  <2>4. delivered' = Unwrapped(d.block_id)
    BY <2>2 DEF Accept
  <2> QED BY <1>1, <1>2, <2>1, <2>3, <2>4 DEF Accept, InWindow, Unwrapped
<1>6. DeliveredPending'
  <2>1. CASE Decodes(Stored(i, d), d.k)
    BY <2>1 DEF DeliveredPending
  <2>2. CASE ~Decodes(Stored(i, d), d.k)
    <3>1. delivered' = delivered
      BY <2>2 DEF Accept
    <3> QED BY <1>1, <3>1, IdleFacts DEF Receive, DeliveredPending, IInv, TypeOK
  <2> QED BY <2>1, <2>2
<1> QED BY <1>3, <1>4, <1>5, <1>6 DEF IInv

\* AtBase finds the only slot that holds the block at the base.
LEMMA AtBaseUnique ==
    ASSUME IInv, NEW i \in Slot
    PROVE  AtBase(i) <=> Holds(i, base_id)
<1>1. \A j \in 0..(i - 1) : j \in Slot /\ j # i
  BY HalfFacts DEF Slot
<1>2. ASSUME Holds(i, base_id), NEW j \in 0..(i - 1) PROVE ~Holds(j, base_id)
  BY <1>1, <1>2 DEF IInv, UniqueIds, Holds
<1> QED BY <1>2 DEF AtBase, FindsHeld

\* A decoded block that the loop has not freed is ahead of the base.
LEMMA DecodedAhead ==
    ASSUME IInv, NEW j \in Slot, slots[j].decoded, ~(AtBase(j) /\ Finished(j))
    PROVE  /\ SDiff(slots[j].block_id, base_id) > 0
           /\ Newer(j)
           /\ SDiff(slots[j].block_id, Wrap(base_id + 1)) >= 0
           /\ advanced + 1 + SDiff(slots[j].block_id, Wrap(base_id + 1)) = delivered
<1>1. slots[j].block_id \in BlockId /\ base_id \in BlockId /\ advanced \in Nat
  BY DEF IInv, TypeOK, RxBlock
<1>2. /\ Occupied(slots[j]) /\ SDiff(slots[j].block_id, base_id) >= 0
      /\ advanced + SDiff(slots[j].block_id, base_id) = delivered
  BY DEF IInv, DecodedPending, Unwrapped
<1>3. slots[j].block_id # base_id
  BY <1>2, AtBaseUnique DEF Finished, Holds
<1>4. SDiff(slots[j].block_id, base_id) > 0
  BY <1>1, <1>2, <1>3, SDiffZero, SDiffRange
<1>5. /\ SDiff(slots[j].block_id, base_id) \in Int
      /\ SDiff(slots[j].block_id, Wrap(base_id + 1)) = SDiff(slots[j].block_id, base_id) - 1
  BY <1>1, <1>2, SDiffInc, SDiffRange
<1> QED BY <1>1, <1>2, <1>4, <1>5 DEF Newer

\* The iteration of rx_window_advance that clears the slot at the base.
LEMMA AdvanceFreeInv == ASSUME IInv, AdvanceFree PROVE IInv'
<1>1. PICK i \in Slot : /\ AtBase(i) /\ Finished(i)
                        /\ slots' = [slots EXCEPT ![i] = FreshBlock(0)]
  BY DEF AdvanceFree
<1>2. 0 \in BlockId
  BY HalfFacts DEF BlockId
<1>3. /\ pc' = "advance" /\ pc = "advance"
      /\ base_id' = Wrap(base_id + 1) /\ advanced' = advanced + 1
      /\ UNCHANGED <<decode_success, delivered, newest>>
  BY DEF AdvanceFree, IncBase
<1>4. /\ slots'[i] = FreshBlock(0)
      /\ \A j \in Slot \ {i} : slots'[j] = slots[j]
      /\ ~slots'[i].decoded /\ ~Occupied(slots'[i])
  BY <1>1, <1>2, FreshType DEF IInv, TypeOK
<1>5. \A j \in Slot \ {i} : ~AtBase(j)
  BY <1>1, AtBaseUnique DEF Holds, IInv, UniqueIds
<1>6. TypeOK'
  <2>1. slots' \in [Slot -> RxBlock]
    BY <1>1, <1>2, FreshType DEF IInv, TypeOK
  <2> QED BY <1>3, <2>1, WrapInc DEF IInv, TypeOK
<1>7. UniqueIds'
  BY <1>4 DEF IInv, UniqueIds
<1>8. DecodedPending'
  <2> SUFFICES ASSUME NEW j \in Slot, slots'[j].decoded
               PROVE  /\ pc' = "advance"
                      /\ Occupied(slots'[j])
                      /\ SDiff(slots'[j].block_id, base_id') >= 0
                      /\ advanced' + SDiff(slots'[j].block_id, base_id') = delivered'
    BY DEF DecodedPending, Unwrapped
  <2>1. j # i /\ slots'[j] = slots[j] /\ slots[j].decoded
    BY <1>4
  <2>2. Occupied(slots[j])
    BY <2>1 DEF IInv, DecodedPending
  <2> QED BY <1>3, <1>5, <2>1, <2>2, DecodedAhead
<1>9. DeliveredPending'
  <2> SUFFICES ASSUME delivered >= advanced + 1
               PROVE  \E j \in Slot : slots'[j].decoded
    BY <1>3 DEF DeliveredPending
  <2>1. PICK j \in Slot : slots[j].decoded
    BY DEF IInv, DeliveredPending, TypeOK
  <2>2. slots[i].block_id = base_id
    BY <1>1, AtBaseUnique DEF Holds
  <2>3. SDiff(base_id, base_id) = 0
    BY SDiffZero DEF IInv, TypeOK
  <2>4. j # i
    BY <2>1, <2>2, <2>3 DEF IInv, DecodedPending, Unwrapped, TypeOK
  <2> QED BY <1>4, <2>1, <2>4
<1> QED BY <1>6, <1>7, <1>8, <1>9 DEF IInv

\* The iteration of rx_window_advance that moves over the base.
LEMMA AdvanceSkipInv == ASSUME IInv, AdvanceSkip PROVE IInv'
<1>1. /\ pc' = "advance"
      /\ base_id' = Wrap(base_id + 1) /\ advanced' = advanced + 1
      /\ UNCHANGED <<slots, decode_success, delivered, newest>>
  BY DEF AdvanceSkip, IncBase
<1>2. TypeOK'
  BY <1>1, WrapInc DEF IInv, TypeOK
<1>3. UniqueIds'
  BY <1>1 DEF IInv, UniqueIds
<1>4. DecodedPending'
  <2> SUFFICES ASSUME NEW j \in Slot, slots[j].decoded
               PROVE  /\ Occupied(slots[j])
                      /\ SDiff(slots[j].block_id, Wrap(base_id + 1)) >= 0
                      /\ advanced + 1 + SDiff(slots[j].block_id, Wrap(base_id + 1))
                            = delivered
    BY <1>1 DEF DecodedPending, Unwrapped
  <2>1. ~(AtBase(j) /\ Finished(j))
    BY DEF AdvanceSkip
  <2>2. Occupied(slots[j])
    BY DEF IInv, DecodedPending
  <2> QED BY <2>1, <2>2, DecodedAhead
<1>5. DeliveredPending'
  BY <1>1 DEF IInv, DeliveredPending, TypeOK
<1> QED BY <1>2, <1>3, <1>4, <1>5 DEF IInv

\* The last iteration of rx_window_advance: no decoded block is left.
LEMMA AdvanceStopInv == ASSUME IInv, AdvanceStop PROVE IInv'
<1>1. /\ pc' = "idle"
      /\ UNCHANGED <<slots, base_id, decode_success, advanced, delivered, newest>>
  BY DEF AdvanceStop
<1>2. \A j \in Slot : ~slots[j].decoded
  BY DecodedAhead DEF AdvanceStop
<1>3. TypeOK'
  BY <1>1 DEF IInv, TypeOK
<1>4. UniqueIds' /\ DecodedPending' /\ DeliveredPending'
  BY <1>1, <1>2 DEF IInv, UniqueIds, DecodedPending, DeliveredPending
<1> QED BY <1>3, <1>4 DEF IInv

\* A step that changes nothing but the ages of blocks preserves the invariant.
LEMMA AgesOnly ==
    ASSUME IInv, slots' \in [Slot -> RxBlock],
           \A i \in Slot : /\ slots'[i].block_id = slots[i].block_id
                           /\ slots'[i].shards = slots[i].shards
                           /\ slots'[i].decoded = slots[i].decoded,
           UNCHANGED <<base_id, pc, decode_success, advanced, delivered, newest>>
    PROVE  IInv'
<1>1. TypeOK'
  BY DEF IInv, TypeOK
<1>2. \A i \in Slot : Occupied(slots'[i]) <=> Occupied(slots[i])
  BY DEF Occupied, Received
<1>3. UniqueIds'
  BY <1>2 DEF IInv, UniqueIds
<1>4. DecodedPending'
  BY <1>2 DEF IInv, DecodedPending, Unwrapped
<1>5. DeliveredPending'
  BY DEF IInv, DeliveredPending
<1> QED BY <1>1, <1>3, <1>4, <1>5 DEF IInv

\* The age of a block may be set to any age, and nothing else changes then.
LEMMA AgeType ==
    ASSUME NEW s \in RxBlock, NEW a \in (-MaxBack)..RxTimeout
    PROVE  /\ [s EXCEPT !.age = a] \in RxBlock
           /\ [s EXCEPT !.age = a].block_id = s.block_id
           /\ [s EXCEPT !.age = a].shards = s.shards
           /\ [s EXCEPT !.age = a].decoded = s.decoded
BY DEF RxBlock

\* The passing of time changes nothing but ages.
LEMMA TickBlocks ==
    ASSUME IInv, Tick
    PROVE  /\ slots' \in [Slot -> RxBlock]
           /\ \A i \in Slot : /\ slots'[i].block_id = slots[i].block_id
                              /\ slots'[i].shards = slots[i].shards
                              /\ slots'[i].decoded = slots[i].decoded
<1>1. slots' = [i \in Slot |-> Aged(slots[i])]
  BY DEF Tick
<1>2. ASSUME NEW i \in Slot
      PROVE  /\ slots'[i] \in RxBlock
             /\ slots'[i].block_id = slots[i].block_id
             /\ slots'[i].shards = slots[i].shards
             /\ slots'[i].decoded = slots[i].decoded
  <2>1. slots[i] \in RxBlock /\ slots'[i] = Aged(slots[i])
    BY <1>1 DEF IInv, TypeOK
  <2>2. CASE Occupied(slots[i]) /\ slots[i].age < RxTimeout
    <3>1. slots[i].age + 1 \in (-MaxBack)..RxTimeout
      BY <2>1, <2>2, TimeoutAssumption DEF RxBlock
    <3>2. slots'[i] = [slots[i] EXCEPT !.age = slots[i].age + 1]
      BY <2>1, <2>2 DEF Aged, RxBlock
    <3> QED BY <2>1, <3>1, <3>2, AgeType
  <2>3. CASE ~(Occupied(slots[i]) /\ slots[i].age < RxTimeout)
    BY <2>1, <2>3 DEF Aged
  <2> QED BY <2>2, <2>3
<1> QED BY <1>1, <1>2

\* Setting the clock back changes nothing but ages.
LEMMA SetBackBlocks ==
    ASSUME IInv, SetBack
    PROVE  /\ slots' \in [Slot -> RxBlock]
           /\ \A i \in Slot : /\ slots'[i].block_id = slots[i].block_id
                              /\ slots'[i].shards = slots[i].shards
                              /\ slots'[i].decoded = slots[i].decoded
<1>1. /\ DOMAIN slots' = Slot /\ slots' = [i \in Slot |-> slots'[i]]
      /\ \A i \in Slot : slots'[i] \in Younger(slots[i])
      /\ \A i \in Slot : Occupied(slots[i]) => slots[i].age > -MaxBack
  BY DEF SetBack
<1>2. ASSUME NEW i \in Slot
      PROVE  /\ slots'[i] \in RxBlock
             /\ slots'[i].block_id = slots[i].block_id
             /\ slots'[i].shards = slots[i].shards
             /\ slots'[i].decoded = slots[i].decoded
  <2>1. slots[i] \in RxBlock
    BY DEF IInv, TypeOK
  <2>2. CASE slots'[i] = slots[i]
    BY <2>1, <2>2
  <2>3. CASE slots'[i] # slots[i]
    <3>1. Occupied(slots[i]) /\ slots'[i] = [slots[i] EXCEPT !.age = slots[i].age - 1]
      BY <1>1, <2>1, <2>3 DEF Younger, RxBlock
    <3>2. slots[i].age - 1 \in (-MaxBack)..RxTimeout
      BY <1>1, <2>1, <3>1, TimeoutAssumption DEF RxBlock
    <3> QED BY <2>1, <3>1, <3>2, AgeType
  <2> QED BY <2>2, <2>3
<1> QED BY <1>1, <1>2

\* Every step of the receiver preserves the invariant.
LEMMA NextInv == IInv /\ [Next]_vars => IInv'
<1> SUFFICES ASSUME IInv, [Next]_vars PROVE IInv'
  OBVIOUS
<1>1. ASSUME NEW d \in Datagram, Receive(d) PROVE IInv'
  BY <1>1, DiscardInv, AcceptInv DEF Receive
<1>2. CASE Advance
  BY <1>2, AdvanceFreeInv, AdvanceSkipInv, AdvanceStopInv DEF Advance
<1>3. CASE Tick
  BY <1>3, TickBlocks, AgesOnly DEF Tick
<1>4. CASE SetBack
  BY <1>4, SetBackBlocks, AgesOnly DEF SetBack
<1>5. CASE UNCHANGED vars
  BY <1>5 DEF vars, IInv, TypeOK, UniqueIds, DecodedPending, DeliveredPending, Unwrapped
<1> QED BY <1>1, <1>2, <1>3, <1>4, <1>5 DEF Next

-----------------------------------------------------------------------------
(***************************************************************************)
(* The theorems.                                                           *)
(***************************************************************************)

\* IInv is an invariant of the receiver.
THEOREM Invariance == Spec => []IInv
<1>1. Init => IInv
  BY InitInv
<1>2. IInv /\ [Next]_vars => IInv'
  BY NextInv
<1> QED BY <1>1, <1>2, PTL DEF Spec

\* The receiver's state keeps its types: rx_window_insert never writes past
\* shards[MAX_N - 1] and base_id stays a uint32_t.
THEOREM TypeCorrect == Spec => []TypeOK
<1>1. IInv => TypeOK
  BY DEF IInv
<1> QED BY <1>1, Invariance, PTL

\* rx_window_advance gives back the slot of every decoded block before the
\* next datagram is read: decoded blocks never use up the window.
THEOREM DecodedAreReleased == Spec => []DecodedReleased
<1>1. IInv => DecodedReleased
  BY IdleFacts DEF DecodedReleased
<1> QED BY <1>1, Invariance, PTL

\* A step that writes a block to the TUN device comes when everything
\* written before is behind the base and delivers a block of the window; a
\* step that moves the base writes nothing.
LEMMA StepMaps == IInv /\ [Next]_vars => [Channel!Next]_(Channel!cvars)
<1> SUFFICES ASSUME IInv, [Next]_vars
             PROVE  Channel!Next \/ UNCHANGED Channel!cvars
  OBVIOUS
<1>1. ASSUME NEW d \in Datagram, Receive(d), Discard(d)
      PROVE  UNCHANGED Channel!cvars
  BY <1>1 DEF Receive, Discard, Channel!cvars
<1>2. ASSUME NEW d \in Datagram, Receive(d), NEW i \in Slot, Accept(i, d)
      PROVE  Channel!Next \/ UNCHANGED Channel!cvars
  <2>1. CASE ~Decodes(Stored(i, d), d.k)
    BY <1>2, <2>1 DEF Receive, Accept, Channel!cvars
  <2>2. CASE Decodes(Stored(i, d), d.k)
    <3>1. delivered < advanced
      BY <1>2, IdleFacts DEF Receive
    <3>2. /\ delivered' = Unwrapped(d.block_id)
          /\ decode_success' = decode_success + 1 /\ UNCHANGED advanced
      BY <1>2, <2>2 DEF Receive, Accept
    <3>3. Unwrapped(d.block_id) \in advanced..(advanced + WindowSize - 1)
      BY <1>2, AcceptSlots
    <3> QED BY <3>1, <3>2, <3>3 DEF Channel!Next, Channel!Deliver
  <2> QED BY <2>1, <2>2
<1>3. CASE Advance
  BY <1>3 DEF Advance, AdvanceFree, AdvanceSkip, AdvanceStop, IncBase,
              Channel!Next, Channel!Decide, Channel!cvars
<1>4. CASE Tick \/ SetBack
  BY <1>4 DEF Tick, SetBack, Channel!cvars
<1>5. CASE UNCHANGED vars
  BY <1>5 DEF vars, Channel!cvars
<1> QED BY <1>1, <1>2, <1>3, <1>4, <1>5 DEF Next, Receive

\* The receiver implements the ordered, at-most-once, lossy channel, whatever
\* the network does and wherever the block ids wrap around.
THEOREM Refinement == Spec => ImplementsOrderedDelivery
<1>1. Init => Channel!Init
  BY DEF Init, Channel!Init
<1>2. IInv /\ [Next]_vars => [Channel!Next]_(Channel!cvars)
  BY StepMaps
<1> QED BY <1>1, <1>2, Invariance, PTL DEF Spec, ImplementsOrderedDelivery, Channel!Spec

\* Every block is written to the TUN device at most once, and after every
\* earlier block that is written.
THEOREM DeliveredAtMostOnce == Spec => DeliveredOnce
<1>1. IInv /\ [Next]_vars
        => [decode_success' # decode_success => delivered' > delivered]_vars
  <2> SUFFICES ASSUME IInv, [Next]_vars, decode_success' # decode_success
               PROVE  delivered' > delivered
    OBVIOUS
  <2>1. Channel!Next \/ UNCHANGED Channel!cvars
    BY StepMaps
  <2>2. Channel!Deliver
    BY <2>1 DEF Channel!Next, Channel!Decide, Channel!cvars
  <2> QED BY <2>2, HalfFacts DEF Channel!Deliver, IInv, TypeOK
<1> QED BY <1>1, Invariance, PTL DEF Spec, DeliveredOnce

\* Every step keeps a usable slot: the base moves over a block only when it
\* frees the block's slot or because of a newer block in another one.
LEMMA LastSlotStep ==
    ASSUME IInv, LastSlotUsable, [Next]_vars
    PROVE  LastSlotUsable'
<1>1. PICK u \in Slot : Occupied(slots[u]) => SDiff(slots[u].block_id, base_id) >= 0
  BY DEF LastSlotUsable
<1>2. ASSUME NEW d \in Datagram, Receive(d) PROVE LastSlotUsable'
  <2>1. UNCHANGED base_id
    BY <1>2 DEF Receive
  <2>2. CASE Discard(d)
    BY <1>1, <2>1, <2>2 DEF Discard, LastSlotUsable
  <2>3. ASSUME NEW i \in Slot, Accept(i, d) PROVE LastSlotUsable'
    <3>a. Processed(i, d).block_id = d.block_id
      BY <2>3, AcceptedBlock DEF Accept, IInv
    <3>b. slots'[i] = Processed(i, d)
      BY <1>2, <2>3, AcceptSlots
    <3>1. slots'[i].block_id = d.block_id
      BY <3>a, <3>b
    <3> QED BY <2>1, <2>3, <3>1 DEF Accept, InWindow, LastSlotUsable
  <2> QED BY <1>2, <2>2, <2>3 DEF Receive
<1>3. CASE AdvanceFree
  <2>1. PICK i \in Slot : slots' = [slots EXCEPT ![i] = FreshBlock(0)]
    BY <1>3 DEF AdvanceFree
  <2>2. 0 \in BlockId /\ slots'[i] = FreshBlock(0)
    BY <2>1, HalfFacts DEF BlockId, IInv, TypeOK
  <2> QED BY <2>2, FreshType DEF LastSlotUsable
<1>4. CASE AdvanceSkip
  <2>1. PICK i \in Slot : Newer(i)
    BY <1>4 DEF AdvanceSkip
  <2>2. slots[i].block_id \in BlockId /\ base_id \in BlockId
    BY DEF IInv, TypeOK, RxBlock
  <2>3. SDiff(slots[i].block_id, Wrap(base_id + 1)) >= 0
    BY <2>1, <2>2, SDiffInc, SDiffRange DEF Newer
  <2> QED BY <1>4, <2>3 DEF AdvanceSkip, IncBase, LastSlotUsable
<1>5. CASE AdvanceStop \/ UNCHANGED vars
  BY <1>1, <1>5 DEF AdvanceStop, vars, LastSlotUsable
<1>6. CASE Tick \/ SetBack
  <2>1. /\ UNCHANGED base_id
        /\ slots'[u].block_id = slots[u].block_id /\ slots'[u].shards = slots[u].shards
    BY <1>6, TickBlocks, SetBackBlocks DEF Tick, SetBack
  <2> QED BY <1>1, <2>1 DEF LastSlotUsable, Occupied, Received
<1> QED BY <1>2, <1>3, <1>4, <1>5, <1>6 DEF Next, Advance

\* Skipped blocks never take the last slot, for any window size.
THEOREM LastSlotStaysUsable == Spec => []LastSlotUsable
<1>1. Init => LastSlotUsable
  <2> SUFFICES ASSUME Init PROVE LastSlotUsable
    OBVIOUS
  <2>1. 0 \in BlockId /\ 0 \in Slot /\ slots[0] = FreshBlock(0)
    BY HalfFacts DEF Init, BlockId, Slot
  <2> QED BY <2>1, FreshType DEF LastSlotUsable
<1> QED BY <1>1, LastSlotStep, Invariance, PTL DEF Spec

-----------------------------------------------------------------------------
(***************************************************************************)
(* The base and the traffic.                                               *)
(***************************************************************************)

\* Moving the base by one moves every block one further behind it, unless the
\* block is half of the ids behind.
LEMMA SDiffIncAny ==
    ASSUME NEW a \in BlockId, NEW b \in BlockId, SDiff(a, b) > -Half
    PROVE  SDiff(a, Wrap(b + 1)) = SDiff(a, b) - 1
BY HalfFacts DEF SDiff, Wrap, BlockId

\* The base moves by at most one, and the positions of the blocks stay.
LEMMA PositionKept ==
    ASSUME IInv, SlotsFollowTraffic, IncBase, advanced' < Half,
           NEW i \in Slot, Occupied(slots[i])
    PROVE  advanced' + SDiff(slots[i].block_id, base_id') \in 0..newest
<1>1. /\ slots[i].block_id \in BlockId /\ base_id \in BlockId
      /\ advanced \in Nat /\ newest \in Int
  BY DEF IInv, TypeOK, RxBlock
<1>2. /\ advanced' = advanced + 1 /\ base_id' = Wrap(base_id + 1)
      /\ advanced + SDiff(slots[i].block_id, base_id) \in 0..newest
  BY <1>1, HalfFacts DEF IncBase, SlotsFollowTraffic, Unwrapped
<1>3. SDiff(slots[i].block_id, base_id) \in Int
  BY <1>1, SDiffRange
<1>4. SDiff(slots[i].block_id, base_id) > -Half
  BY <1>1, <1>2, <1>3, HalfFacts
<1>5. SDiff(slots[i].block_id, base_id') = SDiff(slots[i].block_id, base_id) - 1
  BY <1>1, <1>2, <1>4, SDiffIncAny
<1> QED BY <1>1, <1>2, <1>3, <1>5

\* Every step keeps the positions of the slots within the traffic.
LEMMA FollowStep ==
    ASSUME IInv, SlotsFollowTraffic, BaseFollowsTraffic, [Next]_vars
    PROVE  SlotsFollowTraffic' /\ BaseFollowsTraffic'
<1> USE DEF SlotsFollowTraffic, BaseFollowsTraffic, Unwrapped
<1>0. /\ advanced \in Nat /\ newest \in Int /\ base_id \in BlockId
      /\ \A i \in Slot : slots[i].block_id \in BlockId
  BY DEF IInv, TypeOK, RxBlock
<1>1. ASSUME NEW d \in Datagram, Receive(d)
      PROVE  SlotsFollowTraffic' /\ BaseFollowsTraffic'
  <2>1. UNCHANGED <<base_id, advanced>>
    BY <1>1 DEF Receive
  <2>2. CASE Discard(d)
    BY <2>1, <2>2 DEF Discard
  <2>3. ASSUME NEW i \in Slot, Accept(i, d)
        PROVE  SlotsFollowTraffic' /\ BaseFollowsTraffic'
    <3>1. Processed(i, d).block_id = d.block_id
      BY <2>3, AcceptedBlock DEF Accept, IInv
    <3>2. /\ slots'[i] = Processed(i, d)
          /\ \A j \in Slot \ {i} : slots'[j] = slots[j]
          /\ Unwrapped(d.block_id) \in advanced..(advanced + WindowSize - 1)
      BY <1>1, <2>3, AcceptSlots
    <3>3. Unwrapped(d.block_id) \in Nat
      BY <1>0, <3>2, HalfFacts
    <3>4. /\ newest' \in Int /\ newest' >= newest /\ newest' >= Unwrapped(d.block_id)
      BY <1>0, <2>3, <3>3 DEF Accept
    <3>5. SlotsFollowTraffic'
      <4> SUFFICES ASSUME advanced < Half, NEW j \in Slot, Occupied(slots'[j])
                   PROVE  advanced + SDiff(slots'[j].block_id, base_id) \in 0..newest'
        BY <2>1
      <4>1. CASE j = i
        BY <3>1, <3>2, <3>3, <3>4, <4>1
      <4>2. CASE j # i
        <5>1. advanced + SDiff(slots[j].block_id, base_id) \in 0..newest
          BY <3>2, <4>2
        <5> QED BY <1>0, <3>2, <3>4, <4>2, <5>1
      <4> QED BY <4>1, <4>2
    <3>6. BaseFollowsTraffic'
      BY <1>0, <2>1, <3>4
    <3> QED BY <3>5, <3>6
  <2> QED BY <1>1, <2>2, <2>3 DEF Receive
<1>2. CASE AdvanceFree
  <2>1. PICK i \in Slot : AtBase(i) /\ slots' = [slots EXCEPT ![i] = FreshBlock(0)]
    BY <1>2 DEF AdvanceFree
  <2>2. IncBase /\ UNCHANGED newest
    BY <1>2 DEF AdvanceFree
  <2>3. 0 \in BlockId /\ slots'[i] = FreshBlock(0) /\ ~Occupied(slots'[i])
    BY <2>1, HalfFacts, FreshType DEF BlockId, IInv, TypeOK
  <2>4. \A j \in Slot \ {i} : slots'[j] = slots[j]
    BY <2>1 DEF IInv, TypeOK
  <2>5. SlotsFollowTraffic'
    BY <2>2, <2>3, <2>4, PositionKept
  <2>6. SDiff(slots[i].block_id, base_id) = 0 /\ Occupied(slots[i])
    BY <1>0, <2>1, AtBaseUnique, SDiffZero DEF Holds
  <2>7. BaseFollowsTraffic'
    BY <1>0, <2>2, <2>6, HalfFacts DEF IncBase
  <2> QED BY <2>5, <2>7
<1>3. CASE AdvanceSkip
  <2>1. PICK i \in Slot : Newer(i)
    BY <1>3 DEF AdvanceSkip
  <2>2. IncBase /\ UNCHANGED <<slots, newest>>
    BY <1>3 DEF AdvanceSkip
  <2>3. SlotsFollowTraffic'
    BY <2>2, PositionKept
  <2>4. /\ Occupied(slots[i]) /\ SDiff(slots[i].block_id, base_id) \in Int
        /\ SDiff(slots[i].block_id, base_id) > 0
    BY <1>0, <2>1, SDiffRange DEF Newer
  <2>5. BaseFollowsTraffic'
    BY <1>0, <2>2, <2>4, HalfFacts DEF IncBase
  <2> QED BY <2>3, <2>5
<1>4. CASE AdvanceStop \/ UNCHANGED vars
  BY <1>4 DEF AdvanceStop, vars
<1>5. CASE Tick \/ SetBack
  <2>1. UNCHANGED <<base_id, advanced, newest>>
    BY <1>5 DEF Tick, SetBack
  <2>2. \A j \in Slot : slots'[j].block_id = slots[j].block_id
                        /\ slots'[j].shards = slots[j].shards
    BY <1>5, TickBlocks, SetBackBlocks
  <2>3. \A j \in Slot : Occupied(slots'[j]) <=> Occupied(slots[j])
    BY <2>2 DEF Occupied, Received
  <2> QED BY <2>1, <2>2, <2>3
<1> QED BY <1>1, <1>2, <1>3, <1>4, <1>5 DEF Next, Advance

\* Until half of the block ids are used the base does not run ahead of the
\* traffic, for any window size and any network.
THEOREM BaseFollows == Spec => []BaseFollowsTraffic
<1>1. Init => SlotsFollowTraffic /\ BaseFollowsTraffic
  <2> SUFFICES ASSUME Init PROVE SlotsFollowTraffic /\ BaseFollowsTraffic
    OBVIOUS
  <2>1. 0 \in BlockId
    BY HalfFacts DEF BlockId
  <2>2. \A i \in Slot : ~Occupied(slots[i])
    BY <2>1, FreshType DEF Init
  <2> QED BY <2>2 DEF Init, SlotsFollowTraffic, BaseFollowsTraffic
<1> QED BY <1>1, FollowStep, Invariance, PTL DEF Spec
=============================================================================
