---------------------------- MODULE SenderProofs ----------------------------
(***************************************************************************)
(* Proofs about Sender for any number of paths, packets, signals, edits    *)
(* and configurations, and any timing of signals and packets.              *)
(***************************************************************************)
EXTENDS Sender, FiniteSetTheorems, WellFoundedInduction, TLAPS

\* The scheduler, with the theorems of StrategyProofs: a reload may load any
\* configuration, the one of the start included.
Scheduler == INSTANCE StrategyProofs WITH Config <- Config \cup {InitialConfig}

\* The counters the invariants speak of are natural numbers.
Counters ==
    /\ tx \in [block_id : Nat, pkt_count : Nat, age : Nat]
    /\ read \in Nat /\ flushed \in Nat /\ blocks_encoded \in Nat

\* The block being filled has the id that follows the last block sent.
IdFollows == pc # "exit" => tx.block_id = blocks_encoded

\* The inductive invariant.
IInv == Counters /\ IdFollows /\ NoPacketLost /\ HupHonoured

\* The start of main establishes the invariant.
LEMMA InitInv == Init => IInv
BY DEF Init, IInv, Counters, IdFollows, NoPacketLost, HupHonoured

\* Steps that touch neither the block nor the SIGHUP bookkeeping, and move
\* the loop neither to its end nor away from the reading of the file.
LEMMA QuietStep ==
    ASSUME IInv,
           UNCHANGED <<tx, read, flushed, blocks_encoded, reload_flag, owed>>,
           pc' # "exit", pc # "exit", pc = "load" => pc' = "load"
    PROVE  IInv'
BY DEF IInv, Counters, IdFollows, NoPacketLost, HupHonoured

\* Steps of the environment that leave the place in the loop alone.
LEMMA OutsideStep ==
    ASSUME IInv, UNCHANGED <<pc, tx, read, flushed, blocks_encoded>>,
           UNCHANGED <<reload_flag, owed>> \/ reload_flag'
    PROVE  IInv'
BY DEF IInv, Counters, IdFollows, NoPacketLost, HupHonoured

\* Time that passes in select() changes ages only.
LEMMA TickInv == ASSUME IInv, Tick PROVE IInv'
<1>1. tx' = [tx EXCEPT !.age = IF tx.pkt_count > 0 THEN tx.age + 1 ELSE tx.age]
  BY DEF Tick, IInv, Counters
<1>2. /\ tx' \in [block_id : Nat, pkt_count : Nat, age : Nat]
      /\ tx'.block_id = tx.block_id /\ tx'.pkt_count = tx.pkt_count
  BY <1>1 DEF IInv, Counters
<1>3. UNCHANGED <<pc, read, flushed, blocks_encoded, reload_flag, owed>>
  BY DEF Tick, admin
<1> QED BY <1>2, <1>3 DEF IInv, Counters, IdFollows, NoPacketLost, HupHonoured

\* A packet read from the TUN device goes into the pending block.
LEMMA ReadTunInv == ASSUME IInv, ReadTun PROVE IInv'
<1>1. UNCHANGED <<reload_flag, owed, flushed, blocks_encoded>>
  BY DEF ReadTun, loop, admin
<1>2. pc = "tun" /\ pc' # "exit"
  BY DEF ReadTun, Flush, NoFlush
<1>3. CASE tx' = [tx EXCEPT !.pkt_count = tx.pkt_count + 1] /\ read' = read + 1
  <2>1. /\ tx' \in [block_id : Nat, pkt_count : Nat, age : Nat]
        /\ tx'.block_id = tx.block_id /\ tx'.pkt_count = tx.pkt_count + 1
    BY <1>3 DEF IInv, Counters
  <2> QED BY <1>1, <1>2, <1>3, <2>1
          DEF IInv, Counters, IdFollows, NoPacketLost, HupHonoured
<1>4. CASE UNCHANGED <<tx, read>>
  BY <1>1, <1>2, <1>4, QuietStep
<1> QED BY <1>3, <1>4 DEF ReadTun

\* The end of tx_block_flush, with or without a new block.
LEMMA FlushedInv == ASSUME IInv, Flushed PROVE IInv'
<1>1. /\ pc = "send" /\ pc' = shard.ret
      /\ blocks_encoded' = blocks_encoded + 1
      /\ flushed' = flushed + tx.pkt_count
      /\ UNCHANGED <<reload_flag, owed, read>>
  BY DEF Flushed, loop, admin
<1>2. read = flushed + tx.pkt_count /\ tx.block_id = blocks_encoded /\ Counters
  BY <1>1 DEF IInv, NoPacketLost, IdFollows
<1>3. CASE shard.ret = "exit"
  BY <1>1, <1>2, <1>3 DEF Flushed, IInv, Counters, IdFollows, NoPacketLost, HupHonoured
<1>4. CASE shard.ret # "exit"
  <2>1. tx' = [block_id |-> tx.block_id + 1, pkt_count |-> 0, age |-> 0]
    BY <1>4 DEF Flushed
  <2> QED BY <1>1, <1>2, <1>4, <2>1
          DEF IInv, Counters, IdFollows, NoPacketLost, HupHonoured
<1> QED BY <1>3, <1>4

\* The end of main sends what is pending.
LEMMA DrainInv == ASSUME IInv, Drain PROVE IInv'
<1>1. /\ pc = "drain"
      /\ UNCHANGED <<tx, read, flushed, blocks_encoded, reload_flag, owed>>
  BY DEF Drain, loop, admin
<1>2. CASE tx.pkt_count > 0
  BY <1>1, <1>2, QuietStep DEF Drain, Flush
<1>3. CASE ~(tx.pkt_count > 0)
  <2>1. pc' = "exit" /\ tx.pkt_count = 0
    BY <1>3 DEF Drain, NoFlush, IInv, Counters
  <2> QED BY <1>1, <2>1 DEF IInv, Counters, IdFollows, NoPacketLost, HupHonoured
<1> QED BY <1>2, <1>3

\* The two steps of a reload hand a SIGHUP on without losing it.
LEMMA ReloadInv == ASSUME IInv, ClearReload \/ Load PROVE IInv'
<1>1. CASE ClearReload
  BY <1>1 DEF ClearReload, block, admin, IInv, Counters, IdFollows, NoPacketLost, HupHonoured
<1>2. CASE Load
  BY <1>2 DEF Load, IInv, Counters, IdFollows, NoPacketLost, HupHonoured
<1> QED BY <1>1, <1>2

\* Every step of the process preserves the invariant.
LEMMA ProcessInv == ASSUME IInv, Process PROVE IInv'
<1>1. CASE Top
  BY <1>1, QuietStep DEF Top, block, admin
<1>2. CASE SelectReturns
  BY <1>2, QuietStep DEF SelectReturns, block, admin
<1>3. CASE SelectFails
  BY <1>3, QuietStep DEF SelectFails, loop, block, admin
<1>4. CASE CheckTimeout
  BY <1>4, QuietStep DEF CheckTimeout, Flush, NoFlush, loop, admin
<1>5. CASE SendShard
  BY <1>5, QuietStep DEF SendShard, loop, admin
<1>6. CASE Recv
  BY <1>6, QuietStep DEF Recv, loop, block, admin
<1>7. CASE SendProbes
  BY <1>7, QuietStep DEF SendProbes, loop, block, admin
<1> QED BY <1>1, <1>2, <1>3, <1>4, <1>5, <1>6, <1>7,
           ReloadInv, ReadTunInv, FlushedInv, DrainInv DEF Process

\* Signals, packets, echoes and edits preserve the invariant at any place.
LEMMA EnvironmentInv == ASSUME IInv, Environment PROVE IInv'
<1>1. CASE SigTerm
  BY <1>1, OutsideStep DEF SigTerm, block, admin
<1>2. CASE SigHup
  BY <1>2, OutsideStep DEF SigHup, block
<1>3. CASE PacketArrives
  BY <1>3, OutsideStep DEF PacketArrives, loop, admin
<1>4. ASSUME NEW c \in Config \cup {BadFile}, Edit(c) PROVE IInv'
  BY <1>4, OutsideStep DEF Edit, loop, block
<1>5. ASSUME NEW p \in Path, EchoArrives(p) \/ LinkFails(p) PROVE IInv'
  BY <1>5, OutsideStep DEF EchoArrives, LinkFails, loop, block, admin
<1> QED BY <1>1, <1>2, <1>3, <1>4, <1>5 DEF Environment

\* Every step preserves the invariant.
LEMMA NextInv == IInv /\ [Next]_vars => IInv'
<1> SUFFICES ASSUME IInv, [Next]_vars PROVE IInv'
  OBVIOUS
<1>1. CASE UNCHANGED vars
  BY <1>1, OutsideStep DEF vars, loop, block, admin
<1> QED BY <1>1, ProcessInv, TickInv, EnvironmentInv DEF Next

-----------------------------------------------------------------------------
\* Packets, block ids and SIGHUPs are accounted for in every reachable state.
THEOREM Invariance == Spec => []IInv
<1> QED BY InitInv, NextInv, PTL DEF Spec

\* Every packet read from the TUN device is sent in exactly one block, and a
\* process that SIGTERM or SIGINT ends leaves none behind.
THEOREM PacketsConserved == Spec => []NoPacketLost
<1>1. IInv => NoPacketLost
  BY DEF IInv
<1> QED BY <1>1, Invariance, PTL

\* Whenever a SIGHUP arrives, the file is read again after it.
THEOREM HupsHonoured == Spec => []HupHonoured
<1>1. IInv => HupHonoured
  BY DEF IInv
<1> QED BY <1>1, Invariance, PTL

\* Blocks are sent with consecutive ids.
THEOREM IdsConsecutive == Spec => BlockIdsConsecutive
<1>1. IInv /\ [Next]_vars
        => [blocks_encoded' # blocks_encoded => tx.block_id = blocks_encoded]_vars
  <2> SUFFICES ASSUME IInv, Next, blocks_encoded' # blocks_encoded
               PROVE  tx.block_id = blocks_encoded
    BY DEF vars, block
  <2>1. Flushed
    BY DEF Next, Process, Tick, Environment, Top, SelectReturns, SelectFails, ClearReload,
           Load, ReadTun, CheckTimeout, SendShard, Recv, SendProbes, Drain,
           SigTerm, SigHup, PacketArrives, Edit, EchoArrives, LinkFails, block
  <2>2. pc = "send"
    BY <2>1 DEF Flushed
  <2> QED BY <2>2 DEF IInv, IdFollows
<1> QED BY <1>1, Invariance, PTL DEF Spec, BlockIdsConsecutive

-----------------------------------------------------------------------------
(***************************************************************************)
(* The latency of a pending block.  Its age is bounded place by place: the *)
(* check of the timeout brings it below one timeout, every reload that     *)
(* skips the check adds one, and so does a wait in select().               *)
(***************************************************************************)
Due == MaxTimeout * (1 + skips)

Clock ==
    /\ tx \in [block_id : Nat, pkt_count : Nat, age : Nat]
    /\ skips \in Nat
    /\ waited \in 0..MaxTimeout
    /\ cfg \in Config \cup {InitialConfig}
    /\ file \in Config \cup {InitialConfig, BadFile}

AgeBound ==
    /\ tx.pkt_count = 0 => tx.age = 0
    /\ pc \in {"top", "recv", "probe"} => tx.age < Due
    /\ pc = "select" => tx.age < Due + waited
    /\ tx.age < Due + MaxTimeout

\* select() is interrupted only by a signal the loop then acts on.
IntrCause == pc = "select" /\ intr => ~running \/ reload_flag

\* A flush returns into the middle of a pass or to the end of main.
ShardShape ==
    /\ shard = [i |-> shard.i, n |-> shard.n, ret |-> shard.ret]
    /\ shard.ret # "select"

LatencyInv == Clock /\ AgeBound

\* Arithmetic of the bound.
LEMMA DueFacts ==
    ASSUME NEW s \in Nat
    PROVE  /\ MaxTimeout * (1 + s) \in Nat
           /\ MaxTimeout <= MaxTimeout * (1 + s)
           /\ MaxTimeout * (1 + (s + 1)) = MaxTimeout * (1 + s) + MaxTimeout
           /\ MaxTimeout * (2 + s) = MaxTimeout * (1 + s) + MaxTimeout
<1>1. MaxTimeout \in Nat /\ MaxTimeout > 0
  BY TimeoutAssumption
<1>2. MaxTimeout * (1 + s) = MaxTimeout + MaxTimeout * s /\ MaxTimeout * s \in Nat
  BY <1>1
<1> QED BY <1>1, <1>2

\* The wait in select() never exceeds the longest timeout.
LEMMA SelectBound ==
    ASSUME cfg \in Config \cup {InitialConfig}
    PROVE  SelectTimeout \in 1..MaxTimeout
BY TimeoutAssumption DEF SelectTimeout

\* The start of main establishes the bound.
LEMMA LatencyInit == Init => LatencyInv
<1> SUFFICES ASSUME Init PROVE LatencyInv
  OBVIOUS
<1>1. tx = [block_id |-> 0, pkt_count |-> 0, age |-> 0] /\ skips = 0 /\ waited = 0
  BY DEF Init
<1>2. Due = MaxTimeout /\ MaxTimeout \in Nat /\ MaxTimeout > 0
  BY <1>1, TimeoutAssumption DEF Due
<1> QED BY <1>1, <1>2 DEF Init, LatencyInv, Clock, AgeBound

\* Steps that leave the age of the block alone and go to a place whose bound
\* is not sharper.
LEMMA SlackStep ==
    ASSUME LatencyInv, Clock', UNCHANGED <<tx, skips>>,
           \/ pc' \notin {"top", "recv", "probe", "select"}
           \/ pc \in {"top", "recv", "probe"}
           \/ UNCHANGED <<pc, waited>>
    PROVE  LatencyInv'
<1>1. Due' = Due /\ Due \in Nat
  BY DueFacts DEF LatencyInv, Clock, Due
<1> QED BY <1>1, TimeoutAssumption DEF LatencyInv, Clock, AgeBound

\* Arithmetic: a bound of at least one timeout is positive.
LEMMA Positive ==
    ASSUME NEW t \in Nat \ {0}, NEW d \in Nat, NEW w \in Nat, t <= d
    PROVE  0 < d /\ 0 < d + w /\ 0 < d + t
OBVIOUS

\* Steps after which no time counts against the block.
LEMMA FreshStep ==
    ASSUME LatencyInv, Clock', tx'.age = 0
    PROVE  LatencyInv'
<1>1. skips' \in Nat /\ waited' \in Nat /\ MaxTimeout \in Nat \ {0}
  BY TimeoutAssumption DEF Clock
<1>2. Due' = MaxTimeout * (1 + skips')
  BY DEF Due
<1>3. \A s \in Nat : MaxTimeout * (1 + s) \in Nat /\ MaxTimeout <= MaxTimeout * (1 + s)
  BY DueFacts
<1>4. Due' \in Nat /\ MaxTimeout <= Due'
  BY <1>1, <1>2, <1>3
<1>5. 0 < Due' /\ 0 < Due' + waited' /\ 0 < Due' + MaxTimeout
  BY <1>1, <1>4, Positive
<1>6. (tx.age)' = 0
  OBVIOUS
<1>7. AgeBound'
  BY <1>5, <1>6 DEF AgeBound
<1> QED BY <1>7 DEF LatencyInv

\* A tick in select() uses up one tick of the wait.
LEMMA LatencyTick == ASSUME LatencyInv, Tick PROVE LatencyInv'
<1>1. /\ pc = "select" /\ waited < SelectTimeout /\ waited' = waited + 1
      /\ tx' = [tx EXCEPT !.age = IF tx.pkt_count > 0 THEN tx.age + 1 ELSE tx.age]
      /\ UNCHANGED <<pc, skips, cfg, file>>
  BY DEF Tick, LatencyInv, Clock, admin
<1>2. waited' \in 0..MaxTimeout
  BY <1>1, SelectBound, TimeoutAssumption DEF LatencyInv, Clock
<1>3. /\ tx' \in [block_id : Nat, pkt_count : Nat, age : Nat]
      /\ tx'.pkt_count = tx.pkt_count
      /\ tx.pkt_count = 0 => tx'.age = tx.age
      /\ tx'.age <= tx.age + 1
  BY <1>1 DEF LatencyInv, Clock
<1>4. Due' = Due /\ Due \in Nat /\ MaxTimeout \in Nat
  BY <1>1, DueFacts, TimeoutAssumption DEF LatencyInv, Clock, Due
<1> QED BY <1>1, <1>2, <1>3, <1>4 DEF LatencyInv, Clock, AgeBound

\* A reload skips the check and is counted in skips.
LEMMA LatencyLoad == ASSUME LatencyInv, Load PROVE LatencyInv'
<1>1. Clock'
  BY DEF Load, LatencyInv, Clock
<1>2. CASE tx.pkt_count = 0
  BY <1>1, <1>2, FreshStep DEF Load, LatencyInv, AgeBound
<1>3. CASE tx.pkt_count # 0
  <2>1. skips' = skips + 1 /\ pc' = "top" /\ tx' = tx
    BY <1>3 DEF Load, LatencyInv, Clock
  <2>2. Due' = Due + MaxTimeout /\ Due \in Nat /\ MaxTimeout \in Nat
    BY <2>1, DueFacts, TimeoutAssumption DEF LatencyInv, Clock, Due
  <2> QED BY <1>1, <1>3, <2>1, <2>2 DEF LatencyInv, Clock, AgeBound
<1> QED BY <1>2, <1>3

\* The check of the timeout brings the age below one timeout.
LEMMA LatencyCheck == ASSUME LatencyInv, CheckTimeout PROVE LatencyInv'
<1>1. Clock' /\ UNCHANGED <<tx, skips, waited>>
  BY DEF CheckTimeout, LatencyInv, Clock, loop, admin
<1>2. CASE NeedsFlush
  BY <1>1, <1>2, SlackStep DEF CheckTimeout, Flush
<1>3. CASE ~NeedsFlush
  <2>1. Due' = Due /\ Due \in Nat /\ MaxTimeout <= Due
    BY <1>1, DueFacts DEF LatencyInv, Clock, Due
  <2>2. tx.pkt_count = 0 \/ tx.age < BlockTimeout(cfg)
    BY <1>3, TimeoutAssumption DEF NeedsFlush, LatencyInv, Clock
  <2>3. tx.age < Due
    BY <2>1, <2>2, TimeoutAssumption DEF LatencyInv, Clock, AgeBound
  <2> QED BY <1>1, <1>3, <2>1, <2>3, TimeoutAssumption
          DEF CheckTimeout, NoFlush, LatencyInv, Clock, AgeBound
<1> QED BY <1>2, <1>3

\* A packet read does not change the age of the block.
LEMMA LatencyReadTun == ASSUME LatencyInv, ReadTun PROVE LatencyInv'
<1>1. UNCHANGED <<waited, cfg, file, skips>> /\ pc' \in {"timeout", "send"}
  BY DEF ReadTun, Flush, NoFlush, loop, admin
<1>2. CASE UNCHANGED tx
  BY <1>1, <1>2, SlackStep DEF LatencyInv, Clock
<1>3. CASE tx' = [tx EXCEPT !.pkt_count = tx.pkt_count + 1]
  <2>1. /\ tx' \in [block_id : Nat, pkt_count : Nat, age : Nat]
        /\ tx'.pkt_count > 0 /\ tx'.age = tx.age
    BY <1>3 DEF LatencyInv, Clock
  <2>2. Due' = Due
    BY <1>1 DEF Due
  <2> QED BY <1>1, <2>1, <2>2 DEF LatencyInv, Clock, AgeBound
<1> QED BY <1>2, <1>3 DEF ReadTun

\* After a flush the next block starts with age 0.
LEMMA LatencyFlushed == ASSUME LatencyInv, Flushed PROVE LatencyInv'
<1>1. UNCHANGED <<waited, cfg, file>> /\ pc' = shard.ret
  BY DEF Flushed, loop, admin
<1>2. CASE shard.ret = "exit"
  BY <1>1, <1>2, SlackStep DEF Flushed, LatencyInv, Clock
<1>3. CASE shard.ret # "exit"
  <2>1. tx' = [block_id |-> tx.block_id + 1, pkt_count |-> 0, age |-> 0] /\ skips' = 0
    BY <1>3 DEF Flushed
  <2> QED BY <1>1, <2>1, FreshStep DEF LatencyInv, Clock
<1> QED BY <1>2, <1>3

\* A new pass starts a new wait.
LEMMA LatencyTop == ASSUME LatencyInv, Top PROVE LatencyInv'
<1>1. /\ pc = "top" /\ waited' = 0 /\ UNCHANGED <<tx, skips, cfg, file>>
      /\ pc' \in {"select", "drain"}
  BY DEF Top, block, admin
<1>2. Due' = Due /\ Due \in Nat /\ MaxTimeout \in Nat
  BY <1>1, DueFacts, TimeoutAssumption DEF LatencyInv, Clock, Due
<1> QED BY <1>1, <1>2 DEF LatencyInv, Clock, AgeBound

\* Every step of the process preserves the bound.
LEMMA LatencyProcess == ASSUME LatencyInv, IntrCause, Process PROVE LatencyInv'
<1>1. CASE SelectReturns
  BY <1>1, SlackStep DEF SelectReturns, LatencyInv, Clock, block, admin
<1>2. CASE SelectFails
  BY <1>2, SlackStep DEF SelectFails, IntrCause, LatencyInv, Clock, loop, block, admin
<1>3. CASE ClearReload
  BY <1>3, SlackStep DEF ClearReload, LatencyInv, Clock, block, admin
<1>4. CASE SendShard
  BY <1>4, SlackStep DEF SendShard, LatencyInv, Clock, loop, admin
<1>5. CASE Recv
  BY <1>5, SlackStep DEF Recv, LatencyInv, Clock, loop, block, admin
<1>6. CASE SendProbes
  BY <1>6, SlackStep DEF SendProbes, LatencyInv, Clock, loop, block, admin
<1>7. CASE Drain
  BY <1>7, SlackStep DEF Drain, Flush, NoFlush, LatencyInv, Clock, loop, admin
<1> QED BY <1>1, <1>2, <1>3, <1>4, <1>5, <1>6, <1>7, LatencyTop, LatencyLoad,
           LatencyReadTun, LatencyCheck, LatencyFlushed DEF Process

\* Signals, packets, echoes and edits preserve the bound at any place.
LEMMA LatencyEnvironment == ASSUME LatencyInv, Environment PROVE LatencyInv'
<1>1. CASE SigTerm
  BY <1>1, SlackStep DEF SigTerm, LatencyInv, Clock, block, admin
<1>2. CASE SigHup
  BY <1>2, SlackStep DEF SigHup, LatencyInv, Clock, block
<1>3. CASE PacketArrives
  BY <1>3, SlackStep DEF PacketArrives, LatencyInv, Clock, loop, admin
<1>4. ASSUME NEW c \in Config \cup {BadFile}, Edit(c) PROVE LatencyInv'
  BY <1>4, SlackStep DEF Edit, LatencyInv, Clock, loop, block
<1>5. ASSUME NEW p \in Path, EchoArrives(p) \/ LinkFails(p) PROVE LatencyInv'
  BY <1>5, SlackStep DEF EchoArrives, LinkFails, LatencyInv, Clock, loop, block, admin
<1> QED BY <1>1, <1>2, <1>3, <1>4, <1>5 DEF Environment

\* No step makes a flush return into select().
LEMMA ShapeNext == ASSUME ShardShape, [Next]_vars PROVE ShardShape'
<1>1. CASE UNCHANGED shard
  BY <1>1 DEF ShardShape
<1>2. CASE SendShard
  BY <1>2 DEF SendShard, ShardShape
<1>3. CASE Flushed
  BY <1>3 DEF Flushed, NoShard, ShardShape
<1>4. CASE ReadTun \/ CheckTimeout \/ Drain
  BY <1>4, <1>1 DEF ReadTun, CheckTimeout, Drain, Flush, NoFlush, ShardShape
<1>5. CASE Tick \/ Environment \/ Top \/ SelectReturns \/ SelectFails \/ ClearReload \/ Load
           \/ Recv \/ SendProbes
  BY <1>5, <1>1 DEF Environment, Tick, Top, SelectReturns, SelectFails, ClearReload, Load, Recv,
     SendProbes, SigTerm, SigHup, PacketArrives, Edit, EchoArrives, LinkFails, block
<1>6. CASE UNCHANGED vars
  BY <1>6, <1>1 DEF vars, block
<1> QED BY <1>2, <1>3, <1>4, <1>5, <1>6 DEF Next, Process

\* select() is interrupted only together with running or reload_flag.
LEMMA IntrCauseNext == ASSUME IntrCause, ShardShape, [Next]_vars PROVE IntrCause'
<1>1. CASE UNCHANGED vars
  BY <1>1 DEF vars, loop, IntrCause
<1>2. CASE Tick
  BY <1>2 DEF Tick, IntrCause
<1>3. CASE Process
  <2>1. CASE Top
    BY <2>1 DEF Top, IntrCause
  <2>2. CASE SelectReturns \/ SelectFails \/ ClearReload \/ Load \/ Recv \/ SendProbes
    BY <2>2 DEF SelectReturns, SelectFails, ClearReload, Load, Recv, SendProbes, IntrCause
  <2>3. CASE ReadTun \/ CheckTimeout \/ Drain
    BY <2>3 DEF ReadTun, CheckTimeout, Drain, Flush, NoFlush, IntrCause
  <2>4. CASE SendShard \/ Flushed
    BY <2>4 DEF SendShard, Flushed, ShardShape, IntrCause
  <2> QED BY <1>3, <2>1, <2>2, <2>3, <2>4 DEF Process
<1>4. CASE Environment
  BY <1>4 DEF Environment, SigTerm, SigHup, PacketArrives, Edit, EchoArrives, LinkFails,
              loop, Interrupts, IntrCause
<1> QED BY <1>1, <1>2, <1>3, <1>4 DEF Next

\* A pending block waits less than two timeouts, plus one for every reload
\* that came in between, whatever the signals, the packets and the edits.
THEOREM LatencyBounded == Spec => []FlushLatency
<1> DEFINE Inv == LatencyInv /\ IntrCause /\ ShardShape
<1>1. Init => Inv
  BY LatencyInit DEF Init, NoShard, IntrCause, ShardShape
<1>2. Inv /\ [Next]_vars => Inv'
  <2> SUFFICES ASSUME Inv, [Next]_vars PROVE Inv'
    OBVIOUS
  <2>1. UNCHANGED vars => LatencyInv'
    BY SlackStep DEF vars, loop, block, admin, LatencyInv, Clock
  <2> QED BY <2>1, LatencyProcess, LatencyTick, LatencyEnvironment, IntrCauseNext, ShapeNext
          DEF Next
<1>3. Inv => FlushLatency
  BY DueFacts DEF LatencyInv, Clock, AgeBound, Due, FlushLatency
<1> QED BY <1>1, <1>2, <1>3, PTL DEF Spec

-----------------------------------------------------------------------------
(***************************************************************************)
(* Sockets and echoes.  An echo is booked on a path that was enabled at    *)
(* the start, or on path 0 if its source matches no path: only such paths  *)
(* are ever alive.                                                         *)
(***************************************************************************)
SocketInv ==
    /\ alive \in [Path -> BOOLEAN]
    /\ \A p \in Path : alive[p] => InitialConfig.enabled[p] \/ (p = 0 /\ strayed)
    /\ air \cup inbox \subseteq Path
    /\ up \subseteq Path /\ failed \subseteq Path /\ strayed \in BOOLEAN

\* Every nonempty set of paths has a lowest index.
LEMMA LowestPath ==
    ASSUME NEW T, T \subseteq Path, T # {}
    PROVE  \E q \in T : \A r \in T : q <= r
<1>1. T \subseteq Nat
  BY SchedulerAssumption DEF Path, S!Path
<1> DEFINE Less == {ss \in Nat \X Nat : ss[1] < ss[2]}
<1>2. IsWellFoundedOn(Less, Nat)
  BY NatLessThanWellFounded, Zenon DEF OpToRel
<1> HIDE DEF Less
<1>3. PICK q \in T : \A r \in T : ~(<<r, q>> \in Less)
  BY <1>1, <1>2, WFMin
<1>4. \A r \in T : ~(r < q)
  BY <1>1, <1>3 DEF Less
<1> QED BY <1>1, <1>4

\* A datagram is attributed to a path with a socket, or to path 0 if no path
\* matches its source.
LEMMA AttributedFacts ==
    ASSUME NEW a, Path # {}
    PROVE  /\ Attributed(a) \in Path
           /\ HasSocket(Attributed(a)) \/ (Attributed(a) = 0 /\ Match(a) = {})
<1>1. CASE Match(a) = {}
  <2>1. Attributed(a) = 0
    BY <1>1 DEF Attributed
  <2>2. 0 \in Path
    BY SchedulerAssumption DEF Path, S!Path
  <2> QED BY <1>1, <2>1, <2>2
<1>2. CASE Match(a) # {}
  <2>1. \E q \in Match(a) : \A r \in Match(a) : q <= r
    BY <1>2, LowestPath DEF Match
  <2>2. Lowest(Match(a)) \in Match(a)
    BY <2>1 DEF Lowest
  <2>3. Attributed(a) = Lowest(Match(a))
    BY <1>2 DEF Attributed
  <2> QED BY <2>2, <2>3 DEF Match
<1> QED BY <1>1, <1>2

\* The start of main establishes the invariant.
LEMMA SocketInit == Init => SocketInv
BY SchedulerAssumption DEF Init, SocketInv, S!Init, Path, S!Path, S!ConfigType

\* Sockets are opened once.
LEMMA SocketsStay == ASSUME [Next]_vars PROVE failed' = failed
BY DEF Next, Process, Environment, Top, SelectReturns, SelectFails, ClearReload, Load, ReadTun,
   CheckTimeout, SendShard, Flushed, Recv, SendProbes, Drain, Tick, SigTerm, SigHup,
   PacketArrives, Edit, EchoArrives, LinkFails, vars, net

\* The steps that touch neither the liveness of a path nor an echo.
LEMMA OtherSteps ==
    ASSUME [Next]_vars
    PROVE  \/ UNCHANGED <<alive, air, inbox, strayed>>
           \/ Load \/ Recv \/ SendProbes \/ \E p \in Path : EchoArrives(p)
<1>1. CASE UNCHANGED vars
  BY <1>1 DEF vars, svars, net
<1>2. CASE SendShard
  BY <1>2 DEF SendShard, S!PickNone, S!Pick, S!svars, net
<1>3. CASE Process
  BY <1>2, <1>3 DEF Process, Top, SelectReturns, SelectFails, ClearReload, ReadTun,
                    CheckTimeout, Flushed, Drain, svars, net
<1>4. CASE Tick
  BY <1>4 DEF Tick, svars, net
<1>5. CASE Environment
  BY <1>5 DEF Environment, SigTerm, SigHup, PacketArrives, Edit, LinkFails, svars, net
<1> QED BY <1>1, <1>3, <1>4, <1>5 DEF Next

\* Links fail and do not come back.
LEMMA LinksFail == ASSUME [Next]_vars PROVE up' \subseteq up
<1>1. CASE Process \/ Tick \/ UNCHANGED vars
  BY <1>1 DEF Process, Top, SelectReturns, SelectFails, ClearReload, Load, ReadTun,
              CheckTimeout, SendShard, Flushed, Recv, SendProbes, Drain, Tick, vars, net
<1>2. CASE Environment
  BY <1>2 DEF Environment, SigTerm, SigHup, PacketArrives, Edit, EchoArrives, LinkFails, net
<1> QED BY <1>1, <1>2 DEF Next

\* A reload revives no path.
LEMMA LoadKills ==
    ASSUME Load, alive \in [Path -> BOOLEAN]
    PROVE  /\ alive' \in [Path -> BOOLEAN]
           /\ \A p \in Path : alive'[p] => alive[p]
           /\ UNCHANGED <<air, inbox, strayed>>
<1>1. UNCHANGED <<air, inbox, strayed>>
  BY DEF Load, net
<1>2. CASE UNCHANGED svars
  BY <1>1, <1>2 DEF svars
<1>3. CASE S!Reload(file)
  <2>1. alive' = [p \in Path |-> alive[p] /\ (p \in {q \in Path : q < file.path_count}
                                                => file.enabled[p])]
    BY <1>3 DEF S!Reload, Path
  <2>2. \A p \in Path : alive[p] \in BOOLEAN
    OBVIOUS
  <2> QED BY <1>1, <2>1, <2>2, Zenon
<1> QED BY <1>2, <1>3 DEF Load

\* An echo changes the state of the path it is booked on, and no other.
LEMMA RecvRevives ==
    ASSUME Recv, SocketInv
    PROVE  \/ UNCHANGED <<alive, air, inbox, strayed>>
           \/ \E p \in inbox : \E a \in Source[p] :
                /\ inbox' = inbox \ {p} /\ UNCHANGED air
                /\ strayed' = (strayed \/ Match(a) = {})
                /\ alive' \in [Path -> BOOLEAN]
                /\ \A q \in Path : q # Attributed(a) => alive'[q] = alive[q]
<1>1. UNCHANGED air
  BY DEF Recv
<1>2. CASE "udp" \in ready
  <2>1. PICK p \in inbox : \E a \in Source[p] :
              /\ inbox' = inbox \ {p} /\ S!UpdateProbe(Attributed(a), TRUE)
              /\ strayed' = (strayed \/ Match(a) = {})
    BY <1>2 DEF Recv
  <2>2. PICK a \in Source[p] :
              /\ inbox' = inbox \ {p} /\ S!UpdateProbe(Attributed(a), TRUE)
              /\ strayed' = (strayed \/ Match(a) = {})
    BY <2>1
  <2> DEFINE b == Attributed(a)
             v == S!Revives(S!Ewma(b, TRUE)) \/ (alive[b] /\ ~S!Kills(S!Ewma(b, TRUE)))
  <2>3. alive' = [alive EXCEPT ![b] = v]
    BY <2>2 DEF S!UpdateProbe
  <2>4. v \in BOOLEAN
    OBVIOUS
  <2> HIDE DEF v, b
  <2>5. /\ alive' \in [Path -> BOOLEAN]
        /\ \A q \in Path : q # b => alive'[q] = alive[q]
    BY <2>3, <2>4 DEF SocketInv
  <2> QED BY <1>1, <2>2, <2>5 DEF b
<1>3. CASE "udp" \notin ready
  BY <1>1, <1>3 DEF Recv, svars
<1> QED BY <1>2, <1>3

\* Every step preserves the invariant.
LEMMA SocketNext == ASSUME SocketInv, [Next]_vars PROVE SocketInv'
<1> USE LinksFail, SocketsStay
<1>1. CASE UNCHANGED <<alive, air, inbox, strayed>>
  BY <1>1 DEF SocketInv
<1>2. CASE Load
  BY <1>2, LoadKills DEF SocketInv
<1>3. CASE Recv
  <2>1. ASSUME NEW x \in inbox, NEW a \in Source[x], inbox' = inbox \ {x}, UNCHANGED air,
               strayed' = (strayed \/ Match(a) = {}), alive' \in [Path -> BOOLEAN],
               \A q \in Path : q # Attributed(a) => alive'[q] = alive[q]
        PROVE  SocketInv'
    <3>1. \/ InitialConfig.enabled[Attributed(a)]
          \/ Attributed(a) = 0 /\ strayed'
      BY <2>1, AttributedFacts DEF SocketInv, HasSocket
    <3>2. ASSUME NEW q \in Path, alive'[q]
          PROVE  InitialConfig.enabled[q] \/ (q = 0 /\ strayed')
      <4>1. CASE q = Attributed(a)
        BY <3>1, <4>1
      <4>2. CASE q # Attributed(a)
        BY <2>1, <3>2, <4>2 DEF SocketInv
      <4> QED BY <4>1, <4>2
    <3>3. strayed' \in BOOLEAN
      BY <2>1 DEF SocketInv
    <3> QED BY <2>1, <3>2, <3>3 DEF SocketInv
  <2> QED BY <1>1, <1>3, <2>1, RecvRevives
<1>4. CASE SendProbes
  <2>1. UNCHANGED <<alive, inbox, strayed>>
    BY <1>4 DEF SendProbes, svars
  <2>2. air' \subseteq air \cup Path
    BY <1>4 DEF SendProbes, SocketInv
  <2> QED BY <2>1, <2>2 DEF SocketInv
<1>5. ASSUME NEW p \in Path, EchoArrives(p) PROVE SocketInv'
  BY <1>5 DEF EchoArrives, svars, SocketInv
<1> QED BY <1>1, <1>2, <1>3, <1>4, <1>5, OtherSteps

\* Every reachable state satisfies it.
LEMMA SocketInvariance == Spec => []SocketInv
<1>1. SocketInv /\ [Next]_vars => SocketInv'
  BY SocketNext
<1> QED BY <1>1, SocketInit, PTL DEF Spec

\* A path that was disabled at the start gets no shard for the life of the
\* process, whatever is reloaded, whichever sockets failed and wherever echoes
\* come from, but for path 0 after an echo from an address of no path.
THEOREM LateEnabledStaysUnused == Spec => []LateEnabledUnused
<1>1. SocketInv => LateEnabledUnused
  BY DEF SocketInv, LateEnabledUnused, S!Usable, Path
<1> QED BY <1>1, SocketInvariance, PTL

\* Once paths are dead and no echo that counts for them is under way, no step
\* revives one of them: a new echo needs a probe, and only live paths get one.
LEMMA ForgottenStep ==
    ASSUME SocketInv, [Next]_vars, NEW F \in SUBSET Path, Forgotten(F)
    PROVE  Forgotten(F)'
<1>1. /\ \A q \in Path : HasSocket(q)' <=> HasSocket(q)
      /\ \A q : Feeds(q, F)' <=> Feeds(q, F)
  <2>1. failed' = failed
    BY SocketsStay
  <2>2. \A q : HasSocket(q)' <=> HasSocket(q)
    BY <2>1 DEF HasSocket
  <2>3. \A a : Match(a)' = Match(a)
    BY <2>2 DEF Match
  <2>4. ASSUME NEW a PROVE Attributed(a)' = Attributed(a)
    <3>1. Match(a)' = Match(a)
      BY <2>3
    <3> QED BY <3>1 DEF Attributed
  <2> QED BY <2>2, <2>4 DEF Feeds
<1>2. SUFFICES /\ \A p \in F : ~alive'[p]
               /\ \A q \in air' \cup inbox' : ~Feeds(q, F)
  BY <1>1 DEF Forgotten
<1>3. CASE UNCHANGED <<alive, air, inbox>>
  BY <1>3 DEF Forgotten
<1>4. CASE Load
  BY <1>4, LoadKills DEF Forgotten, SocketInv
<1>5. CASE Recv
  <2>1. ASSUME NEW x \in inbox, NEW a \in Source[x], inbox' = inbox \ {x}, UNCHANGED air,
               \A q \in Path : q # Attributed(a) => alive'[q] = alive[q]
        PROVE  /\ \A p \in F : ~alive'[p]
               /\ \A q \in air' \cup inbox' : ~Feeds(q, F)
    <3>1. ~Feeds(x, F)
      BY DEF Forgotten
    <3>2. Attributed(a) \notin F
      BY <3>1 DEF Feeds
    <3> QED BY <2>1, <3>2 DEF Forgotten
  <2> QED BY <1>3, <1>5, <2>1, RecvRevives
<1>6. CASE SendProbes
  <2>1. UNCHANGED <<alive, inbox>>
    BY <1>6 DEF SendProbes, svars
  <2>2. air' \subseteq air \cup {q \in Path : alive[q] /\ HasSocket(q)}
    BY <1>6 DEF SendProbes, SocketInv
  <2>3. \A q \in Path : alive[q] /\ HasSocket(q) => ~Feeds(q, F)
    BY DEF Forgotten
  <2> QED BY <2>1, <2>2, <2>3 DEF Forgotten
<1>7. ASSUME NEW x \in Path, EchoArrives(x)
      PROVE  /\ \A p \in F : ~alive'[p]
             /\ \A q \in air' \cup inbox' : ~Feeds(q, F)
  BY <1>7 DEF EchoArrives, svars, Forgotten
<1> QED BY <1>3, <1>4, <1>5, <1>6, <1>7, OtherSteps

\* A path that a reload has disabled stays out of use until the process is
\* started again, even when a later reload enables it, and so do several paths
\* whose echoes count for each other.
THEOREM NeverRevived == Spec => ForgottenForEver
<1>1. SocketInv /\ [Next]_vars
        => [\A F \in SUBSET Path : Forgotten(F) => Forgotten(F)']_vars
  BY ForgottenStep
<1> QED BY <1>1, SocketInvariance, PTL DEF Spec, ForgottenForEver

-----------------------------------------------------------------------------
(***************************************************************************)
(* The scheduler in the gateway.  The loop calls it in some of the orders  *)
(* that Strategy allows, so what StrategyProofs proves of all of them      *)
(* holds in the gateway.                                                   *)
(***************************************************************************)
\* The assumptions of Strategy follow from those of Sender.
LEMMA SchedulerAssumptions ==
    /\ Scheduler!PathAssumption /\ Scheduler!CodeAssumption
    /\ Scheduler!UnitAssumption /\ Scheduler!ConfigAssumption
    /\ Scheduler!DampAssumption
<1>1. S!ConfigType = Scheduler!ConfigType
  BY DEF S!ConfigType, Scheduler!ConfigType, S!Path, Scheduler!Path
<1>2. Scheduler!ConfigAssumption
  BY <1>1, SchedulerAssumption DEF Scheduler!ConfigAssumption
<1>3. Scheduler!DampAssumption
  <2>1. \A c \in Config \cup {InitialConfig} : S!Damping(c)
    BY SchedulerAssumption
  <2>2. \A c : S!Faded(c) = Scheduler!Faded(c)
    BY DEF S!Faded, Scheduler!Faded, S!Alpha, Scheduler!Alpha
  <2> QED BY <2>1, <2>2 DEF S!Damping, Scheduler!Damping, Scheduler!DampAssumption
<1> QED BY <1>2, <1>3, SchedulerAssumption
        DEF Scheduler!PathAssumption, Scheduler!CodeAssumption, Scheduler!UnitAssumption

\* The calls that the loop makes are those of Strategy.
LEMMA SameCalls ==
    /\ S!svars = Scheduler!svars /\ S!Path = Scheduler!Path
    /\ S!Init <=> Scheduler!Init
    /\ S!PickNone <=> Scheduler!PickNone
    /\ \A p : S!Pick(p) <=> Scheduler!Pick(p)
    /\ \A p, received : S!UpdateProbe(p, received) <=> Scheduler!UpdateProbe(p, received)
    /\ \A c : S!Reload(c) <=> Scheduler!Reload(c)
    /\ S!TypeOK <=> Scheduler!TypeOK
    /\ S!ComputeN(S!NumUsable) = Scheduler!ComputeN(Scheduler!NumUsable)
<1> USE DEF S!Path, Scheduler!Path, S!Quota, Scheduler!Quota, S!Usable, Scheduler!Usable,
            S!parameters, Scheduler!parameters, S!svars, Scheduler!svars
<1>1. S!svars = Scheduler!svars /\ S!Path = Scheduler!Path
  OBVIOUS
<1>2. S!Init <=> Scheduler!Init
  BY DEF S!Init, Scheduler!Init, S!Alpha, Scheduler!Alpha
<1>3. S!PickNone <=> Scheduler!PickNone
  BY DEF S!PickNone, Scheduler!PickNone
<1>4. \A p : S!Pick(p) <=> Scheduler!Pick(p)
  BY DEF S!Pick, Scheduler!Pick, S!Best, Scheduler!Best, S!Credit, Scheduler!Credit,
         S!NeedRefill, Scheduler!NeedRefill, S!Refilled, Scheduler!Refilled
<1>5. \A p, received : S!UpdateProbe(p, received) <=> Scheduler!UpdateProbe(p, received)
  BY DEF S!UpdateProbe, Scheduler!UpdateProbe, S!Ewma, Scheduler!Ewma, S!Observed,
         Scheduler!Observed, S!Kills, Scheduler!Kills, S!Revives, Scheduler!Revives
<1>6. \A c : S!Reload(c) <=> Scheduler!Reload(c)
  BY DEF S!Reload, Scheduler!Reload, S!Alpha, Scheduler!Alpha
<1>7. S!TypeOK <=> Scheduler!TypeOK
  BY DEF S!TypeOK, Scheduler!TypeOK
<1>8. S!ComputeN(S!NumUsable) = Scheduler!ComputeN(Scheduler!NumUsable)
  <2>1. \A T : S!Cardinality(T) = Scheduler!Cardinality(T)
    BY DEF S!Cardinality, Scheduler!Cardinality, S!IsFiniteSet, Scheduler!IsFiniteSet
  <2>2. S!NumUsable = Scheduler!NumUsable /\ S!NumEnabled = Scheduler!NumEnabled
    BY <2>1 DEF S!NumUsable, Scheduler!NumUsable, S!NumEnabled, Scheduler!NumEnabled
  <2>3. \A m : S!ComputeN(m) = Scheduler!ComputeN(m)
    BY <2>2 DEF S!ComputeN, Scheduler!ComputeN, S!Clamp, Scheduler!Clamp, S!Ceil, Scheduler!Ceil
  <2> QED BY <2>2, <2>3
<1> QED BY <1>1, <1>2, <1>3, <1>4, <1>5, <1>6, <1>7, <1>8

\* The file that is loaded, if it is one that config_load accepts, is one of
\* the configurations of the assumptions.
LEMMA FileType == Spec => [](file \in Config \cup {InitialConfig, BadFile})
<1> DEFINE I == file \in Config \cup {InitialConfig, BadFile}
<1>1. Init => I
  BY DEF Init
<1>2. I /\ [Next]_vars => I'
  <2> SUFFICES ASSUME I, [Next]_vars PROVE I'
    OBVIOUS
  <2>1. CASE UNCHANGED file
    BY <2>1
  <2>2. ASSUME NEW c \in Config \cup {BadFile}, Edit(c) PROVE I'
    BY <2>2 DEF Edit
  <2>3. UNCHANGED file \/ \E c \in Config \cup {BadFile} : Edit(c)
    BY DEF Next, Process, Tick, Environment, Top, SelectReturns, SelectFails, ClearReload, Load,
       ReadTun, CheckTimeout, SendShard, Flushed, Recv, SendProbes, Drain,
       SigTerm, SigHup, PacketArrives, EchoArrives, LinkFails, vars, admin
  <2> QED BY <2>1, <2>2, <2>3
<1> QED BY <1>1, <1>2, PTL DEF Spec

\* Every step of the gateway is a call of the scheduler, or none.
LEMMA SchedulerStep ==
    ASSUME SocketInv, file \in Config \cup {InitialConfig, BadFile}, [Next]_vars
    PROVE  [Scheduler!Next]_Scheduler!svars
<1>1. CASE UNCHANGED svars
  BY <1>1 DEF svars, Scheduler!svars
<1> USE SameCalls
<1>2. CASE SendShard
  <2>1. S!PickNone \/ \E p \in Path : S!Pick(p)
    BY <1>2 DEF SendShard
  <2> QED BY <2>1 DEF Scheduler!Next, Scheduler!NextPath, Path
<1>3. CASE Load
  <2>1. UNCHANGED svars \/ (file # BadFile /\ S!Reload(file))
    BY <1>3 DEF Load
  <2> QED BY <1>1, <2>1 DEF Scheduler!Next
<1>4. CASE Recv
  <2>1. CASE UNCHANGED svars
    BY <1>1, <2>1
  <2>2. ASSUME NEW p \in inbox, NEW a \in Source[p], S!UpdateProbe(Attributed(a), TRUE)
        PROVE  Scheduler!Next
    <3>1. Attributed(a) \in Path
      BY AttributedFacts DEF SocketInv
    <3>2. Scheduler!UpdateProbe(Attributed(a), TRUE)
      BY <2>2
    <3> QED BY <3>1, <3>2 DEF Scheduler!Next, Path
  <2> QED BY <1>4, <2>1, <2>2 DEF Recv
<1>5. UNCHANGED svars \/ SendShard \/ Load \/ Recv
  BY DEF Next, Process, Tick, Environment, Top, SelectReturns, SelectFails, ClearReload,
     ReadTun, CheckTimeout, Flushed, SendProbes, Drain, SigTerm, SigHup, PacketArrives, Edit,
     EchoArrives, LinkFails, vars
<1> QED BY <1>1, <1>2, <1>3, <1>4, <1>5

\* The running gateway uses the scheduler as Strategy describes it: whatever
\* signals, echoes, packets and edits come, its steps are calls of
\* strategy_next_path, strategy_update_probe and strategy_reload.
THEOREM RunsScheduler == Spec => Scheduler!Spec
<1>1. Init => Scheduler!Init
  BY SameCalls DEF Init
<1>2. SocketInv /\ file \in Config \cup {InitialConfig, BadFile} /\ [Next]_vars
        => [Scheduler!Next]_Scheduler!svars
  BY SchedulerStep
<1> QED BY <1>1, <1>2, SocketInvariance, FileType, PTL DEF Spec, Scheduler!Spec

\* So its credits are never negative and always add up, ...
LEMMA CreditsInGateway == Spec => []Scheduler!IInv
<1>1. Scheduler!Spec => []Scheduler!IInv
  BY SchedulerAssumptions, Scheduler!CreditInvariance
<1> QED BY <1>1, RunsScheduler, PTL

\* ... and a refill of the credits means that every usable path has been given
\* exactly its share, in the gateway as in any use of the scheduler.
THEOREM SharesInGateway == Spec => Scheduler!ExactShares
<1>1. Scheduler!Spec => Scheduler!ExactShares
  BY SchedulerAssumptions, Scheduler!SharesAreExact
<1> QED BY <1>1, RunsScheduler, PTL

-----------------------------------------------------------------------------
(***************************************************************************)
(* Types.                                                                  *)
(***************************************************************************)
\* The counters and flags that no step can take out of their type.
PlainTypes ==
    /\ running \in BOOLEAN /\ reload_flag \in BOOLEAN /\ intr \in BOOLEAN
    /\ ready \subseteq {"tun", "udp"} /\ waited \in Nat
    /\ cfg \in Config \cup {InitialConfig} /\ file \in Config \cup {InitialConfig, BadFile}
    /\ probe_age \in Nat /\ covered \subseteq Path
    /\ blocks_encoded \in Nat /\ arrived \in Nat /\ read \in Nat /\ flushed \in Nat
    /\ hups \in Nat /\ edits \in Nat /\ owed \in BOOLEAN /\ skips \in Nat
    /\ disturbed \in BOOLEAN

\* The place in the loop, the pending block and the block being sent.  A read
\* of the TUN device finds the packet that select() has reported.
LoopTypes ==
    /\ pc \in Place
    /\ tx \in [block_id : Nat, pkt_count : 0..K, age : Nat]
    /\ pc \notin {"send", "exit"} => tx.pkt_count < K
    /\ shard \in [i : Nat, n : {0} \cup K..MaxN, ret : {"none", "timeout", "recv", "exit"}]
    /\ shard.i <= shard.n
    /\ pc = "send" => shard.ret # "none"
    /\ tun \in Nat
    /\ pc = "tun" /\ "tun" \in ready => tun > 0

\* What a flush begins with.
LEMMA FlushShape ==
    ASSUME Scheduler!IInv, NEW ret \in {"timeout", "recv", "exit"}, Flush(ret)
    PROVE  /\ pc' = "send" /\ shard'.ret = ret
           /\ shard' \in [i : Nat, n : {0} \cup K..MaxN, ret : {"none", "timeout", "recv", "exit"}]
           /\ shard'.i <= shard'.n
<1>1. S!ComputeN(S!NumUsable) \in K..MaxN
  BY SchedulerAssumptions, SameCalls, Scheduler!ComputeNType
<1> DEFINE n == S!ComputeN(S!NumUsable)
<1>2. n \in {0} \cup K..MaxN /\ n \in Nat /\ 0 <= n
  BY <1>1, SchedulerAssumption
<1>3. shard' = [i |-> 0, n |-> n, ret |-> ret] /\ pc' = "send"
  BY DEF Flush
<1> HIDE DEF n
<1> QED BY <1>2, <1>3

\* Steps that change neither the place in the loop nor a packet or shard.
LEMMA LoopStays ==
    ASSUME LoopTypes, UNCHANGED <<tx, shard, tun>>,
           pc' \in Place \ {"send", "tun"}, pc \notin {"send", "exit"}
    PROVE  LoopTypes'
BY DEF LoopTypes

\* Steps of the environment, which may bring a packet.
LEMMA LoopOutside ==
    ASSUME LoopTypes, UNCHANGED <<pc, tx, shard, ready>>, tun' \in {tun, tun + 1}
    PROVE  LoopTypes'
BY DEF LoopTypes

\* A step of the loop that begins a flush or does not.
LEMMA LoopFlush ==
    ASSUME LoopTypes, Scheduler!IInv, NEW ret \in {"timeout", "recv", "exit"},
           Flush(ret) \/ (NoFlush(ret) /\ (tx'.pkt_count < K \/ ret = "exit")),
           tx' \in [block_id : Nat, pkt_count : 0..K, age : Nat], tun' \in Nat
    PROVE  LoopTypes'
<1>1. CASE Flush(ret)
  BY <1>1, FlushShape DEF LoopTypes, Place
<1>2. CASE NoFlush(ret) /\ (tx'.pkt_count < K \/ ret = "exit")
  BY <1>2 DEF LoopTypes, NoFlush, Place
<1> QED BY <1>1, <1>2

\* One packet is read into a block that is not full.
LEMMA LoopReadTun == ASSUME LoopTypes, Scheduler!IInv, ReadTun PROVE LoopTypes'
<1>1. pc = "tun" /\ tx.pkt_count < K /\ tun \in Nat /\ K \in Nat
      /\ ("tun" \in ready => tun - 1 \in Nat)
  BY SchedulerAssumption DEF ReadTun, LoopTypes
<1>2. CASE /\ "tun" \in ready /\ tun' = tun - 1
           /\ tx' = [tx EXCEPT !.pkt_count = tx.pkt_count + 1]
           /\ IF Full(tx.pkt_count + 1) THEN Flush("timeout") ELSE NoFlush("timeout")
  <2>1. /\ tx' \in [block_id : Nat, pkt_count : 0..K, age : Nat]
        /\ tx'.pkt_count = tx.pkt_count + 1
    BY <1>1, <1>2 DEF LoopTypes
  <2>2. Flush("timeout") \/ (NoFlush("timeout") /\ tx'.pkt_count < K)
    BY <1>1, <1>2, <2>1 DEF Full, LoopTypes
  <2> QED BY <1>1, <1>2, <2>1, <2>2, LoopFlush
<1>3. CASE NoFlush("timeout") /\ tx' = tx /\ (tun' = tun \/ ("tun" \in ready /\ tun' = tun - 1))
  <2>1. tun' \in Nat /\ tx'.pkt_count < K
    BY <1>1, <1>3
  <2>2. tx' \in [block_id : Nat, pkt_count : 0..K, age : Nat]
    BY <1>3 DEF LoopTypes
  <2> QED BY <1>3, <2>1, <2>2, LoopFlush
<1> QED BY <1>2, <1>3 DEF ReadTun, LoopTypes

\* The end of tx_block_flush.
LEMMA LoopFlushed == ASSUME LoopTypes, Flushed PROVE LoopTypes'
<1>1. /\ pc = "send" /\ pc' = shard.ret /\ shard.ret \in {"timeout", "recv", "exit"}
      /\ shard' = NoShard /\ tun' = tun
  BY DEF Flushed, LoopTypes
<1>2. tx' \in [block_id : Nat, pkt_count : 0..K, age : Nat]
      /\ (shard.ret # "exit" => tx'.pkt_count = 0)
  BY SchedulerAssumption DEF Flushed, LoopTypes
<1>3. shard' = [i |-> 0, n |-> 0, ret |-> "none"]
  BY <1>1 DEF NoShard
<1> QED BY <1>1, <1>2, <1>3, SchedulerAssumption DEF LoopTypes, Place

\* Every step keeps the loop where it may be.
LEMMA LoopNext == ASSUME LoopTypes, Scheduler!IInv, [Next]_vars PROVE LoopTypes'
<1>1. CASE Top
  BY <1>1, LoopStays DEF Top, block, Place
<1>2. CASE SelectReturns
  BY <1>2 DEF SelectReturns, ReadyNow, block, Place, LoopTypes
<1>3. CASE SelectFails \/ ClearReload \/ Recv \/ SendProbes
  BY <1>3, LoopStays DEF SelectFails, ClearReload, Recv, SendProbes, block, Place
<1>4. CASE Load
  BY <1>4, LoopStays DEF Load, Place
<1>5. CASE CheckTimeout
  <2>1. Flush("recv") \/ NoFlush("recv")
    BY <1>5 DEF CheckTimeout
  <2>2. pc = "timeout" /\ UNCHANGED <<tx, tun>>
    BY <1>5 DEF CheckTimeout
  <2> QED BY <2>1, <2>2, LoopFlush DEF LoopTypes
<1>6. CASE Drain
  <2>1. Flush("exit") \/ NoFlush("exit")
    BY <1>6 DEF Drain
  <2>2. pc = "drain" /\ UNCHANGED <<tx, tun>>
    BY <1>6 DEF Drain
  <2> QED BY <2>1, <2>2, LoopFlush DEF LoopTypes
<1>7. CASE SendShard
  <2>1. /\ pc = "send" /\ pc' = pc /\ UNCHANGED <<tx, tun>> /\ shard.i < shard.n
        /\ shard' = [shard EXCEPT !.i = shard.i + 1]
    BY <1>7 DEF SendShard, LoopTypes
  <2>2. shard.n \in Nat
    BY SchedulerAssumption DEF LoopTypes
  <2>3. /\ shard' \in [i : Nat, n : {0} \cup K..MaxN, ret : {"none", "timeout", "recv", "exit"}]
        /\ shard'.i <= shard'.n /\ shard'.ret = shard.ret
    BY <2>1, <2>2 DEF LoopTypes
  <2> QED BY <2>1, <2>3 DEF LoopTypes
<1>8. CASE Tick
  <2>1. /\ pc = "select" /\ UNCHANGED <<pc, shard, tun>>
        /\ tx' = [tx EXCEPT !.age = IF tx.pkt_count > 0 THEN tx.age + 1 ELSE tx.age]
    BY <1>8 DEF Tick, LoopTypes
  <2>2. tx' \in [block_id : Nat, pkt_count : 0..K, age : Nat] /\ tx'.pkt_count = tx.pkt_count
    BY <2>1 DEF LoopTypes
  <2> QED BY <2>1, <2>2 DEF LoopTypes
<1>9. CASE Environment
  BY <1>9, LoopOutside DEF Environment, SigTerm, SigHup, PacketArrives, Edit, EchoArrives,
     LinkFails, loop, block
<1>10. CASE UNCHANGED vars
  BY <1>10, LoopOutside DEF vars, loop, block
<1> QED BY <1>1, <1>2, <1>3, <1>4, <1>5, <1>6, <1>7, <1>8, <1>9, <1>10,
           LoopReadTun, LoopFlushed DEF Next, Process

\* Every step keeps the counters and flags in their types.
LEMMA PlainNext ==
    ASSUME PlainTypes, LoopTypes, [Next]_vars
    PROVE  PlainTypes'
<1>1. CASE Top \/ SelectReturns \/ SelectFails \/ ClearReload
  <2>1. /\ UNCHANGED <<running, cfg, block, admin, probe_age, disturbed>>
        /\ reload_flag' \in {reload_flag, FALSE} /\ intr' \in {intr, FALSE}
        /\ ready' \in {ready, {}, ReadyNow} /\ waited' \in {waited, 0}
    BY <1>1 DEF Top, SelectReturns, SelectFails, ClearReload, loop
  <2>2. ReadyNow \subseteq {"tun", "udp"}
    BY DEF ReadyNow
  <2>3. ready' \subseteq {"tun", "udp"} /\ waited' \in Nat
    BY <2>1, <2>2 DEF PlainTypes
  <2>4. reload_flag' \in BOOLEAN /\ intr' \in BOOLEAN
    BY <2>1 DEF PlainTypes
  <2> QED BY <2>1, <2>3, <2>4 DEF PlainTypes, block, admin
<1>2. CASE Load
  <2>1. /\ UNCHANGED <<running, reload_flag, intr, ready, waited, probe_age, file, hups, edits,
                       blocks_encoded, arrived, read, flushed, covered>>
        /\ owed' = FALSE
    BY <1>2 DEF Load
  <2>2. skips' \in {skips, skips + 1}
    BY <1>2 DEF Load
  <2>3. cfg' = cfg \/ (file # BadFile /\ cfg' = file)
    BY <1>2 DEF Load
  <2>4. disturbed' = disturbed \/ disturbed' = TRUE
    BY <1>2 DEF Load
  <2>5. cfg' \in Config \cup {InitialConfig}
    BY <2>3 DEF PlainTypes
  <2>6. disturbed' \in BOOLEAN
    BY <2>4 DEF PlainTypes
  <2>7. skips' \in Nat
    BY <2>2 DEF PlainTypes
  <2> QED BY <2>1, <2>5, <2>6, <2>7 DEF PlainTypes
<1>3. CASE ReadTun
  <2>1. read' \in {read, read + 1} /\ UNCHANGED <<loop, admin, probe_age,
                                       blocks_encoded, arrived, flushed, skips>>
    BY <1>3 DEF ReadTun
  <2>2. covered' \in {covered, {}} /\ disturbed' \in BOOLEAN
    BY <1>3 DEF ReadTun, Flush, NoFlush, PlainTypes
  <2> QED BY <2>1, <2>2 DEF PlainTypes, loop, admin
<1>4. CASE CheckTimeout \/ Drain
  <2>1. UNCHANGED <<loop, admin, probe_age, blocks_encoded, arrived, read, flushed, skips>>
    BY <1>4 DEF CheckTimeout, Drain
  <2>2. covered' \in {covered, {}} /\ disturbed' \in BOOLEAN
    BY <1>4 DEF CheckTimeout, Drain, Flush, NoFlush, PlainTypes
  <2> QED BY <2>1, <2>2 DEF PlainTypes, loop, admin
<1>5. CASE SendShard
  <2>1. covered' \subseteq Path
    BY <1>5 DEF SendShard, PlainTypes
  <2> QED BY <1>5, <2>1 DEF SendShard, PlainTypes, loop, admin
<1>6. CASE Flushed
  <2>1. tx.pkt_count \in Nat
    BY SchedulerAssumption DEF LoopTypes
  <2> QED BY <1>6, <2>1 DEF Flushed, PlainTypes, loop, admin
<1>7. CASE Recv \/ SendProbes
  <2>1. UNCHANGED <<loop, block, admin>>
    BY <1>7 DEF Recv, SendProbes
  <2>2. probe_age' \in {probe_age, 0}
    BY <1>7 DEF Recv, SendProbes
  <2>3. disturbed' = disturbed \/ disturbed' = TRUE
    BY <1>7 DEF Recv, SendProbes
  <2>4. probe_age' \in Nat
    BY <2>2 DEF PlainTypes
  <2>5. disturbed' \in BOOLEAN
    BY <2>3 DEF PlainTypes
  <2> QED BY <2>1, <2>4, <2>5 DEF PlainTypes, loop, block, admin
<1>8. CASE Tick
  BY <1>8 DEF Tick, PlainTypes, admin
<1>9. CASE Environment
  <2>1. CASE SigTerm \/ SigHup
    <3>1. intr' \in {intr, TRUE}
      BY <2>1 DEF SigTerm, SigHup, Interrupts
    <3>2. intr' \in BOOLEAN
      BY <3>1 DEF PlainTypes
    <3>3. CASE SigTerm
      BY <3>2, <3>3 DEF SigTerm, PlainTypes, block, admin
    <3>4. CASE SigHup
      BY <3>2, <3>4 DEF SigHup, PlainTypes, block
    <3> QED BY <2>1, <3>3, <3>4
  <2>2. CASE PacketArrives
    BY <2>2 DEF PacketArrives, PlainTypes, loop, admin
  <2>3. ASSUME NEW c \in Config \cup {BadFile}, Edit(c) PROVE PlainTypes'
    BY <2>3 DEF Edit, PlainTypes, loop, block
  <2>4. ASSUME NEW p \in Path, EchoArrives(p) \/ LinkFails(p) PROVE PlainTypes'
    BY <2>4 DEF EchoArrives, LinkFails, PlainTypes, loop, block, admin
  <2> QED BY <1>9, <2>1, <2>2, <2>3, <2>4 DEF Environment
<1>10. CASE UNCHANGED vars
  BY <1>10 DEF vars, PlainTypes, loop, block, admin
<1> QED BY <1>1, <1>2, <1>3, <1>4, <1>5, <1>6, <1>7, <1>8, <1>9, <1>10 DEF Next, Process

\* The start of main establishes the types.
LEMMA TypesInit == Init => PlainTypes /\ LoopTypes
<1> SUFFICES ASSUME Init PROVE PlainTypes /\ LoopTypes
  OBVIOUS
<1>1. /\ tx \in [block_id : Nat, pkt_count : 0..K, age : Nat] /\ tx.pkt_count < K
      /\ shard \in [i : Nat, n : {0} \cup K..MaxN, ret : {"none", "timeout", "recv", "exit"}]
      /\ shard.i <= shard.n
  BY SchedulerAssumption DEF Init, NoShard
<1>2. LoopTypes
  BY <1>1 DEF Init, LoopTypes, Place
<1>3. PlainTypes
  BY DEF Init, PlainTypes
<1> QED BY <1>2, <1>3

\* Every variable of the sending gateway keeps its type; in particular a
\* pending block has fewer than k packets whenever a packet may be added, and
\* a block is sent as at least k and at most MAX_N shards.
THEOREM TypeCorrect == Spec => []TypeOK
<1>1. Init => PlainTypes /\ LoopTypes
  BY TypesInit
<1>2. PlainTypes /\ LoopTypes /\ Scheduler!IInv /\ [Next]_vars => PlainTypes' /\ LoopTypes'
  BY PlainNext, LoopNext
<1>3. PlainTypes /\ LoopTypes /\ Scheduler!IInv /\ SocketInv => TypeOK
  <2>1. Scheduler!IInv => S!TypeOK
    BY SameCalls DEF Scheduler!IInv
  <2> QED BY <2>1 DEF PlainTypes, LoopTypes, SocketInv, TypeOK
<1> QED BY <1>1, <1>2, <1>3, CreditsInGateway, SocketInvariance, PTL DEF Spec

-----------------------------------------------------------------------------
(***************************************************************************)
(* Every usable path gets a shard of every block that is long enough.      *)
(*                                                                         *)
(* What the credits still allow is counted as a set of tickets, one for    *)
(* each credit of each usable path.                                        *)
(***************************************************************************)
\* What a ticket is.
LEMMA TicketMember ==
    ASSUME NEW U, NEW f
    PROVE  \A t : t \in Tickets(U, f) <=> \E p \in U : \E c \in 1..f[p] : t = <<p, c>>
<1> TAKE t
<1>1. ASSUME t \in Tickets(U, f) PROVE \E p \in U : \E c \in 1..f[p] : t = <<p, c>>
  <2>1. PICK p \in U : t \in {p} \X (1..f[p])
    BY <1>1 DEF Tickets
  <2>2. t = <<p, t[2]>> /\ t[2] \in 1..f[p]
    BY <2>1
  <2> QED BY <2>2
<1>2. ASSUME NEW p \in U, NEW c \in 1..f[p], t = <<p, c>> PROVE t \in Tickets(U, f)
  <2>1. t \in {p} \X (1..f[p])
    BY <1>2
  <2> QED BY <2>1 DEF Tickets
<1> QED BY <1>1, <1>2

\* Finitely many paths have finitely many tickets.
LEMMA TicketsFinite ==
    ASSUME NEW U, IsFiniteSet(U), NEW f, \A p \in U : f[p] \in Nat
    PROVE  IsFiniteSet(Tickets(U, f)) /\ Cardinality(Tickets(U, f)) \in Nat
<1> DEFINE g == [p \in U |-> {p} \X (1..f[p])]
           T == {{p} \X (1..f[p]) : p \in U}
<1>1. g \in Surjection(U, T)
  <2>1. g \in [U -> T]
    OBVIOUS
  <2>2. \A t \in T : \E p \in U : g[p] = t
    OBVIOUS
  <2> HIDE DEF g, T
  <2> QED BY <2>1, <2>2 DEF Surjection
<1>2. IsFiniteSet(T)
  <2> HIDE DEF g, T
  <2> QED BY <1>1, FS_Surjection
<1>3. ASSUME NEW t \in T PROVE IsFiniteSet(t)
  <2>1. PICK p \in U : t = {p} \X (1..f[p])
    OBVIOUS
  <2>2. IsFiniteSet({p})
    BY FS_Singleton, Zenon
  <2>3. \A n \in Nat : IsFiniteSet(1..n)
    BY FS_Interval
  <2> QED BY <2>1, <2>2, <2>3, FS_Product
<1>4. IsFiniteSet(UNION T)
  <2> HIDE DEF T
  <2> QED BY <1>2, <1>3, FS_UNION
<1>5. IsFiniteSet(Tickets(U, f))
  BY <1>4 DEF Tickets
<1> QED BY <1>5, FS_CardinalityType

\* More credits, more tickets.
LEMMA TicketsGrow ==
    ASSUME NEW U, IsFiniteSet(U), NEW f, NEW g,
           \A p \in U : f[p] \in Nat /\ g[p] \in Nat /\ f[p] <= g[p]
    PROVE  Cardinality(Tickets(U, f)) <= Cardinality(Tickets(U, g))
<1>1. Tickets(U, f) \subseteq Tickets(U, g)
  <2> SUFFICES ASSUME NEW p \in U, NEW c \in 1..f[p] PROVE <<p, c>> \in Tickets(U, g)
    BY TicketMember
  <2>1. c \in 1..g[p]
    OBVIOUS
  <2> QED BY <2>1, TicketMember
<1>2. IsFiniteSet(Tickets(U, g))
  BY TicketsFinite
<1> QED BY <1>1, <1>2, FS_Subset

\* A credit that is used up is a ticket less.
LEMMA TicketTaken ==
    ASSUME NEW U, IsFiniteSet(U), NEW f, NEW g, NEW p \in U,
           \A q \in U : f[q] \in Nat,
           f[p] >= 1, g[p] = f[p] - 1, \A q \in U \ {p} : g[q] = f[q]
    PROVE  Cardinality(Tickets(U, g)) = Cardinality(Tickets(U, f)) - 1
<1> DEFINE t == <<p, f[p]>>
<1>1. t \in Tickets(U, f)
  BY TicketMember
<1>2. Tickets(U, g) \subseteq Tickets(U, f) \ {t}
  <2> SUFFICES ASSUME NEW q \in U, NEW c \in 1..g[q]
               PROVE  <<q, c>> \in Tickets(U, f) /\ <<q, c>> # t
    BY TicketMember
  <2>1. c \in 1..f[q] /\ (q = p => c # f[p])
    OBVIOUS
  <2> QED BY <2>1, TicketMember
<1>3. Tickets(U, f) \ {t} \subseteq Tickets(U, g)
  <2> SUFFICES ASSUME NEW q \in U, NEW c \in 1..f[q], <<q, c>> # t
               PROVE  <<q, c>> \in Tickets(U, g)
    BY TicketMember
  <2>1. c \in 1..g[q]
    OBVIOUS
  <2> QED BY <2>1, TicketMember
<1>4. IsFiniteSet(Tickets(U, f))
  BY TicketsFinite
<1> HIDE DEF t
<1> QED BY <1>1, <1>2, <1>3, <1>4, FS_RemoveElement

\* One ticket for each path of a set.
LEMMA OneEach ==
    ASSUME NEW A, IsFiniteSet(A)
    PROVE  IsFiniteSet(A \X {1}) /\ Cardinality(A \X {1}) = Cardinality(A)
<1>1. IsFiniteSet({1}) /\ Cardinality({1}) = 1
  BY FS_Singleton
<1>2. Cardinality(A \X {1}) = Cardinality(A) * 1 /\ IsFiniteSet(A \X {1})
  BY <1>1, FS_Product
<1>3. Cardinality(A) \in Nat
  BY FS_CardinalityType
<1> QED BY <1>2, <1>3

\* Paths that have a credit each have that many tickets at least, ...
LEMMA AtLeastOneEach ==
    ASSUME NEW U, IsFiniteSet(U), NEW f, NEW A \in SUBSET U,
           \A p \in U : f[p] \in Nat, \A p \in A : f[p] >= 1
    PROVE  Cardinality(A) <= Cardinality(Tickets(U, f))
<1>1. A \X {1} \subseteq Tickets(U, f)
  <2> SUFFICES ASSUME NEW p \in A PROVE <<p, 1>> \in Tickets(U, f)
    OBVIOUS
  <2> QED BY TicketMember
<1>2. IsFiniteSet(A)
  BY FS_Subset
<1>3. Cardinality(A \X {1}) <= Cardinality(Tickets(U, f))
  BY <1>1, TicketsFinite, FS_Subset
<1> QED BY <1>2, <1>3, OneEach

\* ... and paths that have one credit or none, no more.
LEMMA AtMostOneEach ==
    ASSUME NEW U, IsFiniteSet(U), NEW f, NEW A \in SUBSET U,
           \A p \in U : f[p] \in Nat /\ f[p] <= 1 /\ (f[p] = 1 => p \in A)
    PROVE  Cardinality(Tickets(U, f)) <= Cardinality(A)
<1>1. Tickets(U, f) \subseteq A \X {1}
  <2> SUFFICES ASSUME NEW p \in U, NEW c \in 1..f[p] PROVE <<p, c>> \in A \X {1}
    BY TicketMember
  <2>1. f[p] = 1 /\ c = 1
    OBVIOUS
  <2> QED BY <2>1
<1>2. IsFiniteSet(A)
  BY FS_Subset
<1>3. Cardinality(Tickets(U, f)) <= Cardinality(A \X {1})
  BY <1>1, <1>2, OneEach, FS_Subset
<1> QED BY <1>2, <1>3, OneEach

\* The credits of the paths are level: a path that has been given a shard has
\* at most one credit less than any other, and one less than a later path only.
Leveled ==
    \A p, q \in S!Usable :
        used[p] > 0 => \/ path_credit[q] <= path_credit[p]
                       \/ path_credit[q] = path_credit[p] + 1 /\ p < q

\* The usable paths that come after p.
Later(p) == {q \in S!Usable : q > p}

\* The shards of the block that have been given, or can be before a refill.
Given == shard.i + Cardinality(Tickets(S!Usable, path_credit))

\* Where a block stands that has not used path p: the credits it began with
\* are not used up yet, and if p has none they are those of later paths; or
\* they have been refilled, and p has its full share.
BeforeRefill(p) ==
    Given <= Round /\ (path_credit[p] = 0 => Given <= Cardinality(Later(p)))
AfterRefill(p) == used[p] = 0 /\ Given <= Round + Cardinality(Later(p))

Pending(p) == p \notin covered => BeforeRefill(p) \/ AfterRefill(p)

\* The same for credits that need not be level: if p has none, at least one
\* shard of a round is missing.
LooselyBefore(p) == Given <= Round /\ (path_credit[p] = 0 => Given <= Round - 1)
LooselyAfter(p)  == used[p] = 0 /\ Given <= 2 * Round - 1

LooselyPending(p) == p \notin covered => LooselyBefore(p) \/ LooselyAfter(p)

\* The inductive invariant.
CoverInv ==
    /\ pc = "send" => \A p \in S!Usable : HasSocket(p) => LooselyPending(p)
    /\ ~disturbed =>
          /\ Leveled
          /\ pc = "send" => \A p \in S!Usable : HasSocket(p) => Pending(p)

Quotas == [p \in Path |-> S!Quota(weight[p])]

\* The credits add up, for paths that are usable.
LEMMA CreditFacts ==
    ASSUME Scheduler!IInv
    PROVE  /\ path_credit \in [Path -> Nat] /\ used \in [Path -> Nat]
           /\ S!Usable \subseteq Path /\ Path \subseteq Nat
           /\ IsFiniteSet(S!Usable)
           /\ \A p \in Path : Quotas[p] \in Nat /\ Quotas[p] >= 1
           /\ \A p \in S!Usable : used[p] + path_credit[p] = Quotas[p]
<1>1. path_credit \in [Path -> Nat] /\ used \in [Path -> Nat] /\ weight \in [Path -> Int]
  BY SameCalls DEF Scheduler!IInv, S!TypeOK, Path
<1>2. S!Usable \subseteq Path /\ Path \subseteq Nat
  BY SchedulerAssumption DEF S!Usable, Path, S!Path
<1>3. IsFiniteSet(Path)
  <2>1. NumPaths - 1 \in Int
    BY SchedulerAssumption
  <2> QED BY <2>1, FS_Interval DEF Path, S!Path
<1>4. IsFiniteSet(S!Usable)
  BY <1>2, <1>3, FS_Subset
<1>5. \A p \in Path : Quotas[p] \in Nat /\ Quotas[p] >= 1
  BY <1>1 DEF Quotas, S!Quota
<1>6. \A p \in S!Usable : used[p] + path_credit[p] = Quotas[p]
  <2>1. \A p \in Path : enabled[p] => used[p] + path_credit[p] = Scheduler!Quota(weight[p])
    BY DEF Scheduler!IInv, Scheduler!CreditBalance, Path, S!Path, Scheduler!Path
  <2>2. \A p \in Path : Scheduler!Quota(weight[p]) = Quotas[p]
    BY DEF Scheduler!Quota, S!Quota, Quotas
  <2> QED BY <1>2, <2>1, <2>2 DEF S!Usable
<1> QED BY <1>1, <1>2, <1>4, <1>5, <1>6

\* The numbers of tickets and of paths are natural numbers, and a round is at
\* least a shard for each path.
LEMMA CountFacts ==
    ASSUME Scheduler!IInv
    PROVE  /\ Cardinality(Tickets(S!Usable, path_credit)) \in Nat /\ Round \in Nat
           /\ Cardinality(Tickets(S!Usable, path_credit)) <= Round
           /\ \A p : Cardinality(Later(p)) \in Nat
           /\ \A p \in S!Usable : Cardinality(Later(p)) + 1 <= Round
           /\ Round = Cardinality(Tickets(S!Usable, Quotas))
<1> DEFINE U == S!Usable
<1>1. IsFiniteSet(U) /\ \A p \in U : path_credit[p] \in Nat /\ Quotas[p] \in Nat
                                  /\ path_credit[p] <= Quotas[p] /\ Quotas[p] >= 1
  BY CreditFacts
<1>2. Round = Cardinality(Tickets(U, Quotas))
  BY DEF Round, Quotas
<1> HIDE DEF U
<1>3. /\ Cardinality(Tickets(U, path_credit)) \in Nat
      /\ Cardinality(Tickets(U, Quotas)) \in Nat
      /\ Cardinality(Tickets(U, path_credit)) <= Cardinality(Tickets(U, Quotas))
  BY <1>1, TicketsFinite, TicketsGrow
<1>4. ASSUME NEW p
      PROVE  /\ IsFiniteSet(Later(p)) /\ Cardinality(Later(p)) \in Nat
             /\ Later(p) \subseteq U
  <2>1. Later(p) \subseteq U
    BY DEF Later, U
  <2>2. IsFiniteSet(Later(p))
    BY <1>1, <2>1, FS_Subset
  <2> QED BY <2>1, <2>2, FS_CardinalityType DEF Later
<1>5. ASSUME NEW p \in U PROVE Cardinality(Later(p)) + 1 <= Round
  <2> DEFINE A == Later(p) \cup {p}
  <2>1. IsFiniteSet(Later(p)) /\ p \notin Later(p) /\ Later(p) \subseteq U
    <3>1. p \in Nat
      BY CreditFacts DEF U
    <3>2. p \notin Later(p)
      BY <3>1 DEF Later
    <3> QED BY <1>4, <3>2
  <2>2. Cardinality(A) = Cardinality(Later(p)) + 1
    BY <2>1, FS_AddElement
  <2>3. A \subseteq U
    BY <2>1
  <2> HIDE DEF A
  <2> QED BY <1>1, <1>2, <2>2, <2>3, AtLeastOneEach
<1> QED BY <1>2, <1>3, <1>4, <1>5 DEF U

\* The credits and the shards given after a refill, if one is due.
Refill == /\ S!Credit \in [Path -> Nat]
          /\ \A q \in S!Usable :
                IF S!NeedRefill THEN S!Credit[q] = Quotas[q] /\ path_credit[q] = 0
                                ELSE S!Credit[q] = path_credit[q]

Shares == S!Refilled(used, [q \in Path |-> 0])

\* What strategy_next_path does, told from the credits after the refill.
LEMMA PickFacts ==
    ASSUME Scheduler!IInv, NEW b \in Path, S!Pick(b)
    PROVE  /\ UNCHANGED <<S!Usable, Quotas, Round>> /\ \A p : UNCHANGED Later(p)
           /\ b \in S!Usable /\ Refill /\ S!Credit[b] >= 1
           /\ \A q \in S!Usable : \/ S!Credit[q] < S!Credit[b]
                                  \/ S!Credit[q] = S!Credit[b] /\ b <= q
           /\ \A q \in S!Usable : path_credit'[q] = IF q = b THEN S!Credit[q] - 1 ELSE S!Credit[q]
           /\ \A q \in S!Usable :
                 /\ Shares[q] = IF S!NeedRefill THEN 0 ELSE used[q]
                 /\ used'[q] = IF q = b THEN Shares[q] + 1 ELSE Shares[q]
<1>1. UNCHANGED <<S!Usable, Quotas, Round>> /\ \A p : UNCHANGED Later(p)
  BY DEF S!Pick, S!Usable, Quotas, Round, Later
<1>2. Refill
  <2>1. S!Credit \in [Path -> Nat]
    BY CreditFacts DEF S!Credit, S!Refilled, Path, S!Path, Quotas
  <2>2. ASSUME NEW q \in S!Usable, S!NeedRefill
        PROVE  S!Credit[q] = Quotas[q] /\ path_credit[q] = 0
    <3>1. path_credit[q] <= 0 /\ path_credit[q] \in Nat /\ q \in Path
      BY <2>2, CreditFacts DEF S!NeedRefill
    <3> QED BY <2>2, <3>1 DEF S!Credit, S!Refilled, Quotas, Path
  <2>3. ASSUME NEW q \in S!Usable, ~S!NeedRefill PROVE S!Credit[q] = path_credit[q]
    BY <2>3, CreditFacts DEF S!Credit, S!Refilled, Path
  <2> QED BY <2>1, <2>2, <2>3 DEF Refill
<1>3. S!Best(b) /\ b \in S!Usable
  BY DEF S!Pick, S!Best
<1>4. \A q \in S!Usable : \/ S!Credit[q] < S!Credit[b]
                          \/ S!Credit[q] = S!Credit[b] /\ b <= q
  BY <1>3 DEF S!Best
<1>5. S!Credit[b] >= 1
  <2>1. CASE S!NeedRefill
    BY <1>2, <1>3, <2>1, CreditFacts DEF Refill
  <2>2. CASE ~S!NeedRefill
    <3>1. PICK q \in S!Usable : ~(path_credit[q] <= 0)
      BY <2>2 DEF S!NeedRefill
    <3>2. S!Credit[q] >= 1 /\ S!Credit[q] \in Nat /\ S!Credit[b] \in Nat
      BY <1>2, <2>2, <3>1, CreditFacts DEF Refill
    <3> QED BY <1>4, <3>2
  <2> QED BY <2>1, <2>2
<1>6. \A q \in S!Usable : path_credit'[q] = IF q = b THEN S!Credit[q] - 1 ELSE S!Credit[q]
  BY <1>2, CreditFacts DEF S!Pick, Refill
<1>7. \A q \in S!Usable : Shares[q] = IF S!NeedRefill THEN 0 ELSE used[q]
  BY CreditFacts DEF Shares, S!Refilled, Path
<1>8. \A q \in S!Usable : used'[q] = IF q = b THEN Shares[q] + 1 ELSE Shares[q]
  <2>1. used' = [Shares EXCEPT ![b] = @ + 1]
    BY DEF S!Pick, Shares, Path
  <2>2. Shares = [q \in Path |-> Shares[q]]
    BY DEF Shares, S!Refilled, Path
  <2> QED BY <2>1, <2>2, CreditFacts
<1> QED BY <1>1, <1>2, <1>3, <1>4, <1>5, <1>6, <1>7, <1>8

\* The path with the highest credit, the first among equals, is taken: so the
\* credits stay level.
LEMMA LevelPick ==
    ASSUME Scheduler!IInv, Leveled, NEW b \in Path, S!Pick(b) PROVE Leveled'
<1> DEFINE U == S!Usable
           C == S!Credit
<1>1. /\ U' = U /\ b \in U /\ U \subseteq Path /\ Path \subseteq Nat
      /\ C \in [Path -> Nat] /\ C[b] >= 1
      /\ \A q \in U : C[q] < C[b] \/ (C[q] = C[b] /\ b <= q)
      /\ \A q \in U : path_credit'[q] = IF q = b THEN C[q] - 1 ELSE C[q]
  BY PickFacts, CreditFacts DEF Refill
<1>2. \A q \in U : Shares[q] \in Nat /\ used'[q] = IF q = b THEN Shares[q] + 1 ELSE Shares[q]
  BY PickFacts, CreditFacts
<1>3. \A p, q \in U : Shares[p] > 0 => C[q] <= C[p] \/ (C[q] = C[p] + 1 /\ p < q)
  BY PickFacts DEF Refill, Leveled
<1> HIDE DEF U, C
<1>4. ASSUME NEW p \in U, NEW q \in U, used'[p] > 0
      PROVE  path_credit'[q] <= path_credit'[p]
             \/ (path_credit'[q] = path_credit'[p] + 1 /\ p < q)
  <2>1. p \in Nat /\ q \in Nat /\ b \in Nat /\ C[p] \in Nat /\ C[q] \in Nat /\ C[b] \in Nat
    BY <1>1
  <2>2. CASE p = b
    BY <1>1, <2>1, <2>2
  <2>3. CASE p # b
    <3>1. Shares[p] > 0
      BY <1>2, <1>4, <2>3
    <3>2. C[q] <= C[p] \/ (C[q] = C[p] + 1 /\ p < q)
      BY <1>3, <3>1
    <3> QED BY <1>1, <2>1, <2>3, <3>2
  <2> QED BY <2>2, <2>3
<1>5. \A p, q \in U' : used'[p] > 0 => path_credit'[q] <= path_credit'[p]
                          \/ (path_credit'[q] = path_credit'[p] + 1 /\ p < q)
  BY <1>1, <1>4
<1> QED BY <1>5 DEF Leveled, U

\* A shard is a ticket less.
LEMMA TicketsPick ==
    ASSUME Scheduler!IInv, NEW b \in Path, S!Pick(b)
    PROVE  LET next == Cardinality(Tickets(S!Usable, path_credit))'
           IN  next = IF S!NeedRefill THEN Round - 1
                      ELSE Cardinality(Tickets(S!Usable, path_credit)) - 1
<1> DEFINE U == S!Usable
           C == S!Credit
           c == path_credit'
<1>1. /\ IsFiniteSet(U) /\ b \in U /\ C[b] >= 1 /\ \A q \in U : C[q] \in Nat
      /\ c[b] = C[b] - 1 /\ \A q \in U \ {b} : c[q] = C[q]
  BY PickFacts, CreditFacts DEF Refill
<1>2. U' = U
  BY PickFacts
<1> HIDE DEF U, C, c
<1>3. Cardinality(Tickets(U, c)) = Cardinality(Tickets(U, C)) - 1
  BY <1>1, TicketTaken
<1>4. CASE S!NeedRefill
  <2>1. \A q \in U : C[q] = Quotas[q]
    BY <1>4, PickFacts DEF Refill, C, U
  <2>2. Tickets(U, C) = Tickets(U, Quotas)
    BY <2>1 DEF Tickets
  <2> QED BY <1>2, <1>3, <1>4, <2>2, CountFacts DEF U, c
<1>5. CASE ~S!NeedRefill
  <2>1. \A q \in U : C[q] = path_credit[q]
    BY <1>5, PickFacts DEF Refill, C, U
  <2>2. Tickets(U, C) = Tickets(U, path_credit)
    BY <2>1 DEF Tickets
  <2> QED BY <1>2, <1>3, <1>5, <2>2 DEF U, c
<1> QED BY <1>4, <1>5

\* The arithmetic of a shard that is not given to p.  g counts what the block
\* has given or can give, r is a full round, l the later paths.
LEMMA PendingPick ==
    ASSUME Scheduler!IInv, Leveled, shard.i \in Nat, shard'.i = shard.i + 1,
           NEW b \in Path, S!Pick(b), NEW p \in S!Usable, p # b,
           BeforeRefill(p) \/ AfterRefill(p)
    PROVE  BeforeRefill(p)' \/ AfterRefill(p)'
<1> DEFINE t == Cardinality(Tickets(S!Usable, path_credit))
           l == Cardinality(Later(p))
<1>1. t \in Nat /\ Round \in Nat /\ l \in Nat
  BY CountFacts
<1>2. /\ Round' = Round /\ l' = l
      /\ path_credit'[p] = S!Credit[p]
      /\ used'[p] = IF S!NeedRefill THEN 0 ELSE used[p]
  BY PickFacts
<1>3. p \in Path /\ path_credit[p] \in Nat /\ used[p] + path_credit[p] >= 1 /\ used[p] \in Nat
  BY CreditFacts
<1>4. Given = shard.i + t /\ Given' = shard'.i + t'
  BY DEF Given
<1>5. CASE ~S!NeedRefill
  <2>1. t' = t - 1
    BY <1>5, TicketsPick
  <2>2. path_credit'[p] = path_credit[p] /\ used'[p] = used[p]
    BY <1>2, <1>5, PickFacts DEF Refill
  <2> HIDE DEF t, l
  <2>3. Given' = Given
    BY <1>1, <1>4, <2>1
  <2> QED BY <1>2, <2>2, <2>3 DEF BeforeRefill, AfterRefill, l
<1>6. CASE S!NeedRefill
  <2>1. t' = Round - 1
    BY <1>6, TicketsPick
  <2>2. path_credit[p] = 0 /\ \A q \in S!Usable : path_credit[q] = 0
    BY <1>6, PickFacts DEF Refill
  <2>3. BeforeRefill(p)
    BY <1>3, <2>2 DEF AfterRefill
  <2> HIDE DEF t, l
  <2>4. Given' = shard.i + Round
    BY <1>1, <1>4, <2>1
  <2>5. shard.i <= l
    BY <1>1, <1>4, <2>2, <2>3 DEF BeforeRefill, l
  <2>6. Given' <= Round + l
    BY <1>1, <2>4, <2>5
  <2>7. used'[p] = 0
    BY <1>2, <1>6
  <2> QED BY <1>2, <2>6, <2>7 DEF AfterRefill, l
<1> QED BY <1>5, <1>6

\* The same without level credits: a second refill would need p to be without
\* credit after the first, before it has been given a shard.
LEMMA LoosePick ==
    ASSUME Scheduler!IInv, shard.i \in Nat, shard'.i = shard.i + 1,
           NEW b \in Path, S!Pick(b), NEW p \in S!Usable, p # b,
           LooselyBefore(p) \/ LooselyAfter(p)
    PROVE  LooselyBefore(p)' \/ LooselyAfter(p)'
<1> DEFINE t == Cardinality(Tickets(S!Usable, path_credit))
<1>1. t \in Nat /\ Round \in Nat
  BY CountFacts
<1>2. /\ Round' = Round
      /\ path_credit'[p] = S!Credit[p]
      /\ used'[p] = IF S!NeedRefill THEN 0 ELSE used[p]
  BY PickFacts
<1>3. p \in Path /\ path_credit[p] \in Nat /\ used[p] + path_credit[p] >= 1 /\ used[p] \in Nat
  BY CreditFacts
<1>4. Given = shard.i + t /\ Given' = shard'.i + t'
  BY DEF Given
<1>5. CASE ~S!NeedRefill
  <2>1. t' = t - 1
    BY <1>5, TicketsPick
  <2>2. path_credit'[p] = path_credit[p] /\ used'[p] = used[p]
    BY <1>2, <1>5, PickFacts DEF Refill
  <2> HIDE DEF t
  <2>3. Given' = Given
    BY <1>1, <1>4, <2>1
  <2> QED BY <1>2, <2>2, <2>3 DEF LooselyBefore, LooselyAfter
<1>6. CASE S!NeedRefill
  <2>1. t' = Round - 1
    BY <1>6, TicketsPick
  <2>2. path_credit[p] = 0
    BY <1>6, PickFacts DEF Refill
  <2>3. LooselyBefore(p)
    BY <1>3, <2>2 DEF LooselyAfter
  <2> HIDE DEF t
  <2>4. Given' = shard.i + Round
    BY <1>1, <1>4, <2>1
  <2>5. shard.i <= Round - 1
    BY <1>1, <1>4, <2>2, <2>3 DEF LooselyBefore
  <2>6. Given' <= 2 * Round - 1
    BY <1>1, <2>4, <2>5
  <2>7. used'[p] = 0
    BY <1>2, <1>6
  <2> QED BY <1>2, <2>6, <2>7 DEF LooselyAfter
<1> QED BY <1>5, <1>6

\* One shard of a block.
LEMMA CoverSend ==
    ASSUME Scheduler!IInv, CoverInv, shard.i \in Nat, ShardShape, SendShard
    PROVE  CoverInv'
<1>1. pc = "send" /\ UNCHANGED <<pc, disturbed>> /\ \A p : HasSocket(p)' <=> HasSocket(p)
  BY DEF SendShard, net, HasSocket
<1>2. shard'.i = shard.i + 1
  <2>1. shard' = [shard EXCEPT !.i = shard.i + 1]
    BY DEF SendShard
  <2> QED BY <2>1 DEF ShardShape
<1>3. CASE S!PickNone
  <2>1. S!Usable' = {}
    BY <1>3 DEF S!PickNone, S!Usable, S!svars
  <2> QED BY <2>1 DEF CoverInv, Leveled
<1>4. ASSUME NEW b \in Path, S!Pick(b),
             covered' = IF HasSocket(b) THEN covered \cup {b} ELSE covered
      PROVE  CoverInv'
  <2>1. S!Usable' = S!Usable /\ (~disturbed => Leveled')
    BY <1>1, <1>4, LevelPick, PickFacts DEF CoverInv
  <2>2. ASSUME NEW p \in S!Usable, HasSocket(p), p \notin covered'
        PROVE  /\ LooselyBefore(p)' \/ LooselyAfter(p)'
               /\ ~disturbed => BeforeRefill(p)' \/ AfterRefill(p)'
    <3>1. p # b /\ p \notin covered
      BY <1>4, <2>2
    <3>2. LooselyBefore(p) \/ LooselyAfter(p)
      BY <1>1, <2>2, <3>1 DEF CoverInv, LooselyPending
    <3>3. LooselyBefore(p)' \/ LooselyAfter(p)'
      BY <1>2, <1>4, <2>2, <3>1, <3>2, LoosePick
    <3>4. ASSUME ~disturbed PROVE BeforeRefill(p)' \/ AfterRefill(p)'
      <4>1. Leveled /\ (BeforeRefill(p) \/ AfterRefill(p))
        BY <1>1, <2>2, <3>1, <3>4 DEF CoverInv, Pending
      <4> QED BY <1>2, <1>4, <2>2, <3>1, <4>1, PendingPick
    <3> QED BY <3>3, <3>4
  <2>3. \A p \in S!Usable' : HasSocket(p)'
            => LooselyPending(p)' /\ (~disturbed => Pending(p)')
    BY <1>1, <2>1, <2>2 DEF Pending, LooselyPending
  <2> QED BY <1>1, <2>1, <2>3 DEF CoverInv
<1> QED BY <1>3, <1>4 DEF SendShard

\* The start of a block: its shards come from the credits that are left, those
\* of later paths if p has none.
LEMMA CoverFlush ==
    ASSUME Scheduler!IInv, CoverInv, NEW ret, Flush(ret), UNCHANGED svars
    PROVE  CoverInv'
<1> DEFINE U == S!Usable
           t == Cardinality(Tickets(U, path_credit))
<1>1. /\ U' = U /\ t' = t /\ Round' = Round /\ \A p : Later(p)' = Later(p)
      /\ path_credit' = path_credit /\ used' = used
  BY DEF svars, S!Usable, Round, Later
<1>2. shard'.i = 0
  BY DEF Flush
<1>3. t \in Nat /\ t <= Round /\ Round \in Nat
  BY CountFacts
<1>4. Given' = t
  <2>1. Given' = shard'.i + t'
    BY DEF Given
  <2> HIDE DEF t
  <2> QED BY <1>1, <1>2, <1>3, <2>1
<1>5. ASSUME NEW p \in U PROVE LooselyBefore(p)'
  <2>1. ASSUME path_credit[p] = 0 PROVE t <= Round - 1
    <3> DEFINE g == [path_credit EXCEPT ![p] = 1]
    <3>1. /\ IsFiniteSet(U) /\ p \in Path /\ path_credit \in [Path -> Nat] /\ U \subseteq Path
          /\ \A q \in U : Quotas[q] \in Nat /\ Quotas[q] >= 1 /\ path_credit[q] <= Quotas[q]
      BY CreditFacts
    <3>2. /\ \A q \in U : g[q] \in Nat /\ g[q] <= Quotas[q]
          /\ g[p] = 1 /\ \A q \in U \ {p} : path_credit[q] = g[q]
      BY <2>1, <3>1
    <3> HIDE DEF g
    <3>3. Cardinality(Tickets(U, path_credit)) = Cardinality(Tickets(U, g)) - 1
      <4>1. path_credit[p] = g[p] - 1 /\ g[p] >= 1
        BY <2>1, <3>2
      <4> HIDE DEF U
      <4> QED BY <1>5, <3>1, <3>2, <4>1, TicketTaken
    <3>4. Cardinality(Tickets(U, g)) <= Cardinality(Tickets(U, Quotas))
      <4> HIDE DEF U
      <4> QED BY <3>1, <3>2, TicketsGrow
    <3>5. Cardinality(Tickets(U, g)) \in Nat
      <4> HIDE DEF U
      <4> QED BY <3>1, <3>2, TicketsFinite
    <3>6. Round = Cardinality(Tickets(U, Quotas))
      BY CountFacts
    <3> HIDE DEF U
    <3> QED BY <1>3, <3>3, <3>4, <3>5, <3>6
  <2> HIDE DEF t
  <2>2. Given' <= Round' /\ (path_credit'[p] = 0 => Given' <= Round' - 1)
    BY <1>1, <1>3, <1>4, <2>1
  <2> QED BY <2>2 DEF LooselyBefore
<1>6. ASSUME ~disturbed' PROVE Leveled
  <2>1. CASE disturbed
    <3>1. S!NeedRefill
      BY <1>6, <2>1 DEF Flush
    <3>2. \A p \in U : path_credit[p] = 0
      BY <3>1, CreditFacts DEF S!NeedRefill
    <3> QED BY <3>2 DEF Leveled
  <2>2. CASE ~disturbed
    BY <2>2 DEF CoverInv
  <2> QED BY <2>1, <2>2
<1>7. ASSUME ~disturbed', NEW p \in U PROVE BeforeRefill(p)'
  <2>1. Cardinality(Later(p)) \in Nat
    BY CountFacts
  <2>2. ASSUME path_credit[p] = 0 PROVE t <= Cardinality(Later(p))
    <3>1. used[p] > 0
      BY <2>2, CreditFacts
    <3>2. \A q \in U : path_credit[q] \in Nat /\ path_credit[q] <= 1
                    /\ (path_credit[q] = 1 => q \in Later(p))
      BY <1>6, <1>7, <2>2, <3>1, CreditFacts DEF Leveled, Later
    <3>3. IsFiniteSet(U) /\ Later(p) \subseteq U
      BY CreditFacts DEF Later
    <3> HIDE DEF U
    <3> QED BY <3>2, <3>3, AtMostOneEach
  <2> HIDE DEF t
  <2>3. Given' <= Round' /\ (path_credit'[p] = 0 => Given' <= Cardinality(Later(p)'))
    BY <1>1, <1>3, <1>4, <2>1, <2>2
  <2> QED BY <2>3 DEF BeforeRefill
<1>8. Leveled => Leveled'
  BY <1>1 DEF Leveled
<1> QED BY <1>1, <1>5, <1>6, <1>7, <1>8 DEF CoverInv, Pending, LooselyPending

\* Steps that leave the scheduler alone and are not part of a flush.
LEMMA CoverQuiet ==
    ASSUME CoverInv, UNCHANGED <<svars, disturbed, failed>>,
           pc' # "send" \/ UNCHANGED <<pc, shard, covered>>
    PROVE  CoverInv'
<1> USE DEF svars
<1>1. UNCHANGED S!Usable /\ (Leveled => Leveled')
  BY DEF S!Usable, Leveled
<1>2. CASE pc' # "send"
  BY <1>1, <1>2 DEF CoverInv
<1>3. CASE UNCHANGED <<pc, shard, covered>>
  <2>1. \A p : UNCHANGED <<BeforeRefill(p), AfterRefill(p), LooselyBefore(p), LooselyAfter(p)>>
    BY <1>3 DEF BeforeRefill, AfterRefill, LooselyBefore, LooselyAfter, Given, Round, Later,
                S!Usable
  <2>2. \A p : HasSocket(p)' <=> HasSocket(p)
    BY DEF HasSocket
  <2> QED BY <1>1, <1>3, <2>1, <2>2 DEF CoverInv, Pending, LooselyPending
<1> QED BY <1>2, <1>3

\* A step of the loop that may begin a flush.
LEMMA CoverMayFlush ==
    ASSUME Scheduler!IInv, CoverInv, UNCHANGED <<svars, failed>>,
           NEW ret \in {"timeout", "recv", "exit"}, Flush(ret) \/ NoFlush(ret)
    PROVE  CoverInv'
<1>1. CASE Flush(ret)
  BY <1>1, CoverFlush
<1>2. CASE NoFlush(ret)
  BY <1>2, CoverQuiet DEF NoFlush
<1> QED BY <1>1, <1>2

\* Every step.
LEMMA CoverNext ==
    ASSUME Scheduler!IInv, CoverInv, TypeOK, ShardShape, LoopTypes, [Next]_vars
    PROVE  CoverInv'
<1> USE SocketsStay
<1>1. CASE SendShard
  BY <1>1, CoverSend DEF TypeOK
<1>2. CASE ReadTun \/ CheckTimeout \/ Drain
  BY <1>2, CoverMayFlush DEF ReadTun, CheckTimeout, Drain
<1>3. CASE Flushed
  <2>1. pc' # "send"
    BY <1>3 DEF Flushed, LoopTypes
  <2> QED BY <1>3, <2>1, CoverQuiet DEF Flushed
<1>4. CASE Load \/ Recv
  <2>1. CASE UNCHANGED <<svars, disturbed>>
    BY <1>4, <2>1, CoverQuiet DEF Load, Recv
  <2>2. CASE disturbed' /\ pc' # "send"
    BY <2>2 DEF CoverInv
  <2> QED BY <1>4, <2>1, <2>2 DEF Load, Recv
<1>5. CASE Top \/ SelectReturns \/ SelectFails \/ ClearReload \/ SendProbes
  BY <1>5, CoverQuiet DEF Top, SelectReturns, SelectFails, ClearReload, SendProbes
<1>6. CASE Tick \/ Environment \/ UNCHANGED vars
  BY <1>6, CoverQuiet DEF Tick, Environment, SigTerm, SigHup, PacketArrives, Edit, EchoArrives,
     LinkFails, vars, block
<1> QED BY <1>1, <1>2, <1>3, <1>4, <1>5, <1>6 DEF Next, Process

\* Where the block ends, the refilled credits of p would have been the next to
\* be taken: no path is left out.
LEMMA LevelBlockCovers ==
    ASSUME Scheduler!IInv, CoverInv, TypeOK, ~disturbed, pc = "send", shard.i = shard.n,
           shard.n >= Round, NEW p \in S!Usable, HasSocket(p)
    PROVE  p \in covered
<1> SUFFICES ASSUME p \notin covered PROVE FALSE
  OBVIOUS
<1> DEFINE t == Cardinality(Tickets(S!Usable, path_credit))
           l == Cardinality(Later(p))
<1>1. /\ t \in Nat /\ Round \in Nat /\ l \in Nat /\ l + 1 <= Round
      /\ shard.i \in Nat /\ shard.i >= Round /\ Given = shard.i + t
  BY CountFacts DEF TypeOK, Given
<1>2. Leveled /\ (BeforeRefill(p) \/ AfterRefill(p))
  BY DEF CoverInv, Pending
<1>3. /\ IsFiniteSet(S!Usable) /\ p \in Nat /\ used[p] + path_credit[p] >= 1
      /\ \A q \in S!Usable : q \in Nat /\ path_credit[q] \in Nat /\ used[q] \in Nat
                         /\ used[q] + path_credit[q] >= 1
  BY CreditFacts
<1>4. CASE BeforeRefill(p)
  <2>1. (path_credit[p] >= 1) => t >= 1
    <3> SUFFICES ASSUME path_credit[p] >= 1 PROVE t >= 1
      OBVIOUS
    <3>1. Cardinality({p}) <= t
      BY <1>3, AtLeastOneEach
    <3>2. Cardinality({p}) = 1
      BY FS_Singleton
    <3> HIDE DEF t
    <3> QED BY <1>1, <3>1, <3>2
  <2> HIDE DEF t, l
  <2>2. shard.i + t <= Round /\ (path_credit[p] = 0 => shard.i + t <= l)
    BY <1>1, <1>4 DEF BeforeRefill, l
  <2> QED BY <1>1, <1>3, <2>1, <2>2
<1>5. CASE AfterRefill(p)
  <2> DEFINE A == Later(p) \cup {p}
  <2>1. \A q \in A : path_credit[q] >= 1
    <3>1. path_credit[p] >= 1
      BY <1>3, <1>5 DEF AfterRefill
    <3>2. ASSUME NEW q \in Later(p) PROVE path_credit[q] >= 1
      BY <1>2, <1>3, <3>1 DEF Later, Leveled
    <3> QED BY <3>1, <3>2
  <2>2. A \subseteq S!Usable /\ p \notin Later(p) /\ Later(p) \subseteq S!Usable
    BY <1>3 DEF Later
  <2>3. Cardinality(A) = l + 1
    <3>1. IsFiniteSet(Later(p))
      BY <1>3, <2>2, FS_Subset
    <3> QED BY <2>2, <3>1, FS_AddElement
  <2> HIDE DEF A
  <2>4. l + 1 <= t
    BY <1>3, <2>1, <2>2, <2>3, AtLeastOneEach
  <2> HIDE DEF t, l
  <2>5. shard.i + t <= Round + l
    BY <1>1, <1>5 DEF AfterRefill, l
  <2> QED BY <1>1, <2>4, <2>5
<1> QED BY <1>2, <1>4, <1>5

\* Without level credits a shard less than two rounds is enough: p would have a
\* credit left that nobody has taken.
LEMMA LooseBlockCovers ==
    ASSUME Scheduler!IInv, CoverInv, TypeOK, pc = "send", shard.i = shard.n,
           shard.n >= 2 * Round - 1, NEW p \in S!Usable, HasSocket(p)
    PROVE  p \in covered
<1> SUFFICES ASSUME p \notin covered PROVE FALSE
  OBVIOUS
<1> DEFINE t == Cardinality(Tickets(S!Usable, path_credit))
<1>1. /\ t \in Nat /\ Round \in Nat /\ Round >= 1
      /\ shard.i \in Nat /\ shard.i >= 2 * Round - 1 /\ Given = shard.i + t
  BY CountFacts DEF TypeOK, Given
<1>2. LooselyBefore(p) \/ LooselyAfter(p)
  BY DEF CoverInv, LooselyPending
<1>3. /\ IsFiniteSet(S!Usable) /\ path_credit[p] \in Nat /\ used[p] + path_credit[p] >= 1
      /\ \A q \in S!Usable : path_credit[q] \in Nat
  BY CreditFacts
<1>4. (path_credit[p] >= 1) => t >= 1
  <2> SUFFICES ASSUME path_credit[p] >= 1 PROVE t >= 1
    OBVIOUS
  <2>1. Cardinality({p}) <= t
    BY <1>3, AtLeastOneEach
  <2>2. Cardinality({p}) = 1
    BY FS_Singleton
  <2> HIDE DEF t
  <2> QED BY <1>1, <2>1, <2>2
<1> HIDE DEF t
<1>5. CASE LooselyBefore(p)
  BY <1>1, <1>3, <1>4, <1>5 DEF LooselyBefore
<1>6. CASE LooselyAfter(p)
  BY <1>1, <1>3, <1>4, <1>6 DEF LooselyAfter
<1> QED BY <1>2, <1>5, <1>6

\* Every block of a full round of shards, or of one less than two rounds once an
\* echo or a reload has reset credits in mid-round, hands a shard to the socket
\* of every usable path that has one, for any number of paths, any weights and
\* any sockets that failed: tx_block_flush over strategy_next_path leaves no
\* path out, and a shard that is dropped stops none of the others.
THEOREM BlocksCoverPaths == Spec => CoversUsablePaths
<1>1. Init => CoverInv /\ ShardShape /\ PlainTypes /\ LoopTypes
  <2> SUFFICES ASSUME Init PROVE CoverInv /\ ShardShape /\ PlainTypes /\ LoopTypes
    OBVIOUS
  <2>1. Leveled
    BY DEF Init, S!Init, S!Usable, Leveled
  <2>2. CoverInv /\ ShardShape
    BY <2>1 DEF Init, NoShard, CoverInv, ShardShape
  <2> QED BY <2>2, TypesInit
<1>2. Scheduler!IInv /\ CoverInv /\ TypeOK /\ ShardShape /\ LoopTypes /\ [Next]_vars => CoverInv'
  BY CoverNext
<1>3. ShardShape /\ [Next]_vars => ShardShape'
  BY ShapeNext
<1>4. PlainTypes /\ LoopTypes /\ Scheduler!IInv /\ [Next]_vars => PlainTypes' /\ LoopTypes'
  BY PlainNext, LoopNext
<1>5. Scheduler!IInv /\ CoverInv /\ TypeOK /\ [Next]_vars
        => [(BlockSent /\ shard.n >= Enough)
              => \A p \in S!Usable : HasSocket(p) => p \in covered]_vars
  <2> SUFFICES ASSUME Scheduler!IInv, CoverInv, TypeOK, [Next]_vars, BlockSent,
                      shard.n >= Enough, NEW p \in S!Usable, HasSocket(p)
               PROVE  p \in covered
    OBVIOUS
  <2>1. pc = "send" /\ shard.i = shard.n
    BY DEF BlockSent, Next, Process, Tick, Environment, Top, SelectReturns, SelectFails,
       ClearReload, Load, ReadTun, CheckTimeout, SendShard, Flushed, Recv, SendProbes, Drain,
       SigTerm, SigHup, PacketArrives, Edit, EchoArrives, LinkFails, vars
  <2>2. CASE disturbed
    BY <2>1, <2>2, LooseBlockCovers DEF Enough
  <2>3. CASE ~disturbed
    BY <2>1, <2>3, LevelBlockCovers DEF Enough
  <2> QED BY <2>2, <2>3
<1> QED BY <1>1, <1>2, <1>3, <1>4, <1>5, TypeCorrect, CreditsInGateway, PTL
        DEF Spec, CoversUsablePaths
=============================================================================
