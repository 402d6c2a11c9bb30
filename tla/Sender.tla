------------------------------- MODULE Sender -------------------------------
(***************************************************************************)
(* The sending side of the gateway: the event loop of src/main.c in tx     *)
(* mode, with the block of src/tx.c, the path scheduler of src/strategy.c  *)
(* (module Strategy) and the sockets of src/transport.c.                   *)
(*                                                                         *)
(* The process is one thread; pc is its place in the loop.  Signals arrive *)
(* at any place, packets, echoes and edits of the configuration file at    *)
(* any time.  Only waiting in select() takes time.  The loop sees only the *)
(* descriptors that were ready when select() returned.                     *)
(***************************************************************************)
EXTENDS Integers, FiniteSets

CONSTANTS
    NumPaths, MaxN, K, Config, InitialConfig, LossUnit, RatioUnit, DampEchoes,
    BlockTimeout(_),    \* cfg.block_timeout_ms of a configuration, in ticks
    ProbeInterval(_),   \* cfg.probe_interval_ms of a configuration, in ticks
    BadFile,            \* a file config_load refuses
    Address,            \* the remote_ip of each path
    Source,             \* the addresses the peer's kernel may send an echo of each path from
    MayLack,            \* the paths whose socket() or remote_ip may fail at the start
    MayFail,            \* the paths whose link may fail for good
    MaxTimeout,         \* the longest block_timeout_ms of a configuration
    MaxPackets,         \* bound on the packets that enter the TUN device
    MaxHups,            \* bound on the SIGHUPs sent
    MaxEdits            \* bound on the edits of the configuration file

VARIABLES
    enabled, weight, alive, loss_rate, path_credit,
    base_redundancy, loss_threshold, ewma_alpha, used, echoes,
    pc,             \* where the loop is
    running, reload_flag,   \* the flags of the signal handlers
    intr,           \* a signal has interrupted select()
    ready,          \* rfds after select(): a subset of {"tun", "udp"}
    waited,         \* how long select() has been waiting
    cfg,            \* the configuration in use
    file,           \* the content of the configuration file
    tun,            \* packets waiting in the TUN device
    tx,             \* struct tx_block: block_id, pkt_count, age of the first packet
    shard,          \* tx_block_flush: next shard, their number, where it returns to
    probe_age,      \* time since last_probe_tv
    air, inbox,     \* paths with an echo under way, or in the UDP socket
    up,             \* paths whose link works
    failed,         \* paths enabled at the start that transport_init left without a socket
    blocks_encoded, \* g_metrics.blocks_encoded
    arrived, read, flushed, \* history: packets that entered TUN, were read, were sent
    hups, edits, owed,      \* history: SIGHUPs, edits; a SIGHUP no load followed yet
    skips,          \* history: passes the pending block lost to reloads
    covered,        \* history: paths that got a shard of the current block
    disturbed,      \* history: an echo or a reload has reset credits
    strayed         \* history: an echo came from an address that no path is open to

S == INSTANCE Strategy

ASSUME SchedulerAssumption ==
    /\ NumPaths \in Nat
    /\ MaxN \in Nat /\ K \in Nat \ {0} /\ K <= MaxN
    /\ LossUnit \in Nat \ {0} /\ LossUnit \div 5 \in 1..LossUnit
    /\ RatioUnit \in Nat \ {0} /\ DampEchoes \in Nat
    /\ Config \subseteq S!ConfigType /\ InitialConfig \in S!ConfigType
    /\ \A c \in Config \cup {InitialConfig} : S!Damping(c)
ASSUME TimeoutAssumption ==
    /\ MaxTimeout \in Nat \ {0}
    /\ \A c \in Config \cup {InitialConfig} :
            BlockTimeout(c) \in 0..MaxTimeout /\ ProbeInterval(c) \in Int
ASSUME SourceAssumption == \A p \in S!Path : Source[p] # {}
ASSUME FileAssumption == BadFile \notin Config \cup {InitialConfig}

svars == <<enabled, weight, alive, loss_rate, path_credit,
           base_redundancy, loss_threshold, ewma_alpha, used, echoes>>
loop  == <<running, reload_flag, intr, ready, waited, cfg>>
net   == <<air, inbox, up, failed, strayed>>
block == <<tun, tx, shard, blocks_encoded, arrived, read, flushed, skips, covered>>
admin == <<file, hups, edits, owed>>
vars  == <<svars, pc, loop, net, block, admin, probe_age, disturbed>>

Path == S!Path

(***************************************************************************)
(* main up to the loop: transport_init opens a socket for the paths that   *)
(* are enabled at that time, and only for those.  It goes on without one   *)
(* when socket() fails or remote_ip is no address; strategy_init, which    *)
(* looks at the configuration alone, still counts such a path as alive.    *)
(***************************************************************************)
HasSocket(p) == InitialConfig.enabled[p] /\ p \notin failed

NoShard == [i |-> 0, n |-> 0, ret |-> "none"]

Init ==
    /\ S!Init
    /\ pc = "top"
    /\ running = TRUE /\ reload_flag = FALSE /\ intr = FALSE
    /\ ready = {} /\ waited = 0
    /\ cfg = InitialConfig /\ file = InitialConfig
    /\ tun = 0 /\ tx = [block_id |-> 0, pkt_count |-> 0, age |-> 0]
    /\ shard = NoShard /\ probe_age = 0
    /\ air = {} /\ inbox = {} /\ up = Path /\ strayed = FALSE
    /\ failed \in SUBSET {p \in Path \cap MayLack : InitialConfig.enabled[p]}
    /\ blocks_encoded = 0 /\ arrived = 0 /\ read = 0 /\ flushed = 0
    /\ hups = 0 /\ edits = 0 /\ owed = FALSE /\ skips = 0
    /\ covered = {} /\ disturbed = FALSE

-----------------------------------------------------------------------------
(***************************************************************************)
(* The loop condition and select().                                        *)
(***************************************************************************)
SelectTimeout ==
    LET b == BlockTimeout(cfg)
        i == ProbeInterval(cfg)
        t == IF i < b THEN i ELSE b
    IN  IF t < 1 THEN 1 ELSE t

\* Mutant: every pass starts by clearing the flag.
TopClearsFlag ==
    /\ pc = "top"
    /\ pc' = IF running THEN "select" ELSE "drain"
    /\ intr' = FALSE /\ waited' = 0 /\ ready' = {} /\ reload_flag' = FALSE
    /\ UNCHANGED <<svars, running, cfg, net, block, admin, probe_age, disturbed>>

\* Mutant: the loop condition does not look at the flag.
TopForever ==
    /\ pc = "top"
    /\ pc' = "select"
    /\ intr' = FALSE /\ waited' = 0 /\ ready' = {}
    /\ UNCHANGED <<svars, running, reload_flag, cfg, net, block, admin, probe_age, disturbed>>

Top ==
    /\ pc = "top"
    /\ pc' = IF running THEN "select" ELSE "drain"
    /\ intr' = FALSE /\ waited' = 0 /\ ready' = {}
    /\ UNCHANGED <<svars, running, reload_flag, cfg, net, block, admin, probe_age, disturbed>>

ReadyNow == (IF tun > 0 THEN {"tun"} ELSE {}) \cup (IF inbox # {} THEN {"udp"} ELSE {})

\* Time passes while select() waits.
Tick ==
    /\ pc = "select"
    /\ ~intr /\ ReadyNow = {} /\ waited < SelectTimeout
    /\ waited' = waited + 1
    /\ tx' = [tx EXCEPT !.age = IF tx.pkt_count > 0 THEN @ + 1 ELSE @]
    /\ probe_age' = probe_age + 1
    /\ UNCHANGED <<svars, pc, running, reload_flag, intr, ready, cfg, net, admin, disturbed,
                   tun, shard, blocks_encoded, arrived, read, flushed, skips, covered>>

\* Mutant: select() is called without a timeout.
SelectReturnsUntimed ==
    /\ pc = "select"
    /\ ReadyNow # {}
    /\ ready' = ReadyNow
    /\ pc' = IF reload_flag THEN "clear" ELSE "tun"
    /\ UNCHANGED <<svars, running, reload_flag, intr, waited, cfg, net, block, admin,
                   probe_age, disturbed>>

\* select() returns with what is ready, or because the timeout is over.
SelectReturns ==
    /\ pc = "select"
    /\ ReadyNow # {} \/ waited >= SelectTimeout
    /\ ready' = ReadyNow
    /\ pc' = IF reload_flag THEN "clear" ELSE "tun"
    /\ UNCHANGED <<svars, running, reload_flag, intr, waited, cfg, net, block, admin,
                   probe_age, disturbed>>

\* select() fails with EINTR.
SelectFails ==
    /\ pc = "select" /\ intr
    /\ pc' = IF ~running THEN "drain" ELSE IF reload_flag THEN "clear" ELSE "top"
    /\ UNCHANGED <<svars, loop, net, block, admin, probe_age, disturbed>>

(***************************************************************************)
(* SIGHUP: the flag is cleared first, then the file is read.               *)
(***************************************************************************)
ClearReload ==
    /\ pc = "clear"
    /\ pc' = "load"
    /\ reload_flag' = FALSE
    /\ UNCHANGED <<svars, running, intr, ready, waited, cfg, net, block, admin,
                   probe_age, disturbed>>

\* config_load and strategy_reload, or a file that is refused; then continue.
Load ==
    /\ pc = "load"
    /\ pc' = "top"
    /\ owed' = FALSE
    /\ skips' = IF tx.pkt_count > 0 THEN skips + 1 ELSE skips
    /\ IF file = BadFile
       THEN UNCHANGED <<svars, cfg, disturbed>>
       ELSE S!Reload(file) /\ cfg' = file /\ disturbed' = TRUE
    /\ UNCHANGED <<running, reload_flag, intr, ready, waited, net, probe_age, file, hups, edits,
                   tun, tx, shard, blocks_encoded, arrived, read, flushed, covered>>

(***************************************************************************)
(* tx_block_flush: one step per shard.  ret is the place the loop goes on. *)
(***************************************************************************)
Flush(ret) == /\ shard' = [i |-> 0, n |-> S!ComputeN(S!NumUsable), ret |-> ret]
              /\ pc' = "send"
              /\ covered' = {} /\ disturbed' = (disturbed /\ ~S!NeedRefill)

NoFlush(next) == pc' = next /\ UNCHANGED <<shard, covered, disturbed>>

\* strategy_next_path and transport_send_shard; without a usable path, or
\* without a socket, the shard is dropped and the loop goes on.
SendShard ==
    /\ pc = "send" /\ shard.i < shard.n
    /\ \/ S!PickNone /\ UNCHANGED covered
       \/ \E p \in Path : /\ S!Pick(p)
                          /\ covered' = IF HasSocket(p) THEN covered \cup {p} ELSE covered
    /\ shard' = [shard EXCEPT !.i = @ + 1]
    /\ UNCHANGED <<pc, loop, net, admin, probe_age, disturbed,
                   tun, tx, blocks_encoded, arrived, read, flushed, skips>>

\* Mutant: the new block is given the id of the one just sent.
FlushedSameId ==
    /\ pc = "send" /\ shard.i = shard.n
    /\ pc' = shard.ret
    /\ blocks_encoded' = blocks_encoded + 1
    /\ flushed' = flushed + tx.pkt_count
    /\ shard' = NoShard
    /\ tx' = [block_id |-> tx.block_id, pkt_count |-> 0, age |-> 0]
    /\ skips' = 0
    /\ UNCHANGED <<svars, loop, net, admin, probe_age, disturbed, tun, arrived, read, covered>>

\* The end of tx_block_flush, and tx_block_init(&tx, next_block_id++) unless
\* the process ends.
Flushed ==
    /\ pc = "send" /\ shard.i = shard.n
    /\ pc' = shard.ret
    /\ blocks_encoded' = blocks_encoded + 1
    /\ flushed' = flushed + tx.pkt_count
    /\ shard' = NoShard
    /\ IF shard.ret = "exit"
       THEN UNCHANGED <<tx, skips>>
       ELSE /\ tx' = [block_id |-> tx.block_id + 1, pkt_count |-> 0, age |-> 0]
            /\ skips' = 0
    /\ UNCHANGED <<svars, loop, net, admin, probe_age, disturbed, tun, arrived, read, covered>>

(***************************************************************************)
(* The rest of a pass: TUN, block timeout, UDP, probes.                    *)
(***************************************************************************)
\* Mutant: the block counts as full one packet too late.
FullLate(count) == count > K

\* What tx_block_add_pkt returns.
Full(count) == count >= K

\* One packet is read; tun_read may also fail, and the packet is gone.
ReadTun ==
    /\ pc = "tun"
    /\ \/ /\ "tun" \in ready
          /\ tun' = tun - 1 /\ read' = read + 1
          /\ tx' = [tx EXCEPT !.pkt_count = @ + 1]
          /\ IF Full(tx.pkt_count + 1) THEN Flush("timeout") ELSE NoFlush("timeout")
       \/ /\ "tun" \in ready
          /\ tun' = tun - 1
          /\ NoFlush("timeout") /\ UNCHANGED <<read, tx>>
       \/ "tun" \notin ready /\ NoFlush("timeout") /\ UNCHANGED <<tun, read, tx>>
    /\ UNCHANGED <<svars, loop, net, admin, probe_age,
                   blocks_encoded, arrived, flushed, skips>>

\* Mutant: the timeout is checked when select() timed out, and only then.
NeedsFlushIdleOnly == tx.pkt_count > 0 /\ tx.age >= BlockTimeout(cfg) /\ ready = {}

NeedsFlush == tx.pkt_count > 0 /\ tx.age >= BlockTimeout(cfg)

CheckTimeout ==
    /\ pc = "timeout"
    /\ IF NeedsFlush THEN Flush("recv") ELSE NoFlush("recv")
    /\ UNCHANGED <<svars, loop, net, admin, probe_age,
                   tun, tx, blocks_encoded, arrived, read, flushed, skips>>

\* The paths with a socket whose remote address is the sender's: the address
\* of a path that was disabled, or whose socket failed, is all zeros.
Match(a) == {q \in Path : HasSocket(q) /\ Address[q] = a}

Lowest(match) == CHOOSE q \in match : \A r \in match : q <= r

\* Mutant: the first path of the file with the sender's address is taken, with
\* a socket or not.
AttributedByFile(a) ==
    LET match == {q \in Path : Address[q] = a}
    IN  IF match = {} THEN 0 ELSE Lowest(match)

\* transport_recv attributes a datagram from address a to the first path that
\* matches, and to path 0, open or not, when there is none.
Attributed(a) ==
    LET match == Match(a)
    IN  IF match = {} THEN 0 ELSE Lowest(match)

\* A PROBE_ECHO is the only datagram that changes the sender's state.  It names
\* no path: all that is known of it is the address it came from.
Recv ==
    /\ pc = "recv"
    /\ pc' = "probe"
    /\ IF "udp" \in ready
       THEN \E p \in inbox : \E a \in Source[p] :
                /\ inbox' = inbox \ {p}
                /\ S!UpdateProbe(Attributed(a), TRUE)
                /\ strayed' = (strayed \/ Match(a) = {})
                /\ disturbed' = TRUE
       ELSE UNCHANGED <<svars, inbox, strayed, disturbed>>
    /\ UNCHANGED <<loop, air, up, failed, block, admin, probe_age>>

\* Mutant: a probe goes to every path that has a socket.
SendProbesAll ==
    /\ pc = "probe"
    /\ pc' = "top"
    /\ IF probe_age >= ProbeInterval(cfg)
       THEN /\ air' = air \cup {p \in up : HasSocket(p)}
            /\ probe_age' = 0
       ELSE UNCHANGED <<air, probe_age>>
    /\ UNCHANGED <<svars, loop, inbox, up, failed, strayed, block, admin, disturbed>>

\* A probe goes to every path that is alive; a working link brings an echo.
SendProbes ==
    /\ pc = "probe"
    /\ pc' = "top"
    /\ IF probe_age >= ProbeInterval(cfg)
       THEN /\ air' = air \cup {p \in up : alive[p] /\ HasSocket(p)}
            /\ probe_age' = 0
       ELSE UNCHANGED <<air, probe_age>>
    /\ UNCHANGED <<svars, loop, inbox, up, failed, strayed, block, admin, disturbed>>

\* Mutant: a pending block is dropped when the process ends.
DrainDropping ==
    /\ pc = "drain"
    /\ NoFlush("exit")
    /\ UNCHANGED <<svars, loop, net, admin, probe_age,
                   tun, tx, blocks_encoded, arrived, read, flushed, skips>>

\* After the loop a pending block is sent.
Drain ==
    /\ pc = "drain"
    /\ IF tx.pkt_count > 0 THEN Flush("exit") ELSE NoFlush("exit")
    /\ UNCHANGED <<svars, loop, net, admin, probe_age,
                   tun, tx, blocks_encoded, arrived, read, flushed, skips>>

Process == \/ Top \/ SelectReturns \/ SelectFails \/ ClearReload \/ Load
           \/ ReadTun \/ CheckTimeout \/ SendShard \/ Flushed \/ Recv \/ SendProbes \/ Drain

-----------------------------------------------------------------------------
(***************************************************************************)
(* The environment.                                                        *)
(***************************************************************************)
\* A signal that arrives while the process is in select() may come before it
\* blocks, and then does not interrupt it.
Interrupts == intr' \in IF pc # "select" THEN {intr}
                        ELSE IF waited > 0 THEN {TRUE} ELSE {intr, TRUE}

SigTerm ==
    /\ pc # "exit" /\ running
    /\ running' = FALSE
    /\ Interrupts
    /\ UNCHANGED <<svars, pc, reload_flag, ready, waited, cfg, net, block, admin,
                   probe_age, disturbed>>

SigHup ==
    /\ pc # "exit" /\ hups < MaxHups
    /\ reload_flag' = TRUE /\ owed' = TRUE
    /\ hups' = hups + 1
    /\ Interrupts
    /\ UNCHANGED <<svars, pc, running, ready, waited, cfg, net, block, file, edits,
                   probe_age, disturbed>>

Edit(c) ==
    /\ edits < MaxEdits /\ c # file
    /\ file' = c /\ edits' = edits + 1
    /\ UNCHANGED <<svars, pc, loop, net, block, hups, owed, probe_age, disturbed>>

PacketArrives ==
    /\ arrived < MaxPackets
    /\ tun' = tun + 1 /\ arrived' = arrived + 1
    /\ UNCHANGED <<svars, pc, loop, net, admin, probe_age, disturbed,
                   tx, shard, blocks_encoded, read, flushed, skips, covered>>

\* An echo may also be lost: then it never arrives.
EchoArrives(p) ==
    /\ p \in air
    /\ air' = air \ {p} /\ inbox' = inbox \cup {p}
    /\ UNCHANGED <<svars, pc, loop, up, failed, strayed, block, admin, probe_age, disturbed>>

LinkFails(p) ==
    /\ p \in up \cap MayFail
    /\ up' = up \ {p}
    /\ UNCHANGED <<svars, pc, loop, air, inbox, failed, strayed, block, admin, probe_age,
                   disturbed>>

Environment ==
    \/ SigTerm \/ SigHup \/ PacketArrives
    \/ \E c \in Config \cup {BadFile} : Edit(c)
    \/ \E p \in Path : EchoArrives(p) \/ LinkFails(p)

Next == Process \/ Tick \/ Environment

Spec == Init /\ [][Next]_vars

\* The process is scheduled and the clock runs; the network promises nothing.
FairSpec == Spec /\ WF_vars(Process) /\ WF_vars(Tick)

-----------------------------------------------------------------------------
(***************************************************************************)
(* Properties.                                                             *)
(***************************************************************************)
Place == {"top", "select", "clear", "load", "tun", "timeout", "send", "recv",
          "probe", "drain", "exit"}

\* Every variable keeps its type; a pending block has fewer than k packets
\* unless it is being sent, and a block is sent as K to MAX_N shards.
TypeOK ==
    /\ S!TypeOK
    /\ pc \in Place
    /\ running \in BOOLEAN /\ reload_flag \in BOOLEAN /\ intr \in BOOLEAN
    /\ ready \subseteq {"tun", "udp"} /\ waited \in Nat
    /\ cfg \in Config \cup {InitialConfig} /\ file \in Config \cup {InitialConfig, BadFile}
    /\ tun \in Nat /\ probe_age \in Nat
    /\ tx \in [block_id : Nat, pkt_count : 0..K, age : Nat]
    /\ pc \notin {"send", "exit"} => tx.pkt_count < K
    /\ shard \in [i : Nat, n : {0} \cup K..MaxN, ret : {"none", "timeout", "recv", "exit"}]
    /\ shard.i <= shard.n
    /\ air \subseteq Path /\ inbox \subseteq Path /\ up \subseteq Path /\ covered \subseteq Path
    /\ blocks_encoded \in Nat /\ arrived \in Nat /\ read \in Nat /\ flushed \in Nat
    /\ hups \in Nat /\ edits \in Nat /\ owed \in BOOLEAN /\ skips \in Nat
    /\ disturbed \in BOOLEAN /\ strayed \in BOOLEAN /\ failed \subseteq Path

\* Every packet read from the TUN device is sent in exactly one block, and
\* when the process has ended none is left behind, whenever SIGTERM came.
NoPacketLost ==
    /\ pc # "exit" => read = flushed + tx.pkt_count
    /\ pc = "exit" => read = flushed

\* Blocks are sent with consecutive ids, so the receiver's window sees no
\* gap that the network did not make, and no id stands for two blocks.
BlockIdsConsecutive ==
    [][blocks_encoded' # blocks_encoded => tx.block_id = blocks_encoded]_vars

\* A SIGHUP is never lost: until the file has been read after it, the flag is
\* set or the file is about to be read.
HupHonoured == owed => reload_flag \/ pc = "load"

\* The delay of a pending block is bounded by its timeout and one wait in
\* select(), plus one wait for every reload that skipped the check.
FlushLatency == tx.age < MaxTimeout * (2 + skips)

\* One ticket for every shard that the credits f let the paths of U have.
Tickets(U, f) == UNION {{p} \X (1..f[p]) : p \in U}

\* The number of shards of one full round of the scheduler.
Round == Cardinality(Tickets(S!Usable, [p \in Path |-> S!Quota(weight[p])]))

BlockSent == pc = "send" /\ pc' # "send"

\* The shards that are sure to reach every usable path: a full round, and one
\* less than two once a probe echo or a reload has reset credits in the middle
\* of a round.
Enough == IF disturbed THEN 2 * Round - 1 ELSE Round

\* Every block of that many shards hands one to the socket of every usable path
\* that has a socket, whatever shards the paths without one swallow, wherever
\* the blocks before it and any echoes and reloads have left the credits.
CoversUsablePaths ==
    [][(BlockSent /\ shard.n >= Enough)
        => \A p \in S!Usable : HasSocket(p) => p \in covered]_vars

\* A path that was disabled at the start has no socket, and no reload that
\* enables it makes the scheduler give it shards, which would be lost: it is
\* not alive, since no echo is ever booked on it.  The one exception is path 0,
\* on which transport_recv books an echo whose source matches no path.
LateEnabledUnused ==
    \A p \in S!Usable : InitialConfig.enabled[p] \/ (p = 0 /\ strayed)

\* An echo of path q may be booked on a path of F.
Feeds(q, F) == \E a \in Source[q] : Attributed(a) \in F

\* The paths of F are dead, no echo that may be booked on them is under way, and
\* no path outside F will be sent a probe whose echo may be.
Forgotten(F) ==
    /\ \A p \in F : ~alive[p]
    /\ \A q \in air \cup inbox : ~Feeds(q, F)
    /\ \A q \in Path \ F : HasSocket(q) => ~Feeds(q, F)

\* A path that a reload has disabled is out of use for the life of the process:
\* once the last echo that counts for it has come, no later reload, echo or
\* probe revives it, not even a reload that enables it again.  Likewise several
\* paths whose echoes count for each other.
ForgottenForEver == [][\A F \in SUBSET Path : Forgotten(F) => Forgotten(F)']_vars

\* A pending block is sent in the end, even if no packet follows.
PendingBlockSent == (tx.pkt_count > 0) ~> (tx.pkt_count = 0 \/ pc = "exit")

\* SIGTERM ends the process, wherever in the loop it arrives.
Terminates == ~running ~> (pc = "exit")

-----------------------------------------------------------------------------
(***************************************************************************)
(* What the documents say of the sender and the code does not do.          *)
(***************************************************************************)

\* The network delivers the echoes of working links, for the claims below.
LossFreeSpec == FairSpec /\ \A p \in Path : WF_vars(EchoArrives(p))

\* README: "probe_loss_threshold = 0.3  # loss rate above which a path is
\* marked dead".  A path whose link has failed for good is marked dead.
FailedPathMarkedDead ==
    \A p \in Path : (p \notin up) ~> (~alive[p] \/ pc = "exit")
=============================================================================
