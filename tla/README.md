# Verification of coding-gateway

`coding-gateway` carries IP packets through a tunnel over several lossy UDP
paths. The sender collects `k` packets into a block, codes them into `n >= k`
shards with random linear coding over GF(2^8), and spreads the shards over the
paths by weighted round robin. The receiver collects the shards of a block in a
sliding window, decodes as soon as it has `k` of them, and writes the packets to
its TUN device. Probes and their echoes tell the sender which paths live.

This directory holds TLA+ models of that program, TLC configurations, and proofs
checked by TLAPS. Paths below are relative to the repository.

## 1. Inventory

One process, one thread, one event loop (`src/main.c`); all concurrency comes
from signals, the kernel and the network.

| Component | State | Operations | Talks to | What must hold |
|---|---|---|---|---|
| Event loop, `main.c` | `running`, `reload_flag`, `cfg`, `next_block_id`, `last_probe_tv` | one pass: select, reload, TUN read, timeout flush, UDP receive, metrics, probes; drain at the end | everything | no packet, signal or block id is lost; a partial block is sent in time; SIGTERM ends it |
| Block sender, `tx.c` | one `tx_block`: id, packets, time of the first | `tx_block_init`, `_add_pkt`, `_needs_flush`, `_flush` | codec, scheduler, transport | every packet in exactly one block, consecutive ids |
| Path scheduler, `strategy.c` | per path: enabled, alive, loss rate, weight, credit; ratio, threshold, alpha | `strategy_init`, `_next_path`, `_compute_n`, `_update_probe`, `_reload` | called by loop and `tx.c` | exact weighted shares; dead paths are avoided and come back; `n` rises when paths die |
| Transport, `transport.c` | a socket and a remote address per path, one listening socket | `transport_send_shard`, `_probe`, `_probe_echo`, `_recv` | network | a datagram is booked on the path it came from; own datagrams are accepted |
| Receiver window, `rx.c` | `base_id`, `window_size` slots with shards, time of the first, `decoded` | `rx_window_insert`, `_try_decode`, `_advance`, `ip_packet_length` | codec, TUN | in order, at most once, slots come back, wrap-around of ids, restarts |
| Codec, `codec.c` | none between calls | `encode_block`, `decode_block` | gf256 | decoding inverts encoding, fails only on dependent shards |
| GF(2^8), `gf256.c` | two tables, filled once | `gf256_init`, `_mul`, `_inv`, `_div` | | the tables are the field's |
| Configuration, `config.c` | none | `config_load` | file | every file is read as written; a reload disturbs nothing that is in use |
| Encryption, `crypto.c` | a key | `crypto_xor`, `crypto_parse_key` | | a payload is masked and unmasked once each |
| Metrics, `metrics.c` | counters | `metrics_handle` | TCP | counters count what they say |
| TUN device, `tun.c` | none | open, configure, read, write, routes | kernel | |

What is hard here, each at its line under `hazards` in `PROJECT.json`:

* the network loses, duplicates and reorders shards, and the window has to
  decide on block ids that wrap;
* the window's slots are a pool that only `rx_window_advance` refills;
* signals arrive between any two steps: before `select()` blocks, during a
  flush, between clearing `reload_flag` and reading the file;
* a reload ends a pass early, before the block timeout is looked at;
* echoes and reloads reset credits in the middle of a round of the scheduler;
* liveness of paths is inferred from echoes that arrive, never from those that
  do not, and echoes are attributed to paths by address only;
* either gateway may restart, and nothing on the wire tells one run of a sender
  from the next;
* the clock is the wall clock, which may be set back;
* paths are matched by their place in the file when it is read again, sockets
  are not opened again.

## 2. Modules

| Module | Models | Source |
|---|---|---|
| `RxWindow` | receiver window and the `TYPE_DATA` branch of the loop | `rx.c`, `main.c:211-230` |
| `OrderedDelivery` | abstract specification of the receiver: an ordered, at-most-once, lossy channel | |
| `Tunnel` | a sender, a lossy network and `RxWindow` (extended), both gateways restarting | `main.c`, `rx.c`, `deploy/coding-gateway.service` |
| `Strategy` | path scheduler | `strategy.c` |
| `Sender` | event loop in tx mode with block, scheduler (`S == INSTANCE Strategy`) and sockets | `main.c`, `tx.c`, parts of `transport.c` |
| `Transport` | two gateways exchanging shards, probes and echoes, with encryption | `transport.c`, `crypto.c`, `main.c:211-238` |
| `Config` | the configuration file, the start and the reload | `config.c`, `main.c:36-191`, `strategy.c:186-199` |
| `GaloisField` | GF(2^Width) by definition: polynomials as sets of exponents | reference |
| `GF256` | the tables of `gf256_init` | `gf256.c` |
| `DataPath` | one block from TUN to TUN: padding, coding, decoding, lengths | `tx.c`, `codec.c`, `rx.c` |
| `RxWindowProofs`, `TunnelProofs`, `StrategyProofs`, `SenderProofs`, `TransportProofs`, `ConfigProofs`, `GF256Proofs`, `DataPathProofs` | theorems | |
| `MC...` | instances for TLC | |

### RxWindow

`slots` is `win->slots`, `base_id` is `win->base_id`. A slot's `shards` function
stands for `shards[]`, `received[]` and `recv_count` together: its domain is the
set of indices received. `age` is `now_us() - first_recv_us`, kept up to the
timeout. `Receive(d)` is one datagram: `rx_window_insert` and
`rx_window_try_decode`. `AdvanceFree`, `AdvanceSkip` and `AdvanceStop` are the
three outcomes of one iteration of the loop in `rx_window_advance`, which reads
the clock each time; `pc = "advance"` keeps the next datagram out until the loop
has ended. The clock is the wall clock: `SetBack` makes ages smaller, down to
`-MaxBack`, and a negative age reads as expired, as the unsigned difference of the
code does. Any datagram of `Datagram` may arrive at any time and any number of
times, which covers loss, duplication and reordering. Whether `k` shards are
independent is the parameter `Decodable`. `Wrap` and `SDiff` are `uint32_t`
arithmetic and its `int32_t` reading, modulo `IdMod`. `advanced`, `delivered` and
`newest` are history variables that number blocks without wrap-around.

### Strategy

Weights count halves so that `roundf` rounds, ratios count `1/RatioUnit`, loss
rates and alpha count `1/LossUnit` and round down. `used` (shards since the
credit was set) and `echoes` are history variables; `DampEchoes` is a number of
echoes that no configuration undercuts in bringing a loss rate from above the
threshold to below half of it (`Damping`): four for the default alpha of 0.2.
Every function that changes
state is one action, since no call overlaps another. `UpdateProbe` takes echoes
and losses, as `strategy_update_probe` does; the gateway itself only ever reports
echoes (`main.c:234`), so `HysteresisDamps` is about that function and not about
something a running gateway does (see `sender_dead`). The strategy type is read
by no function of `strategy.c`, so the model has none.

### Sender

`pc` walks through one pass in the order of the code:
`top -> select -> (clear -> load -> top) | tun -> timeout -> recv -> probe -> top`,
and `drain -> exit` after the loop; `send` is the inside of `tx_block_flush`, one
step per shard, returning to where it was called. Signals may come at every
place; one that comes before `select()` blocks does not interrupt it
(`Interrupts`). Time passes only in `select()`; descriptors that become ready
later are seen in the next pass. `config_load` that fails is the file `BadFile`.
`tun_read` may fail. An echo is sent back by a working link for every probe; it
may be lost.

`failed` is fixed at the start: enabled paths for which `socket()` or `inet_pton`
failed in `transport_init`. The scheduler does not know of it, so such a path is
alive and is given shards, which `send_buf` drops; only `HasSocket` paths send
shards and probes. The peer's kernel picks the source address of an echo, any of
`Source`, which may be another path's or no path's; `Attributed` books the echo
on the first path with that address, or on path 0 if there is none
(`transport.c:196`). A path 0 without a socket can become alive in that way, and
usable after a reload has enabled it. `strayed` records that such an echo came.
`owed`, `skips`, `covered`, `disturbed`, `strayed`, `arrived`, `read`, `flushed` are
history variables. `cfg` stands for the fields the loop itself reads after a reload: the
two timeouts.

### Tunnel

`SendBlock` is a flush with the increment of `next_block_id`; `air` holds the
blocks whose datagrams may still arrive, any number of times, until `MaxDelay`
newer blocks were sent. `SenderRestart` starts the ids again at 0 and leaves `air` alone;
`ReceiverRestart` is `rx_window_init`. A shard carries, as history, the run of the
sender and the block it was encoded from, which the window does not see. Every
other step is one of `RxWindow`.

### Transport

A datagram carries what the code looks at: source and destination address,
magic, type, lengths, and a timestamp as two words of base `Word`. `PathSock` is
the entry that `transport_init` leaves: a path that is disabled or whose socket
or address fails keeps a remote address of zeros. The kernel picks the source
address of a datagram (`Routes`), which is all that `Attributed` has to go by.
The network is a set of datagrams; receiving one leaves it there, so it may
arrive again. The XOR of a payload is the set of keystreams laid over it.
`ReceiveForeign` gives `transport_recv` datagrams of other programs, one for each
of its checks. `origin`, `sent` and `booked` are history.

### Config

A file is a sequence of lines read one by one; a line is a header, a key with its
value, or one that `config_load` ignores. A value is its text and whether a
comment follows it, which the code does not strip. `cfg` is what the running
gateway has: `cfg` of `main`, and for weights, `enabled` and the strategy's values the
copies in `strategy_ctx`. `Start` includes the key check and the failures of TUN
and sockets.

### GF256, DataPath

A byte is the set of its bits, XOR is symmetric difference. `GF256` gives the
tables of `gf256_init` as functions, in full width; `inv_table` is a variable of
`DataPath` that nothing changes after `Init`. `DataPath` follows one block:
`AddPkt` until it is full or times out, `Flush` with padding, fillers and
`encode_block`, one `Eliminate` per column of `decode_block`, and one
`WritePacket` per packet with `ip_packet_length`. Which `k` shards reach the
receiver is a free choice: systematic ones first, then up to `MaxCoded` coded
ones, whose coefficients are never zero. The first byte of a packet stands for
the header fields that `ip_packet_length` reads. The TUN device refuses a packet
that is neither IPv4 nor IPv6, which is how the fillers of a short block
disappear; this is the kernel's part and marked external, and so is that it hands
over whole IP packets, whose header says their length (`IsPacket`).

## 3. Runs

| Run | Result | Question |
|---|---|---|
| `rx_window` | pass, 159 939 states | window of 2, 6 ids, the window moves over 7 blocks so that ids wrap; three shards a block and one with an index beyond `MAX_N`; the clock may be set back: types and inductive invariant, slots of decoded blocks come back, one slot stays usable, the base does not run ahead of the traffic, nothing is delivered twice or out of order (`OrderedDelivery` is implemented), the loop ends |
| `tunnel` | pass, 267 734 states | each gateway restarts once: the invariant and the order of writes survive, no block is mixed before the sender restarts, a block is decoded by the first shard that allows it, what is written before the sender restarts was sent and is put together from shards of that block alone, a receiver that missed a window stays stalled |
| `strategy` | pass, 42 460 states | two paths of weights 2 and 0.4, three configurations: exact shares, balance of credits, hysteresis, `n` against dead paths, with ratios on both sides of `MAX_REDUNDANCY` |
| `sender` | pass, 1 584 200 states | two packets, one SIGHUP, one edit, SIGTERM, a first path with or without a socket, echoes that may come from the other path's address: conservation of packets, no SIGHUP lost, latency, consecutive ids, coverage of paths |
| `sender_live` | pass, 138 558 states | two paths with one address, the first disabled at the start, a reload that enables and disables paths, echoes from that address or that of no path, a link that fails: a path disabled at the start stays unused, but for path 0 after an echo of no path; disabled paths never come back; a partial block is sent in the end, SIGTERM ends the process |
| `transport` | pass, 353 968 states | 25 pairs of path tables, two routings, clocks that differ: echoes and shards are booked on their path, payloads are intact, round-trip times are right, own datagrams are accepted |
| `config` | pass, 205 239 states | every file of up to four lines, reloads of up to two: read as written, arrays not overrun and what indexes them in range, startup settings kept, each path reloaded from the section at its place |
| `datapath` | pass, 55 576 states | all 65 536 products and all inverses; blocks of one to three packets of 20, 41 and 60 bytes from every choice of shards: what is written is what was read, or the shards are dependent |

Runs that show a disagreement between a document and the code:

| Run | Property | What happens |
|---|---|---|
| `rx_leak` | `SlotForEveryBlock` | slots of skipped blocks are never cleared; a block of the window finds none |
| `tunnel_mix` | `RecoversOriginal` | after a restart of the sender, shards of its old and new block 0 are decoded together |
| `sender_dead` | `FailedPathMarkedDead` | missing echoes are never counted; a failed link stays in use |
| `config_comment` | `CommentsIgnored` | the comments of README's sample become part of the values: no role, or no start |

`findings` in `PROJECT.json` quotes the sentences. Other limits of the code are
built into the models and stated by properties that hold:

* `LastSlotUsable` is what remains of the window after the leak: one slot. After
  `window_size - 1` skipped blocks the receiver goes on with a window of one
  block.
* `StalledForEver`: docs/plans/2026-03-09-gateway-design.md:228 says "If
  `block_id >= base_id + W` → advance `base_id` to make room". The code drops the
  shard, so a receiver that missed `window_size` blocks in a row, or was
  restarted while its sender ran on, receives nothing more until a restart or
  until the ids come round.
* `ForgottenForEver`: README.md:204 says "Enabling additional paths requires only
  setting `enabled = true`". A path that a reload disabled is not probed, and only
  an echo revives a path, so it stays out of use.
* `LateEnabledUnused`: neither is a path used that was disabled at the start and
  is enabled by a reload; it has no socket and no echo is booked on it. The
  exception is path 0: an echo whose source is the address of no path revives it,
  and after a reload that enables it a share of every block is given to it and
  dropped.
* `CoversUsablePaths`: README.md:508 states the coverage of paths by a full round
  of shards. After an echo or a reload has reset credits in the middle of a round
  that takes up to two rounds less one shard. It speaks of paths that have a
  socket: the shards of one that has none are lost (`transport.c:63`).
* `BaseFollowsTraffic` is stated for the first half of the block ids. A slot left
  behind has a negative signed difference to the base until the base is `2^31`
  blocks further, and reads as newer from then on; the base then runs ahead of
  every block sent.
* `WrittenAsSent` is stated for the first run of the sender and the first half of
  its ids: after a restart of the sender blocks are mixed (`tunnel_mix`), and later
  the base may run ahead. The receiver may have been restarted any number of times.
* `DecodedAtOnce` is about the `k` shards of lowest index: when these are
  dependent, a later shard of a higher index does not help the block.
* `DeadPathsAddShards`: the cap at `MAX_REDUNDANCY = 3.0` applies only when a path
  is dead, so that with a ratio above it `n` falls when a path dies. It falls to
  what `MAX_REDUNDANCY` gives, and in no other case.
* `BookedOnItsPath` has the premise that addresses tell the paths apart. With one
  `remote_ip` for all paths, as in README's sample, all echoes count for the
  first path.
* `ReloadTakesSectionAtPlace`: `strategy_reload` matches paths by their place in
  the file and not by name, so a file that lists them in another order gives a
  path the weight of another, and a section that says no weight resets it to 1.
* `max_payload` is read and clamped, and used nowhere.

### Bounds

`MaxAdvance` stops the input of `RxWindow` once the window has moved over that
many blocks; in `rx_window` this is more than one round of the ids. Two slots are
enough for one to leak while the other still works; with three and so few ids
the loop of `rx_window_advance` could go round the ids for as long as no time
passes, and the number of states has no bound. `RxTimeout = 1` and `MaxBack = 1`
give a fresh, an expired and a negative age. The theorems cover every size.

`tunnel`: `MaxSent = 4` blocks are two windows, so that a receiver can miss one;
one restart of each gateway, in either order; `MaxDelay = 1` lets one block be
overtaken. Shards 2 and 3 of a block are parallel, so decoding may fail.

`MaxPackets = 2` with `k = 2` gives one full block, or two partial ones of which
the second may be left for the drain; one SIGHUP can hit every place of a pass.
The theorems of `SenderProofs` cover every number of packets, signals and edits.
Two paths of unequal weight are the smallest scheduler whose rounds differ from
strict alternation. In `sender` a round has three shards and a block five, two
rounds less one; the socket of path 0 may fail. In `sender_live` path 0 has no
socket and the address of path 1, so that a choice of path that did not look at
the table of sockets would revive it; its timeouts are one tick, since no property
of that run measures time.

`transport`: two datagrams at a time are a probe and its echo, or a shard and its
duplicate. `Word = 2` makes a timestamp use its high word. The tables cover the same
and the opposite order of addresses, a shared address, a disabled path, and one
without a socket, at either end.

`config`: `MaxPaths = 2` and four lines allow a path too many with a key after
it; a second file of two lines can leave a path out, disable it or reset it to
its defaults. `k` is given values on both sides of its range.

`datapath`: the tables are complete. Bytes 0, 19 and 59 stand for the header, the
last byte of a short packet and the padding. Coefficients are drawn from {1, 2};
elimination leads from them to elements all over the field. With `k = 3` every
kind of row exchange occurs.

### Fairness

`RxWindow`: weak fairness of the loop of `rx_window_advance` (the process is
scheduled) and of the clock; none for the network. `Sender`: weak fairness of the
process and of the clock while it waits in `select()`; none for packets, echoes,
signals or links. `LossFreeSpec` adds delivery of echoes and is used only to show
that `sender_dead` fails even on a perfect network. The sender runs set
`CHECK_DEADLOCK FALSE` since the process may exit, `config` since the start may
fail, `datapath` since its block ends.

## 4. Proofs

All hold for every value of the constants that satisfies the named assumptions:

* types and the ranges that the code clamps to: `k >= 1`, `K <= MAX_N`, timeouts
  within `MaxTimeout`, a window smaller than half the id space;
* `DampAssumption` (`Strategy`): what `DampEchoes` means, see section 2;
* `TunnelAssumption` (`Tunnel`): the datagrams of one block id carry the same `k`,
  which a gateway never changes while it runs (`StartupSettingsKept`); in
  `Transport`: a tunnel has two ends, each with at least one path, and remote
  addresses are those of the other end;
* `FileAssumption`, `NumberAssumption` (`Config`): a line is a header, a key or
  ignored, a path's section has none of the four fixed names, the limits are at
  least 1, and `atoi` makes an integer of any text;
* `SourceAssumption` (`Sender`): an echo comes from some address;
* `IrreducibleAssumption`, `ReductionAssumption`: the modulus has no divisors of
  zero and `0x1d` is its lower part; TLC evaluates both for the polynomial of the
  code, `x^8 + x^4 + x^3 + x^2 + 1`;
* `TrafficAssumption` (`DataPath`): packets from the TUN device are whole IP
  packets (`IFF_NO_PI`, one packet a read); and coefficients are not zero, as
  `encode_block` draws them.

The modules and their arguments:

* `RxWindowProofs`: `Invariance`, `TypeCorrect`, `DecodedAreReleased`,
  `Refinement`, `DeliveredAtMostOnce`. Neither the release of decoded slots nor
  the order of deliveries is inductive. `IInv` adds that ids in slots are unique
  (`UniqueIds`), that a decoded slot is the last delivery, not behind the base,
  and exists only while the loop runs (`DecodedPending`), and that a delivery
  not behind the base has its slot (`DeliveredPending`). The loop stops only when
  no slot is newer than the base and the one at the base is not finished, so a
  decoded slot cannot be left; hence a new delivery finds the previous one behind
  the base, which is the guard of `Deliver` in `OrderedDelivery`. The lemmas on
  `SDiff` say what a step of the base does to signed differences, and use that
  the window is smaller than half the id space. `LastSlotStaysUsable`: the loop
  steps over a block only while some slot is newer than the base, and that slot
  is not behind the base after the step. `BaseFollows` needs `SlotsFollowTraffic`:
  until half of the ids are used, every occupied slot is of a block at or below
  `newest`, so a newer slot is a witness that the base may move. All of it holds
  for a clock that is set back, since no part of the invariant is about ages.
* `TunnelProofs`: `TunnelInvariance`, `WritesAreOrdered`, `StallsForEver`,
  `IntactFirstRun`, `NeverSitsOnABlock`, `WritesWhatWasSent`. A step of the
  tunnel is a step of `RxWindow`, leaves the window alone, or starts it anew, so
  `IInv` carries over. `Stalled` is its own invariant: what can still come is
  outside the window, so nothing is accepted, no slot is newer than or at the
  base, and the loop stops where it is; time does not help. `IntactFirstRun`
  needs `FirstRunOnly`: in the first run everything in the air and in the slots
  is of that run, and a slot's shards have its number. `NeverSitsOnABlock` needs
  `TriedAtOnce`: a slot that is not decoded has fewer than `k` shards, or its
  first `k` do not decode, since every shard that is stored is followed by an
  attempt. `WritesWhatWasSent` is the end-to-end statement about blocks: what is
  written was sent, follows all that was written before, and comes from shards
  of that block alone. It needs `SentOnly`: in the first half of the sender's
  ids the base of the window, every occupied slot, the last delivery and
  everything in the air are below `next_id`, so that the signed difference of
  two ids is their difference (`PlainDifference`) and the position that the
  window computes for a block is its id, also after a restart of the receiver.
  The loop of `rx_window_advance` moves the base only over a block that was
  sent: one it frees, or one behind a newer block that has a shard. With the
  refinement of `OrderedDelivery` for the order and `FirstRunOnly` for the
  content this gives the step.
* `TransportProofs`: `PayloadsIntact`, `OwnAccepted`, `TypeCorrect`,
  `AddressesTellPaths`, `RoundTripTime`. A shard in the network is masked exactly
  once (`MaskInv`) and `rx_window_insert` unmasks only what it stores; with equal
  keys the two cancel. For the paths, `LinkInv` says of every datagram under way
  which path it left on and which address the other end sees it come from; with
  addresses that tell the paths apart the first match of `transport_recv` is
  unique, at the gateway that answers a probe and at the one that gets the echo.
  The timestamp of an echo is the probe's, and splitting it into two words and
  putting it together again gives the same number for every word size
  (`WordsOfTime`).
* `StrategyProofs`: `CreditInvariance`, `TypeCorrect`, `CreditsBalance`,
  `SharesAreExact`, `DeadPathsAdd`, `HysteresisHolds`. The balance
  `used + credit = quota` together with non-negative credits is inductive; at a
  refill all credits of usable paths are zero, so each has been given its quota.
  `DeadPathsAdd` is arithmetic for every ratio: without the cap the scaled number
  of shards, times the live paths, is the number with all alive times all paths,
  rounded up, and with it the number is that of the cap; clamping is monotone. `HysteresisHolds` needs `LossInv`: the loss rate of
  a path is at least the threshold faded by the echoes since the last loss above it,
  because a lost probe never lowers the rate and an echo fades a larger rate to a
  larger one, rounding included.
* `SenderProofs`: `Invariance`, `PacketsConserved`, `HupsHonoured`,
  `IdsConsecutive` from the accounting of packets and ids at every place of the
  loop; `LatencyBounded` from `LatencyInv`, which bounds the age of the pending
  block place by place: below one timeout after the check, plus the wait so far
  in `select()`, plus one timeout per reload. It also needs that `select()` is
  interrupted only by a signal the loop then acts on (`IntrCause`): otherwise
  `EINTR` could restart the wait over and over. `LateEnabledStaysUnused`: a path
  that was disabled at the start is never alive, since no address matches it and
  the fall-back books on path 0 only. `NeverRevived`: a set of dead paths on which
  only their own echoes could be booked, from whatever address these come, with
  none under way, keeps this through every reload, echo and probe. `RunsScheduler` is a refinement: every step of the loop is a step of
  `Strategy` or leaves the scheduler alone, so all theorems about it hold in the
  gateway (`SharesInGateway`). `TypeCorrect` needs that a flush begins with `K` to
  `MAX_N` shards and that `select()` reported the packet that is read.
  `BlocksCoverPaths`: coverage is not inductive, since a block may begin anywhere
  in a round. `CoverInv` adds that credits are level (`Leveled`: a path that has
  been given a shard is at most one credit behind, and only behind later paths,
  which the choice of the best path keeps up), and counts what a block has given or can still
  give (`Given`). A block that has missed `p` so far has not used up the credits it
  began with, which are at most a round; or they have been refilled, `p` has its
  full share and the count is at most a round and the paths after `p`. At the end
  of a full round both are impossible. Once credits have been reset they need not
  be level, and the looser count (`LooselyBefore`, `LooselyAfter`) is used: what the block
  has given or can still give is at most a round before the credits are refilled,
  and at most two rounds less one after it while `p` has its full share; with as
  many shards given, `p` would have no credit left. Credits are counted as a set of tickets
  (`Tickets`), whose size the lemmas before it bound.
* `ConfigProofs`: `TypeCorrect`, `StartupSettingsStay`, `SectionAtPlaceTaken`,
  `ParsedFaithfully`. `TypeInv` says that every key of every section has a value
  from a line or a default, which `atoi` and the clamps bring into its range, and
  that `cur_path` never points beyond the stored paths. `ParseInv` relates what
  has been read so far to a definition by line numbers: the section a line is in is
  that of the last header before it, a value is that of the last line that gives its key,
  and the paths stored are the first `MAX_PATHS` path headers, in order.
  Each line read extends the file by one, and the lemmas `...Append` say what that
  does to each of these.
* `GF256Proofs`: `TableIsProduct`, `InversesFound`. Recursive functions are
  unfolded by an induction over sets of naturals (`Induct`), which needs no
  operator parameter. The loop of `gf256_init` adds up the doublings of `a` that
  the bits of `b` select, so its product is additive in both factors and a product
  with one bit is a repeated doubling; polynomial multiplication with long division
  has the same two properties, because long division is additive and commutes with
  a shift. Without divisors of zero the products of a nonzero `a` are distinct, so one of them is 1
  by the pigeonhole principle.
* `DataPathProofs`: `TablesCorrect`, `RowsStayConsistent`,
  `FailsOnlyIfDependent`, `FailsIffSingular`, `PacketsComeOut`. `Inv` says that
  during the elimination each row of data is the combination of the padded
  packets that its row of coefficients says (`Combined`), that the columns done
  are those of the unit matrix (`Reduced`), and that after the last one the rows
  are the packets (`Recovered`). `KernelInv` says that row operations keep the
  vectors orthogonal to all rows (`SameKernel`): a column without a pivot yields
  a nonzero one, and the unit matrix has none, so `decode_block` fails exactly
  when the `k` shards are dependent. `FailsIffSingular` says the same of the
  determinant, which is defined as the sum over all permutations of the products
  of the entries they pick. `DetInv`: the determinant of the rows is 0 exactly
  if that of the shards' coefficients is. A sum over permutations is the parity
  of the terms with a given bit, so the lemmas count: terms that come in equal
  pairs cancel (`XSumPairs`), which makes the determinant of a matrix with two
  equal rows 0, and renaming the permutations changes no sum (`XSumRenamed`),
  which covers the exchange of two rows. It is additive in a row (`DetAdds`), so
  adding a multiple of another row leaves it as it is, and scaling a row by an
  inverse multiplies it by an element that is not 0. When a column has no pivot
  each permutation picks a 0, by the pigeonhole principle (`DetNoPivot`); the
  unit matrix has determinant 1 (`DetUnit`).

Only model-checked: what holds under fairness (`AdvanceTerminates`,
`PendingBlockSent`, `Terminates`), which this prover does not reach. Every other
property of a passing run is stated by a theorem. `DeliveredAtMostOnce` states an
action property, `DeliveredOnce`, that no run checks by itself: each step of
`OrderedDelivery`, which `rx_window` checks, has it.

## 5. Not modelled

* The metrics page: text formatting and one answer per TCP connection; no other
  component reads its counters. `metrics_record_latency` and `decode_failure` have
  no caller, so the histogram is empty in a running gateway (it would be cumulated
  twice, once in `metrics.c:16-26` and once when it is printed). A `write` to a
  client that has gone raises SIGPIPE, which is not handled: listed as a hazard.
* TUN set-up: system calls and shell commands at the start.
* Logging, containers, sample configurations, measurement scripts.
* `mode = both` in one process: its sending half is `Sender`, its receiving half
  `RxWindow`, its datagrams are those of `Transport`. The halves share no state but
  the path table, so no interleaving of their steps is lost, only the delay that
  one half causes the other.
* The keystream of `crypto.c` is an abstract value of key and nonce.
* A wall clock that is set back in the sender (`tx.c:34`, `main.c:269`): a partial
  block and the probes then wait until the clock has caught up; `FlushLatency` is
  stated for a clock that is not.
* Truncation of over-long lines and names in `config_load`, memory layout, and
  the coefficients that `rand()` draws.

## 6. Plan

Done: the receiver window with its abstract channel, the tunnel with restarts,
the scheduler, the sender's event loop, the transport with encryption, the
configuration, and the data path with the field, with the proofs above.

Next, in this order:

1. An abstract specification of the whole tunnel, packets in and packets out. The
   two halves are proved apart: which blocks are written, in which order and from
   which shards (`WritesWhatWasSent`), and which packets a block of such shards
   gives (`PacketsComeOut`).
2. A shared-process model of `mode = both`, if the delay one half causes the other
   comes to matter.
