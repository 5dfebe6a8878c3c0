# A TLA+ model of rtun

rtun takes the IP traffic of a host through a tun device and sends it on: TCP
connections to names on a rule list go through a SOCKS5 proxy, other TCP
connections and UDP go out directly, and DNS is answered from a table of fake
addresses or forwarded. This directory holds TLA+ modules that model its
concurrent parts from the source, the TLC configurations that check them, and
TLAPS proofs. `PROJECT.json` lists the definitions with the source lines they
model (`map`), the runs, the hazards and the findings.

## The parts of the system

| Part | Source (`src/crates/tun/src/`) | Module | State of the work |
|---|---|---|---|
| Fake DNS table | `fakedns.rs` | `FakeDNS`, `FakeIpPool`, `FakeDNSProofs` | modelled, proved |
| DNS proxy | `dns_proxy.rs` | `DnsProxy`, `DnsProxyInvariant`, `DnsProxyProofs` | modelled, proved |
| UDP handler | `udp.rs` | `UdpHandle`, `UdpHandleProofs` | modelled, proved |
| TCP relay | `net/copy.rs` | `CopyBidirectional`, `ByteStreams`, `CopyBidirectionalProofs` | modelled, proved |
| TCP handler | `tcp.rs` | `TcpHandle`, `TcpHandleProofs` | modelled, proved |
| Cancelable futures | `cancelable.rs` | in `TcpHandle`, `UdpHandle`, `TunRoutes` | modelled |
| Route set-up and monitor, `Tun::run` | `lib.rs` | `TunRoutes`, `TunRoutesProofs` | modelled, proved |
| Route commands | `cmd.rs` | in `TunRoutes` | those of Linux |
| SOCKS5 client | `socks5/` | `Socks5`, `Socks5Proofs` | modelled, proved |
| Sockets, options | `net/sys/`, `option.rs` | | system calls and constants, left out |
| Power events | `power.rs` | | nothing calls it |

How they interact. `Tun::run` spawns the route monitor, builds the futures of
the UDP handler, the TCP handler, the network stack and Ctrl-C and waits for
the first of these to end; they share one task, while the tasks they spawn run
on a multi-threaded runtime. Then it cancels the monitor, which puts the host's
routes back, and joins it. The monitor broadcasts a message when the default
interface loses its address. The UDP handler's `clear_fut` then empties its sessions and
tells the DNS proxy, which drops its upstreams. The UDP handler gives packets
to port 53 to the fake DNS table first and passes those it declines to the DNS
proxy. The TCP handler asks the table which name an address stands for; if there
is one it connects through the SOCKS5 client, and either way it relays.

The modules are not put into one specification. Where two parts meet, each
module contains the other's side: `Notify` in both handlers is the monitor's
broadcast, `receiver` in `TunRoutes` is the handlers' side of it,
`DnsTakesClear` in `UdpHandle` and `NotifyClear` in `DnsProxy` are the two ends
of the `dns_clear` channel, and the rest of a handler's state is never read by
the other.

## The modules

**FakeIpPool** is what the table promises: addresses are lent to names in
order; a name loses its address only when all are lent, and the oldest binding
goes first.

**FakeDNS** models `FakeDNSInner`. Every operation runs under one `RwLock`, so
each is one action. `process_dns_packet` is split by its early returns
(`RejectPacket`, `PassUpstream`, `AnswerKnown`, `AnswerFresh`); the last one
contains `alloc_fake_ip` and `prepare_next_cursor`, including what stays
changed when the latter fails. `Base` stands for the 256 values of a byte.
`window` is a history variable: the last allocations, as many as there are
usable addresses.

**DnsProxy** models one `DnsProxy` with all its tasks. `handler` is the caller
of `send`; `send[u]` and `recv[u]` are the states of upstream u's `SendFut` and
`RecvFut`, with the names of the code's enums. `serial` is the `AtomicU16`
without its wrap and `Id` the wrap, so that properties can tell two queries
with the same id apart. `wire[u]` are requests whose response may still arrive,
in any order, late, never, and over UDP more than once. `Stalled` is a poll
that returned `Pending` after a partial read or write with no waker registered.
`listen_port` is a u16 whose values are `PortSpace` many: `PortOverflows` is the
panic of a build with overflow checks, `NextPort` the wrap of one without, and
port 0 is one the system picks. `deaf[u]` records that the drop of the
`UpstreamSender` fell between `RecvFut`'s first check of `running` and its first
registration of the waker. Over TCP that does no harm: the first turn of the
loop only moves to `TcpHeader`, and the second one checks again before it reads.

**UdpHandle** models `handle_udp_socket`, the two tasks of each session and
`clear_fut`. The tokio mutex on the session map is held across two awaits, and
only then is it a state (`mutex`): by the loop on a full channel (`Sending`),
by `clear_fut` on the `dns_clear` channel (`Tell`). `Sender` and `CancelHandle`
live in the map entry, so `Cancelled(t)` is "t is not the entry of its source".
`Removing` is the rest of a poll of `forward_to_incoming` that has read the
cancel flag and seen the timeout; it may race a cancellation. The loop ends with
the tunnel's stream (`TunnelEnds`) or a panic of its own; `clear_fut` ends when
the monitor is gone and everything it sent has been seen (`MonitorEnds`,
`ClearClosed`). Its send to the `dns_clear` channel does not fail while the
program runs: the task with the receiver ends only when the sender is dropped.

**TcpHandle** models the task of each TCP connection, the map of
`CancelHandle`s keyed by the pair of addresses, and the clear task.
`Cancelable::poll` is three steps, `Load`, `InnerReady` or `InnerPending`, and
`Register`, so that a cancellation can fall between them; `cancelled`, `waker`
and `woken` are its flag, its `AtomicWaker` and the scheduling of its task.
Storing the flag and waking are one step: a waker registered between the two
would be woken, and that order behaves like registering first. The clear task
sees notifications, a lag and, when the monitor has ended, the closed channel
(`ClearClosed`), which ends it; `TypeOK` says that nothing else does, and that no
notification is left unseen then.

**ByteStreams** is what the relay promises to its two peers: in each direction
what arrives is what was sent, in order; a stream is closed after its last byte
and the other one goes on; the connection ends well after both are closed, and
is given up as idle only while both are open.

**CopyBidirectional** models `copy_bidirectional_with_timeout` as a sequence of
calls on the streams inside each poll; the streams and the timer move between
any two. A call that is `Pending` leaves a waker, nothing else does, and the
task is polled only when `notified`. Bytes are numbered.

**TunRoutes** models `Tun::run` from the set-up to every way of ending, and
`PostTunSetup::monitor`. `pc` holds where each of the two is. They share the
actions of `PostTunSetup::new` and `setup` (`Setup(p)`), one per command, as the
host may change between any two; `TypeOK` says that they are never in them at
the same time. The host is external: it is on one network or on none, and
installs its own default route some time after it has joined one, either in
place of the tunnel's (`replace`) or behind it with a higher metric (`lower`).
`routes` are the three default routes that matter: the one of metric 0 and one
of a higher metric in table main, and the one in table default. The commands do
not look at exit statuses, so a refused command leaves `routes` as it is.
`poll_next` is three steps, as `poll` is in `TcpHandle`. The order in which
`run` drops things matters and is kept: futures and the device in them before
the cancellation, except when the stack can not be built. `receiver` says for
each handler what owns its end of the broadcast channel: `run` itself until the
futures capture it (`Built`), the handler's future until that spawns its clear
task (`SpawnClear`), the task until that ends (`ClearEnds`); whoever is dropped
takes the receivers it owns with it (`Without`). A send without a receiver is the
panic of the monitor. A network has one address; `get_if_addr`, which takes the
last one listed, is modelled for that case. Four history variables
record what the exceptions of the properties name: `missed`, `disturbed`,
`itself`, `broken`.

**Socks5** models `Sock5TcpStream::connect` with the bytes of its messages, and
a proxy that takes requests apart as RFC 1928 says, answers with any values in
the fields and relays numbered bytes. `Base` stands for the 256 values of a
byte, and what the proxy sends arrives byte by byte.

Definitions named `Fault...` are what a slip in the definition below them would
look like; `PROJECT.json` pairs each with the property that notices it.

## The runs

| Run | Instance | What holds |
|---|---|---|
| `fakedns` | 5 names, two blocks of 4 addresses, 4 usable | maps inverse; answers lead back; the table implements `FakeIpPool` over the usable addresses, so no reserved one is lent |
| `dnsproxy` | 3 queries, 2 slots, 2 ids, 2 starts, 3 ports, 1 clear, UDP and TCP | one answer per query; another query's answer only after the ids wrapped; a response is discarded only for a stated reason; no port bound while in use before the counter wraps |
| `dnsproxy_live` | 2 queries, the first port is the last one, else the same | sessions leave the map; a clear reaches every upstream; the tasks of a dropped upstream end, except in the two windows the property names |
| `udp` | 2 packets, 2 sources, channels of 1, 2 notifications | the loop does not hang; sessions are lost only for stated reasons; clears and timeouts take effect; tasks of a lost session end |
| `tcp` | 2 streams, 2 address pairs, 2 notifications | a handle is in the map exactly while its copy is uncancelled; no entry outlives its task; cancellations have a stated reason and, outside one window, an effect; a clear misses no entry |
| `copy` | 2 bytes and 1 byte, buffers of 2, writers with room for 1 | bytes exact and in order; shutdown after the last flush; timeout only when idle; no lost wake-up; the relay implements `ByteStreams` |
| `tun` | 2 networks behind 2 interfaces, 4 changes of the network, both policies of the host, 1 handler | the watched address is there or its loss is queued; the host keeps its route; while the tunnel works a loss reaches every handler, so that the monitor's `unwrap` is safe; `run` returns |
| `socks5` | bytes of 6 values, an address of each kind, names of 0, 1, 5 and 6 bytes, 2 relayed bytes | the proxy reads back what the client was given; the stream is handed over at the first relayed byte |

Four runs expect a violation: a comment of the code says something that the
code does not do. `findings` in `PROJECT.json` quotes the lines.

* `udp_destination`: a session sends all its packets to the destination of the
  first one.
* `udp_dead_session`: a session whose `recv_from` failed stays in the map.
* `copy_idle_timeout`: the `Sleep` is created but not polled, so a connection
  that is silent from then on is not woken when it ends.
* `tun_ip_change`: while the tunnel's route is preferred, reading the default
  route gives the tunnel itself. A set-up that does so makes the monitor watch
  the tunnel's own address in the round after it, and the next loss of the
  network goes unnoticed.

Other windows are exceptions that passing properties name. `SendFut` records a
session after the request has left, and a response handled in between is thrown
away (`NotYetRecorded` in `DiscardJustified`). A cancellation that falls into
the first poll of a `Cancelable`, before it registers its waker, wakes nobody:
a silent connection outlives a clear (`Deaf` in `CancelledCopyEnds`), the
`RecvFut` of a UDP upstream its sender (`deaf` in `DroppedUpstreamStops`), and `run`
waits for the monitor until an interface event comes (`Deaf` in `RunReturns`).
A change of the network between the first set-up and `IfWatcher::new` is
reported to nobody (`missed` in `NoStaleWatch`). The host may be left without
its route if the network or the device goes between the commands of a set-up,
after a set-up that took the tunnel for the default interface, if the watcher
fails, or if the stack can not be built (`disturbed`, `itself` and `broken` in
`HostReachable`). Without these exceptions TLC finds counterexamples.

### Bounds

Every bound is a constant. In `fakedns` there is one name more than usable
addresses and more than one block, so the range fills, wraps and is recycled;
the proofs remove these bounds for what they prove. In `dnsproxy` two ids and three queries make
ids wrap with sessions pending, and two starts include a restart after a clear
or a failure; in `dnsproxy_live` the first start uses the last port, so the
counter overflows or wraps. In `udp` a channel of one packet is full after the first, and two
notifications make `clear_fut` lag; two packets of one source are what a
session needs to be replaced. In `tcp` two streams of one pair are what it takes
for a connection to be replaced and for the replaced one to remove its
successor's key; the proofs cover any number of streams. In `copy` a buffer of
two bytes and room for one make every second write partial. In `tun` four changes
are two losses and two returns, which is what it takes to take the tunnel for
the default interface and to lose the network after that; the receiver of one
handler goes through all its owners, and the theorem covers any set of handlers. In `socks5`
`Base` is the least that holds the version number, and the names go up to and
past what the length byte can count; the proofs cover 256. Inputs are finite, so behaviours end and
deadlock is not checked; where being stuck would be wrong, a liveness property
says so.

### Fairness

A task that is ready or woken is polled: weak fairness per task, on the
disjunction of what one poll may do (so that errors may but need not happen).
tokio's mutex serves its waiters in order: strong fairness for the steps that
wait for it. TCP connects end by their timeout and time passes. In `TunRoutes` the
monitor is polled when it is woken, its sleep ends and its commands return, and
`run` goes on after `select_all`. In `CopyBidirectional` what a writer has
accepted leaves it (`Drain`): the peer there goes on reading. `BytesFlow` and
`EofPassedOn` need that, as a peer that never reads stops a relay for good.
Nothing is assumed of what clients and servers send or when they close, of the
tunnel's input, network changes or the futures of `select_all`, nor of a task
parked without a waker: `WriteResumes`, `ReceiveAfterDrop` and `Stalled` readers
have no fairness.

## The proofs

`FakeDNSProofs` proves, for every set of names, every rule list, every block
size of at least 3 and every range of whole blocks (`RangeAssumption`, which
192.18.0.0/16 meets with blocks of 256): `TypeCorrect`, `MapsAlwaysInverse`,
`OnlyUsableEverLent`, `CursorNeverExhausted`, `AnswersLeadBack`,
`BindingsAreLatest` and the refinement `ImplementsPool`.

The inductive invariant `IInv` is the conjunction of the type invariant,
`MapsInverse`, `OnlyUsableLent` and `AnswerLeadsBack`. The conjuncts need each
other. When `alloc_fake_ip` displaces a name, the maps stay inverse because
that name was bound to the cursor and to nothing else. The cursor stays usable
because a usable cursor is followed by a usable address, or by the last address
of a block and the first of the next, or by the wrap to the start: at most two
reserved addresses in a row, so three attempts are enough (`CursorStaysUsable`).
That rests on arithmetic about remainders (`LowByteOfNext`, `LowByteAfterZero`),
derived from `DivisionFacts` and `RemainderUnique`. The
step from the invariant has one case per action (`NextInvariant`); actions that
leave the table alone share the lemma `QuietStep`.

The last two theorems are about the order in which addresses are used again.
`Rank` numbers the usable addresses from 0 without gaps, by their block and
their place in it; it is a bijection (`RankInjective`, `RankSurjective`), so
there are `UsableCount` of them (`CardinalityOfUsable`), and
`prepare_next_cursor` adds one to the rank, modulo that count (`CursorCycles`).
This is stated with division instead of an induction over the range. `OrderInv`
then adds to `IInv` that the i-th youngest binding of `window` is i steps behind
the cursor (`WindowInOrder`) and that the maps hold the bindings of `window` and
no others (`WindowBound`). A name that is displaced is at the cursor, hence
`UsableCount` steps behind it, hence the oldest of a full window
(`CursorMeetsOldest`); `AllocationBindsFree` and `AllocationBindsOldest` are the
two steps of the pool.

`UdpHandleProofs` proves, for every set of addresses, channel size, number of
packets and notifications, `TypeCorrect`, `WaitedEntryStays` and the action
property `LossesHaveReasons`. The assumptions are that a channel holds at least one
message and that there is an address to send from and to (`SizeAssumption`,
`AddressAssumption`). `IInv` adds that whoever waits with the mutex is its
holder (`MutexHolders`), which is why no removal falls into the loop's wait;
that a packet waiting for the mutex has a session number left
(`RoomForSession`); and that the entry of a source is its youngest session
(`EntryYoungest`, `RunningMade`), so that a task that removes another session's
entry can only be an older one of the same source.

`TcpHandleProofs` proves, for every number of streams, set of address pairs and
number of network changes, `TypeCorrect`, `HandlesExact`, `NoLeakedEntry` and
the action property `CancelsHaveReasons`. `IInv` adds to the three invariants
`NotYetInserted`: a connection that has not inserted its handle is uncancelled.
Without it an insert could put the handle of a cancelled copy into the map.
The argument is one lemma per step that drops handles (`InsertKeepsInvariant`,
`RemoveKeepsInvariant`, `ClearKeepsInvariant`), each showing that the handles
dropped are those leaving the map; all other steps are `TaskStep` or
`QuietStep`. That only a cancelled connection can remove another one's key
follows from the invariant: an uncancelled one finds its own handle there.

`DnsProxyProofs`, with the invariant and half of its cases in
`DnsProxyInvariant`, proves for every number of queries, starts, clears, slots,
ids and ports `TypeCorrect`, `OneAnswer`, `WrongAnswerNeedsWrap`,
`BindNeedsWrap` and the action property `DiscardsJustified`. The only assumption
worth naming is that the first port is not 0 (it is 10,880 by default). `IInv`
follows a query through the proxy: it is held by the handler or waits in one
channel without a serial (`Waiting`), then has a serial of its own (`Numbered`),
is held by one `SendFut` (`Sending`), recorded under its id (`Recorded`) and
answered (`Answered`). That a query is in one place only is what makes the
answer unique; that every response on the wire belongs to a query that is
recorded, gone for a stated reason or about to be recorded (`Answering`) is what
justifies each discard. `Numbered` counts the serials given out, so that the
serial stays in its type. `Ports` says that the port of upstream u is the first
plus u - 1 until the counter wraps, hence that no two are equal.

`CopyBidirectionalProofs` proves, for every amount of data, buffer size and room
of the writers, `TypeCorrect`, `NoByteLost`, `ShutdownComesLast` and
`TimeoutNeedsIdle`, the refinement `ImplementsStreams` and `WakeupsNeverLost`.
`IInv` has a sum (`Bounds`: written, buffered and unread
bytes add up to those produced), an order (`Ordered`: the bytes written count
from one and the buffer continues them) and two facts about the control: a
direction stops only after everything has been read, written and flushed
(`Ends`), and one that wrote since the sleep was made shows that in the amounts
this poll compares (`Idle`). Each step changes one direction; `SameKeeps`
disposes of the other.

For the refinement a byte is delivered when the writer accepts it and a stream
is closed when its state is `Done`. `Write` delivers the next bytes because the
buffer continues what was written (`NextBytes`), `Shutdown` closes a stream
whose bytes are all written by `Ends` and the sum, and the three ways of ending
agree with the states because a direction has returned `Ready` in a poll exactly
if it is `Done` (`Idle`). All other steps are stuttering (`QuietStutters`).

`WakeupsNeverLost` is the safety half of `BytesFlow` and `EofPassedOn`: a relay
that is parked and not scheduled has, in each direction, nothing to do and a
waker with the reader or writer that will have (`NoLostWakeup`). `WakeInv` says
so of each direction from the moment it returns in a poll, as stream events may
come before the other direction has returned.

`TunRoutesProofs` proves for all sets of networks, interfaces and handlers and
any number of changes `TypeCorrect`, `WatchNeverStale`,
`LossAlwaysReachesHandlers` and `HostStaysReachable`. `IInv` adds `Phases` (the
device is gone before an orderly restore), `Received` (until the futures are
built every receiver belongs to `run`, so that none can be lost on the way into
them), `Watched` (also the address read before the sleep stays
tracked until it is watched) and `Ways`: no route leads to where the host is
not, and in every state between two commands the way back to the host's network
is in a table or in `default_gw`.

`Socks5Proofs` proves, for every byte size from 6 and all targets,
`TargetReachesServer` and `PayloadNotTouched`. The first rests on
`RequestParses`, which takes a request apart position by position; the second on
an invariant that says, for each pair of states of client and proxy, how many
bytes of the response are still unread in front of the relayed ones.

Every safety property that a passing run checks is also proved. Only
model-checked are the liveness properties, as fairness is out of the prover's
reach: `SessionsDrain`, `ClearReachesUpstreams` and `DroppedUpstreamStops` of
`DnsProxy`; `LoopGoesOn`, `ClearReachesSessions`, `TimedOutRemoved` and
`CancelledTasksEnd` of `UdpHandle`; `CancelledCopyEnds` and
`ClearReachesConnections` of `TcpHandle`; `BytesFlow` and `EofPassedOn` of
`CopyBidirectional`; `RunReturns` of `TunRoutes`.

## Not modelled

Bytes of DNS messages and packets; the parsing of rule files and of what the
route commands print; logging; socket options; the macOS route commands, which
select routes by `ifscope`; `OUTBOUND_INTERFACES`, which is set once at the
start and not when the default interface changes; the network stack (lwip)
behind its streams, and the two futures that pass packets between it and the
device; memory limits of unbounded channels. `transfer_one_direction` and
`copy_bidirectional` in `net/copy.rs` and all of `power.rs` are never called. A
panic of a spawned task ends that task; a panic of a future of `select_all`,
such as the UDP handler's, ends the program (`Up` in `UdpHandle`, `RunFails` in
`TunRoutes`). A SOCKS5 response with a name in it is a panic of its task
(`Panicked` in `Socks5`), which the code states with `unimplemented!`.
