# A TLA+ model of proxifyre-rs

proxifyre-rs redirects the TCP connections and UDP datagrams of chosen Windows
programs through SOCKS5 servers. A driver (NDISAPI) hands every packet of one
network adapter to the program, which rewrites the packets of those programs so
that they reach a *transparent proxy* on the same machine, and the packets the
transparent proxy sends back so that they seem to come from the remote host.

This directory models that program: its connection tables, the lookup of processes,
the choice of a proxy, the tasks of a transparent proxy, its SOCKS5 client, the packet
loop and the program's life cycle, with TLC runs on small instances, and TLAPS proofs
of their safety properties. Paths below are relative to the repository.

## 1. Inventory

| Part | State it keeps | Operations | Meets others through |
|---|---|---|---|
| UDP flow table (`src/router/mod.rs` `UdpMappings`, `src/router/flow.rs`) | `by_flow`, `by_peer` | insert, refresh, drop idle flows, rebuild the index, `query_udp` | the packet loop writes it, the proxies' workers query it |
| TCP table (`src/router/flow.rs`, `mod.rs`) | `tcp_connections` | insert on SYN, remove on FIN/RST, `query_tcp` | as above |
| Packet rewriting (`src/router/packet.rs`) | none | parse, rewrite, checksums | called by the packet loop |
| Packet loop (`src/router/adapter.rs`) | open adapter, its mode, cleanup counter | read, process, send a batch; restart; end | `adapter_name`, `restart`, `shutdown`; the driver |
| Router (`src/router/mod.rs`) | proxies, names, filters, flags, notification handle and context | add proxy, start, stop, close, interface-change callback | everything |
| Static filters (`src/router/filters.rs`) | the driver's table | build, set, reset | the driver |
| Transparent proxy (`src/proxy/transparent_proxy.rs`) | queue, buffer pool, `udp_connections`, reader handles, `shutdown`, `shutdown_notify` | accept, resolve, associate, forward, answer, evict, stop | queries the tables; SOCKS5 client |
| SOCKS5 client (`src/proxy/socks5.rs`) | one stream per session | handshake, request, UDP codec | SOCKS5 server |
| Process lookup (`src/windows/process.rs`) | session cache, path cache | find the program of a socket | called by the packet loop |
| Terminal and logging (`src/tui.rs`, `src/logging.rs`) | log lines, traffic samples, shutdown flag | draw, quit | `app.rs`, router counters |
| Program (`src/app.rs`) | none | configure, start, wait, close | all of the above |

Who runs where. `app::run` and the packet loop are tasks of **one thread** (a tokio
`LocalSet`); each steps while the other awaits. The tasks of the proxies and the
statistics run on tokio's worker threads. The terminal has a thread of its own; the
interface-change callback runs on a system thread, one call at a time.

What is hard, and what would make each part correct:

* *UDP table.* Two maps kept in step by hand; datagrams resolved long after they
  were redirected, by an index that forgets part of their key; a process lookup
  awaited between a miss and its insertion. Correct: the index always equals the one
  the flows define; a datagram goes to the endpoint its client named, or nowhere; a
  reply of its flow comes from the port the client addressed; a live flow is never
  re-targeted.
* *TCP table.* Entries are made by SYNs, removed by any FIN or RST of either side,
  kept by `or_insert`, and never time out. Correct: no connection inherits the
  destination of a predecessor whose end the router saw; a held connection keeps its
  mapping until the first FIN or RST.
* *Transparent proxy.* Five kinds of tasks, four locks (one taken while another is
  held across an await), a wake-up that is not remembered, limits checked before
  awaits, a reader that may remove its successor's entry. Correct: buffers and
  associations stay within their limits, every entry has a reader, nobody waits for
  ever, `stop` leaves none of the tasks it joins behind.
* *Packet loop.* The adapter's name and the restart flag are two variables shared with
  another thread; both it and `shutdown` are looked at between two reads only. Correct:
  no change of adapter is lost, no adapter is left in tunnel mode, `shutdown` ends the
  loop while its adapter delivers.
* *Life cycle.* Each start step can fail; the terminal can end at any moment; stopping
  joins threads and tasks one after the other. Correct: packets are redirected only to
  proxies that listen, a callback never outlives its reference, a regular end leaves
  nothing behind, and there is an end.
* *SOCKS5 client.* No timeouts; lengths and address types chosen by the peer.
  Correct: a session is usable only after the server agreed; both sides agree where
  each message ends; only a server that stalls blocks; codecs invert each other.
* *Process lookup.* Two caches with different life times, filled by several system
  calls while sockets and process ids change hands. Correct: bounded in size, stale by
  no more than it says, and an open socket is found however new it is.
* *Filters and names.* Both are filled proxy by proxy while each step can fail.
  Correct: the proxies' own sessions are never redirected; what is redirected goes to a
  proxy that listens and that a name asks for.

`PROJECT.json` lists every hazard with its line and the properties that cover it.

## 2. Modules

| Module | Models | Extends |
|---|---|---|
| `Packets` | headers, the two kinds of keys, `apply_rewrite` | |
| `UdpTable` | what the UDP table promises | `Packets` |
| `UdpFlows` | UDP table, packet loop's UDP part, proxy's query | `Packets`, instance of `UdpTable` |
| `TcpFlows` | TCP table, clients and proxy sockets around it | `Packets` |
| `ProcessLookup` | the lookup, its caches, the system's sockets and processes | |
| `ProxyTable` | filters, names, ports of the proxies, filled by the start | |
| `TransparentProxy` | the tasks of one proxy | |
| `Socks5Codec` | addresses and datagrams as octets | |
| `Socks5` | a session with a SOCKS5 server | `Socks5Codec` |
| `Socks5Datagrams` | datagrams of an association, of any content | `Socks5Codec` |
| `PacketLoop` | packet loop, adapter selection, callback | |
| `Lifecycle` | `app::run`, router start/stop/close, terminal | instance of `PacketLoop` |
| `UdpFlowsProofs`, `TcpFlowsProofs`, `ProcessLookupProofs`, `TransparentProxyProofs`, `PacketLoopProofs`, `LifecycleProofs`, `ProxyTableProofs`, `Socks5Proofs` | proofs | the module they name; `UdpFlowsProofs` also `UdpTable`, `Socks5Proofs` also `Socks5Datagrams` |
| `MCUdpFlows`, `MCTcpFlows`, `MCProcessLookup`, `MCProxyTable`, `MCTransparentProxy`, `MCSocks5`, `MCSocks5Datagrams` | instances for TLC | the module they name |

A definition whose comment begins with *Mutant* is a wrong variant of the
definition it precedes. Nothing uses it: it is there to check that the
property which should notice the error does.

**Packets.** A header is four fields. IPv4 and IPv6 are treated alike by the code
(each proxy has one dual-stack port), so family, checksums and MAC addresses are
abstracted. `FlowKeyOf` and `ReplyKeyOf` are the lookups of `flow.rs`.

**UdpFlows.** The packet loop takes a packet when `LoopFree`; `UdpHit`, `UdpOtherPort`
and `UdpMiss` are the branches of `process_udp_payload` before the process lookup,
`LookupProxied`/`LookupUnproxied` those after. Redirected datagrams leave with the end
of the batch (`EndBatch`), any of them may be lost in the proxy's queue, and each
`CLEANUP_PERIOD`-th batch runs `Cleanup`, whose index rebuild visits the flows in hash
order, one `RebuildStep` each, under the table's lock (`todo`). `last_active` is an age
that saturates at `UDP_TIMEOUT`. `Resolve` is the proxy's query, at any later time. A
`Reply` leaves from any address in `Local`: the proxy's socket is bound to `[::]`, and
the system chooses. The lookup may give any answer, except that it never names a proxied
program for a packet of a proxy's own socket: `app_names` that match proxifyre's own
path would make it redirect itself (its sessions with the SOCKS5 servers excepted, see
`ProxyTable`).

**UdpTable.** Flows with a fixed target, and the answer to every query as a function of
the flows: the destination of the one flow that fits, else none. `UdpFlows` implements
it with its idle times hidden (`Targets`) and `query_udp` in place of the index
(`Answers`, none while the rebuild has the lock).

**TcpFlows.** `Conns` are connections of clients, several with one key. Segments are
steps: `Syn` (also retransmitted) suspends the loop in the lookup; `ClientFin`,
`ClientRst`, `SynAck` and `ProxyFin` pass through the `else` branches of
`process_tcp_payload`. `Accept` is `handle_tcp_connection` asking for the original
destination. External assumptions, each a guard of its own: a local port belongs to
one connection at a time (`PortFree`), the proxy's TCP stack does not accept a SYN on
addresses a socket of its own still uses (`TupleFree`). The process of a connection
is fixed (`Owner`) but its lookup may fail. A client may vanish without any segment
that the router sees (`ClientVanishes`: connect timed out, adapter not filtered);
`abandoned` remembers it.

**ProcessLookup.** One lookup at a time, as the packet loop awaits each. `Begin`,
`Size`, `Fill`, `Path`, `Query` are its stages, cut where it calls the system; between
them programs open and close sockets, end, and start under old process ids. Times are
ages that saturate one past the limit they are compared with. The four functions of
each kind (TCP/UDP, IPv4/IPv6) differ in their keys only: a TCP socket is one that is
its own wildcard. `lost`, `held` and `open` are history: how long ago the process of a
row gave up the socket, how long a socket has had its owner, and which sockets that
answer the question have been open since the lookup began.

**ProxyTable.** A filter is the fields it compares, `AnyValue` where it compares
nothing. `AddProxy`, `Associate`, `Start`, `StartProxy` fill the router's lists as `run`
and `start` do, and `Apply` gives the filters to the driver or fails. A proxy's ports
are one number, as both families and protocols are bound together. The names are a
hash map: which of several that fit decides is left open (`ProxyPorts`).

**Socks5Codec, Socks5, Socks5Datagrams.** Addresses are octets, because what can go
wrong is where they begin and end. In `Socks5` each `read_exact` waits for the octets of
one `Await`. The server chooses every code, version and address; what it means to say is
in `transit`, and `Deliver` sends one octet of it, or never does: so a server may stall
before an answer or after any octet of one, which is also what a length octet larger
than what follows amounts to. It may close at any moment, after what it means to say or
inside it (`cut`). What a server says of its own framing is taken to be what it means:
there is no address other than the one its type and length octets announce. The kind of
message an octet belongs to (`of`) is history that the client does not see. The port is
read with the address before it, and a reply's address with its type. `Socks5Datagrams`
lets the relay send any octets; a slice beyond the end, where the code would panic,
yields an octet that no datagram has (`Outside`). Its specification is named
`DatagramSpec`, so that one module can be about both.

**TransparentProxy.** One `pc` per task. A step is what a task does between two
awaits or critical sections. `map_locked` is the one lock held across an await
(`WorkerInsert` to `WorkerTrack`); the other critical sections are single steps; the
list of reader handles is held by `stop` from `"drain"` on. `notified` holds the
tasks whose `notified()` future has been woken; `StopNotify` wakes those that wait at
that moment, and any branch of a `select!` that wins over it drops it. `relays` counts
the tasks spawned for accepted TCP connections: their handles are dropped, so `stop`
neither tells nor joins them, and each ends by itself (`RelayEnds`) or never. Time is
`Age`: an association becomes stale.

**PacketLoop.** `LoopClone` to `LoopClose` follow `run_packet_loop`; `CallbackBegin` to
`CallbackRestart` follow the callback, whose reads of the adapter list and of the best
interface are two steps. It selects the best of the listed adapters (`CallbackSelect`)
or, when `GetBestInterface` fails or no adapter has the best interface's MAC address,
the first one without an error (`CallbackFallback`: any, as the order of the list means
nothing); `new()` does the same, so that the first name may be any. `missed` is history:
a change that came before the callback was registered or whose refresh failed, or a
selection that fell back. An adapter that is removed loses its mode, also when it comes
back under its name. The contents of a batch are in `UdpFlows` and `TcpFlows`.

**Lifecycle.** `app` is where `run` is. Steps of `run` and of the loop exclude each
other as on their common thread: `run` steps while the loop awaits (`LoopAwaits`), the
loop while `run` awaits (`Running`), and neither while `run` blocks the thread (joining the
terminal, cancelling the notifications). A failing start goes to `Abort`, which does
not close the router, as in the code.

## 3. Runs

| Run | Instance | Asks |
|---|---|---|
| `udp_flows` | 2 local addresses (replies leave from either), 1 host, 2 services, 1 client port; timeout 2, cleanup each 2nd batch, 2 datagrams in flight, 2 sessions | consistency of the two maps; datagrams keep their endpoints, and replies theirs as far as the address they leave from allows; `UdpTable` is implemented |
| `tcp_flows` | 3 connections with one key (2 services), 1 with the same port to another host and proxy | which mapping a connection can meet |
| `process_lookup` | a UDP port bound on one address and on all; 2 process ids, 2 programs; room for 1 path; both cache ages 1 | how old or wrong an answer may be |
| `proxy_table` | 1 address of each family, at most 3 proxies of which the table holds 2; 2 names, 3 programs (one with two names, one with none) | which packets are redirected, and where |
| `socks5` | server reached by IPv4, mapped IPv4 or IPv6 loopback; replies with no address (both families), an address, a domain; true lengths | what a session presupposes, alignment of the stream, what blocks |
| `socks5_relay` | the same | **fails**: the relay chosen need not be on the server's host (section 5) |
| `socks5_datagrams` | addresses of 1 and 4 octets; every datagram up to 11 octets of an alphabet with all types | parser and builder |
| `proxy` | 2 keys, 2 associations, queue 1, limit 1, 2 relays | limits, entries and readers, what `stop` leaves |
| `proxy_live` | 1 key, 2 associations, limit 2, 1 relay | locks and waits: the worker and `stop` proceed |
| `proxy_stop` | smallest | **fails**: `stop` need not return (section 5) |
| `packet_loop` | 2 adapters, 3 interface changes | the loop follows the name, and ends |
| `lifecycle` | 2 adapters, 2 changes, at most 3 proxies of which the filter table holds 2 | order of start and stop, a clean end, an end at all |

Why these bounds. The index of `UdpFlows` is disturbed by *two* flows with one index
key and a third party that drops one of them: two local addresses give that, two
services give a flow that is reborn with another port while an old datagram waits.
Age 2 separates "just used", "idle" and "expired". `TcpFlows` needs a predecessor, a
successor that fits its mapping and one that does not. `TransparentProxy` needs a
reader of an evicted association that overlaps the next one with its key (2
associations), and a limit below the number of keys; a queue of one is full and empty in
turn; nothing depends on the number of relays (`MaxRelays`), which are there to be seen
to survive. For `PacketLoop`, a change during a callback that answers another, and one
before the registration, are three changes. `ProcessLookup` needs two processes that
take turns on a socket, a wildcard beside the exact address, and one path more than the
cache holds; an age of 1 separates "fresh", "at the limit" and "stale". The datagrams of
`socks5_datagrams` are as long as the longest header and a payload; the codec copies
addresses without looking at them, so their lengths may be reduced, and octets behind a
header that is refused are left out. Symmetry (of values nothing in the model
tells apart) is used in the safety runs `udp_flows`, `tcp_flows`,
`process_lookup` and `proxy` only.

Fairness. `TransparentProxy`: every task that can run does, a pending read times out
after 500 ms, and receiving a datagram wins against a 5 s timer now and then (strong
fairness). It assumes that the SOCKS5 server answers, completely: the code has no timeout
there. Nothing is assumed of the relays.
`PacketLoop` and `Lifecycle`: loop and callback run, and a read returns while the open
adapter is in tunnel mode (a filtered adapter carries traffic). Nothing is assumed of a
read on an adapter that has been removed since it was opened, be it gone or back in
its default mode (`Stranded`), of users, of failures. `run` gets its turn if the loop
keeps awaiting (strong fairness: the executor polls a woken task in turn), and each
proxy's `stop` returns, which `proxy_stop` shows to be an assumption. `Socks5`: the
client runs, and what the server sent before it closed arrives; nothing is assumed of a
server that keeps the connection, neither that it answers, nor that it goes on with an
answer it has begun, nor that it closes.

The properties, by hazard:

* `PeerIndexExact`, `QueryFaithful`, `ReplyFaithful`, `ImplementsTable` (UDP).
  `QueryFaithful` and `ReplyFaithful` promise a port only while the datagram's flow is
  in the table: once it was dropped, and perhaps reborn for another service, the code
  promises the host only, and the model shows no more. A reply has its exact answer
  if the system lets it leave from the client's address; from another local address it
  stays unrewritten, so that the client never gets it, or is taken for a reply of a second
  flow that shares host and client port.
* `DestinationCurrent`, `NoStaleMapping`, `MappingHeld` (TCP). The
  exceptions they name are what the code lacks: a mapping of an `abandoned`
  connection stays for ever, and the first FIN of either side (`cut`) ends the
  redirection of both.
* `OwnerRecent`, `SettledOwner`, `OpenSocketFound`, `PathsBounded` (process lookup). The
  ages count from the end of an enumeration, where the code takes the time; `Fill` reads
  the system's table in one step, so its duration is to be added to `OwnerRecent`. A
  path in use never expires, so that a process id given anew may be taken for its
  predecessor: the model has these steps and no property excludes them.
* `RedirectsRight` (filters and names), of packets that are sent. The filters for
  received packets name the server as the *destination*, which a reply's is not: they
  let no reply pass, and replies go through the loop.
* `SessionAgreed`, `StreamAligned`, `OnlyStallBlocks` (SOCKS5 session), `ParserSound`,
  `ParserComplete` (its datagrams). `OnlyStallBlocks` makes precise what the
  fairness of `TransparentProxy` assumes: only a server that keeps the connection and
  withholds an answer, or the rest of one, can keep the UDP worker in its handshake, and
  then for ever.
* `BuffersBounded`, `AssociationsBounded`, `NoOrphanEntry`, `NoRacingInsert`,
  `StopComplete`, `StopFinishes`, `WorkerReturnsToSelect` (proxy). `NoOrphanEntry` does
  not exclude that an old reader, ending late, removes the entry of its live successor:
  the code does so, the successor's reader then ends at its next timeout, and the
  client's next datagram associates anew. `StopComplete` is about what `stop` answers
  for; relays of TCP connections may outlive it.
* `RestartOwed`, `TunnelOnlyOpen`, `NameCurrent`, `FollowsName`, `ShutdownEndsLoop`
  (packet loop). `FollowsName` and `ShutdownEndsLoop` except a loop that is `Stranded`, on
  an adapter removed since it was opened: shutdown and restart are only looked at when the
  read returns. `NameCurrent` excepts what `missed` records: while the choice falls back,
  any adapter may be named.
* `CallbackHasContext`, `PacketsHaveProxies`, `ClosedClean`, `QuitFinishes` (life
  cycle). `QuitFinishes` has the exception of `ShutdownEndsLoop`. `ClosedClean` is about a
  regular end: after a failed start the filters and the proxies already started stay
  (`Abort`), and all that is shown then is that nothing is redirected
  (`PacketsHaveProxies`).

## 4. Proofs

TLAPS proves, for every value of the constants, type correctness and every safety
property that a run checks of `UdpFlows`, `TcpFlows`, `ProcessLookup`, `ProxyTable`,
`TransparentProxy`, `PacketLoop`, `Lifecycle`, `Socks5` and `Socks5Datagrams`, and two
refinements. Each proof module shows that `IInv`
of its component holds initially and is kept by every step, one lemma per conjunct or
group of conjuncts and one case per action, and derives the properties.

* `UdpFlows`. Assumed: `ConstantsOK`. `PeerIndexExact` is inductive by itself but needs
  a characterisation of the exact index (unique owner or ambiguous) and how one more
  flow changes it. `QueryFaithful` and `ReplyFaithful` follow from `RedirectedAttached`
  (a datagram that is no orphan agrees with its flow), which needs `FlowsWellFormed` and
  `LookupStillMisses` (no flow appears under a suspended lookup). `RoundTrip` is the
  fact about keys and rewriting underneath. `FlowsStable` (no flow is re-targeted) is an
  action property and needs the miss of the lookup.
* `UdpTable`. `TableImplemented`: with `IInv` of `UdpFlows`, the answers of the exact
  index are those the flows define (`AnswersMatch`), so that each step of `UdpFlows` is
  an insertion, an expiry, the end of a rebuild, or nothing.
* `TcpFlows`. Assumed: `ConstantsOK`. `DestinationCurrent` speaks of connections whose
  mapping may be gone, so it needs that every mapping is one that a connection with its
  key made (`NoStaleMapping`), that connections of one port take turns (`PortTakesTurns`),
  that the connection whose lookup is suspended is still the port's (`LookupCurrent`),
  and that the proxy only has sockets of connections that were started
  (`SocketsStarted`). `MappingHeld` follows from the same.
* `ProcessLookup`. Assumed: `ConstantsOK`. `OwnerRecent` speaks of one lookup; it needs
  that no row of the cache is wrong for longer than its table is old (`RowsRecent`), and
  `SettledOwner` that every socket older than its table's rows is among them with its
  owner (`RowsComplete`). `OpenSocketFound` needs `OpenStays`: what history counts as
  open is, so that the snapshot has it. `PathsBounded` also carries that the cache is
  finite.
* `TransparentProxy`. Assumed: `ConstantsOK`. `AssociationsBounded` needs `RoomLeft`
  (the limit checked before the handshake still holds at the insertion, because only the
  worker inserts); `NoOrphanEntry` needs `WorkerHolds` and that a reader's exit removes
  its key's entry; `StopComplete` needs `ReadersTracked` (a live reader is in the list
  or about to be) and `StopOrder`. `LockOrder` (`LocksInOrder`) and `DrainEnds`
  (`ReadersWindDown`, an action property) are the safety half of `StopFinishes`: the lock a
  reader waits for is free while `stop` waits for the reader, and each of its steps
  lowers `Distance`.
* `PacketLoop`. Assumed: `AdaptersOK`. `RestartOwed` and `TunnelOnlyOpen` are inductive
  together with the types; `NameCurrent` needs `CallbackCurrent`, which says for each
  stage of a callback what it has read is still so, or another call is due. `LoopEnds`
  (`LoopWindsDown`, an action property) is the safety half of `ShutdownEndsLoop`: once
  the flag is set each step of the loop lowers its `Distance` from the end.
* `ProxyTable`. Assumed: `ConstantsOK`. `RedirectsRight` needs that the collected
  filters are those of the proxies and no others (`FiltersOfProxies`), that the driver
  has them all once proxies are started (`TableComplete`; a failed call may leave it
  behind before), and that none of the proxies is without a port when the loop runs
  (`AllListen`).
* `Lifecycle`. Assumed: `AdaptersOK`, `LimitsOK`. `LoopImplemented` shows that every
  step of the program is one of `PacketLoop` or leaves its variables alone, and with it
  the invariant of `PacketLoop` holds here too. `IInv` adds how far `run` has come:
  which stages have no loop, a running loop, all proxies (`LoopInTurn`), the callback's
  context (`ContextInTurn`), and what the last steps have undone (`ClosedLast`).
  `CallbackHasContext`, `PacketsHaveProxies` and `ClosedClean` follow from both
  invariants. `WaitsEnd` (`ToldFirst`) says that `run`, which blocks the loop's thread
  while it waits, waits for nothing that has not been told to end.

* `Socks5`. Assumed: `LengthsOK`, `RepliesOK`. Neither `SessionAgreed` nor
  `StreamAligned` is inductive: what the client decides next is in octets that the
  server sent steps ago. `IInv` therefore says for each place of the client which octets
  of which message are unread and what they stand for (`MethodInTurn` to `DataInTurn`:
  the second octet of the unread method is the method the server remembers, the unread
  rest of a reply is as long as its type octet says), so that the two ends are related
  through the octets between them. The proof takes the stream as one sequence, `Unread`,
  which `Deliver` does not change. `NothingPastAnswer` (`NeverStarved`) is the safety
  core of `OnlyStallBlocks`: while the server keeps the connection, the octets the
  client lacks belong to an answer not begun, or all of them to the rest of the one it
  has begun. `RelayCorrect` (`RelayOnHostOfFamily`) bounds the finding of
  `socks5_relay`: the relay is on the server's host except when an IPv4 relay is asked
  of a proxy that has no IPv4 address.
* `Socks5Datagrams`. Assumed: `LengthsOK`, `DatagramsOK`. Both theorems hold of every
  sequence of octets; `ParserSoundness` rests on `HeaderParsed` (the octets the parser
  reports are those an encoder of the same address writes, and none lies beyond the end),
  `ParserCompleteness` on `BuiltIsParsed` and on `ToIpv4OfMapped` (the mapping of an IPv4
  address can be undone).

Only model-checked: the liveness properties `StopFinishes`, `WorkerReturnsToSelect`,
`FollowsName`, `ShutdownEndsLoop`, `QuitFinishes` and `OnlyStallBlocks` (liveness is out
of the prover's reach, as is ENABLED; the theorems named above prove what each step
contributes to them), and the two counterexamples of section 5.

## 5. Where code and documentation disagree

`proxy_stop`: the program tells its user "Press Ctrl+C to stop." (`src/app.rs:59`),
and stopping awaits `TransparentProxy::stop` of each proxy. `notify_waiters` keeps no
permit for tasks that are not waiting; the accept loops do not look at the flag; so an
accept loop that is taking a buffer, spawning a connection or pausing after an error at
that moment, or whose `select!` takes the ready socket instead of the notification,
accepts for ever and `stop` awaits its handle for ever. `StopFinishes` shows
that this is the only way: once both accept loops have ended, `stop` returns.

`socks5_relay`: "IPv4/IPv6 TCP/UDP support." (`README.md:5`), and "Bind address
0.0.0.0:0 to let proxy pick the relay." (`src/proxy/socks5.rs:47`). A server that leaves
the address of the relay it picked unspecified is reached at its own address, which
`normalize_udp_relay` fills in. If the proxy's address is IPv6 and the reply IPv4, the
code converts with `Ipv6Addr::to_ipv4`, which also takes addresses that merely begin with
zeros: for a server at `::1` the relay becomes `0.0.0.1`; for other IPv6 addresses it
stays unspecified. `RelayCorrect` proves that there is no other exception.

## 6. Not modelled

* The text of an endpoint (`parse_socks5_endpoint` and what it calls): a parser of one
  string at the start, which yields a server and credentials or fails.
* Parsing of headers, checksums, MAC addresses, offloading: data, no decision depends
  on them. Statistics, drawing, the traffic sampler, the log's ring of lines: nothing
  depends on them, and each is kept under one lock.
* A UDP relay on another port or host than the SOCKS5 server's: the filters do not
  cover it, and whether its datagrams are redirected depends on the names (which then
  must not match proxifyre's own path, as `UdpFlows` assumes).
* Concurrency of several proxies: they share only the tables, which `UdpFlows` and
  `TcpFlows` model with any number of proxy ports, and each has its own tasks.
* What becomes of packets received from remote hosts: the loop treats them as if this
  machine had sent them. They have no flow, but their lookup asks for the process of the
  *remote* port and may find a program here that has this port open on every address.
  The theorems about `UdpFlows` hold with them (`Sent` is any set of packets); the run
  has none, and no property says that they stay untouched.
* A failing reset of an adapter's mode (`.ok()`), of a present adapter: nothing can be
  said after it.
* Paths longer than 259 characters, for which the query of the path fails: `QueryFails`.

## 7. Plan

1. Done: the tables, the process lookup, the choice of a proxy, the proxy's tasks, the
   SOCKS5 client, packet loop and life cycle; `UdpTable` and its refinement; proofs of
   every safety property that a run checks.
2. A composition of `TcpFlows` with the tasks of a proxy, and of `TransparentProxy` with
   `Socks5` in place of its step `WorkerAssociate`.
3. The endpoint's text, as sequences of delimiters and names.
