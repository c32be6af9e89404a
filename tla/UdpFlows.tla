------------------------------- MODULE UdpFlows -------------------------------
(***************************************************************************)
(* The router's UDP flow table: src/router/flow.rs (process_udp_payload,   *)
(* cleanup_stale_udp_endpoints), struct UdpMappings and the query_udp      *)
(* closure of src/router/mod.rs.                                           *)
(*                                                                         *)
(* Two tasks share the table.  The packet loop handles one packet at a     *)
(* time; it suspends in the process lookup with no lock held, sends what   *)
(* it handled when the batch ends, and then may run the cleanup.  The      *)
(* proxy's UDP worker asks the table for the original destination of each  *)
(* datagram it takes from its queue, at any later moment.  The rebuild of  *)
(* the peer index holds the table's lock and visits the flows in an        *)
(* unspecified order, so it is one step per flow.                          *)
(***************************************************************************)
EXTENDS Naturals, FiniteSets, Packets

CONSTANTS ProxyPorts,      \* UDP ports the transparent proxies listen on
          Sent,            \* packets not from the proxies' sockets; the code
                           \* treats those received from others like sent ones
          Local,           \* this machine's addresses, any of which the system
                           \* may give a datagram of a socket bound to [::]
          UDP_TIMEOUT,     \* idle time after which a flow may be dropped
          CLEANUP_PERIOD,  \* batches between two cleanups (20 in the code)
          MaxInFlight,     \* bound: datagrams queued at the proxy
          MaxSessions,     \* bound: destinations the proxy talks to
          Ambiguous,       \* by_peer value Some(None): several flows match
          Unspecified      \* the local address of a socket bound to [::]

ASSUME ConstantsOK ==
  /\ ProxyPorts \subseteq Port
  /\ Sent \subseteq {p \in Packet : p.src_port \notin ProxyPorts}
  /\ Local \subseteq IP
  /\ UDP_TIMEOUT \in Nat \ {0}
  /\ CLEANUP_PERIOD \in Nat \ {0}
  /\ MaxInFlight \in Nat /\ MaxSessions \in Nat
  /\ Ambiguous \notin FlowKey
  /\ Unspecified \notin IP

VARIABLES
  by_flow,          \* FlowKey -> destination, proxy port and idle time
  by_peer,          \* IndexKey -> the one flow it stands for, or Ambiguous
  todo,             \* flows the index rebuild has yet to visit (lock held)
  lookup,           \* {} or the packet suspended in find_process_path
  in_batch,         \* a packet was handled since the last batch ended
  outgoing,         \* datagrams this batch redirected, not yet sent
  cleanup_counter,  \* batches since the last cleanup
  inbox,            \* datagrams redirected to the proxy, not yet resolved
  sessions          \* resolved datagrams: the remote may answer them

vars == <<by_flow, by_peer, todo, lookup, in_batch, outgoing,
          cleanup_counter, inbox, sessions>>
table == <<by_flow, by_peer, todo>>

\* last_active is kept as the time since: it saturates at UDP_TIMEOUT, the
\* only value the code compares it with.
Idle == 0 .. UDP_TIMEOUT
Entry == [dst_ip : IP, dst_port : Port, proxy_port : Port, idle : Idle]
Job == [pkt : Packet, idle : Idle]

\* A redirected datagram as the proxy receives it.  Two history fields: the
\* port the client sent it to, and whether its flow was dropped since.
Datagram == [pkt : Packet, wanted : Port, orphan : BOOLEAN]

TypeOK ==
  /\ DOMAIN by_flow \subseteq FlowKey
  /\ by_flow \in [DOMAIN by_flow -> Entry]
  /\ DOMAIN by_peer \subseteq IndexKey
  /\ by_peer \in [DOMAIN by_peer -> FlowKey \cup {Ambiguous}]
  /\ todo \subseteq DOMAIN by_flow
  /\ lookup \subseteq Job /\ (lookup # {} => todo = {})
  /\ in_batch \in BOOLEAN
  /\ cleanup_counter \in 0 .. CLEANUP_PERIOD - 1
  /\ outgoing \subseteq Datagram
  /\ inbox \subseteq Datagram
  /\ sessions \subseteq Datagram

Init ==
  /\ by_flow = [k \in {} |-> k]
  /\ by_peer = [ix \in {} |-> ix]
  /\ todo = {}
  /\ lookup = {}
  /\ in_batch = FALSE
  /\ outgoing = {}
  /\ cleanup_counter = 0
  /\ inbox = {}
  /\ sessions = {}
-------------------------------------------------------------------------------
(* The table's operations *)

Bind(f, x, v) == [y \in DOMAIN f \cup {x} |-> IF y = x THEN v ELSE f[y]]

\* Mutant: a second flow does not make its index entry ambiguous.
IndexKeepsFirst(index, key) ==
  IF PeerKey(key) \in DOMAIN index
  THEN index ELSE Bind(index, PeerKey(key), key)

\* insert_peer_index
InsertPeerIndex(index, key) ==
  LET ix == PeerKey(key)
  IN  IF ix \in DOMAIN index /\ index[ix] # key
      THEN [index EXCEPT ![ix] = Ambiguous]
      ELSE Bind(index, ix, key)

\* UdpMappings::insert
InsertFlow(key, entry) ==
  /\ by_flow' = Bind(by_flow, key, entry)
  /\ by_peer' = IF key \in DOMAIN by_flow THEN by_peer
                ELSE InsertPeerIndex(by_peer, key)

Destination(entry) == [dst_ip |-> entry.dst_ip, dst_port |-> entry.dst_port]

\* query_udp: the set of destinations found, empty for its errors.
QueryUdp(peer_ip, peer_port, local_ip) ==
  LET ix == [dst_ip |-> peer_ip, src_port |-> peer_port]
      exact == [dst_ip |-> peer_ip, src_ip |-> local_ip, src_port |-> peer_port]
      keys == IF local_ip # Unspecified THEN {exact}
              ELSE {by_peer[i] : i \in DOMAIN by_peer \cap {ix}} \ {Ambiguous}
  IN  {Destination(by_flow[k]) : k \in keys \cap DOMAIN by_flow}
-------------------------------------------------------------------------------
(* The packet loop *)

LoopFree == lookup = {} /\ todo = {}

Redirect(pkt, proxy_port) ==
  outgoing' = outgoing \cup {[pkt |-> Rewrite(pkt, ToProxy(proxy_port)),
                              wanted |-> pkt.dst_port, orphan |-> FALSE]}

\* A datagram of a known flow, to that flow's port.
UdpHit(pkt) ==
  LET key == FlowKeyOf(pkt)
  IN  /\ LoopFree
      /\ key \in DOMAIN by_flow
      /\ by_flow[key].dst_port = pkt.dst_port
      /\ by_flow' = [by_flow EXCEPT ![key].idle = 0]
      /\ Redirect(pkt, by_flow[key].proxy_port)
      /\ in_batch' = TRUE
      /\ UNCHANGED <<by_peer, todo, lookup, cleanup_counter, inbox, sessions>>

\* The same socket sends to another port of the same host: passed unchanged.
UdpOtherPort(pkt) ==
  LET key == FlowKeyOf(pkt)
  IN  /\ LoopFree
      /\ key \in DOMAIN by_flow
      /\ by_flow[key].dst_port # pkt.dst_port
      /\ in_batch' = TRUE
      /\ UNCHANGED <<table, lookup, outgoing, cleanup_counter, inbox, sessions>>

\* Mutant: a known flow whose port differs is looked up again.
UdpMissOrOtherPort(pkt) ==
  LET key == FlowKeyOf(pkt)
  IN  /\ LoopFree
      /\ key \in DOMAIN by_flow => by_flow[key].dst_port # pkt.dst_port
      /\ lookup' = {[pkt |-> pkt, idle |-> 0]}
      /\ UNCHANGED <<table, in_batch, outgoing, cleanup_counter, inbox, sessions>>

\* No mapping: the loop awaits the process lookup.  The entry it may insert
\* later carries the time of this step.
UdpMiss(pkt) ==
  /\ LoopFree
  /\ FlowKeyOf(pkt) \notin DOMAIN by_flow
  /\ lookup' = {[pkt |-> pkt, idle |-> 0]}
  /\ UNCHANGED <<table, in_batch, outgoing, cleanup_counter, inbox, sessions>>

\* The lookup names a process that a proxy serves.  Assumed of the
\* configuration: no application name matches the program's own path, so
\* packets of the proxies' sockets do not get here.
LookupProxied(job, proxy_port) ==
  /\ job \in lookup
  /\ job.pkt.src_port \notin ProxyPorts
  /\ InsertFlow(FlowKeyOf(job.pkt),
                [dst_ip |-> job.pkt.dst_ip, dst_port |-> job.pkt.dst_port,
                 proxy_port |-> proxy_port, idle |-> job.idle])
  /\ Redirect(job.pkt, proxy_port)
  /\ lookup' = {}
  /\ in_batch' = TRUE
  /\ UNCHANGED <<todo, cleanup_counter, inbox, sessions>>

\* The reverse rewriting of a packet from a proxy, empty when it passes
\* unchanged.
FromProxyRewrite(pkt) ==
  {Rewrite(pkt, FromProxy(by_flow[key].dst_port)) :
     key \in IF pkt.src_port \in ProxyPorts
             THEN {ReplyKeyOf(pkt)} \cap DOMAIN by_flow ELSE {}}

\* The lookup fails or names a process no proxy serves.  The packet leaves
\* as FromProxyRewrite says; the table is only read.
LookupUnproxied(job) ==
  /\ job \in lookup
  /\ lookup' = {}
  /\ in_batch' = TRUE
  /\ UNCHANGED <<table, outgoing, cleanup_counter, inbox, sessions>>

\* The flow a redirected datagram belongs to.
OriginKey(g) ==
  [dst_ip |-> g.pkt.src_ip, src_ip |-> g.pkt.dst_ip, src_port |-> g.pkt.src_port]

Kept == {k \in DOMAIN by_flow : by_flow[k].idle < UDP_TIMEOUT}

\* History: datagrams of a dropped flow become orphans.
MarkOrphans(gs) ==
  {[g EXCEPT !.orphan = g.orphan \/ OriginKey(g) \notin Kept] : g \in gs}

\* Mutant: the index is not cleared before it is rebuilt.
CleanupKeepsIndex(received) ==
  /\ by_flow' = [k \in Kept |-> by_flow[k]]
  /\ UNCHANGED by_peer
  /\ todo' = Kept
  /\ inbox' = MarkOrphans(received)
  /\ sessions' = MarkOrphans(sessions)

\* cleanup_stale_udp_endpoints, retain_active: drop the idle flows, clear the
\* index and start to rebuild it.
Cleanup(received) ==
  /\ by_flow' = [k \in Kept |-> by_flow[k]]
  /\ by_peer' = [ix \in {} |-> ix]
  /\ todo' = Kept
  /\ inbox' = MarkOrphans(received)
  /\ sessions' = MarkOrphans(sessions)

\* Mutant: one batch too many before the cleanup.
EndBatchLate(delivered) ==
  /\ LoopFree
  /\ in_batch
  /\ in_batch' = FALSE
  /\ outgoing' = {}
  /\ UNCHANGED lookup
  /\ IF cleanup_counter + 1 > CLEANUP_PERIOD
     THEN cleanup_counter' = 0 /\ Cleanup(inbox \cup delivered)
     ELSE /\ cleanup_counter' = cleanup_counter + 1
          /\ inbox' = inbox \cup delivered
          /\ UNCHANGED <<table, sessions>>

\* The end of a batch: its packets are sent, and the proxy receives some of
\* those redirected to it (a full queue drops the others); every
\* CLEANUP_PERIOD-th batch runs the cleanup.
EndBatch(delivered) ==
  /\ LoopFree
  /\ in_batch
  /\ in_batch' = FALSE
  /\ outgoing' = {}
  /\ UNCHANGED lookup
  /\ IF cleanup_counter + 1 >= CLEANUP_PERIOD
     THEN cleanup_counter' = 0 /\ Cleanup(inbox \cup delivered)
     ELSE /\ cleanup_counter' = cleanup_counter + 1
          /\ inbox' = inbox \cup delivered
          /\ UNCHANGED <<table, sessions>>

\* The adapter is reopened (restart): the loop's counter is a local of the
\* inner loop and starts again; the table survives.
Reopen ==
  /\ LoopFree
  /\ ~ in_batch
  /\ cleanup_counter' = 0
  /\ UNCHANGED <<table, lookup, in_batch, outgoing, inbox, sessions>>

\* rebuild_peer_index visits one more flow.
RebuildStep(key) ==
  /\ key \in todo
  /\ by_peer' = InsertPeerIndex(by_peer, key)
  /\ todo' = todo \ {key}
  /\ UNCHANGED <<by_flow, lookup, in_batch, outgoing, cleanup_counter, inbox,
                 sessions>>
-------------------------------------------------------------------------------
(* The proxy's worker, the remote host and the clock *)

\* handle_udp_packet asks for the original destination.  The listener is
\* bound to [::], so the local address it passes is unspecified.
Resolve(g) ==
  /\ g \in inbox
  /\ todo = {}
  /\ inbox' = inbox \ {g}
  /\ \/ /\ QueryUdp(g.pkt.src_ip, g.pkt.src_port, Unspecified) # {}
        /\ Cardinality(sessions) < MaxSessions
        /\ sessions' = sessions \cup {g}
     \/ /\ QueryUdp(g.pkt.src_ip, g.pkt.src_port, Unspecified) = {}
        /\ UNCHANGED sessions
  /\ UNCHANGED <<table, lookup, in_batch, outgoing, cleanup_counter>>

\* The proxy stops talking to a destination.
SessionEnd(s) ==
  /\ s \in sessions
  /\ sessions' = sessions \ {s}
  /\ UNCHANGED <<table, lookup, in_batch, outgoing, cleanup_counter, inbox>>

Older(i) == IF i < UDP_TIMEOUT THEN i + 1 ELSE i

Tick ==
  /\ by_flow' = [k \in DOMAIN by_flow |->
                   [by_flow[k] EXCEPT !.idle = Older(by_flow[k].idle)]]
  /\ lookup' = {[job EXCEPT !.idle = Older(job.idle)] : job \in lookup}
  /\ UNCHANGED <<by_peer, todo, in_batch, outgoing, cleanup_counter, inbox,
                 sessions>>

\* A datagram the proxy sends back to the peer it took s from.  Its socket is
\* bound to [::], so the system chooses the address it leaves from: that of
\* the client's packet or another one of this machine.
Reply(s, from) == [Answer(s.pkt) EXCEPT !.src_ip = from]

\* The packets the driver may hand to the loop: the clients' and the replies
\* the proxy sends back.
Arriving == Sent \cup {Reply(s, from) : s \in sessions, from \in Local}

Next ==
  \/ \E pkt \in Arriving : UdpHit(pkt) \/ UdpOtherPort(pkt) \/ UdpMiss(pkt)
  \/ \E job \in lookup : \E port \in ProxyPorts : LookupProxied(job, port)
  \/ \E job \in lookup : LookupUnproxied(job)
  \/ \E delivered \in SUBSET outgoing :
       /\ Cardinality(inbox \cup delivered) <= MaxInFlight
       /\ EndBatch(delivered)
  \/ Reopen
  \/ \E key \in todo : RebuildStep(key)
  \/ \E g \in inbox : Resolve(g)
  \/ \E s \in sessions : SessionEnd(s)
  \/ Tick

Spec == Init /\ [][Next]_vars
-------------------------------------------------------------------------------
(* Properties *)

Sharing(keys, ix) == {k \in keys : PeerKey(k) = ix}

\* The index the flows in keys should have.
ExactIndex(keys) ==
  [ix \in {PeerKey(k) : k \in keys} |->
     IF \E k \in keys : Sharing(keys, ix) = {k}
     THEN CHOOSE k \in keys : Sharing(keys, ix) = {k}
     ELSE Ambiguous]

\* Whatever inserts, drops and rebuilds came before, the peer index holds
\* exactly the flows of the table (those the rebuild has visited, while it
\* runs): an index key names its flow if there is one, and is ambiguous if
\* there are several (insert, retain_active, rebuild_peer_index).
PeerIndexExact == by_peer = ExactIndex(DOMAIN by_flow \ todo)

\* However long a datagram waits in the proxy's queue, query_udp sends it to
\* the host it was addressed to; and while its flow is in the table, to the
\* port it was addressed to, unless another flow makes the peer ambiguous.
QueryFaithful ==
  todo = {} => \A g \in inbox :
    LET found == QueryUdp(g.pkt.src_ip, g.pkt.src_port, Unspecified)
        wanted == [dst_ip |-> g.pkt.src_ip, dst_port |-> g.wanted]
        key == OriginKey(g)
    IN  /\ \A d \in found : d.dst_ip = g.pkt.src_ip
        /\ ~ g.orphan =>
             \/ found = {wanted}
             \/ found = {} /\ \E k \in DOMAIN by_flow \ {key} :
                                PeerKey(k) = PeerKey(key)

\* The flows a reply of s may be taken for: those of its host and client
\* port, from whatever local address.
Namesakes(s) == Sharing(DOMAIN by_flow, PeerKey(OriginKey(s)))

\* A packet for the client of s, at the address to: from its host and port.
Answered(s, to, port) ==
  [src_ip |-> s.pkt.src_ip, dst_ip |-> to,
   src_port |-> port, dst_port |-> s.pkt.src_port]

\* As long as its flow is in the table, a reply of the proxy that leaves from
\* the client's address is rewritten to the exact answer to the client's
\* datagram: it comes from the address and port the client sent to, and goes
\* to the client's socket.  From another address of this machine it is
\* rewritten only if a second flow makes the peer ambiguous, into an answer
\* of that flow; with no such flow the client never gets it.
ReplyFaithful ==
  \A s \in sessions : ~ s.orphan => \A from \in Local :
    LET found == FromProxyRewrite(Reply(s, from))
    IN  IF from = s.pkt.dst_ip
        THEN found = {Answered(s, from, s.wanted)}
        ELSE \A p \in found : \E k \in Namesakes(s) \ {OriginKey(s)} :
               p = Answered(s, k.src_ip, by_flow[k].dst_port)

\* While a flow stays in the table its destination and its proxy never
\* change: no packet, lookup answer or cleanup re-targets a live flow.
FlowStable ==
  [][\A k \in DOMAIN by_flow \cap DOMAIN by_flow' :
       /\ Destination(by_flow'[k]) = Destination(by_flow[k])
       /\ by_flow'[k].proxy_port = by_flow[k].proxy_port]_vars

\* UdpTable seen in this module: the flows without their idle times, and what
\* query_udp answers when the lock is free.
Targets ==
  [k \in DOMAIN by_flow |->
     [dst_port |-> by_flow[k].dst_port, proxy_port |-> by_flow[k].proxy_port]]

Answers ==
  [ix \in IF todo = {} THEN IndexKey ELSE {} |->
     QueryUdp(ix.dst_ip, ix.src_port, Unspecified)]

Table == INSTANCE UdpTable WITH flows <- Targets, answers <- Answers

\* The table, its index and the rebuild under the lock together do what
\* UdpTable promises: flows appear with a fixed target and disappear, and
\* after any history a query gets the destination of the one flow that fits
\* its peer, at that flow's host and port, or nothing.
ImplementsTable == Table!Spec
-------------------------------------------------------------------------------
(* The inductive invariant *)

\* What a flow of the table says of its own key.
FlowsWellFormed ==
  \A k \in DOMAIN by_flow :
    by_flow[k].dst_ip = k.dst_ip /\ by_flow[k].proxy_port \in ProxyPorts

\* No flow appears under the packet loop while it awaits the process lookup.
LookupStillMisses == \A job \in lookup : FlowKeyOf(job.pkt) \notin DOMAIN by_flow

\* A datagram that is not an orphan carries what its flow says.
Attached(g) ==
  /\ OriginKey(g) \in DOMAIN by_flow
  /\ by_flow[OriginKey(g)].dst_port = g.wanted
  /\ by_flow[OriginKey(g)].proxy_port = g.pkt.dst_port

Redirected == outgoing \cup inbox \cup sessions

RedirectedAttached == \A g \in Redirected : ~ g.orphan => Attached(g)

IInv ==
  /\ TypeOK
  /\ PeerIndexExact
  /\ FlowsWellFormed
  /\ LookupStillMisses
  /\ RedirectedAttached
===============================================================================
