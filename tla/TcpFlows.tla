------------------------------- MODULE TcpFlows -------------------------------
(***************************************************************************)
(* The router's TCP connection table and what depends on it:               *)
(* process_tcp_payload of src/router/flow.rs, the query_tcp closure of     *)
(* src/router/mod.rs and handle_tcp_connection of                          *)
(* src/proxy/transparent_proxy.rs.                                         *)
(*                                                                         *)
(* The packet loop handles the segments of all connections one at a time;  *)
(* a SYN suspends it in the process lookup.  The proxy's tasks query the   *)
(* table when they accept a connection, at any later moment.  A segment is *)
(* a step of its sender; data segments change nothing and are left out.    *)
(***************************************************************************)
EXTENDS Naturals, Sequences, FiniteSets, Packets

CONSTANTS Conns,    \* connections that clients open, each once
          Header,   \* Conns -> the addresses and ports of their segments
          Owner,    \* Conns -> the port of the proxy of the owning process, or Nothing
          Nothing

ASSUME ConstantsOK ==
  /\ Header \in [Conns -> Packet]
  /\ Owner \in [Conns -> Port \cup {Nothing}]
  /\ Nothing \notin Port

VARIABLES
  tcp_connections,  \* FlowKey -> destination and proxy port
  lookup,           \* {} or the connection whose SYN awaits find_process_path
  client,           \* where each client's socket is
  socket,           \* where the proxy's socket of each connection is
  resolved,         \* the destination query_tcp gave the proxy, or Nothing
  started,          \* history: connections in the order of their first SYN
  abandoned,        \* history: clients that gave up without sending a segment
  cut               \* history: connections whose key a FIN or RST has removed
                    \* since the proxy got their SYN

vars == <<tcp_connections, lookup, client, socket, resolved, started, abandoned,
          cut>>
history == <<started, abandoned>>

ClientState == {"new", "syn", "open", "closing", "gone"}

\* "aborted": reset by the client while it waits to be accepted.
\* "ending": the proxy has dropped it, and its FIN or RST is on its way.
SocketState == {"none", "backlog", "aborted", "relay", "ending", "closed"}

Key(c) == FlowKeyOf(Header[c])
SameKey(c) == {d \in Conns : Key(d) = Key(c)}
Dialled(c) == [dst_ip |-> Header[c].dst_ip, dst_port |-> Header[c].dst_port]

Mapping == [dst_ip : IP, dst_port : Port, proxy_port : Port]

\* The entry that the SYN of c makes.
MappingOf(c) ==
  [dst_ip |-> Header[c].dst_ip, dst_port |-> Header[c].dst_port,
   proxy_port |-> Owner[c]]

TypeOK ==
  /\ DOMAIN tcp_connections \subseteq FlowKey
  /\ tcp_connections \in [DOMAIN tcp_connections -> Mapping]
  /\ lookup \subseteq Conns /\ Cardinality(lookup) <= 1
  /\ client \in [Conns -> ClientState]
  /\ socket \in [Conns -> SocketState]
  /\ resolved \in [Conns -> [dst_ip : IP, dst_port : Port] \cup {Nothing}]
  /\ started \in Seq(Conns)
  /\ \A i, j \in DOMAIN started : started[i] = started[j] => i = j
  /\ {started[i] : i \in DOMAIN started} = {c \in Conns : client[c] # "new"}
  /\ abandoned \subseteq Conns
  /\ cut \subseteq Conns

Init ==
  /\ tcp_connections = [k \in {} |-> k]
  /\ lookup = {}
  /\ client = [c \in Conns |-> "new"]
  /\ socket = [c \in Conns |-> "none"]
  /\ resolved = [c \in Conns |-> Nothing]
  /\ started = << >>
  /\ abandoned = {}
  /\ cut = {}
-------------------------------------------------------------------------------
(* The table *)

\* entry(key).or_insert(mapping): an entry that is there is kept.
OrInsert(key, mapping) ==
  tcp_connections' = [k \in DOMAIN tcp_connections \cup {key} |->
                        IF k \in DOMAIN tcp_connections THEN tcp_connections[k]
                        ELSE mapping]

\* Mutant: the entries of the local port are removed, whatever their host.
RemoveByPort(key) ==
  /\ LET kept == {k \in DOMAIN tcp_connections : k.src_port # key.src_port}
     IN  tcp_connections' = [k \in kept |-> tcp_connections[k]]
  /\ cut' = cut \cup {d \in Conns : Key(d) = key /\ socket[d] # "none"}

\* A FIN or RST removes the entry of its key, if there is one.
Remove(key) ==
  /\ tcp_connections' =
       [k \in DOMAIN tcp_connections \ {key} |-> tcp_connections[k]]
  /\ cut' = cut \cup {d \in Conns : Key(d) = key /\ socket[d] # "none"}

\* query_tcp: the set of destinations found, empty for its error.
QueryTcp(peer_ip, peer_port, local_ip) ==
  {[dst_ip |-> tcp_connections[k].dst_ip, dst_port |-> tcp_connections[k].dst_port] :
     k \in DOMAIN tcp_connections \cap
           {[dst_ip |-> peer_ip, src_ip |-> local_ip, src_port |-> peer_port]}}
-------------------------------------------------------------------------------
(* Segments of the clients *)

LoopFree == lookup = {}

SameLocalPort(c, d) ==
  Header[d].src_ip = Header[c].src_ip /\ Header[d].src_port = Header[c].src_port

\* The operating system gives a local port to one connection at a time.
PortFree(c) ==
  \A d \in Conns \ {c} : SameLocalPort(c, d) => client[d] \in {"new", "gone"}

\* The proxy's TCP stack answers the SYN of a connection whose addresses are
\* in use by a socket it still has with something else than a new socket.
TupleFree(c) ==
  socket[c] = "none" /\ \A d \in SameKey(c) \ {c} :
                          socket[d] \in {"none", "aborted", "closed"}

\* Mutant: segments are handled while a lookup is awaited.
SynConcurrent(c) ==
  /\ \/ /\ client[c] = "new" /\ PortFree(c)
        /\ started' = Append(started, c)
     \/ client[c] = "syn" /\ UNCHANGED started
  /\ lookup' = lookup \cup {c}
  /\ client' = [client EXCEPT ![c] = "syn"]
  /\ UNCHANGED <<tcp_connections, socket, resolved, abandoned, cut>>

\* A SYN, the first or a retransmission: the loop awaits the process lookup.
Syn(c) ==
  /\ LoopFree
  /\ \/ /\ client[c] = "new" /\ PortFree(c)
        /\ started' = Append(started, c)
     \/ client[c] = "syn" /\ UNCHANGED started
  /\ lookup' = lookup \cup {c}
  /\ client' = [client EXCEPT ![c] = "syn"]
  /\ UNCHANGED <<tcp_connections, socket, resolved, abandoned, cut>>

\* The owner is a proxied process.  The SYN is redirected to its proxy, which
\* it may or may not reach.
LookupProxied(c) ==
  /\ c \in lookup
  /\ Owner[c] # Nothing
  /\ OrInsert(Key(c), MappingOf(c))
  /\ lookup' = {}
  /\ socket' \in {socket} \cup
                 (IF TupleFree(c) THEN {[socket EXCEPT ![c] = "backlog"]} ELSE {})
  /\ UNCHANGED <<client, resolved, history, cut>>

\* The lookup fails, or no proxy serves the owner: the SYN passes unchanged.
LookupUnproxied(c) ==
  /\ c \in lookup
  /\ lookup' = {}
  /\ UNCHANGED <<tcp_connections, client, socket, resolved, history, cut>>

\* The remote host answers a SYN that passed unchanged.
OpenDirectly(c) ==
  /\ LoopFree
  /\ client[c] = "syn"
  /\ client' = [client EXCEPT ![c] = "open"]
  /\ UNCHANGED <<tcp_connections, lookup, socket, resolved, history, cut>>

\* Mutant: the client's FIN does not remove the entry.
ClientFinKept(c) ==
  /\ LoopFree
  /\ client[c] = "open"
  /\ client' = [client EXCEPT ![c] = "closing"]
  /\ UNCHANGED <<tcp_connections, lookup, socket, resolved, history, cut>>

\* The client closes its half of the connection.
ClientFin(c) ==
  /\ LoopFree
  /\ client[c] = "open"
  /\ client' = [client EXCEPT ![c] = "closing"]
  /\ Remove(Key(c))
  /\ UNCHANGED <<lookup, socket, resolved, history>>

\* A reset of c reaches the proxy only while the table redirects it there.
ResetSocket(c) ==
  socket' = IF Key(c) \in DOMAIN tcp_connections
            THEN [socket EXCEPT ![c] = CASE @ = "backlog" -> "aborted"
                                         [] @ = "relay" -> "closed"
                                         [] OTHER -> @]
            ELSE socket

\* Mutant: only a FIN removes the entry.
ClientRstKept(c) ==
  /\ LoopFree
  /\ client[c] \in {"syn", "open", "closing"}
  /\ client' = [client EXCEPT ![c] = "gone"]
  /\ ResetSocket(c)
  /\ UNCHANGED <<tcp_connections, lookup, resolved, history, cut>>

\* The client resets the connection.
ClientRst(c) ==
  /\ LoopFree
  /\ client[c] \in {"syn", "open", "closing"}
  /\ client' = [client EXCEPT ![c] = "gone"]
  /\ ResetSocket(c)
  /\ Remove(Key(c))
  /\ UNCHANGED <<lookup, resolved, history>>

\* A closing client is done: it was answered, or its timer ran out.
ClientGone(c) ==
  /\ client[c] = "closing"
  /\ client' = [client EXCEPT ![c] = "gone"]
  /\ UNCHANGED <<tcp_connections, lookup, socket, resolved, history, cut>>

\* A connect times out, or the adapter is not filtered when the client closes:
\* the router never sees the end of the connection.
ClientVanishes(c) ==
  /\ client[c] \in {"syn", "open"}
  /\ client' = [client EXCEPT ![c] = "gone"]
  /\ abandoned' = abandoned \cup {c}
  /\ UNCHANGED <<tcp_connections, lookup, socket, resolved, started, cut>>
-------------------------------------------------------------------------------
(* The proxy: its tasks and the segments it sends *)

\* The SYN-ACK of the proxy's listener.  Its source port is restored to that of
\* the entry; a client that dialled another port answers with a reset, which
\* the table takes for a reset of the connection.
SynAck(c) ==
  /\ LoopFree
  /\ client[c] = "syn"
  /\ socket[c] \in {"backlog", "relay"}
  /\ Key(c) \in DOMAIN tcp_connections
  /\ IF tcp_connections[Key(c)].dst_port = Header[c].dst_port
     THEN /\ client' = [client EXCEPT ![c] = "open"]
          /\ UNCHANGED <<tcp_connections, socket, cut>>
     ELSE /\ ResetSocket(c)
          /\ Remove(Key(c))
          /\ UNCHANGED client
  /\ UNCHANGED <<lookup, resolved, history>>

\* The connection is accepted, and handle_tcp_connection asks for its original
\* destination.  The proxy sees the remote host as its peer.
Accept(c) ==
  /\ socket[c] \in {"backlog", "aborted"}
  /\ LET found == QueryTcp(Header[c].dst_ip, Header[c].src_port, Header[c].src_ip)
     IN  \/ \E d \in found :
              /\ resolved' = [resolved EXCEPT ![c] = d]
              /\ socket' = [socket EXCEPT ![c] =
                              IF @ = "aborted" THEN "closed" ELSE "relay"]
         \/ /\ found = {}
            /\ socket' = [socket EXCEPT ![c] =
                            IF @ = "aborted" THEN "closed" ELSE "ending"]
            /\ UNCHANGED resolved
  /\ UNCHANGED <<tcp_connections, lookup, client, history, cut>>

\* connect_tcp fails, or copy_bidirectional ends: the socket is dropped.
RelayEnds(c) ==
  /\ socket[c] = "relay"
  /\ socket' = [socket EXCEPT ![c] = "ending"]
  /\ UNCHANGED <<tcp_connections, lookup, client, resolved, history, cut>>

\* The FIN or RST of the proxy's socket passes the loop.
ProxyFin(c) ==
  /\ LoopFree
  /\ socket[c] = "ending"
  /\ socket' = [socket EXCEPT ![c] = "closed"]
  /\ Remove(Key(c))
  /\ UNCHANGED <<lookup, client, resolved, history>>
-------------------------------------------------------------------------------
Next ==
  \E c \in Conns :
    \/ Syn(c) \/ LookupProxied(c) \/ LookupUnproxied(c) \/ OpenDirectly(c)
    \/ ClientFin(c) \/ ClientRst(c) \/ ClientGone(c) \/ ClientVanishes(c)
    \/ SynAck(c) \/ Accept(c) \/ RelayEnds(c) \/ ProxyFin(c)

Spec == Init /\ [][Next]_vars
-------------------------------------------------------------------------------
(* Properties *)

\* c sent its first SYN before d did.
Before(c, d) ==
  \E i, j \in DOMAIN started : i < j /\ started[i] = c /\ started[j] = d

\* The destination the proxy connects to was dialled under the connection's
\* key, and never by an earlier connection whose end the router has seen: a
\* mapping does not outlive the FIN or RST of its connection to be inherited
\* by the next one on the same port (or_insert would keep it).
DestinationCurrent ==
  \A c \in Conns : resolved[c] # Nothing =>
    \E d \in SameKey(c) :
      /\ resolved[c] = Dialled(d)
      /\ Before(d, c) => d \in abandoned

\* Every mapping is the one that the SYN of a connection made which is not over,
\* or whose end the router could not see: it leads to the destination that this
\* connection dialled and to the proxy of its process, not to those of an
\* earlier one on the same port.
NoStaleMapping ==
  \A k \in DOMAIN tcp_connections :
    \E c \in Conns :
      /\ Key(c) = k
      /\ tcp_connections[k] = MappingOf(c)
      /\ client[c] \in {"syn", "open"} \/ c \in abandoned

\* While the proxy holds a connection and no FIN or RST has come on its key,
\* the mapping is there and leads back: the client's segments go to the proxy
\* of its process, and the proxy's come back from the port the client dialled
\* (if no abandoned connection has left its own mapping in the way).
MappingHeld ==
  \A c \in Conns : socket[c] \in {"backlog", "relay"} /\ c \notin cut =>
    /\ Key(c) \in DOMAIN tcp_connections
    /\ SameKey(c) \cap abandoned \subseteq {c} =>
         tcp_connections[Key(c)] = MappingOf(c)
-------------------------------------------------------------------------------
(* The inductive invariant *)

\* A connection that has a local port got it after all others on that port.
PortTakesTurns ==
  \A c, d \in Conns :
    (c # d /\ SameLocalPort(c, d) /\ client[c] # "new"
       /\ client[d] \in {"syn", "open", "closing"})
      => client[c] = "gone" /\ Before(c, d)

\* The SYN in the lookup is of the connection that has the local port, or had
\* it when the lookup began.
LookupCurrent ==
  \A c \in lookup :
    /\ client[c] = "syn" \/ (client[c] = "gone" /\ c \in abandoned)
    /\ PortFree(c)

SocketsStarted ==
  \A c \in Conns : socket[c] # "none" \/ resolved[c] # Nothing => client[c] # "new"

IInv ==
  /\ TypeOK
  /\ NoStaleMapping
  /\ PortTakesTurns
  /\ LookupCurrent
  /\ SocketsStarted
  /\ DestinationCurrent
  /\ MappingHeld
===============================================================================
