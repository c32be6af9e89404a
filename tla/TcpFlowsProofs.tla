--------------------------- MODULE TcpFlowsProofs ---------------------------
(***************************************************************************)
(* Proofs about TcpFlows, for every set of connections, addresses, ports   *)
(* and proxies.                                                            *)
(***************************************************************************)
EXTENDS TcpFlows, FiniteSetTheorems, TLAPS

Active == {"syn", "open", "closing"}

\* The invariant's typing, in the parts the actions disturb.
TableTyped ==
  /\ DOMAIN tcp_connections \subseteq FlowKey
  /\ tcp_connections \in [DOMAIN tcp_connections -> Mapping]

StartedOK ==
  /\ client \in [Conns -> ClientState]
  /\ started \in Seq(Conns)
  /\ \A i, j \in DOMAIN started : started[i] = started[j] => i = j
  /\ {started[i] : i \in DOMAIN started} = {c \in Conns : client[c] # "new"}
  /\ PortTakesTurns

LookupOK ==
  /\ lookup \subseteq Conns /\ Cardinality(lookup) <= 1
  /\ LookupCurrent

SocketsTyped ==
  /\ socket \in [Conns -> SocketState]
  /\ resolved \in [Conns -> [dst_ip : IP, dst_port : Port] \cup {Nothing}]
  /\ abandoned \subseteq Conns
  /\ cut \subseteq Conns

LEMMA Parts ==
  IInv <=> /\ TableTyped /\ StartedOK /\ LookupOK /\ SocketsTyped
           /\ NoStaleMapping /\ SocketsStarted /\ DestinationCurrent /\ MappingHeld
BY DEF IInv, TypeOK, TableTyped, StartedOK, LookupOK, SocketsTyped

LEMMA PartsNext ==
  (IInv <=> /\ TableTyped /\ StartedOK /\ LookupOK /\ SocketsTyped
            /\ NoStaleMapping /\ SocketsStarted /\ DestinationCurrent /\ MappingHeld)'
BY Parts, PTL

LEMMA Keys ==
  /\ \A c \in Conns : /\ Key(c) \in FlowKey /\ Dialled(c) \in [dst_ip : IP, dst_port : Port]
                      /\ Key(c) = [dst_ip |-> Header[c].dst_ip,
                                   src_ip |-> Header[c].src_ip,
                                   src_port |-> Header[c].src_port]
  /\ \A c, d \in Conns : Key(c) = Key(d) => SameLocalPort(c, d)
  /\ \A c, d \in Conns : SameLocalPort(c, d) => SameLocalPort(d, c)
BY ConstantsOK DEF Packet, Key, FlowKeyOf, FlowKey, Dialled, SameLocalPort

LEMMA MappingTyped ==
  ASSUME NEW c \in Conns, Owner[c] # Nothing
  PROVE  /\ MappingOf(c) \in Mapping
         /\ MappingOf(c).dst_ip = Dialled(c).dst_ip
         /\ MappingOf(c).dst_port = Dialled(c).dst_port
BY ConstantsOK DEF Packet, MappingOf, Mapping, Dialled
-------------------------------------------------------------------------------
(* The order of the first SYNs *)

LEMMA BeforeAntisymmetric ==
  ASSUME StartedOK, NEW c, NEW d, Before(c, d) PROVE ~ Before(d, c)
BY DEF StartedOK, Before

\* A connection that starts is after all that have started, and leaves their
\* order as it is.
LEMMA BeforeAppend ==
  ASSUME StartedOK, NEW c \in Conns, client[c] = "new", started' = Append(started, c)
  PROVE  /\ started' \in Seq(Conns)
         /\ \A i, j \in DOMAIN started' : started'[i] = started'[j] => i = j
         /\ {started'[i] : i \in DOMAIN started'} =
              {started[i] : i \in DOMAIN started} \cup {c}
         /\ \A d \in Conns : client[d] # "new" => Before(d, c)'
         /\ \A d, e \in Conns : Before(d, e) => Before(d, e)'
         /\ \A d, e \in Conns : client[e] # "new" /\ Before(d, e)' => Before(d, e)
<1> DEFINE n == Len(started)
<1>1. /\ started \in Seq(Conns) /\ n \in Nat /\ DOMAIN started = 1 .. n
      /\ \A i \in 1 .. n : started[i] # c
      /\ {started[i] : i \in DOMAIN started} = {d \in Conns : client[d] # "new"}
  BY DEF StartedOK
<1>2. /\ started' \in Seq(Conns) /\ DOMAIN started' = 1 .. n + 1
      /\ started'[n + 1] = c
      /\ \A i \in 1 .. n : started'[i] = started[i]
  BY <1>1
<1>3. 1 .. n + 1 = (1 .. n) \cup {n + 1}
  BY <1>1
<1> HIDE DEF n
<1>4. \A i, j \in DOMAIN started' : started'[i] = started'[j] => i = j
  BY <1>1, <1>2, <1>3 DEF StartedOK
<1>5. {started'[i] : i \in DOMAIN started'} =
        {started[i] : i \in DOMAIN started} \cup {c}
  BY <1>1, <1>2, <1>3
<1>6. ASSUME NEW d \in Conns, client[d] # "new" PROVE Before(d, c)'
  <2>1. PICK i \in DOMAIN started : started[i] = d
    BY <1>1, <1>6
  <2>2. i < n + 1 /\ i \in DOMAIN started' /\ n + 1 \in DOMAIN started'
    BY <1>1, <1>2, <2>1
  <2> QED
    BY <1>1, <1>2, <2>1, <2>2 DEF Before
<1>7. ASSUME NEW d \in Conns, NEW e \in Conns, Before(d, e) PROVE Before(d, e)'
  BY <1>1, <1>2, <1>3, <1>7 DEF Before
<1>8. ASSUME NEW d \in Conns, NEW e \in Conns, client[e] # "new", Before(d, e)'
      PROVE  Before(d, e)
  <2>1. PICK i \in DOMAIN started', j \in DOMAIN started' :
          i < j /\ started'[i] = d /\ started'[j] = e
    BY <1>8 DEF Before
  <2>2. j # n + 1
    BY <1>2, <1>8, <2>1
  <2>3. i \in 1 .. n /\ j \in 1 .. n
    BY <1>1, <1>2, <2>1, <2>2
  <2> QED
    BY <1>1, <1>2, <2>1, <2>3 DEF Before
<1> QED
  BY <1>2, <1>4, <1>5, <1>6, <1>7, <1>8

\* A client that has started moves on.
LEMMA ClientMoves ==
  ASSUME IInv, NEW c \in Conns, NEW st \in ClientState \ {"new"},
         client[c] # "new", st \in Active => client[c] \in Active,
         client' = [client EXCEPT ![c] = st], UNCHANGED started
  PROVE  /\ StartedOK'
         /\ client'[c] = st
         /\ \A d \in Conns \ {c} : client'[d] = client[d]
         /\ \A d \in Conns : client'[d] = "new" <=> client[d] = "new"
<1>1. /\ client \in [Conns -> ClientState]
      /\ \A d, e \in Conns : Before(d, e)' <=> Before(d, e)
  BY Parts DEF StartedOK, Before
<1>2. /\ client'[c] = st /\ client' \in [Conns -> ClientState]
      /\ \A d \in Conns \ {c} : client'[d] = client[d]
      /\ \A d \in Conns : client'[d] = "new" <=> client[d] = "new"
  BY <1>1
<1>3. PortTakesTurns'
  <2> SUFFICES ASSUME NEW a \in Conns, NEW d \in Conns, a # d, SameLocalPort(a, d),
                      client'[a] # "new", client'[d] \in Active
               PROVE  client'[a] = "gone" /\ Before(a, d)
    BY <1>1 DEF PortTakesTurns, SameLocalPort, Active
  <2>1. client[a] # "new" /\ client[d] \in Active
    BY <1>2
  <2>2. client[a] = "gone" /\ Before(a, d)
    BY <2>1, Parts DEF StartedOK, PortTakesTurns, Active
  <2>3. a = c => st = "gone"
    BY <2>2, <1>2 DEF ClientState, Active
  <2> QED
    BY <1>2, <2>2, <2>3
<1> QED
  BY <1>2, <1>3, Parts DEF StartedOK
-------------------------------------------------------------------------------
(* Frames: what a conjunct depends on *)

\* Destinations already given stay justified as others are abandoned.
LEMMA DestinationFrame ==
  ASSUME IInv, UNCHANGED <<started, resolved>>, abandoned \subseteq abandoned'
  PROVE  DestinationCurrent'
BY Parts DEF DestinationCurrent, SameKey, Before

LEMMA HeldFrame ==
  ASSUME IInv, UNCHANGED <<tcp_connections, cut>>, abandoned \subseteq abandoned',
         \A d \in Conns : socket'[d] \in {"backlog", "relay"} =>
                            socket[d] \in {"backlog", "relay"}
  PROVE  MappingHeld'
BY Parts DEF MappingHeld, SameKey

\* The table without the entry of key.
LEMMA RemoveTable ==
  ASSUME IInv, NEW key, Remove(key)
  PROVE  /\ DOMAIN tcp_connections' = DOMAIN tcp_connections \ {key}
         /\ \A k \in DOMAIN tcp_connections' : tcp_connections'[k] = tcp_connections[k]
         /\ TableTyped'
BY Parts DEF Remove, TableTyped

\* A FIN or RST of c, or a reset that the table takes for one.
LEMMA EndStep ==
  ASSUME IInv, NEW c \in Conns, LoopFree, Remove(Key(c)),
         UNCHANGED <<lookup, resolved, started, abandoned>>,
         StartedOK',
         \A d \in Conns \ {c} : client'[d] = client[d],
         \A d \in Conns : client'[d] = "new" <=> client[d] = "new",
         socket' \in [Conns -> SocketState],
         \A d \in Conns : socket'[d] # "none" => socket[d] # "none",
         \A d \in Conns : socket'[d] \in {"backlog", "relay"} =>
                            socket[d] \in {"backlog", "relay"}
  PROVE  IInv'
<1>1. /\ DOMAIN tcp_connections' = DOMAIN tcp_connections \ {Key(c)}
      /\ \A k \in DOMAIN tcp_connections' : tcp_connections'[k] = tcp_connections[k]
      /\ TableTyped'
  BY RemoveTable
<1>2. cut' = cut \cup {d \in Conns : Key(d) = Key(c) /\ socket[d] # "none"}
  BY DEF Remove
<1>3. LookupOK'
  BY Parts DEF LookupOK, LookupCurrent, LoopFree
<1>4. SocketsTyped' /\ SocketsStarted' /\ DestinationCurrent'
  BY <1>2, Parts, DestinationFrame DEF SocketsTyped, SocketsStarted
<1>5. NoStaleMapping'
  BY <1>1, Parts DEF NoStaleMapping
<1>6. MappingHeld'
  <2> SUFFICES ASSUME NEW d \in Conns, socket'[d] \in {"backlog", "relay"}, d \notin cut'
               PROVE  /\ Key(d) \in DOMAIN tcp_connections'
                      /\ SameKey(d) \cap abandoned \subseteq {d} =>
                           tcp_connections'[Key(d)] = MappingOf(d)
    BY DEF MappingHeld, SameKey
  <2>1. socket[d] \in {"backlog", "relay"} /\ d \notin cut
    BY <1>2
  <2>2. Key(d) # Key(c)
    BY <1>2, <2>1
  <2> QED
    BY <1>1, <2>1, <2>2, Parts DEF MappingHeld
<1> QED
  BY <1>1, <1>3, <1>4, <1>5, <1>6, PartsNext

\* A client moves on and the router does not see it.
LEMMA ClientStep ==
  ASSUME IInv, NEW c \in Conns, NEW st \in {"open", "gone"},
         client[c] \in Active,
         UNCHANGED <<tcp_connections, lookup, socket, resolved, started, cut>>,
         client' = [client EXCEPT ![c] = st],
         \/ st = "open" /\ lookup = {} /\ client[c] = "syn" /\ abandoned' = abandoned
         \/ st = "gone" /\ client[c] = "closing" /\ abandoned' = abandoned
         \/ st = "gone" /\ abandoned' = abandoned \cup {c}
  PROVE  IInv'
<1>1. /\ StartedOK' /\ client'[c] = st
      /\ \A d \in Conns \ {c} : client'[d] = client[d]
      /\ \A d \in Conns : client'[d] = "new" <=> client[d] = "new"
  BY ClientMoves DEF Active, ClientState
<1>2. TableTyped' /\ SocketsTyped'
  BY Parts DEF TableTyped, SocketsTyped
<1>3. NoStaleMapping'
  <2> SUFFICES ASSUME NEW k \in DOMAIN tcp_connections
               PROVE  \E d \in Conns :
                        /\ Key(d) = k
                        /\ tcp_connections[k] = MappingOf(d)
                        /\ client'[d] \in {"syn", "open"} \/ d \in abandoned'
    BY DEF NoStaleMapping
  <2>1. PICK d \in Conns :
          /\ Key(d) = k
          /\ tcp_connections[k] = MappingOf(d)
          /\ client[d] \in {"syn", "open"} \/ d \in abandoned
    BY Parts DEF NoStaleMapping
  <2>2. CASE d # c
    BY <1>1, <2>1, <2>2
  <2>3. CASE d = c
    BY <1>1, <2>1, <2>3
  <2> QED
    BY <2>2, <2>3
<1>4. LookupOK'
  <2>1. ASSUME NEW d \in lookup
        PROVE  /\ client'[d] = "syn" \/ (client'[d] = "gone" /\ d \in abandoned')
               /\ PortFree(d)'
    <3>1. /\ d \in Conns /\ PortFree(d)
          /\ client[d] = "syn" \/ (client[d] = "gone" /\ d \in abandoned)
      BY <2>1, Parts DEF LookupOK, LookupCurrent
    <3>2. st = "gone"
      BY <2>1
    <3>3. \A e \in Conns \ {d} : SameLocalPort(d, e) => client'[e] \in {"new", "gone"}
      BY <1>1, <3>1, <3>2 DEF PortFree
    <3>4. CASE d # c
      BY <1>1, <3>1, <3>3, <3>4 DEF PortFree, SameLocalPort
    <3>5. CASE d = c
      <4>1. d \in abandoned' /\ client'[d] = "gone"
        BY <1>1, <3>1, <3>2, <3>5 DEF Active
      <4> QED
        BY <3>3, <4>1 DEF PortFree, SameLocalPort
    <3> QED
      BY <3>4, <3>5
  <2> QED
    BY <2>1, Parts DEF LookupOK, LookupCurrent
<1>5. SocketsStarted' /\ DestinationCurrent' /\ MappingHeld'
  BY <1>1, Parts, DestinationFrame, HeldFrame DEF SocketsStarted
<1> QED
  BY <1>1, <1>2, <1>3, <1>4, <1>5, PartsNext

\* A step of the proxy's tasks, which take no part in the router's state.
LEMMA ProxyStep ==
  ASSUME IInv, UNCHANGED <<tcp_connections, lookup, client, started, abandoned, cut>>,
         SocketsTyped', SocketsStarted', DestinationCurrent',
         \A d \in Conns : socket'[d] \in {"backlog", "relay"} =>
                            socket[d] \in {"backlog", "relay"}
  PROVE  IInv'
<1>1. TableTyped' /\ NoStaleMapping'
  BY Parts DEF TableTyped, NoStaleMapping
<1>2. StartedOK' /\ LookupOK'
  BY Parts DEF StartedOK, PortTakesTurns, Before, SameLocalPort, LookupOK,
               LookupCurrent, PortFree
<1>3. MappingHeld'
  BY HeldFrame
<1> QED
  BY <1>1, <1>2, <1>3, PartsNext
-------------------------------------------------------------------------------
(* The steps *)

LEMMA InitIInv == Init => IInv
<1> SUFFICES ASSUME Init PROVE IInv
  OBVIOUS
<1> USE DEF Init
<1>1. TableTyped /\ NoStaleMapping
  BY DEF TableTyped, NoStaleMapping
<1>2. StartedOK
  BY DEF StartedOK, PortTakesTurns, ClientState
<1>3. LookupOK
  BY FS_EmptySet DEF LookupOK, LookupCurrent
<1>4. SocketsTyped
  BY DEF SocketsTyped, SocketState
<1>5. SocketsStarted /\ DestinationCurrent /\ MappingHeld
  BY DEF SocketsStarted, DestinationCurrent, MappingHeld
<1> QED
  BY <1>1, <1>2, <1>3, <1>4, <1>5, Parts

\* The SYN of a new connection, or one sent again.
LEMMA SynIInv ==
  ASSUME IInv, NEW c \in Conns, Syn(c) PROVE IInv'
<1>0. /\ lookup = {} /\ lookup' = {c}
      /\ client \in [Conns -> ClientState]
      /\ client' = [client EXCEPT ![c] = "syn"]
      /\ UNCHANGED <<tcp_connections, socket, resolved, abandoned, cut>>
  BY Parts DEF Syn, LoopFree, StartedOK
<1>1. /\ client'[c] = "syn" /\ client' \in [Conns -> ClientState]
      /\ \A d \in Conns \ {c} : client'[d] = client[d]
      /\ client[c] \in {"new", "syn"}
  BY <1>0 DEF Syn, ClientState
<1>2. TableTyped' /\ SocketsTyped' /\ SocketsStarted'
  BY <1>0, <1>1, Parts DEF TableTyped, SocketsTyped, SocketsStarted
<1>3. NoStaleMapping'
  BY <1>0, <1>1, Parts DEF NoStaleMapping
<1>4. MappingHeld'
  BY <1>0, HeldFrame
<1>5. PortFree(c)' /\ StartedOK' /\ DestinationCurrent'
  <2>1. CASE client[c] = "syn"
    <3>1. client' = client /\ started' = started
      BY <1>0, <1>1, <2>1 DEF Syn
    <3>2. \A d \in Conns \ {c} : SameLocalPort(c, d) => client[d] \in {"new", "gone"}
      BY <2>1, Keys, Parts DEF StartedOK, PortTakesTurns
    <3>3. PortFree(c)'
      BY <3>1, <3>2 DEF PortFree, SameLocalPort
    <3>4. StartedOK'
      BY <3>1, Parts DEF StartedOK, PortTakesTurns, Before, SameLocalPort
    <3> QED
      BY <1>0, <3>1, <3>3, <3>4, DestinationFrame
  <2>2. CASE client[c] = "new"
    <3>1. started' = Append(started, c) /\ PortFree(c)
      BY <2>2 DEF Syn
    <3>2. /\ started' \in Seq(Conns)
          /\ \A i, j \in DOMAIN started' : started'[i] = started'[j] => i = j
          /\ {started'[i] : i \in DOMAIN started'} =
               {started[i] : i \in DOMAIN started} \cup {c}
          /\ \A d \in Conns : client[d] # "new" => Before(d, c)'
          /\ \A d, e \in Conns : Before(d, e) => Before(d, e)'
          /\ \A d, e \in Conns : client[e] # "new" /\ Before(d, e)' => Before(d, e)
      BY <2>2, <3>1, BeforeAppend, Parts
    <3>3. PortFree(c)'
      BY <1>1, <3>1 DEF PortFree, SameLocalPort
    <3>4. PortTakesTurns'
      <4> SUFFICES ASSUME NEW a \in Conns, NEW d \in Conns, a # d, SameLocalPort(a, d),
                          client'[a] # "new", client'[d] \in Active
                   PROVE  client'[a] = "gone" /\ Before(a, d)'
        BY DEF PortTakesTurns, SameLocalPort, Active
      <4>1. CASE d = c
        <5>1. client[a] = "gone"
          BY <1>1, <3>1, <4>1, Keys DEF PortFree
        <5> QED
          BY <1>1, <3>2, <4>1, <5>1
      <4>2. CASE a = c
        <5>1. client[d] \in {"new", "gone"} /\ client'[d] = client[d]
          BY <1>1, <3>1, <4>2, Keys DEF PortFree
        <5> QED
          BY <5>1 DEF Active
      <4>3. CASE a # c /\ d # c
        BY <1>1, <3>2, <4>3, Parts DEF StartedOK, PortTakesTurns, Active
      <4> QED
        BY <4>1, <4>2, <4>3
    <3>5. StartedOK'
      <4>1. {d \in Conns : client'[d] # "new"} = {d \in Conns : client[d] # "new"} \cup {c}
        BY <1>1
      <4> QED
        BY <1>1, <3>2, <3>4, <4>1, Parts DEF StartedOK
    <3>6. DestinationCurrent'
      <4> SUFFICES ASSUME NEW a \in Conns, resolved[a] # Nothing
                   PROVE  \E d \in SameKey(a) :
                            /\ resolved[a] = Dialled(d)
                            /\ Before(d, a)' => d \in abandoned
        BY <1>0 DEF DestinationCurrent, SameKey
      <4>1. client[a] # "new"
        BY Parts DEF SocketsStarted
      <4>2. PICK d \in SameKey(a) :
              resolved[a] = Dialled(d) /\ (Before(d, a) => d \in abandoned)
        BY Parts DEF DestinationCurrent
      <4>3. d \in Conns
        BY DEF SameKey
      <4> QED
        BY <3>2, <4>1, <4>2, <4>3
    <3> QED
      BY <3>3, <3>5, <3>6
  <2> QED
    BY <1>1, <2>1, <2>2
<1>6. LookupOK'
  <2>1. Cardinality({c}) = 1
    BY FS_Singleton
  <2> QED
    BY <1>0, <1>1, <1>5, <2>1 DEF LookupOK, LookupCurrent
<1> QED
  BY <1>2, <1>3, <1>4, <1>5, <1>6, PartsNext

\* The entry is made, unless one is there, and the SYN redirected.
LEMMA LookupProxiedIInv ==
  ASSUME IInv, NEW c \in Conns, LookupProxied(c) PROVE IInv'
<1> DEFINE key == Key(c)
<1>0. /\ c \in lookup /\ Owner[c] # Nothing /\ lookup' = {}
      /\ tcp_connections' = [k \in DOMAIN tcp_connections \cup {key} |->
                               IF k \in DOMAIN tcp_connections THEN tcp_connections[k]
                               ELSE MappingOf(c)]
      /\ UNCHANGED <<client, resolved, started, abandoned, cut>>
      /\ socket \in [Conns -> SocketState]
      /\ socket' = socket \/ socket' = [socket EXCEPT ![c] = "backlog"]
  BY Parts DEF LookupProxied, OrInsert, history, SocketsTyped
<1>1. /\ DOMAIN tcp_connections' = DOMAIN tcp_connections \cup {key}
      /\ \A k \in DOMAIN tcp_connections : tcp_connections'[k] = tcp_connections[k]
      /\ key \notin DOMAIN tcp_connections => tcp_connections'[key] = MappingOf(c)
  BY <1>0
<1>2. /\ client[c] = "syn" \/ (client[c] = "gone" /\ c \in abandoned)
      /\ PortFree(c)
  BY <1>0, Parts DEF LookupOK, LookupCurrent
<1>3. /\ socket' \in [Conns -> SocketState]
      /\ \A d \in Conns \ {c} : socket'[d] = socket[d]
      /\ \A d \in Conns : socket'[d] # "none" => client[d] # "new"
  BY <1>0, <1>2, Parts DEF SocketState, SocketsStarted
<1>4. TableTyped'
  <2>1. key \in FlowKey /\ MappingOf(c) \in Mapping
    BY <1>0, Keys, MappingTyped
  <2>2. tcp_connections' \in [DOMAIN tcp_connections \cup {key} -> Mapping]
    BY <1>0, <2>1, Parts DEF TableTyped
  <2> QED
    BY <1>1, <2>1, <2>2, Parts DEF TableTyped
<1>5. StartedOK' /\ SocketsTyped' /\ SocketsStarted' /\ DestinationCurrent'
  BY <1>0, <1>3, Parts, DestinationFrame
  DEF StartedOK, PortTakesTurns, Before, SameLocalPort, SocketsTyped, SocketsStarted
<1>6. LookupOK'
  BY <1>0, FS_EmptySet DEF LookupOK, LookupCurrent
<1>7. NoStaleMapping'
  <2> SUFFICES ASSUME NEW k \in DOMAIN tcp_connections'
               PROVE  \E d \in Conns :
                        /\ Key(d) = k
                        /\ tcp_connections'[k] = MappingOf(d)
                        /\ client[d] \in {"syn", "open"} \/ d \in abandoned
    BY <1>0 DEF NoStaleMapping
  <2>1. CASE k \in DOMAIN tcp_connections
    BY <1>1, <2>1, Parts DEF NoStaleMapping
  <2>2. CASE k \notin DOMAIN tcp_connections
    BY <1>1, <1>2, <2>2
  <2> QED
    BY <2>1, <2>2
<1>8. ASSUME SameKey(c) \cap abandoned \subseteq {c}
      PROVE  tcp_connections'[key] = MappingOf(c)
  <2>1. CASE key \notin DOMAIN tcp_connections
    BY <1>1, <2>1
  <2>2. CASE key \in DOMAIN tcp_connections
    <3>1. PICK d \in Conns :
            /\ Key(d) = key
            /\ tcp_connections[key] = MappingOf(d)
            /\ client[d] \in {"syn", "open"} \/ d \in abandoned
      BY <2>2, Parts DEF NoStaleMapping
    <3>2. SameLocalPort(c, d)
      BY <3>1, Keys
    <3>3. d = c
      BY <1>2, <1>8, <3>1, <3>2 DEF PortFree, SameKey
    <3> QED
      BY <1>1, <2>2, <3>1, <3>3
  <2> QED
    BY <2>1, <2>2
<1>9. MappingHeld'
  <2> SUFFICES ASSUME NEW d \in Conns, socket'[d] \in {"backlog", "relay"}, d \notin cut
               PROVE  /\ Key(d) \in DOMAIN tcp_connections'
                      /\ SameKey(d) \cap abandoned \subseteq {d} =>
                           tcp_connections'[Key(d)] = MappingOf(d)
    BY <1>0 DEF MappingHeld, SameKey
  <2>1. CASE d = c
    BY <1>1, <1>8, <2>1
  <2>2. CASE d # c
    BY <1>1, <1>3, <2>2, Parts DEF MappingHeld
  <2> QED
    BY <2>1, <2>2
<1> QED
  BY <1>4, <1>5, <1>6, <1>7, <1>9, PartsNext

LEMMA LookupUnproxiedIInv ==
  ASSUME IInv, NEW c \in Conns, LookupUnproxied(c) PROVE IInv'
<1>0. /\ lookup' = {}
      /\ UNCHANGED <<tcp_connections, client, socket, resolved, started, abandoned, cut>>
  BY DEF LookupUnproxied, history
<1>1. TableTyped' /\ SocketsTyped' /\ NoStaleMapping' /\ SocketsStarted'
  BY <1>0, Parts DEF TableTyped, SocketsTyped, NoStaleMapping, SocketsStarted
<1>2. StartedOK' /\ DestinationCurrent' /\ MappingHeld'
  BY <1>0, Parts, DestinationFrame, HeldFrame
  DEF StartedOK, PortTakesTurns, Before, SameLocalPort
<1>3. LookupOK'
  BY <1>0, FS_EmptySet DEF LookupOK, LookupCurrent
<1> QED
  BY <1>1, <1>2, <1>3, PartsNext

\* The segments that end a connection.
LEMMA ResetTyped ==
  ASSUME IInv, NEW c \in Conns, ResetSocket(c)
  PROVE  /\ socket' \in [Conns -> SocketState]
         /\ \A d \in Conns : socket'[d] # "none" => socket[d] # "none"
         /\ \A d \in Conns : socket'[d] \in {"backlog", "relay"} =>
                               socket[d] \in {"backlog", "relay"}
<1>1. socket \in [Conns -> SocketState]
  BY Parts DEF SocketsTyped
<1>2. CASE Key(c) \notin DOMAIN tcp_connections
  BY <1>1, <1>2 DEF ResetSocket
<1>3. CASE Key(c) \in DOMAIN tcp_connections
  <2> DEFINE now == CASE socket[c] = "backlog" -> "aborted"
                      [] socket[c] = "relay" -> "closed"
                      [] OTHER -> socket[c]
  <2>1. socket' = [socket EXCEPT ![c] = now]
    BY <1>3 DEF ResetSocket
  <2>2. \/ now = "aborted" /\ socket[c] = "backlog"
        \/ now = "closed" /\ socket[c] = "relay"
        \/ now = socket[c]
    OBVIOUS
  <2> HIDE DEF now
  <2>3. now \in SocketState
    BY <1>1, <2>2 DEF SocketState
  <2> QED
    BY <1>1, <2>1, <2>2, <2>3
<1> QED
  BY <1>2, <1>3

LEMMA ClientEndsIInv ==
  ASSUME IInv, NEW c \in Conns, ClientFin(c) \/ ClientRst(c) PROVE IInv'
<1>1. CASE ClientFin(c)
  <2>0. /\ client[c] = "open" /\ client' = [client EXCEPT ![c] = "closing"]
        /\ LoopFree /\ Remove(Key(c))
        /\ UNCHANGED <<lookup, socket, resolved, started, abandoned>>
    BY <1>1 DEF ClientFin, history
  <2>1. /\ StartedOK'
        /\ \A d \in Conns \ {c} : client'[d] = client[d]
        /\ \A d \in Conns : client'[d] = "new" <=> client[d] = "new"
    BY <2>0, ClientMoves DEF Active, ClientState
  <2>2. socket' \in [Conns -> SocketState]
    BY <2>0, Parts DEF SocketsTyped
  <2> QED
    BY <2>0, <2>1, <2>2, EndStep
<1>2. CASE ClientRst(c)
  <2>0. /\ client[c] \in Active /\ client' = [client EXCEPT ![c] = "gone"]
        /\ LoopFree /\ Remove(Key(c)) /\ ResetSocket(c)
        /\ UNCHANGED <<lookup, resolved, started, abandoned>>
    BY <1>2 DEF ClientRst, history, Active
  <2>1. /\ StartedOK'
        /\ \A d \in Conns \ {c} : client'[d] = client[d]
        /\ \A d \in Conns : client'[d] = "new" <=> client[d] = "new"
    BY <2>0, ClientMoves DEF Active, ClientState
  <2> QED
    BY <2>0, <2>1, ResetTyped, EndStep
<1> QED
  BY <1>1, <1>2

LEMMA SynAckIInv ==
  ASSUME IInv, NEW c \in Conns, SynAck(c) PROVE IInv'
<1>1. CASE tcp_connections[Key(c)].dst_port = Header[c].dst_port
  <2>1. /\ client[c] = "syn" /\ client' = [client EXCEPT ![c] = "open"] /\ lookup = {}
        /\ UNCHANGED <<tcp_connections, lookup, socket, resolved, started, abandoned, cut>>
    BY <1>1 DEF SynAck, LoopFree, history
  <2> QED
    BY <2>1, ClientStep DEF Active
<1>2. CASE tcp_connections[Key(c)].dst_port # Header[c].dst_port
  <2>1. /\ LoopFree /\ Remove(Key(c)) /\ ResetSocket(c)
        /\ UNCHANGED <<lookup, client, resolved, started, abandoned>>
    BY <1>2 DEF SynAck, history
  <2>2. StartedOK'
    BY <2>1, Parts DEF StartedOK, PortTakesTurns, Before, SameLocalPort
  <2> QED
    BY <2>1, <2>2, ResetTyped, EndStep
<1> QED
  BY <1>1, <1>2

LEMMA ProxyFinIInv ==
  ASSUME IInv, NEW c \in Conns, ProxyFin(c) PROVE IInv'
<1>0. /\ socket[c] = "ending" /\ socket' = [socket EXCEPT ![c] = "closed"]
      /\ socket \in [Conns -> SocketState]
      /\ LoopFree /\ Remove(Key(c))
      /\ UNCHANGED <<lookup, client, resolved, started, abandoned>>
  BY Parts DEF ProxyFin, history, SocketsTyped
<1>1. StartedOK'
  <2>1. StartedOK /\ client' = client /\ started' = started
    BY <1>0, Parts
  <2> QED
    BY <2>1 DEF StartedOK, PortTakesTurns, Before, SameLocalPort
<1>2. /\ socket' \in [Conns -> SocketState]
      /\ \A d \in Conns : socket'[d] # "none" => socket[d] # "none"
      /\ \A d \in Conns : socket'[d] \in {"backlog", "relay"} =>
                            socket[d] \in {"backlog", "relay"}
  BY <1>0 DEF SocketState
<1> QED
  BY <1>0, <1>1, <1>2, EndStep

\* handle_tcp_connection asks the table.
LEMMA AcceptIInv ==
  ASSUME IInv, NEW c \in Conns, Accept(c) PROVE IInv'
<1> DEFINE found == QueryTcp(Header[c].dst_ip, Header[c].src_port, Header[c].src_ip)
<1>0. /\ socket[c] \in {"backlog", "aborted"} /\ client[c] # "new"
      /\ socket \in [Conns -> SocketState]
      /\ UNCHANGED <<tcp_connections, lookup, client, started, abandoned, cut>>
      /\ resolved \in [Conns -> [dst_ip : IP, dst_port : Port] \cup {Nothing}]
  BY Parts DEF Accept, history, SocketsTyped, SocketsStarted
<1>1. /\ socket' \in [Conns -> SocketState]
      /\ \A d \in Conns \ {c} : socket'[d] = socket[d]
      /\ socket'[c] \in {"backlog", "relay"} => socket[c] = "backlog"
  <2>1. CASE socket[c] = "aborted"
    <3>1. socket' = [socket EXCEPT ![c] = "closed"]
      BY <2>1 DEF Accept
    <3> QED
      BY <1>0, <3>1 DEF SocketState
  <2>2. CASE socket[c] = "backlog"
    <3>1. \/ socket' = [socket EXCEPT ![c] = "relay"]
          \/ socket' = [socket EXCEPT ![c] = "ending"]
      BY <2>2 DEF Accept
    <3> QED
      BY <1>0, <2>2, <3>1 DEF SocketState
  <2> QED
    BY <1>0, <2>1, <2>2
<1>2. CASE UNCHANGED resolved
  <2>1. SocketsTyped' /\ SocketsStarted' /\ DestinationCurrent'
    BY <1>0, <1>1, <1>2, Parts, DestinationFrame DEF SocketsTyped, SocketsStarted
  <2> QED
    BY <1>0, <1>1, <2>1, ProxyStep
<1>3. ASSUME NEW to \in found, resolved' = [resolved EXCEPT ![c] = to] PROVE IInv'
  <2>1. Key(c) \in DOMAIN tcp_connections
        /\ to = [dst_ip |-> tcp_connections[Key(c)].dst_ip,
                 dst_port |-> tcp_connections[Key(c)].dst_port]
    BY <1>3, Keys DEF QueryTcp
  <2>2. PICK d \in Conns :
          /\ Key(d) = Key(c)
          /\ tcp_connections[Key(c)] = MappingOf(d)
          /\ client[d] \in {"syn", "open"} \/ d \in abandoned
    BY <2>1, Parts DEF NoStaleMapping
  <2>3. to = Dialled(d)
    BY <2>1, <2>2 DEF MappingOf, Dialled
  <2>4. Before(d, c) => d \in abandoned
    <3> SUFFICES ASSUME Before(d, c), client[d] \in {"syn", "open"} PROVE FALSE
      BY <2>2
    <3>1. ~ Before(c, d)
      BY BeforeAntisymmetric, Parts
    <3>2. c # d
      BY <3>1
    <3>3. SameLocalPort(c, d)
      BY <2>2, Keys
    <3> QED
      BY <1>0, <3>1, <3>2, <3>3, Parts DEF StartedOK, PortTakesTurns
  <2>5. /\ resolved'[c] = to
        /\ \A e \in Conns \ {c} : resolved'[e] = resolved[e]
        /\ resolved' \in [Conns -> [dst_ip : IP, dst_port : Port] \cup {Nothing}]
    BY <1>0, <1>3, <2>3, Keys
  <2>6. DestinationCurrent'
    <3> SUFFICES ASSUME NEW a \in Conns, resolved'[a] # Nothing
                 PROVE  \E e \in SameKey(a) :
                          /\ resolved'[a] = Dialled(e)
                          /\ Before(e, a) => e \in abandoned
      BY <1>0 DEF DestinationCurrent, SameKey, Before
    <3>1. CASE a = c
      <4>1. d \in SameKey(a)
        BY <2>2, <3>1 DEF SameKey
      <4> QED
        BY <2>3, <2>4, <2>5, <3>1, <4>1
    <3>2. CASE a # c
      BY <2>5, <3>2, Parts DEF DestinationCurrent
    <3> QED
      BY <3>1, <3>2
  <2>7. SocketsTyped' /\ SocketsStarted'
    BY <1>0, <1>1, <2>5, Parts DEF SocketsTyped, SocketsStarted
  <2> QED
    BY <1>0, <1>1, <2>6, <2>7, ProxyStep
<1> QED
  BY <1>2, <1>3 DEF Accept

LEMMA RelayEndsIInv ==
  ASSUME IInv, NEW c \in Conns, RelayEnds(c) PROVE IInv'
<1>0. /\ socket[c] = "relay" /\ socket' = [socket EXCEPT ![c] = "ending"]
      /\ socket \in [Conns -> SocketState]
      /\ UNCHANGED <<tcp_connections, lookup, client, resolved, started, abandoned, cut>>
  BY Parts DEF RelayEnds, history, SocketsTyped
<1>1. SocketsTyped' /\ SocketsStarted' /\ DestinationCurrent'
  BY <1>0, Parts, DestinationFrame DEF SocketsTyped, SocketState, SocketsStarted
<1> QED
  BY <1>0, <1>1, ProxyStep

\* The steps of a client that the router does not see.
LEMMA ClientUnseenIInv ==
  ASSUME IInv, NEW c \in Conns,
         OpenDirectly(c) \/ ClientGone(c) \/ ClientVanishes(c)
  PROVE  IInv'
<1>1. CASE OpenDirectly(c)
  BY <1>1, ClientStep DEF OpenDirectly, LoopFree, history, Active
<1>2. CASE ClientGone(c)
  BY <1>2, ClientStep DEF ClientGone, history, Active
<1>3. CASE ClientVanishes(c)
  BY <1>3, ClientStep DEF ClientVanishes, Active
<1> QED
  BY <1>1, <1>2, <1>3

LEMMA NextIInv == IInv /\ [Next]_vars => IInv'
<1> SUFFICES ASSUME IInv, [Next]_vars PROVE IInv'
  OBVIOUS
<1>1. CASE UNCHANGED vars
  BY <1>1 DEF vars, IInv, TypeOK, NoStaleMapping, PortTakesTurns, LookupCurrent,
              PortFree, SocketsStarted, DestinationCurrent, MappingHeld, Before,
              SameLocalPort, SameKey
<1> QED
  BY <1>1, SynIInv, LookupProxiedIInv, LookupUnproxiedIInv, ClientEndsIInv,
     SynAckIInv, ProxyFinIInv, AcceptIInv, RelayEndsIInv, ClientUnseenIInv
  DEF Next

\* IInv holds in every reachable state.
THEOREM Invariance == Spec => []IInv
<1>1. IInv /\ [Next]_vars => IInv'
  BY NextIInv
<1> QED
  BY <1>1, InitIInv, PTL DEF Spec
-------------------------------------------------------------------------------
(* The properties *)

\* The table, the sockets and the history are well typed, and one SYN at most
\* is in the lookup.
THEOREM TypeCorrect == Spec => []TypeOK
<1>1. IInv => TypeOK
  BY DEF IInv
<1> QED
  BY <1>1, Invariance, PTL

\* A mapping that or_insert keeps is never one of a connection whose end the
\* router has seen.
THEOREM DestinationCorrect == Spec => []DestinationCurrent
<1>1. IInv => DestinationCurrent
  BY DEF IInv
<1> QED
  BY <1>1, Invariance, PTL

\* What FIN and RST leave behind: only mappings of connections whose end the
\* router could not see, each as its own connection made it.
THEOREM TableFresh == Spec => []NoStaleMapping
<1>1. IInv => NoStaleMapping
  BY DEF IInv
<1> QED
  BY <1>1, Invariance, PTL

\* While the proxy holds a connection its mapping is there, and leads back.
THEOREM MappingKept == Spec => []MappingHeld
<1>1. IInv => MappingHeld
  BY DEF IInv
<1> QED
  BY <1>1, Invariance, PTL
===============================================================================
