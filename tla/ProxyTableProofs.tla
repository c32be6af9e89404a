--------------------------- MODULE ProxyTableProofs ---------------------------
(***************************************************************************)
(* Proofs about ProxyTable.                                                *)
(***************************************************************************)
EXTENDS ProxyTable, TLAPS

Proxy == [server : Server, port : LocalPort \cup {0}]

(***************************************************************************)
(* Filters and sequences                                                   *)
(***************************************************************************)

LEMMA FiltersTyped ==
  /\ IcmpFilter \in Filter
  /\ \A server \in Server : PassFilters(server) \in Seq(Filter)
<1>1. IcmpFilter \in Filter
  BY DEF IcmpFilter, Filter
<1>2. ASSUME NEW server \in Server, NEW protocol \in {"tcp", "udp"},
             NEW dir \in {"send", "receive"}
      PROVE  PassFilter(server, protocol, dir) \in Filter
  BY DEF PassFilter, Filter, Server, IP, Port
<1> QED
  BY <1>1, <1>2 DEF PassFilters

\* What is in the list of one server's filters.
LEMMA FiltersOf ==
  ASSUME NEW server
  PROVE  ToSet(PassFilters(server)) =
           {PassFilter(server, "tcp", "send"), PassFilter(server, "tcp", "receive"),
            PassFilter(server, "udp", "send"), PassFilter(server, "udp", "receive")}
  BY DEF ToSet, PassFilters

LEMMA SetOfConcat ==
  ASSUME NEW S, NEW s \in Seq(S), NEW t \in Seq(S)
  PROVE  ToSet(s \o t) = ToSet(s) \cup ToSet(t)
<1>1. ASSUME NEW i \in DOMAIN (s \o t) PROVE (s \o t)[i] \in ToSet(s) \cup ToSet(t)
  BY DEF ToSet
<1>2. ASSUME NEW i \in DOMAIN s PROVE s[i] \in ToSet(s \o t)
  BY DEF ToSet
<1>3. ASSUME NEW i \in DOMAIN t PROVE t[i] \in ToSet(s \o t)
  <2>1. i + Len(s) \in DOMAIN (s \o t) /\ (s \o t)[i + Len(s)] = t[i]
    OBVIOUS
  <2> QED
    BY <2>1 DEF ToSet
<1> QED
  BY <1>1, <1>2, <1>3 DEF ToSet

(***************************************************************************)
(* The inductive invariant                                                 *)
(***************************************************************************)

LEMMA InitIInv == Init => IInv
<1> SUFFICES ASSUME Init PROVE IInv
  OBVIOUS
<1>1. static_filters \in Seq(Filter) /\ ToSet(static_filters) = {IcmpFilter}
  BY FiltersTyped DEF Init, ToSet
<1>2. TypeOK
  BY <1>1 DEF Init, TypeOK
<1>3. FiltersOfProxies
  BY <1>1 DEF Init, FiltersOfProxies
<1> QED
  BY <1>2, <1>3 DEF Init, IInv, TableComplete, AllListen

\* The driver's table after apply_static_filters.
LEMMA ApplyStep ==
  ASSUME NEW filters, NEW ok, NEW next, Apply(filters, ok, next)
  PROVE  \/ table' = ToSet(filters) /\ phase' = next
         \/ table' = table /\ phase' = "failed"
  BY DEF Apply

LEMMA AddProxyIInv ==
  ASSUME IInv, NEW server \in Server, NEW ok \in BOOLEAN, AddProxy(server, ok)
  PROVE  IInv'
<1> DEFINE added == PassFilters(server)
<1>1. /\ proxies \in Seq(Proxy) /\ static_filters \in Seq(Filter) /\ added \in Seq(Filter)
      /\ table \subseteq ToSet(static_filters)
  BY FiltersTyped DEF IInv, TypeOK, Proxy
<1>2. /\ static_filters' = static_filters \o added
      /\ proxies' = Append(proxies, [server |-> server, port |-> 0])
      /\ name_to_proxy' = name_to_proxy
      /\ Apply(static_filters', ok, "configuring")
  BY DEF AddProxy
<1>3. /\ phase' \in {"configuring", "failed"}
      /\ table' = ToSet(static_filters') \/ table' = table
  BY <1>2, ApplyStep
<1>4. ToSet(static_filters') = ToSet(static_filters) \cup ToSet(added)
  BY <1>1, <1>2, SetOfConcat
<1>5. /\ proxies' \in Seq(Proxy)
      /\ DOMAIN proxies' = DOMAIN proxies \cup {Len(proxies) + 1}
      /\ \A i \in DOMAIN proxies : proxies'[i] = proxies[i]
      /\ proxies'[Len(proxies) + 1].server = server
  <2>1. [server |-> server, port |-> 0] \in Proxy
    BY DEF Proxy
  <2> QED
    BY <1>1, <1>2, <2>1
<1>6. TypeOK'
  <2>1. static_filters' \in Seq(Filter) /\ table' \subseteq ToSet(static_filters')
    BY <1>1, <1>2, <1>3, <1>4
  <2> QED
    BY <1>2, <1>3, <1>5, <2>1 DEF IInv, TypeOK, Proxy
<1>7. FiltersOfProxies'
  <2> DEFINE Of(ps) == UNION {ToSet(PassFilters(ps[i].server)) : i \in DOMAIN ps}
  <2>1. Of(proxies') = Of(proxies) \cup ToSet(added)
    BY <1>5
  <2> QED
    BY <1>4, <2>1 DEF IInv, FiltersOfProxies
<1> QED
  BY <1>3, <1>6, <1>7 DEF IInv, TableComplete, AllListen

LEMMA StartIInv ==
  ASSUME IInv, NEW ok \in BOOLEAN, Start(ok)
  PROVE  IInv'
<1>1. /\ UNCHANGED <<proxies, name_to_proxy, static_filters>>
      /\ \/ table' = ToSet(static_filters) /\ phase' = "starting"
         \/ table' = table /\ phase' = "failed"
  BY ApplyStep DEF Start
<1>2. TypeOK'
  BY <1>1 DEF IInv, TypeOK
<1> QED
  BY <1>1, <1>2 DEF IInv, FiltersOfProxies, TableComplete, AllListen

LEMMA StartProxyIInv ==
  ASSUME IInv, NEW i \in DOMAIN proxies, NEW port \in LocalPort, StartProxy(i, port)
  PROVE  IInv'
<1>1. /\ proxies \in Seq(Proxy) /\ phase = "starting"
      /\ proxies' = [proxies EXCEPT ![i].port = port]
      /\ UNCHANGED <<phase, name_to_proxy, static_filters, table>>
  BY DEF IInv, TypeOK, Proxy, StartProxy
<1>2. /\ proxies' \in Seq(Proxy) /\ DOMAIN proxies' = DOMAIN proxies
      /\ \A j \in DOMAIN proxies : proxies'[j].server = proxies[j].server
  <2>1. proxies[i] \in Proxy
    BY <1>1
  <2>2. /\ [proxies[i] EXCEPT !.port = port] \in Proxy
        /\ [proxies[i] EXCEPT !.port = port].server = proxies[i].server
    BY <2>1 DEF Proxy
  <2>3. proxies' = [proxies EXCEPT ![i] = [proxies[i] EXCEPT !.port = port]]
    BY <1>1, Zenon
  <2> QED
    BY <1>1, <2>1, <2>2, <2>3
<1>3. TypeOK'
  BY <1>1, <1>2 DEF IInv, TypeOK, Proxy
<1>4. FiltersOfProxies'
  BY <1>1, <1>2 DEF IInv, FiltersOfProxies
<1> QED
  BY <1>1, <1>3, <1>4 DEF IInv, TableComplete, AllListen

LEMMA NextIInv == IInv /\ [Next]_vars => IInv'
<1> SUFFICES ASSUME IInv, [Next]_vars PROVE IInv'
  OBVIOUS
<1> USE DEF IInv, TypeOK, FiltersOfProxies, TableComplete, AllListen
<1>1. CASE \E server \in Server : AddProxy(server, TRUE) \/ AddProxy(server, FALSE)
  BY <1>1, AddProxyIInv
<1>2. CASE ConfigFails
  BY <1>2 DEF ConfigFails
<1>3. CASE \E name \in Names : Associate(name)
  <2>1. PICK name \in Names : Associate(name)
    BY <1>3
  <2>2. /\ Len(proxies) \in DOMAIN proxies
        /\ UNCHANGED <<phase, proxies, static_filters, table>>
    BY <2>1 DEF Associate
  <2>3. /\ DOMAIN name_to_proxy' = DOMAIN name_to_proxy \cup {name}
        /\ \A n \in DOMAIN name_to_proxy' : name_to_proxy'[n] \in DOMAIN proxies
    BY <2>1, <2>2 DEF Associate
  <2> QED
    BY <2>2, <2>3
<1>4. CASE Start(TRUE) \/ Start(FALSE)
  BY <1>4, StartIInv
<1>5. CASE \E i \in DOMAIN proxies : \E port \in LocalPort : StartProxy(i, port)
  BY <1>5, StartProxyIInv
<1>6. CASE StartProxyFails
  BY <1>6 DEF StartProxyFails
<1>7. CASE SpawnLoop
  <2>1. \A i \in DOMAIN proxies : proxies[i].port # 0
    BY <1>7 DEF SpawnLoop, Unstarted
  <2> QED
    BY <1>7, <2>1 DEF SpawnLoop
<1>8. CASE UNCHANGED vars
  BY <1>8 DEF vars
<1> QED
  BY <1>1, <1>2, <1>3, <1>4, <1>5, <1>6, <1>7, <1>8 DEF Next

THEOREM Invariance == Spec => []IInv
  BY InitIInv, NextIInv, PTL DEF Spec

\* What configuration and start build is well-formed: names refer to proxies,
\* and the driver has no filter the router has not collected.
THEOREM TypeCorrect == Spec => []TypeOK
<1>1. IInv => TypeOK
  BY DEF IInv
<1> QED
  BY <1>1, Invariance, PTL

(***************************************************************************)
(* The choice of a proxy                                                   *)
(***************************************************************************)

\* Of sent packets the table lets pass exactly those to the server of a proxy.
LEMMA SeenUnlessToServer ==
  ASSUME IInv, phase = "running", NEW pkt \in Packet, pkt.dir = "send"
  PROVE  Seen(pkt) <=> ~ \E i \in DOMAIN proxies :
           proxies[i].server = [ip |-> pkt.dst_ip, port |-> pkt.dst_port]
<1> DEFINE ToServer(i) == proxies[i].server = [ip |-> pkt.dst_ip, port |-> pkt.dst_port]
<1>1. /\ table = {IcmpFilter} \cup
                   UNION {ToSet(PassFilters(proxies[i].server)) : i \in DOMAIN proxies}
      /\ \A i \in DOMAIN proxies : proxies[i].server \in Server
  <2>1. proxies \in Seq(Proxy) /\ table = ToSet(static_filters)
    BY DEF IInv, TypeOK, TableComplete, Proxy
  <2>2. ASSUME NEW i \in DOMAIN proxies PROVE proxies[i].server \in Server
    <3>1. proxies[i] \in Proxy
      BY <2>1
    <3> QED
      BY <3>1 DEF Proxy
  <2> QED
    BY <2>1, <2>2 DEF IInv, FiltersOfProxies
<1>2. /\ pkt.protocol \in {"tcp", "udp"}
      /\ AnyValue \notin {pkt.dst_ip, pkt.dst_port}
      /\ AnyValue \notin {"send", "receive", "icmp", "tcp", "udp"}
  BY ConstantsOK DEF Packet, IP, Port
<1>3. ~ Matches(IcmpFilter, pkt)
  <2>1. IcmpFilter["protocol"] = "icmp" /\ pkt["protocol"] = pkt.protocol
    BY DEF IcmpFilter
  <2>2. IcmpFilter["protocol"] \notin {AnyValue, pkt["protocol"]}
    BY <1>2, <2>1
  <2> QED
    BY <2>2 DEF Matches
<1>4. ASSUME NEW server \in Server, NEW protocol \in {"tcp", "udp"}
      PROVE  ~ Matches(PassFilter(server, protocol, "receive"), pkt)
  <2>1. PassFilter(server, protocol, "receive")["dir"] = "receive"
        /\ pkt["dir"] = "send"
    BY DEF PassFilter
  <2> QED
    BY <1>2, <2>1 DEF Matches
<1>5. ASSUME NEW server \in Server, NEW protocol \in {"tcp", "udp"}
      PROVE  Matches(PassFilter(server, protocol, "send"), pkt) <=>
               /\ protocol = pkt.protocol
               /\ server = [ip |-> pkt.dst_ip, port |-> pkt.dst_port]
  <2> DEFINE f == PassFilter(server, protocol, "send")
  <2>1. /\ f.v4 = (server.ip \in V4) /\ f["dir"] = "send" /\ f["protocol"] = protocol
        /\ f["dst_ip"] = server.ip /\ f["src_port"] = AnyValue /\ f["dst_port"] = server.port
    BY DEF PassFilter
  <2>2. /\ server.ip # AnyValue /\ server.port # AnyValue
        /\ server = [ip |-> server.ip, port |-> server.port]
    BY ConstantsOK DEF Server, Port
  <2>3. Matches(f, pkt) <=>
          /\ (server.ip \in V4) = (pkt.dst_ip \in V4)
          /\ "send" \in {AnyValue, pkt.dir} /\ protocol \in {AnyValue, pkt.protocol}
          /\ server.ip \in {AnyValue, pkt.dst_ip} /\ AnyValue \in {AnyValue, pkt.src_port}
          /\ server.port \in {AnyValue, pkt.dst_port}
    BY <2>1 DEF Matches
  <2> HIDE DEF f
  <2>4. Matches(f, pkt) <=>
          /\ protocol = pkt.protocol /\ server.ip = pkt.dst_ip /\ server.port = pkt.dst_port
    BY <1>2, <2>2, <2>3
  <2> QED
    BY <2>2, <2>4 DEF f
<1>6. ASSUME NEW i \in DOMAIN proxies, ToServer(i)
      PROVE  ~ Seen(pkt)
  <2>1. PassFilter(proxies[i].server, pkt.protocol, "send") \in table
    BY <1>1, <1>2, FiltersOf
  <2> QED
    BY <1>1, <1>2, <1>5, <1>6, <2>1 DEF Seen
<1>7. ASSUME \A i \in DOMAIN proxies : ~ ToServer(i)
      PROVE  Seen(pkt)
  <2>1. ASSUME NEW filter \in table PROVE ~ Matches(filter, pkt)
    <3>1. CASE filter = IcmpFilter
      BY <1>3, <3>1
    <3>2. CASE \E i \in DOMAIN proxies : filter \in ToSet(PassFilters(proxies[i].server))
      <4>1. PICK i \in DOMAIN proxies : filter \in ToSet(PassFilters(proxies[i].server))
        BY <3>2
      <4>2. \E protocol \in {"tcp", "udp"} :
              \/ filter = PassFilter(proxies[i].server, protocol, "send")
              \/ filter = PassFilter(proxies[i].server, protocol, "receive")
        BY <4>1, FiltersOf
      <4> QED
        BY <1>1, <1>4, <1>5, <1>7, <4>2
    <3> QED
      BY <1>1, <3>1, <3>2
  <2> QED
    BY <2>1 DEF Seen
<1> QED
  BY <1>6, <1>7

\* The ports that the names of a program give are those of the proxies they ask for.
LEMMA PortsWanted ==
  ASSUME IInv, phase = "running", NEW path
  PROVE  ProxyPorts(path) \ {0} =
           {proxies[i].port : i \in {i \in DOMAIN proxies : \E n \in DOMAIN name_to_proxy :
                                       name_to_proxy[n] = i /\ <<path, n>> \in InPath}}
<1> DEFINE fitting == {n \in DOMAIN name_to_proxy : <<path, n>> \in InPath}
           wanted == {i \in DOMAIN proxies : \E n \in DOMAIN name_to_proxy :
                        name_to_proxy[n] = i /\ <<path, n>> \in InPath}
<1>1. /\ \A n \in DOMAIN name_to_proxy : name_to_proxy[n] \in DOMAIN proxies
      /\ \A i \in DOMAIN proxies : proxies[i].port # 0
  BY DEF IInv, TypeOK, AllListen
<1>2. {proxies[name_to_proxy[n]].port : n \in fitting} = {proxies[i].port : i \in wanted}
  BY <1>1
<1>3. 0 \notin {proxies[i].port : i \in wanted}
  BY <1>1
<1>4. CASE fitting = {}
  <2>1. wanted = {}
    BY <1>4
  <2> QED
    BY <1>4, <2>1 DEF ProxyPorts
<1>5. CASE fitting # {}
  <2>1. ProxyPorts(path) = {proxies[name_to_proxy[n]].port : n \in fitting}
    BY <1>5 DEF ProxyPorts
  <2> QED
    BY <1>2, <1>3, <2>1
<1> QED
  BY <1>4, <1>5

\* Whatever the configuration and whichever start step fails: once the loop
\* runs, sessions to the SOCKS5 servers are never redirected, and every other
\* packet goes to a listening proxy that the program's names ask for.
THEOREM RedirectsCorrect == Spec => []RedirectsRight
<1>1. IInv => RedirectsRight
  <2> SUFFICES ASSUME IInv, phase = "running",
                      NEW pkt \in Packet, pkt.dir = "send", NEW path \in Paths
               PROVE  Redirects(pkt, path) =
                        IF \E i \in DOMAIN proxies :
                             proxies[i].server = [ip |-> pkt.dst_ip, port |-> pkt.dst_port]
                        THEN {} ELSE ProxyPorts(path) \ {0}
    BY PortsWanted DEF RedirectsRight
  <2> QED
    BY SeenUnlessToServer DEF Redirects
<1> QED
  BY <1>1, Invariance, PTL
===============================================================================
