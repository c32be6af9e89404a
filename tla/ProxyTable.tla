------------------------------ MODULE ProxyTable ------------------------------
(***************************************************************************)
(* Which sent packets are redirected, and to which proxy: the pass filters *)
(* of src/router/filters.rs in the driver's table, which keep packets from *)
(* the packet loop, and the names of programs by which the loop chooses a  *)
(* proxy (src/router/mod.rs, src/router/flow.rs).                          *)
(*                                                                         *)
(* The table is filled while config.toml is worked through and again by    *)
(* start, and any of these steps may fail; the proxies come to have ports  *)
(* one after the other.  What follows the start is Lifecycle's subject.    *)
(***************************************************************************)
EXTENDS Naturals, Sequences, FiniteSets, SequencesExt

CONSTANTS V4, V6,         \* addresses of each family
          ServerPort, ClientPort,  \* ports of servers and of their clients
          LocalPort,      \* ports the proxies get
          Names, Paths,   \* app_names, and paths of programs
          InPath,       \* the pairs of a path and a name that it contains
          MaxProxies,     \* bound: proxies in config.toml
          MAX_STATIC_FILTERS,
          AnyValue        \* a field that a filter leaves open

IP == V4 \cup V6
Port == ServerPort \cup ClientPort

ASSUME ConstantsOK ==
  /\ V4 \cap V6 = {}
  /\ AnyValue \notin IP \cup Port
  /\ AnyValue \notin {"send", "receive", "icmp", "tcp", "udp"}
  /\ 0 \notin LocalPort
  /\ InPath \subseteq Paths \X Names
  /\ MaxProxies \in Nat /\ MAX_STATIC_FILTERS \in Nat

VARIABLES
  phase,           \* where the start of the program is
  proxies,         \* the router's proxies: the server of each, and its local port
                   \* (standing for the two it has, of TCP and of UDP)
  name_to_proxy,   \* name -> index of its proxy
  static_filters,  \* filters the router has collected
  table            \* those the driver has

vars == <<phase, proxies, name_to_proxy, static_filters, table>>

Server == [ip : IP, port : ServerPort]
Packet ==
  [dir : {"send", "receive"}, protocol : {"tcp", "udp"},
   src_ip : IP, dst_ip : IP, src_port : Port, dst_port : Port]

\* A packet passes if it agrees with the filter wherever the filter says anything.
Filter ==
  [dir : {"send", "receive", AnyValue}, v4 : BOOLEAN,
   protocol : {"icmp", "tcp", "udp"}, dst_ip : IP \cup {AnyValue},
   src_port : Port \cup {AnyValue}, dst_port : Port \cup {AnyValue}]

TypeOK ==
  /\ phase \in {"configuring", "starting", "running", "failed"}
  /\ proxies \in Seq([server : Server, port : LocalPort \cup {0}])
  /\ DOMAIN name_to_proxy \subseteq Names
  /\ \A n \in DOMAIN name_to_proxy : name_to_proxy[n] \in DOMAIN proxies
  /\ static_filters \in Seq(Filter)
  /\ table \subseteq ToSet(static_filters)
-------------------------------------------------------------------------------
(* Filters *)

IcmpFilter ==
  [dir |-> AnyValue, v4 |-> TRUE, protocol |-> "icmp",
   dst_ip |-> AnyValue, src_port |-> AnyValue, dst_port |-> AnyValue]

\* Mutant: the filters of sent and received packets have each other's ports.
PassFilterSwapped(server, protocol, dir) ==
  [dir |-> dir, v4 |-> server.ip \in V4, protocol |-> protocol, dst_ip |-> server.ip,
   src_port |-> IF dir = "send" THEN server.port ELSE AnyValue,
   dst_port |-> IF dir = "receive" THEN server.port ELSE AnyValue]

\* build_proxy_pass_filter and _v6.  The server is the destination in both
\* directions.
PassFilter(server, protocol, dir) ==
  [dir |-> dir, v4 |-> server.ip \in V4, protocol |-> protocol, dst_ip |-> server.ip,
   src_port |-> IF dir = "receive" THEN server.port ELSE AnyValue,
   dst_port |-> IF dir = "send" THEN server.port ELSE AnyValue]

PassFilters(server) ==
  <<PassFilter(server, "tcp", "send"), PassFilter(server, "tcp", "receive"),
    PassFilter(server, "udp", "send"), PassFilter(server, "udp", "receive")>>

Matches(filter, pkt) ==
  /\ filter.v4 = (pkt.dst_ip \in V4)
  /\ \A field \in {"dir", "protocol", "dst_ip", "src_port", "dst_port"} :
       filter[field] \in {AnyValue, pkt[field]}

\* The driver hands every packet to the loop that no filter lets pass.
Seen(pkt) == \A filter \in table : ~ Matches(filter, pkt)

\* apply_static_filters: refused if there are too many or the driver fails.
Apply(filters, driver_ok, next) ==
  IF driver_ok /\ Len(filters) <= MAX_STATIC_FILTERS
  THEN table' = ToSet(filters) /\ phase' = next
  ELSE phase' = "failed" /\ UNCHANGED table
-------------------------------------------------------------------------------
Init ==
  /\ phase = "configuring"
  /\ proxies = << >>
  /\ name_to_proxy = [n \in {} |-> n]
  /\ static_filters = <<IcmpFilter>>
  /\ table = {}

\* add_socks5_proxy.  Proxy and filters stay also when they cannot be applied.
AddProxy(server, driver_ok) ==
  /\ phase = "configuring" /\ Len(proxies) < MaxProxies
  /\ static_filters' = static_filters \o PassFilters(server)
  /\ proxies' = Append(proxies, [server |-> server, port |-> 0])
  /\ Apply(static_filters', driver_ok, "configuring")
  /\ UNCHANGED name_to_proxy

\* config.toml or an endpoint in it cannot be read.
ConfigFails ==
  /\ phase = "configuring"
  /\ phase' = "failed"
  /\ UNCHANGED <<proxies, name_to_proxy, static_filters, table>>

\* associate_process_name_to_proxy, of the proxy added last; a name that
\* occurs twice changes over.
Associate(name) ==
  /\ phase = "configuring" /\ proxies # << >>
  /\ name_to_proxy' = [n \in DOMAIN name_to_proxy \cup {name} |->
                         IF n = name THEN Len(proxies) ELSE name_to_proxy[n]]
  /\ UNCHANGED <<phase, proxies, static_filters, table>>

\* start, before the first proxy.
Start(driver_ok) ==
  /\ phase = "configuring"
  /\ Apply(static_filters, driver_ok, "starting")
  /\ UNCHANGED <<proxies, name_to_proxy, static_filters>>

Unstarted == {i \in DOMAIN proxies : proxies[i].port = 0}

\* A proxy is bound to a port nobody has, or cannot be.
StartProxy(i, port) ==
  /\ phase = "starting"
  /\ i \in Unstarted /\ \A j \in Unstarted : i <= j
  /\ \A j \in DOMAIN proxies : proxies[j].port # port
  /\ proxies' = [proxies EXCEPT ![i].port = port]
  /\ UNCHANGED <<phase, name_to_proxy, static_filters, table>>

StartProxyFails ==
  /\ phase = "starting" /\ Unstarted # {}
  /\ phase' = "failed"
  /\ UNCHANGED <<proxies, name_to_proxy, static_filters, table>>

SpawnLoop ==
  /\ phase = "starting" /\ Unstarted = {}
  /\ phase' = "running"
  /\ UNCHANGED <<proxies, name_to_proxy, static_filters, table>>

Next ==
  \/ \E server \in Server : AddProxy(server, TRUE) \/ AddProxy(server, FALSE)
  \/ ConfigFails
  \/ \E name \in Names : Associate(name)
  \/ Start(TRUE) \/ Start(FALSE)
  \/ \E i \in DOMAIN proxies : \E port \in LocalPort : StartProxy(i, port)
  \/ StartProxyFails
  \/ SpawnLoop

Spec == Init /\ [][Next]_vars
-------------------------------------------------------------------------------
(* The choice of a proxy *)

\* get_proxy_port_tcp and _udp: the names are tried in the order of a hash map,
\* and the first that the path contains decides.  0 is no proxy.
ProxyPorts(path) ==
  LET fitting == {n \in DOMAIN name_to_proxy : <<path, n>> \in InPath}
  IN  IF fitting = {} THEN {0} ELSE {proxies[name_to_proxy[n]].port : n \in fitting}

\* Where the first packet of a flow of a program may go.
Redirects(pkt, path) == IF Seen(pkt) THEN ProxyPorts(path) \ {0} ELSE {}

\* Once the loop runs, a packet sent to the server of any proxy goes there
\* directly, whatever names match the program that sends it, its own included:
\* the proxies' sessions are never redirected into the proxies.  Any other
\* packet of a program with a name is redirected, to a proxy that listens
\* and that a name of the program asks for.
RedirectsRight ==
  phase = "running" =>
    \A pkt \in {p \in Packet : p.dir = "send"} : \A path \in Paths :
      LET wanted == {i \in DOMAIN proxies : \E n \in DOMAIN name_to_proxy :
                       name_to_proxy[n] = i /\ <<path, n>> \in InPath}
      IN  IF \E i \in DOMAIN proxies :
               proxies[i].server = [ip |-> pkt.dst_ip, port |-> pkt.dst_port]
          THEN Redirects(pkt, path) = {}
          ELSE Redirects(pkt, path) = {proxies[i].port : i \in wanted}
-------------------------------------------------------------------------------
(* The inductive invariant *)

\* The collected filters are those of the proxies, and no others.
FiltersOfProxies ==
  ToSet(static_filters) =
    {IcmpFilter} \cup UNION {ToSet(PassFilters(proxies[i].server)) : i \in DOMAIN proxies}

\* Once the proxies are started one by one, the driver has them all.
TableComplete == phase \in {"starting", "running"} => table = ToSet(static_filters)

AllListen == phase = "running" => \A i \in DOMAIN proxies : proxies[i].port # 0

IInv == TypeOK /\ FiltersOfProxies /\ TableComplete /\ AllListen
===============================================================================
