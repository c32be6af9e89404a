------------------------------ MODULE Socks5Codec ------------------------------
(***************************************************************************)
(* How src/proxy/socks5.rs writes and reads addresses: the address field   *)
(* of requests, the header of UDP datagrams, the mapping of IPv4 addresses *)
(* for IPv6 proxies and the choice of the UDP relay.                       *)
(*                                                                         *)
(* An address is its octets, which also tell its family, and the two       *)
(* octets of its port.                                                     *)
(***************************************************************************)
EXTENDS Naturals, Sequences

CONSTANTS V4_LEN, V6_LEN   \* octets of an address: 4 and 16

ASSUME LengthsOK ==
  /\ V4_LEN \in Nat \ {0}
  /\ V6_LEN \in Nat /\ V6_LEN >= V4_LEN + 2

Byte == 0 .. 255
IsV4(ip) == Len(ip) = V4_LEN
Ips == {ip \in Seq(Byte) : Len(ip) \in {V4_LEN, V6_LEN}}
Ports == {port \in Seq(Byte) : Len(port) = 2}
SocketAddr == [ip : Ips, port : Ports]

\* Address types on the wire.
ATYP_V4 == 1
ATYP_DOMAIN == 3
ATYP_V6 == 4

EncodeAddr(addr) ==
  <<IF IsV4(addr.ip) THEN ATYP_V4 ELSE ATYP_V6>> \o addr.ip \o addr.port

\* A domain name in the same place; only servers send one.
EncodeDomain(host, port) == <<ATYP_DOMAIN, Len(host)>> \o host \o port

\* Mutant: the fragment octet is forgotten.
BuildUnfragmented(dst, payload) == <<0, 0>> \o EncodeAddr(dst) \o payload

\* Two reserved octets, the fragment number, the address, the payload.
BuildUdpRequest(dst, payload) == <<0, 0, 0>> \o EncodeAddr(dst) \o payload
-------------------------------------------------------------------------------
(* parse_udp_response *)

\* The len octets after the first at of them.  Outside is what the code cannot
\* read: it panics.
Outside == 256
Octets(buf, at, len) ==
  [i \in 1 .. len |-> IF at + i <= Len(buf) THEN buf[at + i] ELSE Outside]

\* Where the host of each type that buf may hold begins, and how long it is.
Hosts(buf) ==
  {[atyp |-> ATYP_V4, at |-> 4, len |-> V4_LEN],
   [atyp |-> ATYP_V6, at |-> 4, len |-> V6_LEN]} \cup
  (IF Len(buf) < 5 THEN {}
   ELSE {[atyp |-> ATYP_DOMAIN, at |-> 5, len |-> buf[5]]})

\* Mutant: the length check forgets the port.
HostsPresentShort(buf) ==
  {h \in Hosts(buf) : h.atyp = buf[4] /\ h.at + h.len <= Len(buf)}

\* The host that the type octet announces, if it and the port are all there.
HostsPresent(buf) ==
  {h \in Hosts(buf) : h.atyp = buf[4] /\ h.at + h.len + 2 <= Len(buf)}

\* What the datagram says and where its payload begins; none for each of the
\* errors.  A domain is then resolved, with or without success.
ParseUdpResponse(buf) ==
  IF Len(buf) < 4 \/ Octets(buf, 0, 3) # <<0, 0, 0>> THEN {}
  ELSE {[atyp |-> h.atyp, host |-> Octets(buf, h.at, h.len),
         port |-> Octets(buf, h.at + h.len, 2), offset |-> h.at + h.len + 2] :
          h \in HostsPresent(buf)}

\* recv_datagram: the rest of the buffer.
Payload(buf, offset) == Octets(buf, offset, Len(buf) - offset)
-------------------------------------------------------------------------------
(* IPv4 in IPv6, and the relay *)

Unspecified(ip) == \A i \in DOMAIN ip : ip[i] = 0

\* IpAddr::to_ipv6_mapped: zeros, two octets 255, the IPv4 address.
ToIpv6Mapped(ip) ==
  [i \in 1 .. V6_LEN |->
     IF i > V6_LEN - V4_LEN THEN ip[i - (V6_LEN - V4_LEN)]
     ELSE IF i > V6_LEN - V4_LEN - 2 THEN 255 ELSE 0]

\* Ipv6Addr::to_ipv4: also of addresses that begin with zeros only, ::1 among
\* them.
ToIpv4(ip) ==
  LET v4 == SubSeq(ip, V6_LEN - V4_LEN + 1, V6_LEN)
      prefix == SubSeq(ip, 1, V6_LEN - V4_LEN)
  IN  {x \in {v4} : Unspecified(prefix)
                    \/ prefix = SubSeq(ToIpv6Mapped(v4), 1, V6_LEN - V4_LEN)}

\* maybe_map_ipv4_to_ipv6_mapped
MaybeMapIpv4(addr, prefer_mapped) ==
  IF prefer_mapped /\ IsV4(addr.ip)
  THEN [addr EXCEPT !.ip = ToIpv6Mapped(addr.ip)] ELSE addr

\* normalize_udp_relay: an unspecified relay is taken to be on the proxy's
\* host, in the family the server named.
NormalizeUdpRelay(relay, proxy_ip) ==
  IF ~ Unspecified(relay.ip) THEN relay
  ELSE IF IsV4(relay.ip)
       THEN IF IsV4(proxy_ip) THEN [relay EXCEPT !.ip = proxy_ip]
            ELSE IF ToIpv4(proxy_ip) = {} THEN relay
                 ELSE [relay EXCEPT !.ip = CHOOSE ip \in ToIpv4(proxy_ip) : TRUE]
       ELSE [relay EXCEPT !.ip = IF IsV4(proxy_ip) THEN ToIpv6Mapped(proxy_ip)
                                 ELSE proxy_ip]
===============================================================================
