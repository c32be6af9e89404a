---------------------------- MODULE Socks5Datagrams ----------------------------
(***************************************************************************)
(* The datagrams of a SOCKS5 UDP association, as send_to writes and        *)
(* recv_datagram reads them.  The relay may deliver any octets: the        *)
(* datagram under study grows by any octet at its end.                     *)
(***************************************************************************)
EXTENDS Socks5Codec

CONSTANTS Alphabet,      \* octets that occur
          Destinations,  \* addresses send_to is given
          MaxLen         \* bound: octets of a datagram

ASSUME DatagramsOK ==
  /\ Alphabet \subseteq Byte
  /\ Destinations \subseteq SocketAddr
  /\ MaxLen \in Nat

VARIABLE datagram

DatagramInit == datagram = << >>

\* Octets behind a header that is refused make no difference, and are left out.
Grow(b) ==
  /\ Len(datagram) < MaxLen
  /\ \A i \in DOMAIN datagram : i <= 3 => datagram[i] = 0
  /\ datagram' = Append(datagram, b)

DatagramNext == \E b \in Alphabet : Grow(b)

DatagramSpec == DatagramInit /\ [][DatagramNext]_datagram
-------------------------------------------------------------------------------
(* Properties *)

\* parse_udp_response takes apart exactly what a header puts together: whatever
\* it accepts is the header it reports followed by the payload, and it never
\* reads beyond the end, however the datagram is cut short.
ParserSound ==
  \A r \in ParseUdpResponse(datagram) :
    LET field == IF r.atyp = ATYP_DOMAIN THEN EncodeDomain(r.host, r.port)
                 ELSE EncodeAddr([ip |-> r.host, port |-> r.port])
    IN  /\ datagram = <<0, 0, 0>> \o field \o Payload(datagram, r.offset)
        /\ Len(r.port) = 2

\* The other way round: of a datagram that BuildUdpRequest makes, to an address
\* that may have been mapped for an IPv6 proxy, the parser finds the payload and
\* the address, and the mapping can be undone.
ParserComplete ==
  \A dst \in Destinations : \A prefer_mapped \in BOOLEAN :
    LET addr == MaybeMapIpv4(dst, prefer_mapped)
        built == BuildUdpRequest(addr, datagram)
    IN  \E r \in ParseUdpResponse(built) :
          /\ [ip |-> r.host, port |-> r.port] = addr
          /\ Payload(built, r.offset) = datagram
          /\ addr.ip = dst.ip \/ ToIpv4(addr.ip) = {dst.ip}
===============================================================================
