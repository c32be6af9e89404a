------------------------------- MODULE Packets -------------------------------
(***************************************************************************)
(* Packet headers as the router sees them, and the rewriting that sends a  *)
(* packet to a local proxy or back to the client (src/router/packet.rs).   *)
(*                                                                         *)
(* A header is four fields.  Address family, MAC addresses, checksums and  *)
(* payload are abstracted: the code treats IPv4 and IPv6 alike (the proxy  *)
(* stores one dual-stack port in both of its port fields), and nothing the *)
(* router decides depends on the rest.                                     *)
(***************************************************************************)
CONSTANTS IP,     \* addresses
          Port    \* TCP or UDP port numbers (0 is not one of them)

Packet == [src_ip : IP, dst_ip : IP, src_port : Port, dst_port : Port]

\* (dst_ip, src_ip, src_port): the key of both connection tables.  The
\* destination port is not part of it.
FlowKey == [dst_ip : IP, src_ip : IP, src_port : Port]

\* (dst_ip, src_port): what a datagram still shows once it reached the proxy.
IndexKey == [dst_ip : IP, src_port : Port]

PeerKey(key) == [dst_ip |-> key.dst_ip, src_port |-> key.src_port]

\* The key under which a packet sent by a client is looked up.
FlowKeyOf(pkt) ==
  [dst_ip |-> pkt.dst_ip, src_ip |-> pkt.src_ip, src_port |-> pkt.src_port]

\* Mutant: the reply is looked up by its own source port, as client packets are.
ReplyKeyBySource(pkt) ==
  [dst_ip |-> pkt.dst_ip, src_ip |-> pkt.src_ip, src_port |-> pkt.src_port]

\* The key under which a packet sent by a local proxy is looked up: its
\* destination port is the client's source port.
ReplyKeyOf(pkt) ==
  [dst_ip |-> pkt.dst_ip, src_ip |-> pkt.src_ip, src_port |-> pkt.dst_port]

\* apply_rewrite: swap the addresses and replace one port, the destination
\* port of a packet to the proxy, the source port of a packet from it.
Rewrite(pkt, rewrite) ==
  LET swapped == [pkt EXCEPT !.src_ip = pkt.dst_ip, !.dst_ip = pkt.src_ip]
  IN  IF rewrite.to = "proxy"
      THEN [swapped EXCEPT !.dst_port = rewrite.port]
      ELSE [swapped EXCEPT !.src_port = rewrite.port]

ToProxy(port)   == [to |-> "proxy", port |-> port]
FromProxy(port) == [to |-> "client", port |-> port]

\* What the receiver of pkt sends back: both ends exchanged.
Answer(pkt) ==
  [src_ip |-> pkt.dst_ip, dst_ip |-> pkt.src_ip,
   src_port |-> pkt.dst_port, dst_port |-> pkt.src_port]
==============================================================================
