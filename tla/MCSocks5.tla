------------------------------- MODULE MCSocks5 -------------------------------
(***************************************************************************)
(* Socks5 for TLC: a server with an IPv4 address, or reached as IPv6       *)
(* loopback, whose replies name no address (of either family), an address, *)
(* or a domain.                                                            *)
(***************************************************************************)
EXTENDS Socks5

Zeros(n) == [i \in 1 .. n |-> 0]
Loopback == [Zeros(V6_LEN) EXCEPT ![V6_LEN] = 1]
Host == [i \in 1 .. V4_LEN |-> 10]
MCProxyIps == {Host, Loopback, ToIpv6Mapped(Host)}
MCReplyAddrs ==
  [ip : {Zeros(V4_LEN), Zeros(V6_LEN), Host}, port : {<<4, 56>>}]
MCReplyHosts == {<<7, 7, 7>>}
===============================================================================
