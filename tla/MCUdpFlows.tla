----------------------------- MODULE MCUdpFlows -----------------------------
(***************************************************************************)
(* UdpFlows for TLC: two local addresses (two adapters, or two addresses   *)
(* of one), one remote host with two services, one client port, so that    *)
(* two flows share an index key and a client can change its destination    *)
(* port.                                                                   *)
(***************************************************************************)
EXTENDS UdpFlows, TLC

CONSTANTS local1, local2, remote, client_port, service1, service2, proxy_port

MCIP == {local1, local2, remote}
MCPort == {client_port, service1, service2, proxy_port}
MCLocal == {local1, local2}
MCProxyPorts == {proxy_port}
MCSent ==
  [src_ip : {local1, local2}, dst_ip : {remote}, src_port : {client_port},
   dst_port : {service1, service2}]

\* Nothing distinguishes the two local addresses, nor the two services.
Symmetry == Permutations({local1, local2}) \cup Permutations({service1, service2})
=============================================================================
