----------------------------- MODULE MCTcpFlows -----------------------------
(***************************************************************************)
(* TcpFlows for TLC.  c1, c2 and c3 use the same local port to the same    *)
(* host, one after the other: c1 and c3 dial one service, c2 another, so   *)
(* that a mapping left behind is met by a connection it fits and by one it *)
(* does not.  c4 uses the same port to another host, through another       *)
(* proxy.                                                                  *)
(***************************************************************************)
EXTENDS TcpFlows, TLC

CONSTANTS c1, c2, c3, c4, local, host1, host2, client_port, service1, service2,
          proxy1, proxy2

MCConns == {c1, c2, c3, c4}
MCIP == {local, host1, host2}
MCPort == {client_port, service1, service2, proxy1, proxy2}

To(host, service) ==
  [src_ip |-> local, dst_ip |-> host, src_port |-> client_port, dst_port |-> service]

MCHeader ==
  c1 :> To(host1, service1) @@ c2 :> To(host1, service2) @@
  c3 :> To(host1, service1) @@ c4 :> To(host2, service1)

MCOwner == c1 :> proxy1 @@ c2 :> proxy1 @@ c3 :> proxy1 @@ c4 :> proxy2

\* c1 and c3 differ in nothing.
Symmetry == Permutations({c1, c3})
=============================================================================
