------------------------------- MODULE UdpTable -------------------------------
(***************************************************************************)
(* What the UDP flow table promises its two users, the packet loop and the *)
(* proxy's worker: a flow keeps its target until it expires, and a query   *)
(* is answered from the flows alone, with the destination of the one flow  *)
(* that fits.  No index, timer, packet or lookup is mentioned: UdpFlows    *)
(* implements it.                                                          *)
(***************************************************************************)
EXTENDS Packets

CONSTANT ProxyPorts      \* UDP ports the transparent proxies listen on

VARIABLES
  flows,     \* FlowKey -> the port the client sent to and the proxy's
  answers    \* IndexKey -> destinations found; no key while the table is locked

Target == [dst_port : Port, proxy_port : ProxyPorts]

\* The answers that a set of flows determines.
AnswersOf(fs) ==
  [ix \in IndexKey |->
     {[dst_ip |-> k.dst_ip, dst_port |-> fs[k].dst_port] :
        k \in {k \in DOMAIN fs :
                 {k1 \in DOMAIN fs : PeerKey(k1) = ix} = {k}}}]

Locked(as) == as = [ix \in {} |-> ix]

Init ==
  /\ flows = [k \in {} |-> k]
  /\ answers = AnswersOf(flows)

\* A new flow, and never a new target for an old one.
Insert(key, target) ==
  /\ key \notin DOMAIN flows
  /\ flows' = [k \in DOMAIN flows \cup {key} |->
                 IF k = key THEN target ELSE flows[k]]
  /\ answers' = AnswersOf(flows')

\* Some flows expire; the others stay as they are.
Expire(kept) ==
  /\ flows' = [k \in kept |-> flows[k]]
  /\ Locked(answers') \/ answers' = AnswersOf(flows')

\* The table answers again.
Unlock ==
  /\ Locked(answers)
  /\ answers' = AnswersOf(flows)
  /\ UNCHANGED flows

Next ==
  \/ /\ ~ Locked(answers)
     /\ \/ \E key \in FlowKey, target \in Target : Insert(key, target)
        \/ \E kept \in SUBSET DOMAIN flows : Expire(kept)
  \/ Unlock

Spec == Init /\ [][Next]_<<flows, answers>>
===============================================================================
