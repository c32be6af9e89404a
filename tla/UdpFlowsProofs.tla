--------------------------- MODULE UdpFlowsProofs ---------------------------
(***************************************************************************)
(* Proofs about UdpFlows, for every set of addresses, ports, clients and   *)
(* proxies and every timeout.                                              *)
(***************************************************************************)
EXTENDS UdpFlows, TLAPS

-------------------------------------------------------------------------------
(* The peer index *)

\* An index key that one flow alone maps to names this flow.
LEMMA ExactIndexUnique ==
  ASSUME NEW keys \in SUBSET FlowKey, NEW k \in keys,
         Sharing(keys, PeerKey(k)) = {k}
  PROVE  ExactIndex(keys)[PeerKey(k)] = k
<1> DEFINE ix == PeerKey(k)
<1>1. \A k1 \in keys : Sharing(keys, ix) = {k1} => k1 = k
  OBVIOUS
<1>2. (CHOOSE k1 \in keys : Sharing(keys, ix) = {k1}) = k
  BY <1>1
<1> QED
  BY <1>2 DEF ExactIndex

\* An index key that several flows map to is ambiguous.
LEMMA ExactIndexShared ==
  ASSUME NEW keys \in SUBSET FlowKey, NEW k1 \in keys, NEW k2 \in keys,
         k1 # k2, PeerKey(k1) = PeerKey(k2)
  PROVE  ExactIndex(keys)[PeerKey(k1)] = Ambiguous
<1>1. k1 \in Sharing(keys, PeerKey(k1)) /\ k2 \in Sharing(keys, PeerKey(k1))
  BY DEF Sharing
<1>2. ~ \E k \in keys : Sharing(keys, PeerKey(k1)) = {k}
  BY <1>1
<1> QED
  BY <1>2 DEF ExactIndex

\* insert_peer_index turns the exact index of a set of flows into the exact
\* index of the set with one more flow.
LEMMA InsertPeerIndexExact ==
  ASSUME NEW keys \in SUBSET FlowKey, NEW key \in FlowKey, key \notin keys
  PROVE  InsertPeerIndex(ExactIndex(keys), key) = ExactIndex(keys \cup {key})
<1> DEFINE all == keys \cup {key}
           old == ExactIndex(keys)
           new == InsertPeerIndex(old, key)
           ix0 == PeerKey(key)
<1>0. all \in SUBSET FlowKey /\ keys \subseteq all /\ key \in all
  OBVIOUS
<1>1. DOMAIN old = {PeerKey(k) : k \in keys}
  BY DEF ExactIndex
<1>2. DOMAIN ExactIndex(all) = DOMAIN old \cup {ix0}
  BY DEF ExactIndex
<1>3. DOMAIN new = DOMAIN old \cup {ix0}
  BY DEF InsertPeerIndex, Bind
<1>5. ASSUME NEW ix \in DOMAIN old \cup {ix0}
      PROVE  new[ix] = ExactIndex(all)[ix]
  <2>1. CASE ix # ix0
    <3>1. Sharing(all, ix) = Sharing(keys, ix)
      BY <2>1 DEF Sharing
    <3>2. PICK k \in keys : ix = PeerKey(k)
      BY <1>1, <2>1
    <3>3. new[ix] = old[ix]
      BY <2>1, <3>2, <1>1 DEF InsertPeerIndex, Bind, ExactIndex
    <3>4. CASE Sharing(keys, ix) = {k}
      <4>1. old[PeerKey(k)] = k
        BY <3>2, <3>4, ExactIndexUnique
      <4>2. ExactIndex(all)[PeerKey(k)] = k
        BY <1>0, <3>1, <3>2, <3>4, ExactIndexUnique
      <4> QED
        BY <3>2, <3>3, <4>1, <4>2
    <3>5. CASE Sharing(keys, ix) # {k}
      <4>1. PICK k1 \in keys : k1 # k /\ PeerKey(k1) = ix
        BY <3>2, <3>5 DEF Sharing
      <4>2. old[PeerKey(k)] = Ambiguous
        BY <3>2, <4>1, ExactIndexShared
      <4>3. ExactIndex(all)[PeerKey(k)] = Ambiguous
        BY <1>0, <3>2, <4>1, ExactIndexShared
      <4> QED
        BY <3>2, <3>3, <4>2, <4>3
    <3> QED
      BY <3>4, <3>5
  <2>2. CASE ix = ix0 /\ ix0 \in DOMAIN old
    <3>1. PICK k \in keys : PeerKey(k) = ix0
      BY <1>1, <2>2
    <3>2. ExactIndex(all)[ix0] = Ambiguous
      BY <1>0, <3>1, ExactIndexShared
    <3>3. old[ix0] # key
      <4>1. CASE Sharing(keys, ix0) = {k}
        BY <3>1, <4>1, ExactIndexUnique
      <4>2. CASE Sharing(keys, ix0) # {k}
        <5>1. PICK k1 \in keys : k1 # k /\ PeerKey(k1) = ix0
          BY <3>1, <4>2 DEF Sharing
        <5> QED
          BY <3>1, <5>1, ExactIndexShared, ConstantsOK
      <4> QED
        BY <4>1, <4>2
    <3>4. new[ix0] = Ambiguous
      BY <2>2, <3>3 DEF InsertPeerIndex
    <3> QED
      BY <2>2, <3>2, <3>4
  <2>3. CASE ix = ix0 /\ ix0 \notin DOMAIN old
    <3>1. Sharing(all, ix0) = {key}
      BY <1>1, <2>3 DEF Sharing
    <3>2. ExactIndex(all)[ix0] = key
      BY <1>0, <3>1, ExactIndexUnique
    <3>3. new[ix0] = key
      BY <2>3 DEF InsertPeerIndex, Bind
    <3> QED
      BY <2>3, <3>2, <3>3
  <2> QED
    BY <2>1, <2>2, <2>3
<1> QED
  BY <1>2, <1>3, <1>5 DEF InsertPeerIndex, Bind, ExactIndex
-------------------------------------------------------------------------------
(* Packets *)

\* A packet redirected to a proxy still shows its flow.
LEMMA RedirectedKey ==
  ASSUME NEW pkt \in Packet, NEW port \in Port, NEW orphan \in BOOLEAN
  PROVE  LET g == [pkt |-> Rewrite(pkt, ToProxy(port)),
                   wanted |-> pkt.dst_port, orphan |-> orphan]
         IN  /\ g \in Datagram
             /\ OriginKey(g) = FlowKeyOf(pkt)
             /\ OriginKey(g) \in FlowKey
             /\ g.pkt.dst_port = port
BY DEF Packet, Datagram, Rewrite, ToProxy, OriginKey, FlowKeyOf, FlowKey

\* Round trip through a proxy: the reply to a redirected packet is looked up
\* under the flow of that packet, and with the flow's port restored it is the
\* answer the client expects.
THEOREM RoundTrip ==
  ASSUME NEW pkt \in Packet, NEW port \in Port
  PROVE  LET reply == Answer(Rewrite(pkt, ToProxy(port)))
         IN  /\ ReplyKeyOf(reply) = FlowKeyOf(pkt)
             /\ Rewrite(reply, FromProxy(pkt.dst_port)) = Answer(pkt)
BY DEF Packet, Rewrite, ToProxy, FromProxy, Answer, ReplyKeyOf, FlowKeyOf

LEMMA ArrivingTyped ==
  ASSUME TypeOK PROVE Arriving \subseteq Packet
<1>1. ASSUME NEW s \in sessions, NEW from \in Local
      PROVE  Reply(s, from) \in Packet
  <2>1. s.pkt \in Packet /\ from \in IP
    BY ConstantsOK DEF TypeOK, Datagram
  <2>2. Reply(s, from) =
          [src_ip |-> from, dst_ip |-> s.pkt.src_ip,
           src_port |-> s.pkt.dst_port, dst_port |-> s.pkt.src_port]
    BY DEF Reply, Answer
  <2> QED
    BY <2>1, <2>2 DEF Packet
<1> QED
  BY <1>1, ConstantsOK DEF Arriving

LEMMA InsertTyped ==
  ASSUME TypeOK, NEW key \in FlowKey
  PROVE  LET new == InsertPeerIndex(by_peer, key)
         IN  /\ DOMAIN new \subseteq IndexKey
             /\ new \in [DOMAIN new -> FlowKey \cup {Ambiguous}]
<1>1. PeerKey(key) \in IndexKey
  BY DEF PeerKey, FlowKey, IndexKey
<1> QED
  BY <1>1 DEF TypeOK, InsertPeerIndex, Bind
-------------------------------------------------------------------------------
(* The inductive invariant *)

LEMMA InitIInv == Init => IInv
<1> SUFFICES ASSUME Init PROVE IInv
  OBVIOUS
<1> USE DEF Init
<1>1. TypeOK
  <2>1. 0 \in 0 .. CLEANUP_PERIOD - 1
    BY ConstantsOK
  <2>2. DOMAIN by_flow \subseteq FlowKey /\ by_flow \in [DOMAIN by_flow -> Entry]
    OBVIOUS
  <2>3. /\ DOMAIN by_peer \subseteq IndexKey
        /\ by_peer \in [DOMAIN by_peer -> FlowKey \cup {Ambiguous}]
    OBVIOUS
  <2> QED
    BY <2>1, <2>2, <2>3 DEF TypeOK
<1>2. PeerIndexExact
  BY DEF PeerIndexExact, ExactIndex
<1>3. FlowsWellFormed /\ LookupStillMisses
  BY DEF FlowsWellFormed, LookupStillMisses
<1>4. RedirectedAttached
  BY DEF RedirectedAttached, Redirected
<1> QED
  BY <1>1, <1>2, <1>3, <1>4 DEF IInv

\* A datagram of a known flow.
LEMMA UdpHitIInv ==
  ASSUME IInv, NEW pkt \in Packet, UdpHit(pkt) PROVE IInv'
<1> DEFINE key == FlowKeyOf(pkt)
           port == by_flow[key].proxy_port
           g0 == [pkt |-> Rewrite(pkt, ToProxy(port)),
                  wanted |-> pkt.dst_port, orphan |-> FALSE]
<1>0. /\ key \in DOMAIN by_flow /\ key \in FlowKey /\ port \in Port
      /\ by_flow[key].dst_port = pkt.dst_port
      /\ outgoing' = outgoing \cup {g0}
      /\ DOMAIN by_flow' = DOMAIN by_flow
      /\ \A k \in DOMAIN by_flow :
           by_flow'[k] = IF k = key THEN [by_flow[k] EXCEPT !.idle = 0]
                         ELSE by_flow[k]
      /\ by_flow' = [by_flow EXCEPT ![key].idle = 0]
      /\ in_batch' = TRUE
      /\ UNCHANGED <<by_peer, todo, lookup, cleanup_counter, inbox, sessions>>
  BY DEF IInv, TypeOK, UdpHit, Redirect, Entry, FlowKeyOf, FlowKey
<1>1. /\ g0 \in Datagram /\ OriginKey(g0) = key /\ g0.pkt.dst_port = port
      /\ g0.wanted = pkt.dst_port
  BY <1>0, RedirectedKey
<1>2. 0 \in Idle
  BY ConstantsOK DEF Idle
<1>3. TypeOK'
  <2>1. by_flow' \in [DOMAIN by_flow' -> Entry]
    BY <1>0, <1>2 DEF IInv, TypeOK, Entry
  <2> QED
    BY <1>0, <1>1, <2>1 DEF IInv, TypeOK
<1>4. PeerIndexExact'
  BY <1>0 DEF IInv, PeerIndexExact
<1>5. FlowsWellFormed' /\ LookupStillMisses'
  BY <1>0 DEF IInv, TypeOK, Entry, FlowsWellFormed, LookupStillMisses
<1>6. RedirectedAttached'
  <2> SUFFICES ASSUME NEW g \in Redirected', ~ g.orphan PROVE Attached(g)'
    BY DEF RedirectedAttached
  <2>1. CASE g = g0
    BY <1>0, <1>1, <2>1 DEF IInv, TypeOK, Entry, Attached
  <2>2. CASE g \in Redirected
    BY <1>0, <2>2 DEF IInv, TypeOK, Entry, RedirectedAttached, Attached
  <2> QED
    BY <1>0, <2>1, <2>2 DEF Redirected
<1> QED
  BY <1>3, <1>4, <1>5, <1>6 DEF IInv

\* The steps that leave the table alone and add nothing to Redirected.
LEMMA QuietIInv ==
  ASSUME IInv, UNCHANGED <<by_flow, by_peer, todo>>, Redirected' \subseteq Redirected,
         \A job \in lookup' : job \in lookup \/ FlowKeyOf(job.pkt) \notin DOMAIN by_flow,
         TypeOK'
  PROVE  IInv'
<1>1. PeerIndexExact' /\ FlowsWellFormed' /\ LookupStillMisses'
  BY DEF IInv, PeerIndexExact, FlowsWellFormed, LookupStillMisses
<1>2. RedirectedAttached'
  BY DEF IInv, RedirectedAttached, Attached
<1> QED
  BY <1>1, <1>2 DEF IInv

\* The insertion after the process lookup.
LEMMA LookupProxiedIInv ==
  ASSUME IInv, NEW job \in lookup, NEW port \in ProxyPorts,
         LookupProxied(job, port)
  PROVE  IInv'
<1> DEFINE pkt == job.pkt
           key == FlowKeyOf(pkt)
           entry == [dst_ip |-> pkt.dst_ip, dst_port |-> pkt.dst_port,
                     proxy_port |-> port, idle |-> job.idle]
           g0 == [pkt |-> Rewrite(pkt, ToProxy(port)),
                  wanted |-> pkt.dst_port, orphan |-> FALSE]
<1>0. /\ pkt \in Packet /\ key \in FlowKey /\ port \in Port /\ todo = {}
      /\ key \notin DOMAIN by_flow /\ entry \in Entry
  BY ConstantsOK
  DEF IInv, TypeOK, LookupStillMisses, Job, Packet, FlowKeyOf, FlowKey, Entry
<1>1. /\ DOMAIN by_flow' = DOMAIN by_flow \cup {key}
      /\ by_flow'[key] = entry
      /\ \A k \in DOMAIN by_flow : by_flow'[k] = by_flow[k]
      /\ by_flow' = Bind(by_flow, key, entry)
      /\ by_peer' = InsertPeerIndex(by_peer, key)
      /\ outgoing' = outgoing \cup {g0}
      /\ lookup' = {} /\ in_batch' = TRUE
      /\ UNCHANGED <<todo, cleanup_counter, inbox, sessions>>
  BY <1>0 DEF LookupProxied, InsertFlow, Bind, Redirect
<1>2. /\ g0 \in Datagram /\ OriginKey(g0) = key /\ g0.pkt.dst_port = port
      /\ g0.wanted = pkt.dst_port
  BY <1>0, RedirectedKey
<1>3. TypeOK'
  <2>1. by_flow' \in [DOMAIN by_flow' -> Entry]
    BY <1>0, <1>1 DEF IInv, TypeOK, Bind
  <2>2. /\ DOMAIN by_peer' \subseteq IndexKey
        /\ by_peer' \in [DOMAIN by_peer' -> FlowKey \cup {Ambiguous}]
    BY <1>0, <1>1, InsertTyped DEF IInv
  <2> QED
    BY <1>0, <1>1, <1>2, <2>1, <2>2 DEF IInv, TypeOK
<1>4. PeerIndexExact'
  <2>1. DOMAIN by_flow \in SUBSET FlowKey
    BY DEF IInv, TypeOK
  <2>2. by_peer = ExactIndex(DOMAIN by_flow)
    BY <1>0 DEF IInv, PeerIndexExact
  <2>3. DOMAIN by_flow' \ todo' = DOMAIN by_flow \cup {key}
    BY <1>0, <1>1
  <2> QED
    BY <1>0, <1>1, <2>1, <2>2, <2>3, InsertPeerIndexExact DEF PeerIndexExact
<1>5. FlowsWellFormed' /\ LookupStillMisses'
  BY <1>0, <1>1 DEF IInv, FlowsWellFormed, LookupStillMisses, FlowKeyOf
<1>6. RedirectedAttached'
  <2> SUFFICES ASSUME NEW g \in Redirected', ~ g.orphan PROVE Attached(g)'
    BY DEF RedirectedAttached
  <2>1. CASE g = g0
    BY <1>1, <1>2, <2>1 DEF Attached
  <2>2. CASE g \in Redirected
    BY <1>1, <2>2 DEF IInv, RedirectedAttached, Attached
  <2> QED
    BY <1>1, <2>1, <2>2 DEF Redirected
<1> QED
  BY <1>3, <1>4, <1>5, <1>6 DEF IInv

\* A cleanup restricts the table to the flows kept, and orphans what it must.
LEMMA CleanupIInv ==
  ASSUME IInv, LoopFree, NEW delivered \in SUBSET outgoing,
         Cleanup(inbox \cup delivered), cleanup_counter' = 0,
         in_batch' = FALSE, outgoing' = {}, UNCHANGED lookup
  PROVE  IInv'
<1>0. /\ Kept \subseteq DOMAIN by_flow
      /\ DOMAIN by_flow' = Kept /\ todo' = Kept /\ lookup' = {}
      /\ \A k \in Kept : by_flow'[k] = by_flow[k]
      /\ by_flow' = [k \in Kept |-> by_flow[k]]
      /\ by_peer' = [ix \in {} |-> ix]
  BY DEF Cleanup, Kept, LoopFree
<1>1. ASSUME NEW g \in Redirected'
      PROVE  /\ g \in Datagram
             /\ \E g1 \in Redirected :
                  /\ g.pkt = g1.pkt /\ g.wanted = g1.wanted
                  /\ OriginKey(g) = OriginKey(g1)
                  /\ ~ g.orphan => ~ g1.orphan /\ OriginKey(g1) \in Kept
  <2>1. PICK g1 \in Redirected :
          g = [g1 EXCEPT !.orphan = g1.orphan \/ OriginKey(g1) \notin Kept]
    BY DEF Cleanup, MarkOrphans, Redirected
  <2>2. g1 \in Datagram
    BY DEF IInv, TypeOK, Redirected
  <2> QED
    BY <2>1, <2>2 DEF Datagram, OriginKey
<1>2. TypeOK'
  <2>1. /\ DOMAIN by_flow' \subseteq FlowKey
        /\ by_flow' \in [DOMAIN by_flow' -> Entry]
    BY <1>0 DEF IInv, TypeOK
  <2>2. 0 \in 0 .. CLEANUP_PERIOD - 1
    BY ConstantsOK
  <2>3. /\ DOMAIN by_peer' \subseteq IndexKey
        /\ by_peer' \in [DOMAIN by_peer' -> FlowKey \cup {Ambiguous}]
    BY <1>0
  <2>4. outgoing' \subseteq Datagram /\ inbox' \subseteq Datagram
        /\ sessions' \subseteq Datagram
    BY <1>1 DEF Redirected
  <2> QED
    BY <1>0, <2>1, <2>2, <2>3, <2>4 DEF TypeOK
<1>3. PeerIndexExact'
  <2>1. DOMAIN by_flow' \ todo' = {}
    BY <1>0
  <2>2. by_peer' = ExactIndex({})
    BY <1>0 DEF ExactIndex
  <2> QED
    BY <2>1, <2>2 DEF PeerIndexExact
<1>4. FlowsWellFormed' /\ LookupStillMisses'
  BY <1>0 DEF IInv, FlowsWellFormed, LookupStillMisses
<1>5. RedirectedAttached'
  BY <1>0, <1>1 DEF IInv, RedirectedAttached, Attached
<1> QED
  BY <1>2, <1>3, <1>4, <1>5 DEF IInv

LEMMA EndBatchIInv ==
  ASSUME IInv, NEW delivered \in SUBSET outgoing, EndBatch(delivered)
  PROVE  IInv'
<1>1. CASE cleanup_counter + 1 >= CLEANUP_PERIOD
  BY <1>1, CleanupIInv DEF EndBatch
<1>2. CASE ~ (cleanup_counter + 1 >= CLEANUP_PERIOD)
  <2>0. cleanup_counter' = cleanup_counter + 1
    BY <1>2 DEF EndBatch
  <2>1. TypeOK'
    <3>1. cleanup_counter' \in 0 .. CLEANUP_PERIOD - 1
      BY <1>2, <2>0, ConstantsOK DEF IInv, TypeOK
    <3>2. /\ inbox' = inbox \cup delivered /\ outgoing' = {} /\ in_batch' = FALSE
          /\ UNCHANGED <<by_flow, by_peer, todo, lookup, sessions>>
      BY <1>2 DEF EndBatch, table
    <3> QED
      BY <3>1, <3>2 DEF IInv, TypeOK
  <2>2. Redirected' \subseteq Redirected /\ UNCHANGED <<by_flow, by_peer, todo, lookup>>
    BY <1>2 DEF EndBatch, table, Redirected
  <2> QED
    BY <2>1, <2>2, QuietIInv
<1> QED
  BY <1>1, <1>2

LEMMA RebuildStepIInv ==
  ASSUME IInv, NEW key \in todo, RebuildStep(key)
  PROVE  IInv'
<1>0. key \in FlowKey /\ key \in DOMAIN by_flow
  BY DEF IInv, TypeOK
<1>1. TypeOK'
  <2>1. /\ DOMAIN by_peer' \subseteq IndexKey
        /\ by_peer' \in [DOMAIN by_peer' -> FlowKey \cup {Ambiguous}]
    BY <1>0, InsertTyped DEF IInv, RebuildStep
  <2> QED
    BY <2>1 DEF IInv, TypeOK, RebuildStep
<1>2. PeerIndexExact'
  <2> DEFINE visited == DOMAIN by_flow \ todo
  <2>1. visited \in SUBSET FlowKey /\ key \notin visited
    BY DEF IInv, TypeOK
  <2>2. DOMAIN by_flow' \ todo' = visited \cup {key}
    BY <1>0 DEF RebuildStep
  <2>3. by_peer' = InsertPeerIndex(ExactIndex(visited), key)
    BY DEF IInv, PeerIndexExact, RebuildStep
  <2> QED
    BY <1>0, <2>1, <2>2, <2>3, InsertPeerIndexExact DEF PeerIndexExact
<1>3. FlowsWellFormed' /\ LookupStillMisses' /\ RedirectedAttached'
  BY DEF IInv, RebuildStep, FlowsWellFormed, LookupStillMisses,
         RedirectedAttached, Redirected, Attached
<1> QED
  BY <1>1, <1>2, <1>3 DEF IInv

LEMMA TickIInv ==
  ASSUME IInv, Tick PROVE IInv'
<1>0. \A i \in Idle : Older(i) \in Idle
  BY ConstantsOK DEF Idle, Older
<1>1. /\ DOMAIN by_flow' = DOMAIN by_flow
      /\ \A k \in DOMAIN by_flow :
           /\ by_flow'[k].dst_ip = by_flow[k].dst_ip
           /\ by_flow'[k].dst_port = by_flow[k].dst_port
           /\ by_flow'[k].proxy_port = by_flow[k].proxy_port
           /\ by_flow'[k] \in Entry
      /\ by_flow' \in [DOMAIN by_flow -> Entry]
  BY <1>0 DEF IInv, TypeOK, Tick, Entry
<1>2. \A job \in lookup' : job \in Job /\ \E j \in lookup : job.pkt = j.pkt
  BY <1>0 DEF IInv, TypeOK, Tick, Job
<1>3. TypeOK'
  <2>1. lookup' # {} => lookup # {}
    BY <1>2
  <2> QED
    BY <1>1, <1>2, <2>1 DEF IInv, TypeOK, Tick
<1>4. PeerIndexExact'
  BY <1>1 DEF IInv, PeerIndexExact, Tick
<1>5. FlowsWellFormed' /\ LookupStillMisses'
  BY <1>1, <1>2 DEF IInv, FlowsWellFormed, LookupStillMisses
<1>6. RedirectedAttached'
  BY <1>1 DEF IInv, RedirectedAttached, Redirected, Attached, Tick
<1> QED
  BY <1>3, <1>4, <1>5, <1>6 DEF IInv

\* The step of IInv.
LEMMA NextIInv == IInv /\ [Next]_vars => IInv'
<1> SUFFICES ASSUME IInv, [Next]_vars PROVE IInv'
  OBVIOUS
<1>1. ASSUME NEW pkt \in Arriving, UdpHit(pkt) PROVE IInv'
  BY <1>1, ArrivingTyped, UdpHitIInv DEF IInv
<1>2. ASSUME NEW pkt \in Arriving, UdpOtherPort(pkt) PROVE IInv'
  <2>1. TypeOK' /\ Redirected' = Redirected /\ UNCHANGED <<by_flow, by_peer, todo, lookup>>
    BY <1>2 DEF IInv, TypeOK, UdpOtherPort, table, Redirected
  <2> QED
    BY <2>1, QuietIInv
<1>3. ASSUME NEW pkt \in Arriving, UdpMiss(pkt) PROVE IInv'
  <2>1. pkt \in Packet /\ 0 \in Idle
    BY ArrivingTyped, ConstantsOK DEF IInv, Idle
  <2>2. TypeOK'
    BY <1>3, <2>1 DEF IInv, TypeOK, UdpMiss, table, Job, LoopFree
  <2>3. Redirected' = Redirected /\ UNCHANGED <<by_flow, by_peer, todo>>
    BY <1>3 DEF UdpMiss, table, Redirected
  <2>4. \A job \in lookup' : FlowKeyOf(job.pkt) \notin DOMAIN by_flow
    BY <1>3 DEF UdpMiss
  <2> QED
    BY <2>2, <2>3, <2>4, QuietIInv
<1>4. ASSUME NEW job \in lookup, NEW port \in ProxyPorts,
             LookupProxied(job, port)
      PROVE IInv'
  BY <1>4, LookupProxiedIInv
<1>5. ASSUME NEW job \in lookup, LookupUnproxied(job) PROVE IInv'
  <2>1. /\ TypeOK' /\ Redirected' = Redirected /\ lookup' = {}
        /\ UNCHANGED <<by_flow, by_peer, todo>>
    BY <1>5 DEF IInv, TypeOK, LookupUnproxied, table, Redirected
  <2> QED
    BY <2>1, QuietIInv
<1>6. ASSUME NEW delivered \in SUBSET outgoing, EndBatch(delivered) PROVE IInv'
  BY <1>6, EndBatchIInv
<1>7. CASE Reopen
  <2>1. /\ TypeOK' /\ Redirected' = Redirected
        /\ UNCHANGED <<by_flow, by_peer, todo, lookup>>
    BY <1>7, ConstantsOK DEF IInv, TypeOK, Reopen, table, Redirected
  <2> QED
    BY <2>1, QuietIInv
<1>8. ASSUME NEW key \in todo, RebuildStep(key) PROVE IInv'
  BY <1>8, RebuildStepIInv
<1>9. ASSUME NEW g \in inbox, Resolve(g) PROVE IInv'
  <2>1. /\ TypeOK' /\ Redirected' \subseteq Redirected
        /\ UNCHANGED <<by_flow, by_peer, todo, lookup>>
    BY <1>9 DEF IInv, TypeOK, Resolve, table, Redirected
  <2> QED
    BY <2>1, QuietIInv
<1>10. ASSUME NEW s \in sessions, SessionEnd(s) PROVE IInv'
  <2>1. /\ TypeOK' /\ Redirected' \subseteq Redirected
        /\ UNCHANGED <<by_flow, by_peer, todo, lookup>>
    BY <1>10 DEF IInv, TypeOK, SessionEnd, table, Redirected
  <2> QED
    BY <2>1, QuietIInv
<1>11. CASE Tick
  BY <1>11, TickIInv
<1>12. CASE UNCHANGED vars
  <2>1. /\ TypeOK' /\ Redirected' = Redirected
        /\ UNCHANGED <<by_flow, by_peer, todo, lookup>>
    BY <1>12 DEF IInv, TypeOK, vars, Redirected
  <2> QED
    BY <2>1, QuietIInv
<1> QED
  BY <1>1, <1>2, <1>3, <1>4, <1>5, <1>6, <1>7, <1>8, <1>9, <1>10, <1>11, <1>12
  DEF Next

\* IInv holds in every reachable state.
THEOREM Invariance == Spec => []IInv
<1>1. Init => IInv
  BY InitIInv
<1>2. IInv /\ [Next]_vars => IInv'
  BY NextIInv
<1> QED
  BY <1>1, <1>2, PTL DEF Spec
-------------------------------------------------------------------------------
(* The properties *)

\* Every state is well typed, the cleanup counter is below its period, and the
\* index is never rebuilt while a packet is suspended in the lookup.
THEOREM TypeCorrect == Spec => []TypeOK
<1>1. IInv => TypeOK
  BY DEF IInv
<1> QED
  BY <1>1, Invariance, PTL

\* insert, retain_active and rebuild_peer_index keep the peer index exact.
THEOREM IndexCorrect == Spec => []PeerIndexExact
<1>1. IInv => PeerIndexExact
  BY DEF IInv
<1> QED
  BY <1>1, Invariance, PTL

\* What query_udp finds for a queued datagram.
LEMMA IInvQuery == IInv => QueryFaithful
<1> SUFFICES ASSUME IInv, todo = {}, NEW g \in inbox
             PROVE  LET found == QueryUdp(g.pkt.src_ip, g.pkt.src_port, Unspecified)
                        wanted == [dst_ip |-> g.pkt.src_ip, dst_port |-> g.wanted]
                        key == OriginKey(g)
                    IN  /\ \A d \in found : d.dst_ip = g.pkt.src_ip
                        /\ ~ g.orphan =>
                             \/ found = {wanted}
                             \/ found = {} /\ \E k \in DOMAIN by_flow \ {key} :
                                                PeerKey(k) = PeerKey(key)
  BY DEF QueryFaithful
<1> DEFINE found == QueryUdp(g.pkt.src_ip, g.pkt.src_port, Unspecified)
           wanted == [dst_ip |-> g.pkt.src_ip, dst_port |-> g.wanted]
           key == OriginKey(g)
           ix == [dst_ip |-> g.pkt.src_ip, src_port |-> g.pkt.src_port]
           flows == DOMAIN by_flow
<1>1. flows \in SUBSET FlowKey
  BY DEF IInv, TypeOK
<1>2. by_peer = ExactIndex(flows)
  BY DEF IInv, PeerIndexExact
<1>3. DOMAIN by_peer = {PeerKey(k) : k \in flows}
  BY <1>2 DEF ExactIndex
<1>4. found = {Destination(by_flow[k]) :
                 k \in ({by_peer[i] : i \in DOMAIN by_peer \cap {ix}} \ {Ambiguous})
                       \cap flows}
  BY DEF QueryUdp
<1>5. PeerKey(key) = ix
  BY DEF OriginKey, PeerKey
<1>6. ASSUME NEW k \in flows, PeerKey(k) = ix
      PROVE  by_peer[ix] = IF Sharing(flows, ix) = {k} THEN k ELSE Ambiguous
  <2>1. CASE Sharing(flows, ix) = {k}
    BY <1>1, <1>2, <1>6, <2>1, ExactIndexUnique
  <2>2. CASE Sharing(flows, ix) # {k}
    <3>1. PICK k1 \in flows : k1 # k /\ PeerKey(k1) = ix
      BY <1>6, <2>2 DEF Sharing
    <3> QED
      BY <1>1, <1>2, <1>6, <2>2, <3>1, ExactIndexShared
  <2> QED
    BY <2>1, <2>2
<1>7. \A d \in found : d.dst_ip = g.pkt.src_ip
  <2> SUFFICES ASSUME NEW d \in found PROVE d.dst_ip = g.pkt.src_ip
    OBVIOUS
  <2>1. ix \in DOMAIN by_peer /\ by_peer[ix] \in flows
        /\ by_peer[ix] # Ambiguous /\ d = Destination(by_flow[by_peer[ix]])
    BY <1>4
  <2>2. PICK k \in flows : PeerKey(k) = ix
    BY <1>3, <2>1
  <2>3. by_peer[ix] = k
    BY <1>6, <2>1, <2>2
  <2>4. by_flow[k].dst_ip = g.pkt.src_ip
    BY <2>2 DEF IInv, FlowsWellFormed, PeerKey
  <2> QED
    BY <2>1, <2>3, <2>4 DEF Destination
<1>8. ASSUME ~ g.orphan
      PROVE  \/ found = {wanted}
             \/ found = {} /\ \E k \in flows \ {key} : PeerKey(k) = PeerKey(key)
  <2>1. key \in flows /\ by_flow[key].dst_port = g.wanted
    BY <1>8 DEF IInv, RedirectedAttached, Redirected, Attached
  <2>2. by_flow[key].dst_ip = g.pkt.src_ip
    BY <2>1 DEF IInv, FlowsWellFormed, OriginKey
  <2>3. ix \in DOMAIN by_peer
    BY <1>3, <1>5, <2>1
  <2>4. CASE Sharing(flows, ix) = {key}
    <3>1. by_peer[ix] = key /\ key # Ambiguous
      BY <1>1, <1>5, <1>6, <2>1, <2>4, ConstantsOK
    <3> QED
      BY <1>4, <2>1, <2>2, <2>3, <3>1 DEF Destination
  <2>5. CASE Sharing(flows, ix) # {key}
    <3>1. by_peer[ix] = Ambiguous
      BY <1>5, <1>6, <2>1, <2>5
    <3>2. found = {}
      BY <1>4, <3>1
    <3>3. PICK k \in flows : k # key /\ PeerKey(k) = ix
      BY <1>5, <2>1, <2>5 DEF Sharing
    <3> QED
      BY <1>5, <3>2, <3>3
  <2> QED
    BY <2>4, <2>5
<1> QED
  BY <1>7, <1>8

\* However late the proxy asks, a datagram goes to the host, and while its flow
\* lives to the port, that the client named, or nowhere.
THEOREM QueryCorrect == Spec => []QueryFaithful
BY IInvQuery, Invariance, PTL

LEMMA IInvReply == IInv => ReplyFaithful
<1> SUFFICES ASSUME IInv, NEW s \in sessions, ~ s.orphan, NEW from \in Local
             PROVE  LET found == FromProxyRewrite(Reply(s, from))
                    IN  IF from = s.pkt.dst_ip
                        THEN found = {Answered(s, from, s.wanted)}
                        ELSE \A p \in found :
                               \E k \in Namesakes(s) \ {OriginKey(s)} :
                                 p = Answered(s, k.src_ip, by_flow[k].dst_port)
  BY DEF ReplyFaithful
<1> DEFINE reply == Reply(s, from)
           key == OriginKey(s)
           other == ReplyKeyOf(reply)
<1>1. s.pkt \in Packet /\ from \in IP
  BY ConstantsOK DEF IInv, TypeOK, Datagram
<1>2. /\ key \in DOMAIN by_flow
      /\ by_flow[key].dst_port = s.wanted
      /\ by_flow[key].proxy_port = s.pkt.dst_port
      /\ by_flow[key].proxy_port \in ProxyPorts
  BY DEF IInv, RedirectedAttached, Redirected, Attached, FlowsWellFormed
<1>3. /\ reply = [src_ip |-> from, dst_ip |-> s.pkt.src_ip,
                  src_port |-> s.pkt.dst_port, dst_port |-> s.pkt.src_port]
      /\ reply.src_port \in ProxyPorts
  BY <1>1, <1>2 DEF Reply, Answer, Packet
<1>4. other = [dst_ip |-> s.pkt.src_ip, src_ip |-> from,
               src_port |-> s.pkt.src_port]
  BY <1>3 DEF ReplyKeyOf
<1>5. FromProxyRewrite(reply) =
        {Rewrite(reply, FromProxy(by_flow[k].dst_port)) :
           k \in {other} \cap DOMAIN by_flow}
  BY <1>3 DEF FromProxyRewrite
<1>6. ASSUME NEW port PROVE Rewrite(reply, FromProxy(port)) = Answered(s, from, port)
  <2> HIDE DEF reply
  <2> QED
    BY <1>3 DEF Rewrite, FromProxy, Answered
<1> HIDE DEF reply
<1>7. ASSUME from = s.pkt.dst_ip
      PROVE  FromProxyRewrite(reply) = {Answered(s, from, s.wanted)}
  <2>1. other = key
    BY <1>4, <1>7 DEF OriginKey
  <2> QED
    BY <1>2, <1>5, <1>6, <2>1
<1>8. ASSUME from # s.pkt.dst_ip, NEW p \in FromProxyRewrite(reply)
      PROVE  \E k \in Namesakes(s) \ {key} :
               p = Answered(s, k.src_ip, by_flow[k].dst_port)
  <2>1. other \in DOMAIN by_flow /\ p = Answered(s, from, by_flow[other].dst_port)
    BY <1>5, <1>6, <1>8
  <2>2. other.src_ip = from
    BY <1>4
  <2>3. other \in Namesakes(s) /\ other # key
    BY <1>4, <1>8, <2>1 DEF Namesakes, Sharing, PeerKey, OriginKey
  <2> QED
    BY <2>1, <2>2, <2>3
<1> QED
  BY <1>7, <1>8 DEF reply

\* While its flow lives, a reply that leaves from the client's address reaches
\* the client's socket from the very address and port the client sent to; from
\* another local address it is an answer of a second flow of that peer or is
\* not rewritten at all.
THEOREM ReplyCorrect == Spec => []ReplyFaithful
BY IInvReply, Invariance, PTL

\* No step re-targets a flow that stays in the table.
THEOREM FlowsStable == Spec => FlowStable
<1> DEFINE Stable == \A k \in DOMAIN by_flow \cap DOMAIN by_flow' :
                       /\ Destination(by_flow'[k]) = Destination(by_flow[k])
                       /\ by_flow'[k].proxy_port = by_flow[k].proxy_port
<1>1. IInv /\ [Next]_vars => [Stable]_vars
  <2> SUFFICES ASSUME IInv, Next PROVE Stable
    BY DEF vars
  <2>1. ASSUME NEW pkt \in Arriving, UdpHit(pkt) PROVE Stable
    BY <2>1 DEF IInv, TypeOK, Entry, UdpHit, Destination
  <2>2. ASSUME NEW job \in lookup, NEW port \in ProxyPorts,
               LookupProxied(job, port)
        PROVE Stable
    BY <2>2 DEF IInv, LookupStillMisses, LookupProxied, InsertFlow, Bind
  <2>3. ASSUME NEW delivered \in SUBSET outgoing, EndBatch(delivered)
        PROVE Stable
    BY <2>3 DEF EndBatch, Cleanup, Kept, table
  <2>4. CASE Tick
    BY <2>4 DEF IInv, TypeOK, Entry, Tick, Destination
  <2>5. CASE UNCHANGED by_flow
    BY <2>5
  <2> QED
    BY <2>1, <2>2, <2>3, <2>4, <2>5
    DEF Next, UdpOtherPort, UdpMiss, LookupUnproxied, Reopen, RebuildStep,
        Resolve, SessionEnd, table
<1> QED
  BY <1>1, Invariance, PTL DEF Spec, FlowStable
-------------------------------------------------------------------------------
(* Refinement: UdpFlows implements UdpTable *)

\* When no rebuild runs, query_udp answers from the flows alone.
LEMMA AnswersMatch == IInv /\ todo = {} => Answers = Table!AnswersOf(Targets)
<1> SUFFICES ASSUME IInv, todo = {} PROVE Answers = Table!AnswersOf(Targets)
  OBVIOUS
<1> DEFINE flows == DOMAIN by_flow
           Found(ix) == QueryUdp(ix.dst_ip, ix.src_port, Unspecified)
           Promised(ix) ==
             {[dst_ip |-> k.dst_ip, dst_port |-> Targets[k].dst_port] :
                k \in {k \in flows : Sharing(flows, ix) = {k}}}
<1>1. flows \in SUBSET FlowKey /\ DOMAIN Targets = flows
      /\ \A k \in flows : Targets[k].dst_port = by_flow[k].dst_port
  BY DEF IInv, TypeOK, Targets
<1>2. by_peer = ExactIndex(flows)
  BY DEF IInv, PeerIndexExact
<1>3. DOMAIN by_peer = {PeerKey(k) : k \in flows}
  BY <1>2 DEF ExactIndex
<1>4. ASSUME NEW ix \in IndexKey PROVE Found(ix) = Promised(ix)
  <2>1. ix = [dst_ip |-> ix.dst_ip, src_port |-> ix.src_port]
    BY DEF IndexKey
  <2>2. Found(ix) = {Destination(by_flow[k]) :
                       k \in ({by_peer[i] : i \in DOMAIN by_peer \cap {ix}}
                              \ {Ambiguous}) \cap flows}
    BY <2>1 DEF QueryUdp
  <2>3. CASE Sharing(flows, ix) = {}
    <3>1. ix \notin DOMAIN by_peer
      BY <1>3, <2>3 DEF Sharing
    <3> QED
      BY <2>2, <2>3, <3>1
  <2>4. ASSUME NEW k \in flows, PeerKey(k) = ix, Sharing(flows, ix) = {k}
        PROVE  Found(ix) = Promised(ix)
    <3>1. by_peer[ix] = k /\ ix \in DOMAIN by_peer /\ k # Ambiguous
      BY <1>1, <1>2, <1>3, <2>4, ExactIndexUnique, ConstantsOK
    <3>2. Found(ix) = {Destination(by_flow[k])}
      BY <2>2, <3>1
    <3>3. {k1 \in flows : Sharing(flows, ix) = {k1}} = {k}
      BY <2>4
    <3>4. Destination(by_flow[k]) =
            [dst_ip |-> k.dst_ip, dst_port |-> Targets[k].dst_port]
      BY <1>1 DEF IInv, FlowsWellFormed, Destination
    <3> QED
      BY <3>2, <3>3, <3>4
  <2>5. ASSUME NEW k \in flows, NEW k1 \in flows, k # k1,
               PeerKey(k) = ix, PeerKey(k1) = ix
        PROVE  Found(ix) = Promised(ix)
    <3>1. by_peer[ix] = Ambiguous
      BY <1>1, <1>2, <2>5, ExactIndexShared
    <3>2. Found(ix) = {}
      BY <2>2, <3>1
    <3>3. ~ \E k2 \in flows : Sharing(flows, ix) = {k2}
      BY <2>5 DEF Sharing
    <3> QED
      BY <3>2, <3>3
  <2> QED
    BY <2>3, <2>4, <2>5 DEF Sharing
<1>5. Table!AnswersOf(Targets) = [ix \in IndexKey |-> Promised(ix)]
  BY <1>1 DEF Table!AnswersOf, Table!IndexKey, IndexKey, Table!PeerKey,
              PeerKey, Sharing
<1>6. Answers = [ix \in IndexKey |-> Found(ix)]
  BY DEF Answers
<1> QED
  BY <1>4, <1>5, <1>6

LEMMA AnswersMatchNext ==
  (IInv /\ todo = {} => Answers = Table!AnswersOf(Targets))'
BY AnswersMatch, PTL

\* While a rebuild runs, the table answers nothing.
LEMMA LockedWhileRebuilding == todo # {} => Table!Locked(Answers)
BY DEF Answers, Table!Locked

LEMMA LockedWhileRebuildingNext == (todo # {} => Table!Locked(Answers))'
BY LockedWhileRebuilding, PTL

\* A step that changes neither the targets nor the lock is a stutter.
LEMMA StutterStep ==
  ASSUME IInv, IInv', Targets' = Targets, (todo = {}) = (todo' = {})
  PROVE  UNCHANGED <<Targets, Answers>>
<1>1. CASE todo = {}
  BY <1>1, AnswersMatch, AnswersMatchNext
<1>2. CASE todo # {}
  BY <1>2, LockedWhileRebuilding, LockedWhileRebuildingNext DEF Table!Locked
<1> QED
  BY <1>1, <1>2

\* The insertion after the process lookup is a new flow of the table.
LEMMA InsertStep ==
  ASSUME IInv, IInv', NEW job \in lookup, NEW port \in ProxyPorts,
         LookupProxied(job, port)
  PROVE  Table!Next
<1> DEFINE key == FlowKeyOf(job.pkt)
           target == [dst_port |-> job.pkt.dst_port, proxy_port |-> port]
<1>1. job.pkt \in Packet /\ todo = {} /\ todo' = {}
  BY DEF IInv, TypeOK, Job, LookupProxied
<1>2. key \in FlowKey /\ target \in Table!Target
  BY <1>1 DEF Packet, FlowKeyOf, FlowKey, Table!Target
<1>3. key \notin DOMAIN Targets
  BY DEF IInv, LookupStillMisses, Targets
<1>4. Targets' = [k \in DOMAIN Targets \cup {key} |->
                    IF k = key THEN target ELSE Targets[k]]
  BY DEF LookupProxied, InsertFlow, Bind, Targets
<1>5. Answers' = Table!AnswersOf(Targets')
  BY <1>1, AnswersMatchNext
<1>6. ~ Table!Locked(Answers)
  <2>1. PeerKey(key) \in IndexKey
    BY <1>2 DEF FlowKey, PeerKey, IndexKey
  <2>2. PeerKey(key) \in DOMAIN Answers
    BY <1>1, <2>1 DEF Answers
  <2> QED
    BY <2>2 DEF Table!Locked
<1>7. Table!Insert(key, target)
  BY <1>3, <1>4, <1>5 DEF Table!Insert
<1> QED
  BY <1>2, <1>6, <1>7 DEF Table!Next, Table!FlowKey, FlowKey

\* A cleanup lets flows expire and locks the table, or answers at once when it
\* leaves nothing to rebuild.
LEMMA ExpireStep ==
  ASSUME IInv, IInv', LoopFree, NEW received, Cleanup(received)
  PROVE  Table!Next \/ UNCHANGED <<Targets, Answers>>
<1>1. /\ Kept \subseteq DOMAIN by_flow /\ DOMAIN Targets = DOMAIN by_flow
      /\ todo = {} /\ todo' = Kept
      /\ by_flow' = [k \in Kept |-> by_flow[k]]
  BY DEF Cleanup, Kept, LoopFree, Targets
<1>2. Targets' = [k \in Kept |-> Targets[k]]
  BY <1>1 DEF Targets
<1>3. CASE DOMAIN by_flow = {}
  <2>1. Targets' = Targets
    BY <1>1, <1>2, <1>3 DEF Targets
  <2> QED
    BY <1>1, <1>3, <2>1, StutterStep
<1>4. ASSUME NEW k \in DOMAIN by_flow PROVE Table!Next
  <2>1. PeerKey(k) \in IndexKey
    BY DEF IInv, TypeOK, FlowKey, PeerKey, IndexKey
  <2>2. ~ Table!Locked(Answers)
    BY <1>1, <2>1 DEF Answers, Table!Locked
  <2>3. Table!Locked(Answers') \/ Answers' = Table!AnswersOf(Targets')
    BY AnswersMatchNext, LockedWhileRebuildingNext DEF Table!Locked
  <2>4. Table!Expire(Kept)
    BY <1>2, <2>3 DEF Table!Expire
  <2> QED
    BY <1>1, <2>2, <2>4 DEF Table!Next
<1> QED
  BY <1>3, <1>4

\* The last flow the rebuild visits unlocks the table.
LEMMA UnlockStep ==
  ASSUME IInv, IInv', NEW key \in todo, RebuildStep(key)
  PROVE  Table!Next \/ UNCHANGED <<Targets, Answers>>
<1>1. Targets' = Targets /\ todo # {}
  BY DEF RebuildStep, Targets
<1>2. CASE todo' = {}
  <2>1. Table!Locked(Answers)
    BY <1>1, LockedWhileRebuilding
  <2>2. Answers' = Table!AnswersOf(Targets)
    BY <1>1, <1>2, AnswersMatchNext
  <2> QED
    BY <1>1, <2>1, <2>2 DEF Table!Next, Table!Unlock
<1>3. CASE todo' # {}
  BY <1>1, <1>3, StutterStep
<1> QED
  BY <1>2, <1>3

\* Every step of UdpFlows is a step of UdpTable or a stutter.
LEMMA TableStep ==
  IInv /\ IInv' /\ [Next]_vars => [Table!Next]_<<Targets, Answers>>
<1> SUFFICES ASSUME IInv, IInv', [Next]_vars
             PROVE  Table!Next \/ UNCHANGED <<Targets, Answers>>
  OBVIOUS
<1>1. ASSUME UNCHANGED <<by_flow, todo>>
      PROVE  UNCHANGED <<Targets, Answers>>
  <2>1. Targets' = Targets
    BY <1>1 DEF Targets
  <2> QED
    BY <1>1, <2>1, StutterStep
<1>2. ASSUME NEW pkt \in Arriving, UdpHit(pkt)
      PROVE  UNCHANGED <<Targets, Answers>>
  <2>1. Targets' = Targets
    BY <1>2 DEF IInv, TypeOK, Entry, UdpHit, Targets
  <2> QED
    BY <1>2, <2>1, StutterStep DEF UdpHit
<1>3. ASSUME NEW job \in lookup, NEW port \in ProxyPorts,
             LookupProxied(job, port)
      PROVE  Table!Next
  BY <1>3, InsertStep
<1>4. ASSUME NEW delivered \in SUBSET outgoing, EndBatch(delivered)
      PROVE  Table!Next \/ UNCHANGED <<Targets, Answers>>
  BY <1>1, <1>4, ExpireStep DEF EndBatch, table
<1>5. ASSUME NEW key \in todo, RebuildStep(key)
      PROVE  Table!Next \/ UNCHANGED <<Targets, Answers>>
  BY <1>5, UnlockStep
<1>6. CASE Tick
  <2>1. Targets' = Targets
    BY <1>6 DEF IInv, TypeOK, Entry, Tick, Targets
  <2> QED
    BY <1>6, <2>1, StutterStep DEF Tick
<1> QED
  BY <1>1, <1>2, <1>3, <1>4, <1>5, <1>6
  DEF Next, UdpOtherPort, UdpMiss, LookupUnproxied, Reopen, Resolve,
      SessionEnd, table, vars

LEMMA TableInit == Init => Table!Init
<1> SUFFICES ASSUME Init PROVE Table!Init
  OBVIOUS
<1>1. Targets = [k \in {} |-> k]
  BY DEF Init, Targets
<1>2. Answers = Table!AnswersOf(Targets)
  BY InitIInv, AnswersMatch DEF Init
<1> QED
  BY <1>1, <1>2 DEF Table!Init

\* The flow table implements UdpTable: flows keep their targets until they
\* expire, and every query is answered by the one flow that fits, whatever the
\* packet loop, the cleanup and the rebuild did before.
THEOREM TableImplemented == Spec => ImplementsTable
<1>1. IInv /\ IInv' /\ [Next]_vars => [Table!Next]_<<Targets, Answers>>
  BY TableStep
<1> QED
  BY <1>1, TableInit, Invariance, PTL DEF Spec, ImplementsTable, Table!Spec
===============================================================================
