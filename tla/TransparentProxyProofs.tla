----------------------- MODULE TransparentProxyProofs -----------------------
(***************************************************************************)
(* Proofs about TransparentProxy, for every set of keys and associations,  *)
(* every queue size and every association limit.                           *)
(***************************************************************************)
EXTENDS TransparentProxy, FiniteSetTheorems, TLAPS

LEMMA InitIInv == Init => IInv
<1> SUFFICES ASSUME Init PROVE IInv
  OBVIOUS
<1> USE ConstantsOK DEF Init
<1>1. TypeOK
  <2>1. /\ DOMAIN udp_connections \subseteq Keys
        /\ udp_connections \in
             [DOMAIN udp_connections -> [assoc : Assocs, stale : BOOLEAN]]
    OBVIOUS
  <2>2. /\ queue \in Seq(Keys) /\ Len(queue) <= UDP_QUEUE_SIZE
        /\ pooled \in 0 .. UDP_PACKET_POOL_MAX
    BY DEF UDP_PACKET_POOL_MAX
  <2>3. relays \in 0 .. MaxRelays
    OBVIOUS
  <2> QED
    BY <2>1, <2>2, <2>3 DEF TypeOK, AcceptorPC, WorkerPC, ReaderPC, StopPC, Tasks
<1>2. BuffersBounded
  BY DEF BuffersBounded, Held, Idling, UDP_PACKET_POOL_MAX
<1>3. WorkerHolds /\ NoOrphanEntry
  BY DEF WorkerHolds, NoOrphanEntry, Idling
<1>4. RoomLeft /\ AssociationsBounded
  BY FS_EmptySet DEF RoomLeft, AssociationsBounded
<1>5. ReadersTracked /\ StopOrder
  BY DEF ReadersTracked, StopOrder, Live
<1> QED
  BY <1>1, <1>2, <1>3, <1>4, <1>5 DEF IInv
-------------------------------------------------------------------------------
(* Buffers *)

\* take and put keep the pool within its size.
LEMMA PoolBounded ==
  ASSUME pooled \in 0 .. UDP_PACKET_POOL_MAX, Take \/ Put
  PROVE  pooled' \in 0 .. UDP_PACKET_POOL_MAX
BY ConstantsOK DEF UDP_PACKET_POOL_MAX, Take, Put

LEMMA BuffersNext == IInv /\ [Next]_vars => BuffersBounded'
<1> SUFFICES ASSUME IInv, [Next]_vars PROVE BuffersBounded'
  OBVIOUS
<1> DEFINE A == Held(udp = "select")
           W == Held(worker.pc \notin Idling)
           L == Len(queue)
           Goal == pooled' + L' + A' + W' <= UDP_QUEUE_SIZE + 2
<1>0. /\ pooled \in Nat /\ pooled <= UDP_QUEUE_SIZE + 2 /\ UDP_QUEUE_SIZE \in Nat
      /\ queue \in Seq(Keys) /\ L \in Nat /\ L <= UDP_QUEUE_SIZE
      /\ pooled + L + A + W <= UDP_QUEUE_SIZE + 2
      /\ DOMAIN worker = {"pc", "key", "assoc"}
  BY ConstantsOK DEF IInv, TypeOK, BuffersBounded, UDP_PACKET_POOL_MAX
<1>1. A \in 0 .. 1 /\ W \in 0 .. 1 /\ A' \in 0 .. 1 /\ W' \in 0 .. 1
  BY DEF Held
<1>2. /\ (udp = "select" <=> A = 1) /\ (udp' = "select" <=> A' = 1)
      /\ (worker.pc \notin Idling <=> W = 1)
      /\ (worker'.pc \notin Idling <=> W' = 1)
  BY DEF Held
<1> HIDE DEF A, W
<1>3. SUFFICES Goal
  BY DEF BuffersBounded, UDP_PACKET_POOL_MAX, A, W
<1>4. CASE pooled' = pooled /\ queue' = queue /\ udp' = udp /\ worker' = worker
  BY <1>0, <1>4 DEF A, W
<1>5. CASE UdpTake
  <2>1. worker' = worker /\ queue' = queue /\ udp = "take" /\ udp' = "select"
    BY <1>5 DEF UdpTake, udp_frame
  <2>2. L' = L /\ W' = W /\ A = 0 /\ A' = 1
    BY <1>1, <1>2, <2>1 DEF W
  <2>3. CASE pooled > 0
    BY <1>0, <1>1, <1>5, <2>2, <2>3 DEF UdpTake, Take
  <2>4. CASE ~ (pooled > 0)
    BY <1>0, <1>1, <1>5, <2>2, <2>4 DEF UdpTake, Take
  <2> QED
    BY <2>3, <2>4
<1>6. CASE UdpNotified \/ UdpError
  <2>1. worker' = worker /\ queue' = queue /\ udp = "select" /\ udp' # "select"
    BY <1>6 DEF UdpNotified, UdpError, udp_frame
  <2>2. L' = L /\ W' = W /\ A = 1 /\ A' = 0
    BY <1>1, <1>2, <2>1 DEF W
  <2>3. pooled' \in Nat /\ pooled' <= pooled + 1
    BY <1>0, <1>6 DEF UdpNotified, UdpError, Put
  <2> QED
    BY <1>0, <1>1, <2>2, <2>3
<1>7. CASE UdpLoop
  <2>1. worker' = worker /\ queue' = queue /\ udp # "select" /\ udp' # "select"
        /\ pooled' = pooled
    BY <1>7 DEF UdpLoop, udp_frame
  <2>2. L' = L /\ W' = W /\ A = 0 /\ A' = 0
    BY <1>1, <1>2, <2>1 DEF W
  <2> QED
    BY <1>0, <1>1, <2>1, <2>2
<1>8. ASSUME NEW key \in Keys, UdpReceive(key) PROVE Goal
  <2>1. worker' = worker /\ udp = "select" /\ udp' # "select"
    BY <1>8 DEF UdpReceive, udp_frame
  <2>2. W' = W /\ A = 1 /\ A' = 0
    BY <1>1, <1>2, <2>1 DEF W
  <2>3. Len(Append(queue, key)) = L + 1
    BY <1>0
  <2>4. \/ pooled' = pooled /\ L' = L + 1
        \/ pooled' \in Nat /\ pooled' <= pooled + 1 /\ L' = L
    BY <1>0, <1>8, <2>3 DEF UdpReceive, Put
  <2> QED
    BY <1>0, <1>1, <2>2, <2>4
<1>9. CASE WorkerNotified \/ WorkerClosed \/ WorkerTick
  <2>1. udp' = udp /\ worker.pc \in Idling /\ worker'.pc \in Idling
        /\ pooled' = pooled /\ (queue' = queue \/ queue' = << >>)
    BY <1>0, <1>9
    DEF WorkerNotified, WorkerClosed, WorkerTick, Worker, worker_frame, Idling
  <2>2. A' = A /\ W = 0 /\ W' = 0 /\ L' \in Nat /\ L' <= L
    BY <1>0, <1>1, <1>2, <2>1 DEF A
  <2> QED
    BY <1>0, <1>1, <2>1, <2>2
<1>10. CASE WorkerRecv
  <2>1. udp' = udp /\ worker.pc \in Idling /\ queue # << >> /\ queue' = Tail(queue)
    BY <1>10 DEF WorkerRecv, worker_frame, Idling
  <2>2. A' = A /\ W = 0 /\ L' = L - 1 /\ L > 0
    BY <1>0, <1>1, <1>2, <2>1 DEF A
  <2>3. \/ pooled' = pooled
        \/ pooled' \in Nat /\ pooled' <= pooled + 1 /\ worker'.pc \in Idling
    BY <1>0, <1>10 DEF WorkerRecv, WorkerReturns, Put, Idling
  <2> QED
    BY <1>0, <1>1, <1>2, <2>2, <2>3
<1>11. CASE WorkerHandles
  <2>1. queue' = queue /\ udp' = udp /\ worker.pc \notin Idling
    BY <1>11
    DEF WorkerHandles, WorkerFind, WorkerClean, WorkerReap, WorkerLimit,
        WorkerAssociateFails, WorkerAssociate, WorkerInsert, WorkerTrack,
        WorkerSend, worker_frame, Idling
  <2>2. pooled' = pooled \/ WorkerReturns
    BY <1>11
    DEF WorkerHandles, WorkerFind, WorkerClean, WorkerReap, WorkerLimit,
        WorkerAssociateFails, WorkerAssociate, WorkerInsert, WorkerTrack,
        WorkerSend
  <2>3. A' = A /\ W = 1 /\ L' = L
    BY <1>2, <2>1 DEF A
  <2>4. CASE pooled' = pooled
    BY <1>0, <1>1, <2>3, <2>4
  <2>5. CASE WorkerReturns
    <3>1. W' = 0
      BY <1>1, <1>2, <2>5 DEF WorkerReturns, Idling
    <3>2. pooled' \in Nat /\ pooled' <= pooled + 1
      BY <1>0, <2>5 DEF WorkerReturns, Put
    <3> QED
      BY <1>0, <1>1, <2>3, <3>1, <3>2
  <2> QED
    BY <2>2, <2>4, <2>5
<1> QED
  BY <1>4, <1>5, <1>6, <1>7, <1>8, <1>9, <1>10, <1>11
  DEF Next, TcpStep, TcpNotified, TcpAccept, TcpLoop, RelayEnds, tcp_frame, UdpStep,
      WorkerEnds, ReaderStep, ReaderTop, ReaderArm, ReaderNotified, ReaderReply,
      ReaderTimeout, ReaderExit, ReaderSelect, reader_frame, StopBegin, StopStep,
      StopNotify, StopJoin, StopDrain, StopReturn, stop_frame, Age, vars
-------------------------------------------------------------------------------
(* Types *)

MapTyped ==
  /\ DOMAIN udp_connections \subseteq Keys
  /\ udp_connections \in
       [DOMAIN udp_connections -> [assoc : Assocs, stale : BOOLEAN]]

\* Refreshing an entry changes neither the keys nor the associations.
LEMMA RefreshTyped ==
  ASSUME MapTyped, NEW key \in DOMAIN udp_connections, Refresh(key)
  PROVE  /\ MapTyped'
         /\ DOMAIN udp_connections' = DOMAIN udp_connections
         /\ \A k \in DOMAIN udp_connections :
              udp_connections'[k].assoc = udp_connections[k].assoc
BY DEF MapTyped, Refresh

\* An entry that ages keeps its association.
LEMMA AgeTyped ==
  ASSUME MapTyped, NEW key \in Keys, Age(key)
  PROVE  /\ MapTyped'
         /\ DOMAIN udp_connections' = DOMAIN udp_connections
         /\ \A k \in DOMAIN udp_connections :
              udp_connections'[k].assoc = udp_connections[k].assoc
BY DEF MapTyped, Age

\* A reader that moves stays well typed.
LEMMA ReaderTyped ==
  ASSUME readers \in [Assocs -> [pc : ReaderPC, key : Keys \cup {NoKey}]],
         NEW a \in Assocs, NEW pc \in ReaderPC, Reader(a, pc)
  PROVE  readers' \in [Assocs -> [pc : ReaderPC, key : Keys \cup {NoKey}]]
BY DEF Reader

LEMMA TypeNext == IInv /\ [Next]_vars => TypeOK'
<1> SUFFICES ASSUME IInv, [Next]_vars PROVE TypeOK'
  OBVIOUS
<1> USE DEF IInv, TypeOK, AcceptorPC, WorkerPC, ReaderPC, StopPC, Tasks, shared
<1>1. CASE TcpStep \/ TcpAccept \/ RelayEnds
  <2>1. relays' \in 0 .. MaxRelays
    BY <1>1, ConstantsOK
    DEF TcpStep, TcpNotified, TcpAccept, TcpLoop, RelayEnds, tcp_frame
  <2>2. tcp' \in AcceptorPC \ {"take"} /\ notified' \subseteq Tasks
    BY <1>1 DEF TcpStep, TcpNotified, TcpAccept, TcpLoop, RelayEnds, tcp_frame
  <2>3. UNCHANGED tcp_frame
    BY <1>1 DEF TcpStep, TcpNotified, TcpAccept, TcpLoop, RelayEnds
  <2> QED
    BY <2>1, <2>2, <2>3 DEF tcp_frame
<1>2. CASE UdpStep \/ UdpError
  <2>1. pooled' \in 0 .. UDP_PACKET_POOL_MAX
    BY <1>2, PoolBounded DEF UdpStep, UdpTake, UdpNotified, UdpLoop, UdpError
  <2> QED
    BY <1>2, <2>1
    DEF UdpStep, UdpTake, UdpNotified, UdpLoop, UdpError, udp_frame
<1>3. ASSUME NEW key \in Keys, UdpReceive(key) PROVE TypeOK'
  <2>1. pooled' \in 0 .. UDP_PACKET_POOL_MAX
    BY <1>3, PoolBounded DEF UdpReceive
  <2>2. queue' \in Seq(Keys) /\ Len(queue') <= UDP_QUEUE_SIZE
    <3>1. Append(queue, key) \in Seq(Keys) /\ Len(Append(queue, key)) = Len(queue) + 1
      OBVIOUS
    <3>2. CASE queue' = queue
      BY <3>2
    <3>3. CASE queue' = Append(queue, key) /\ Len(queue) < UDP_QUEUE_SIZE
      <4>1. Len(queue) + 1 <= UDP_QUEUE_SIZE
        BY <3>3, ConstantsOK
      <4> QED
        BY <3>1, <3>3, <4>1
    <3> QED
      BY <1>3, <3>2, <3>3 DEF UdpReceive
  <2> QED
    BY <1>3, <2>1, <2>2 DEF UdpReceive, udp_frame
<1>4. CASE WorkerEnds \/ WorkerTick
  <2>1. CASE WorkerEnds
    <3>1. << >> \in Seq(Keys) /\ Len(<< >>) <= UDP_QUEUE_SIZE
      BY ConstantsOK
    <3> QED
      BY <2>1, <3>1
      DEF WorkerEnds, WorkerNotified, WorkerClosed, Worker, worker_frame
  <2>2. CASE WorkerTick
    BY <2>2 DEF WorkerTick, DropStale, worker_frame
  <2> QED
    BY <1>4, <2>1, <2>2
<1>5. CASE WorkerRecv
  <2>1. queue # << >> /\ queue' = Tail(queue)
    BY <1>5 DEF WorkerRecv
  <2>2. Tail(queue) \in Seq(Keys) /\ Len(Tail(queue)) = Len(queue) - 1
        /\ Head(queue) \in Keys
    BY <2>1
  <2>3. queue' \in Seq(Keys) /\ Len(queue') <= UDP_QUEUE_SIZE
    BY <2>1, <2>2, ConstantsOK
  <2>4. pooled' \in 0 .. UDP_PACKET_POOL_MAX
    BY <1>5, PoolBounded DEF WorkerRecv, WorkerReturns
  <2>5. worker' \in [pc : WorkerPC, key : Keys \cup {NoKey},
                     assoc : Assocs \cup {NoAssoc}]
        /\ worker'.pc # "track"
    <3>1. CASE WorkerReturns
      BY <3>1 DEF WorkerReturns
    <3>2. CASE worker' = [worker EXCEPT !.pc = "find", !.key = Head(queue)]
      BY <2>2, <3>2
    <3> QED
      BY <1>5, <3>1, <3>2 DEF WorkerRecv
  <2>6. map_locked' = map_locked /\ worker.pc = "select"
    BY <1>5 DEF WorkerRecv
  <2> QED
    BY <1>5, <2>3, <2>4, <2>5, <2>6 DEF WorkerRecv, worker_frame
<1>6. CASE WorkerHandles
  <2>1. pooled' \in 0 .. UDP_PACKET_POOL_MAX
    BY <1>6, PoolBounded
    DEF WorkerHandles, WorkerFind, WorkerClean, WorkerReap, WorkerLimit,
        WorkerAssociateFails, WorkerAssociate, WorkerInsert, WorkerTrack,
        WorkerSend, WorkerReturns
  <2>2. CASE WorkerFind
    <3>1. MapTyped'
      BY <2>2, RefreshTyped DEF MapTyped, WorkerFind
    <3> QED
      BY <2>2, <3>1 DEF MapTyped, WorkerFind, Worker, worker_frame
  <2>3. CASE WorkerClean
    BY <2>3 DEF WorkerClean, DropStale, Worker, worker_frame
  <2>4. CASE WorkerReap
    BY <2>4 DEF WorkerReap, Worker, worker_frame
  <2>5. CASE WorkerLimit \/ WorkerAssociateFails \/ WorkerSend
    BY <2>1, <2>5
    DEF WorkerLimit, WorkerAssociateFails, WorkerSend, WorkerReturns, Worker,
        worker_frame
  <2>6. ASSUME NEW a \in Assocs, WorkerAssociate(a) PROVE TypeOK'
    BY <2>6 DEF WorkerAssociate, worker_frame
  <2>7. CASE WorkerInsert
    <3>1. worker.key \in Keys /\ worker.assoc \in Assocs
      BY <2>7 DEF WorkerInsert, WorkerHolds, Idling
    <3>2. MapTyped'
      BY <2>7, RefreshTyped DEF MapTyped, WorkerInsert
    <3>3. CASE worker.key \in DOMAIN udp_connections
      BY <2>7, <3>2, <3>3 DEF MapTyped, WorkerInsert, Worker, worker_frame
    <3>4. CASE worker.key \notin DOMAIN udp_connections
      <4>1. readers' \in [Assocs -> [pc : ReaderPC, key : Keys \cup {NoKey}]]
        <5>1. [pc |-> "top", key |-> worker.key] \in [pc : ReaderPC, key : Keys \cup {NoKey}]
          BY <3>1
        <5> QED
          BY <2>7, <3>1, <3>4, <5>1 DEF WorkerInsert
      <4>2. map_locked' = TRUE /\ worker'.pc = "track"
            /\ worker' \in [pc : WorkerPC, key : Keys \cup {NoKey},
                            assoc : Assocs \cup {NoAssoc}]
        BY <2>7, <3>4 DEF WorkerInsert, Worker
      <4> QED
        BY <2>7, <3>2, <4>1, <4>2 DEF MapTyped, WorkerInsert, worker_frame
    <3> QED
      BY <3>3, <3>4
  <2>8. CASE WorkerTrack
    <3>1. worker.key \in Keys /\ worker.assoc \in Assocs
      BY <2>8 DEF WorkerTrack, WorkerHolds, Idling
    <3> QED
      BY <2>8, <3>1 DEF WorkerTrack, Worker, worker_frame
  <2> QED
    BY <1>6, <2>2, <2>3, <2>4, <2>5, <2>6, <2>7, <2>8 DEF WorkerHandles
<1>7. ASSUME NEW a \in Assocs, ReaderStep(a) PROVE TypeOK'
  <2>1. CASE ReaderTop(a) \/ ReaderArm(a) \/ ReaderNotified(a) \/ ReaderTimeout(a)
    BY <2>1 DEF ReaderTop, ReaderArm, ReaderNotified, ReaderTimeout, Reader, reader_frame
  <2>2. CASE ReaderReply(a)
    <3>1. MapTyped'
      BY <2>2, RefreshTyped DEF MapTyped, ReaderReply
    <3>2. readers' \in [Assocs -> [pc : ReaderPC, key : Keys \cup {NoKey}]]
      <4>1. Reader(a, "top") \/ Reader(a, "exit")
        BY <2>2 DEF ReaderReply
      <4> QED
        BY <4>1, ReaderTyped
    <3> QED
      BY <2>2, <3>1, <3>2 DEF MapTyped, ReaderReply, reader_frame
  <2>3. CASE ReaderExit(a)
    BY <2>3 DEF ReaderExit, Reader, reader_frame
  <2> QED
    BY <1>7, <2>1, <2>2, <2>3 DEF ReaderStep
<1>8. ASSUME NEW a \in Assocs, NEW outcome \in {"reply", "top", "exit", "timeout"},
             ReaderSelect(a, outcome)
      PROVE  TypeOK'
  <2>1. readers' \in [Assocs -> [pc : ReaderPC, key : Keys \cup {NoKey}]]
    BY <1>8 DEF ReaderSelect, Reader
  <2> QED
    BY <1>8, <2>1 DEF ReaderSelect, reader_frame
<1>9. CASE StopBegin \/ StopStep
  BY <1>9 DEF StopBegin, StopStep, StopNotify, StopJoin, StopDrain, StopReturn,
              stop_frame
<1>10. ASSUME NEW key \in Keys, Age(key) PROVE TypeOK'
  <2>1. MapTyped'
    BY <1>10, AgeTyped DEF MapTyped
  <2> QED
    BY <1>10, <2>1 DEF MapTyped, Age, reader_frame
<1>11. CASE UNCHANGED vars
  BY <1>11 DEF vars
<1> QED
  BY <1>1, <1>2, <1>3, <1>4, <1>5, <1>6, <1>7, <1>8, <1>9, <1>10, <1>11
  DEF Next
-------------------------------------------------------------------------------
(* Entries and readers *)

Entries == WorkerHolds /\ NoOrphanEntry

\* Nothing that grows no map, ends no reader and moves no worker matters.
LEMMA EntriesKept ==
  ASSUME Entries, DOMAIN udp_connections' \subseteq DOMAIN udp_connections,
         \A k \in DOMAIN udp_connections' :
           udp_connections'[k].assoc = udp_connections[k].assoc,
         readers' = readers, worker' = worker
  PROVE  Entries'
BY DEF Entries, WorkerHolds, NoOrphanEntry

\* Where a datagram taken from the queue leaves the worker.
LEMMA RecvOutcome ==
  ASSUME TypeOK, WorkerRecv
  PROVE  \/ worker'.pc = "select"
         \/ worker'.pc = "find" /\ worker'.key \in Keys
<1>1. queue # << >> /\ queue \in Seq(Keys)
  BY DEF TypeOK, WorkerRecv
<1>2. Head(queue) \in Keys
  BY <1>1
<1>3. CASE WorkerReturns
  BY <1>3 DEF WorkerReturns
<1>4. CASE worker' = [worker EXCEPT !.pc = "find", !.key = Head(queue)]
  BY <1>2, <1>4 DEF TypeOK
<1> QED
  BY <1>3, <1>4 DEF WorkerRecv

LEMMA EntriesNext == IInv /\ [Next]_vars => Entries'
<1> SUFFICES ASSUME IInv, [Next]_vars PROVE Entries'
  OBVIOUS
<1>0. /\ TypeOK /\ MapTyped /\ Entries /\ WorkerHolds /\ NoOrphanEntry
      /\ worker \in [pc : WorkerPC, key : Keys \cup {NoKey},
                     assoc : Assocs \cup {NoAssoc}]
      /\ readers \in [Assocs -> [pc : ReaderPC, key : Keys \cup {NoKey}]]
      /\ map_locked = (worker.pc = "track")
  BY DEF IInv, TypeOK, MapTyped, Entries
<1>1. CASE readers' = readers /\ worker' = worker /\ udp_connections' = udp_connections
  BY <1>0, <1>1, EntriesKept
<1>2. CASE WorkerEnds \/ WorkerRecv \/ WorkerLimit \/ WorkerAssociateFails \/ WorkerSend
  <2>1. readers' = readers /\ udp_connections' = udp_connections
    BY <1>2 DEF WorkerEnds, WorkerNotified, WorkerClosed, WorkerRecv, WorkerLimit,
                WorkerAssociateFails, WorkerSend, shared
  <2>2. \/ worker'.pc \in Idling
        \/ worker'.pc = "find" /\ worker'.key \in Keys
        \/ worker.pc = "limit" /\ worker'.pc = "associate" /\ worker'.key = worker.key
    <3>1. CASE WorkerRecv
      BY <1>0, <3>1, RecvOutcome DEF Idling
    <3>2. CASE WorkerEnds
      BY <1>0, <3>2 DEF WorkerEnds, WorkerNotified, WorkerClosed, Worker, Idling
    <3>3. CASE WorkerLimit
      BY <1>0, <3>3 DEF WorkerLimit, WorkerReturns, Worker, Idling
    <3>4. CASE WorkerAssociateFails \/ WorkerSend
      BY <3>4 DEF WorkerAssociateFails, WorkerSend, WorkerReturns, Idling
    <3> QED
      BY <1>2, <3>1, <3>2, <3>3, <3>4
  <2>3. WorkerHolds'
    BY <1>0, <2>1, <2>2 DEF WorkerHolds, Idling, Missed
  <2>4. NoOrphanEntry'
    BY <1>0, <2>1 DEF NoOrphanEntry
  <2> QED
    BY <2>3, <2>4 DEF Entries
<1>3. CASE WorkerTick
  BY <1>0, <1>3, EntriesKept DEF WorkerTick, DropStale
<1>4. CASE WorkerFind
  <2>1. CASE worker.key \in DOMAIN udp_connections
    <3>1. /\ DOMAIN udp_connections' = DOMAIN udp_connections
          /\ \A k \in DOMAIN udp_connections :
               udp_connections'[k].assoc = udp_connections[k].assoc
      BY <1>0, <1>4, <2>1, RefreshTyped DEF WorkerFind
    <3>2. readers' = readers /\ worker'.pc = "send" /\ worker'.key = worker.key
          /\ worker.pc = "find"
      BY <1>0, <1>4, <2>1 DEF WorkerFind, Worker
    <3>3. WorkerHolds'
      BY <1>0, <3>2 DEF WorkerHolds, Idling, Missed
    <3>4. NoOrphanEntry'
      BY <1>0, <3>1, <3>2 DEF NoOrphanEntry
    <3> QED
      BY <3>3, <3>4 DEF Entries
  <2>2. CASE worker.key \notin DOMAIN udp_connections
    <3>1. readers' = readers /\ udp_connections' = udp_connections
          /\ worker'.pc = "clean" /\ worker'.key = worker.key /\ worker.pc = "find"
      BY <1>0, <1>4, <2>2 DEF WorkerFind, Worker
    <3> QED
      BY <1>0, <2>2, <3>1 DEF Entries, WorkerHolds, NoOrphanEntry, Idling, Missed
  <2> QED
    BY <2>1, <2>2
<1>5. CASE WorkerClean
  <2>1. /\ DOMAIN udp_connections' \subseteq DOMAIN udp_connections
        /\ \A k \in DOMAIN udp_connections' :
             udp_connections'[k].assoc = udp_connections[k].assoc
    BY <1>5 DEF WorkerClean, DropStale
  <2>2. readers' = readers /\ worker'.pc = "reap" /\ worker'.key = worker.key
        /\ worker.pc = "clean"
    BY <1>0, <1>5 DEF WorkerClean, Worker
  <2> QED
    BY <1>0, <2>1, <2>2 DEF Entries, WorkerHolds, NoOrphanEntry, Idling, Missed
<1>6. CASE WorkerReap
  <2>1. udp_connections' = udp_connections /\ worker'.pc = "limit"
        /\ worker'.key = worker.key /\ worker.pc = "reap"
    BY <1>0, <1>6 DEF WorkerReap, Worker
  <2>2. \A a \in Assocs : readers[a].pc \notin {"none", "done"} =>
                            readers'[a] = readers[a]
    BY <1>6 DEF WorkerReap, Finished
  <2>3. \A k \in DOMAIN udp_connections : udp_connections[k].assoc \in Assocs
    BY <1>0 DEF MapTyped
  <2>4. NoOrphanEntry'
    BY <1>0, <2>1, <2>2, <2>3 DEF NoOrphanEntry
  <2>5. WorkerHolds'
    BY <1>0, <2>1 DEF WorkerHolds, Idling, Missed
  <2> QED
    BY <2>4, <2>5 DEF Entries
<1>7. ASSUME NEW a \in Assocs, WorkerAssociate(a) PROVE Entries'
  <2>1. readers' = readers /\ udp_connections' = udp_connections
        /\ worker'.pc = "insert" /\ worker'.key = worker.key /\ worker'.assoc = a
        /\ worker.pc = "associate" /\ readers[a].pc = "none"
    BY <1>0, <1>7 DEF WorkerAssociate, shared
  <2> QED
    BY <1>0, <2>1 DEF Entries, WorkerHolds, NoOrphanEntry, Idling, Missed
<1>8. CASE WorkerInsert
  <2>1. worker.key \notin DOMAIN udp_connections /\ worker.assoc \in Assocs
        /\ readers[worker.assoc].pc = "none" /\ worker.key \in Keys
    BY <1>0, <1>8 DEF WorkerInsert, WorkerHolds, Idling, Missed
  <2>2. udp_connections' = udp_connections /\ worker'.pc = "track"
        /\ worker'.key = worker.key /\ worker'.assoc = worker.assoc
    BY <1>0, <1>8, <2>1 DEF WorkerInsert, Worker
  <2>3. readers'[worker.assoc] = [pc |-> "top", key |-> worker.key]
        /\ \A a \in Assocs \ {worker.assoc} : readers'[a] = readers[a]
    BY <1>0, <1>8, <2>1 DEF WorkerInsert
  <2>4. \A k \in DOMAIN udp_connections :
          udp_connections[k].assoc \in Assocs \ {worker.assoc}
    BY <1>0, <2>1 DEF MapTyped, NoOrphanEntry
  <2>5. NoOrphanEntry'
    BY <1>0, <2>2, <2>3, <2>4 DEF NoOrphanEntry
  <2>6. WorkerHolds'
    BY <2>1, <2>2, <2>3 DEF WorkerHolds, Idling, Missed, Live, ReaderPC
  <2> QED
    BY <2>5, <2>6 DEF Entries
<1>9. CASE WorkerTrack
  <2>1. worker.assoc \in Assocs /\ worker.key \in Keys
        /\ readers[worker.assoc] \in [pc : Live, key : {worker.key}]
    BY <1>0, <1>9 DEF WorkerTrack, WorkerHolds, Idling
  <2>2. readers' = readers /\ worker'.pc = "send" /\ worker'.key = worker.key
    BY <1>0, <1>9 DEF WorkerTrack, Worker
  <2>3. NoOrphanEntry'
    BY <1>0, <1>9, <2>1, <2>2 DEF WorkerTrack, NoOrphanEntry, Live
  <2>4. WorkerHolds'
    BY <2>1, <2>2 DEF WorkerHolds, Idling, Missed
  <2> QED
    BY <2>3, <2>4 DEF Entries
<1>10. ASSUME NEW a \in Assocs, NEW pc \in ReaderPC \ {"none", "done"}, Reader(a, pc),
              worker' = worker, readers[a].pc \notin {"none", "done"},
              DOMAIN udp_connections' = DOMAIN udp_connections,
              \A k \in DOMAIN udp_connections :
                udp_connections'[k].assoc = udp_connections[k].assoc
       PROVE  Entries'
  <2>1. /\ readers'[a].pc = pc /\ readers'[a].key = readers[a].key
        /\ readers'[a] \in [pc : {pc}, key : {readers[a].key}]
        /\ \A b \in Assocs \ {a} : readers'[b] = readers[b]
    BY <1>0, <1>10 DEF Reader
  <2>2. NoOrphanEntry'
    BY <1>0, <1>10, <2>1 DEF NoOrphanEntry, MapTyped
  <2>3. WorkerHolds'
    BY <1>0, <1>10, <2>1 DEF WorkerHolds, Live
  <2> QED
    BY <2>2, <2>3 DEF Entries
<1>11. ASSUME NEW a \in Assocs, ReaderStep(a) PROVE Entries'
  <2>1. CASE ReaderTop(a) \/ ReaderArm(a) \/ ReaderNotified(a) \/ ReaderTimeout(a)
    <3>1. worker' = worker /\ udp_connections' = udp_connections
          /\ readers[a].pc \notin {"none", "done"}
      BY <2>1 DEF ReaderTop, ReaderArm, ReaderNotified, ReaderTimeout, reader_frame
    <3>2. \E pc \in ReaderPC \ {"none", "done"} : Reader(a, pc)
      BY <2>1 DEF ReaderTop, ReaderArm, ReaderNotified, ReaderTimeout, ReaderPC
    <3> QED
      BY <1>10, <3>1, <3>2
  <2>2. CASE ReaderReply(a)
    <3>1. worker' = worker /\ readers[a].pc \notin {"none", "done"}
      BY <2>2 DEF ReaderReply, reader_frame
    <3>2. \E pc \in ReaderPC \ {"none", "done"} : Reader(a, pc)
      BY <2>2 DEF ReaderReply, ReaderPC
    <3>3. /\ DOMAIN udp_connections' = DOMAIN udp_connections
          /\ \A k \in DOMAIN udp_connections :
               udp_connections'[k].assoc = udp_connections[k].assoc
      BY <1>0, <2>2, RefreshTyped DEF ReaderReply
    <3> QED
      BY <1>10, <3>1, <3>2, <3>3
  <2>3. CASE ReaderExit(a)
    <3>1. worker' = worker /\ worker.pc # "track"
      BY <1>0, <2>3 DEF ReaderExit, reader_frame
    <3>2. /\ \A b \in Assocs \ {a} : readers'[b] = readers[b]
          /\ readers[a].pc = "exit"
      BY <1>0, <2>3 DEF ReaderExit, Reader
    <3>3. /\ DOMAIN udp_connections' = DOMAIN udp_connections \ {readers[a].key}
          /\ \A k \in DOMAIN udp_connections' :
               udp_connections'[k] = udp_connections[k]
      BY <2>3 DEF ReaderExit
    <3>4. \A k \in DOMAIN udp_connections' : udp_connections[k].assoc \in Assocs \ {a}
      BY <1>0, <3>3 DEF MapTyped, NoOrphanEntry
    <3>5. NoOrphanEntry'
      BY <1>0, <3>2, <3>3, <3>4 DEF NoOrphanEntry
    <3>6. WorkerHolds'
      BY <1>0, <3>1, <3>2, <3>3 DEF WorkerHolds
    <3> QED
      BY <3>5, <3>6 DEF Entries
  <2> QED
    BY <1>11, <2>1, <2>2, <2>3 DEF ReaderStep
<1>12. ASSUME NEW a \in Assocs, NEW outcome \in {"reply", "top", "exit", "timeout"},
              ReaderSelect(a, outcome)
       PROVE  Entries'
  BY <1>10, <1>12 DEF ReaderSelect, reader_frame, ReaderPC
<1>13. ASSUME NEW key \in Keys, Age(key) PROVE Entries'
  BY <1>0, <1>13, AgeTyped, EntriesKept DEF Age, reader_frame
<1> QED
  BY <1>1, <1>2, <1>3, <1>4, <1>5, <1>6, <1>7, <1>8, <1>9, <1>11, <1>12, <1>13
  DEF Next, TcpStep, TcpNotified, TcpAccept, TcpLoop, RelayEnds, tcp_frame, UdpStep, UdpTake,
      UdpNotified, UdpLoop, UdpReceive, UdpError, udp_frame, WorkerHandles,
      StopBegin, StopStep, StopNotify, StopJoin, StopDrain, StopReturn,
      stop_frame, shared, vars
-------------------------------------------------------------------------------
(* The limit, the list of readers and stop *)

LEMMA RoomNext == IInv /\ [Next]_vars => RoomLeft' /\ AssociationsBounded'
<1> SUFFICES ASSUME IInv, [Next]_vars PROVE RoomLeft' /\ AssociationsBounded'
  OBVIOUS
<1> DEFINE D == DOMAIN udp_connections
           Bound == MAX_UDP_ASSOCIATIONS
           Room == worker.pc \in {"associate", "insert", "track"}
<1>0. /\ IsFiniteSet(D) /\ Cardinality(D) \in Nat /\ Cardinality(D) <= Bound
      /\ Room => Cardinality(D) < Bound
      /\ Bound \in Nat
      /\ worker \in [pc : WorkerPC, key : Keys \cup {NoKey},
                     assoc : Assocs \cup {NoAssoc}]
      /\ MapTyped
  BY ConstantsOK, FS_CardinalityType
  DEF IInv, TypeOK, RoomLeft, AssociationsBounded, MapTyped
<1>1. CASE D' \subseteq D /\ (Room' => Room)
  <2>1. IsFiniteSet(D') /\ Cardinality(D') <= Cardinality(D) /\ Cardinality(D') \in Nat
    BY <1>0, <1>1, FS_Subset, FS_CardinalityType
  <2> QED
    BY <1>0, <1>1, <2>1 DEF RoomLeft, AssociationsBounded
<1>2. CASE WorkerLimit
  <2>1. udp_connections' = udp_connections
    BY <1>2 DEF WorkerLimit, shared
  <2>2. Room' => Cardinality(D) < Bound
    BY <1>0, <1>2 DEF WorkerLimit, WorkerReturns
  <2> QED
    BY <1>0, <2>1, <2>2 DEF RoomLeft, AssociationsBounded
<1>3. CASE WorkerTrack
  <2>1. D' = D \cup {worker.key} /\ Room /\ ~ Room'
    BY <1>0, <1>3 DEF WorkerTrack, Worker
  <2>2. /\ IsFiniteSet(D \cup {worker.key})
        /\ \/ Cardinality(D \cup {worker.key}) = Cardinality(D)
           \/ Cardinality(D \cup {worker.key}) = Cardinality(D) + 1
    BY <1>0, FS_AddElement
  <2>3. IsFiniteSet(D') /\ Cardinality(D') <= Bound
    BY <1>0, <2>1, <2>2
  <2> QED
    BY <2>1, <2>3 DEF RoomLeft, AssociationsBounded
<1>4. CASE WorkerFind \/ WorkerInsert
  <2>1. \A key \in D : Refresh(key) => D' = D
    BY <1>0, RefreshTyped
  <2>2. D' = D
    BY <1>4, <2>1 DEF WorkerFind, WorkerInsert
  <2>3. Room' => Room
    BY <1>0, <1>4 DEF WorkerFind, WorkerInsert, Worker
  <2> QED
    BY <1>1, <2>2, <2>3
<1>5. CASE \/ WorkerEnds \/ WorkerTick \/ WorkerClean \/ WorkerReap
           \/ WorkerAssociateFails \/ WorkerSend
           \/ \E a \in Assocs : WorkerAssociate(a)
  <2>1. D' \subseteq D
    BY <1>5
    DEF WorkerEnds, WorkerNotified, WorkerClosed, WorkerTick, WorkerClean, WorkerReap,
        WorkerAssociateFails, WorkerSend, WorkerAssociate, DropStale, shared
  <2>2. Room' => Room
    <3>1. CASE WorkerAssociateFails \/ WorkerSend
      BY <3>1 DEF WorkerAssociateFails, WorkerSend, WorkerReturns
    <3>2. CASE WorkerEnds \/ WorkerTick
      BY <1>0, <3>2 DEF WorkerEnds, WorkerNotified, WorkerClosed, WorkerTick, Worker
    <3>3. CASE WorkerClean \/ WorkerReap
      BY <1>0, <3>3 DEF WorkerClean, WorkerReap, Worker
    <3>4. CASE \E a \in Assocs : WorkerAssociate(a)
      BY <3>4 DEF WorkerAssociate
    <3> QED
      BY <1>5, <3>1, <3>2, <3>3, <3>4
  <2> QED
    BY <1>1, <2>1, <2>2
<1>6. CASE WorkerRecv
  <2>1. D' = D
    BY <1>6 DEF WorkerRecv, shared
  <2>2. Room' => Room
    BY <1>6, RecvOutcome DEF IInv
  <2> QED
    BY <1>1, <2>1, <2>2
<1>7. ASSUME NEW a \in Assocs, ReaderReply(a) PROVE RoomLeft' /\ AssociationsBounded'
  <2>1. \A key \in D : Refresh(key) => D' = D
    BY <1>0, RefreshTyped
  <2> QED
    BY <1>1, <1>7, <2>1 DEF ReaderReply, reader_frame
<1>8. ASSUME NEW a \in Assocs, ReaderStep(a), ~ ReaderReply(a)
      PROVE  RoomLeft' /\ AssociationsBounded'
  BY <1>1, <1>8
  DEF ReaderStep, ReaderTop, ReaderArm, ReaderNotified, ReaderTimeout, ReaderExit,
      reader_frame
<1>9. ASSUME NEW key \in Keys, Age(key) PROVE RoomLeft' /\ AssociationsBounded'
  BY <1>0, <1>1, <1>9, AgeTyped DEF Age, reader_frame
<1>10. CASE worker' = worker /\ udp_connections' = udp_connections
  BY <1>1, <1>10
<1> QED
  BY <1>2, <1>3, <1>4, <1>5, <1>6, <1>7, <1>8, <1>9, <1>10
  DEF Next, TcpStep, TcpNotified, TcpAccept, TcpLoop, RelayEnds, tcp_frame, UdpStep, UdpTake,
      UdpNotified, UdpLoop, UdpReceive, UdpError, udp_frame, WorkerHandles,
      ReaderSelect, reader_frame, StopBegin, StopStep, StopNotify, StopJoin,
      StopDrain, StopReturn, stop_frame, shared, vars

LEMMA StopNext == IInv /\ [Next]_vars => StopOrder'
<1> SUFFICES ASSUME IInv, [Next]_vars PROVE StopOrder'
  OBVIOUS
<1> USE DEF IInv, TypeOK, StopOrder
<1>1. CASE StopBegin \/ StopStep
  BY <1>1 DEF StopBegin, StopStep, StopNotify, StopJoin, StopDrain, StopReturn,
              stop_frame
<1>2. CASE TcpStep \/ TcpAccept \/ RelayEnds
  BY <1>2 DEF TcpStep, TcpNotified, TcpAccept, TcpLoop, RelayEnds, tcp_frame, shared
<1>3. CASE UdpStep \/ UdpError \/ \E key \in Keys : UdpReceive(key)
  BY <1>3 DEF UdpStep, UdpTake, UdpNotified, UdpLoop, UdpError, UdpReceive,
              udp_frame, shared
<1>4. CASE WorkerEnds \/ WorkerRecv \/ WorkerTick \/ WorkerHandles
  <2>1. worker.pc # "done" /\ stop' = stop /\ shutdown' = shutdown
    BY <1>4 DEF WorkerEnds, WorkerNotified, WorkerClosed, WorkerRecv, WorkerTick,
       WorkerHandles, WorkerFind, WorkerClean, WorkerReap, WorkerLimit,
       WorkerAssociateFails, WorkerAssociate, WorkerInsert, WorkerTrack, WorkerSend,
       worker_frame
  <2> QED
    BY <2>1
<1>5. CASE UNCHANGED <<shutdown, tcp, udp, worker, reader_handles, stop>>
  BY <1>5
<1> QED
  BY <1>1, <1>2, <1>3, <1>4, <1>5
  DEF Next, ReaderStep, ReaderTop, ReaderArm, ReaderNotified, ReaderReply, ReaderTimeout,
      ReaderExit, ReaderSelect, reader_frame, Age, vars

LEMMA TrackedNext == IInv /\ [Next]_vars => ReadersTracked'
<1> SUFFICES ASSUME IInv, [Next]_vars PROVE ReadersTracked'
  OBVIOUS
<1>0. /\ TypeOK /\ ReadersTracked /\ WorkerHolds /\ StopOrder
      /\ readers \in [Assocs -> [pc : ReaderPC, key : Keys \cup {NoKey}]]
      /\ worker \in [pc : WorkerPC, key : Keys \cup {NoKey},
                     assoc : Assocs \cup {NoAssoc}]
  BY DEF IInv, TypeOK
<1>1. CASE /\ reader_handles' = reader_handles
           /\ worker.pc # "track"
           /\ \A a \in Assocs : readers'[a].pc \in Live => readers[a].pc \in Live
  BY <1>0, <1>1 DEF ReadersTracked
<1>2. CASE /\ reader_handles' = reader_handles /\ worker' = worker
           /\ \A a \in Assocs : readers'[a].pc \in Live => readers[a].pc \in Live
  BY <1>0, <1>2 DEF ReadersTracked
<1>3. CASE WorkerReap
  BY <1>0, <1>3 DEF WorkerReap, Finished, ReadersTracked, Live
<1>4. CASE WorkerInsert
  <2>1. CASE worker.key \in DOMAIN udp_connections
    BY <1>1, <1>4, <2>1 DEF WorkerInsert
  <2>2. CASE worker.key \notin DOMAIN udp_connections
    <3>1. /\ reader_handles' = reader_handles /\ worker'.pc = "track"
          /\ worker'.assoc = worker.assoc /\ worker.pc = "insert"
          /\ \A a \in Assocs : a # worker.assoc => readers'[a] = readers[a]
      BY <1>0, <1>4, <2>2 DEF WorkerInsert, Worker
    <3> QED
      BY <1>0, <3>1 DEF ReadersTracked
  <2> QED
    BY <2>1, <2>2
<1>5. CASE WorkerTrack
  BY <1>0, <1>5 DEF WorkerTrack, ReadersTracked
<1>6. CASE \/ WorkerEnds \/ WorkerRecv \/ WorkerTick \/ WorkerFind \/ WorkerClean
           \/ WorkerLimit \/ WorkerAssociateFails \/ WorkerSend
           \/ \E a \in Assocs : WorkerAssociate(a)
  <2>1. reader_handles' = reader_handles /\ readers' = readers /\ worker.pc # "track"
    BY <1>6 DEF WorkerEnds, WorkerNotified, WorkerClosed, WorkerRecv, WorkerTick,
       WorkerFind, WorkerClean, WorkerLimit, WorkerAssociateFails, WorkerAssociate,
       WorkerSend, shared
  <2> QED
    BY <1>1, <2>1
<1>7. ASSUME NEW a \in Assocs, NEW pc, Reader(a, pc), readers[a].pc \in Live,
             worker' = worker, reader_handles' = reader_handles
      PROVE  ReadersTracked'
  <2>1. \A b \in Assocs : readers'[b].pc \in Live => readers[b].pc \in Live
    BY <1>0, <1>7 DEF Reader
  <2> QED
    BY <1>2, <1>7, <2>1
<1>8. ASSUME NEW a \in Assocs, ReaderStep(a) PROVE ReadersTracked'
  <2>1. /\ worker' = worker /\ reader_handles' = reader_handles
        /\ readers[a].pc \in Live
    BY <1>0, <1>8
    DEF ReaderStep, ReaderTop, ReaderArm, ReaderNotified, ReaderReply, ReaderTimeout,
        ReaderExit, reader_frame, Live, ReaderPC
  <2>2. \E pc \in ReaderPC : Reader(a, pc)
    BY <1>8
    DEF ReaderStep, ReaderTop, ReaderArm, ReaderNotified, ReaderReply, ReaderTimeout,
        ReaderExit, ReaderPC
  <2> QED
    BY <1>7, <2>1, <2>2
<1>9. ASSUME NEW a \in Assocs, NEW outcome \in {"reply", "top", "exit", "timeout"},
             ReaderSelect(a, outcome)
      PROVE  ReadersTracked'
  <2>1. readers[a].pc \in Live /\ worker' = worker /\ reader_handles' = reader_handles
    BY <1>9 DEF ReaderSelect, reader_frame, Live, ReaderPC
  <2> QED
    BY <1>7, <1>9, <2>1 DEF ReaderSelect
<1>10. ASSUME NEW a \in Assocs, StopDrain(a) PROVE ReadersTracked'
  BY <1>0, <1>10 DEF StopDrain, stop_frame, ReadersTracked, Live
<1>11. CASE readers' = readers /\ reader_handles' = reader_handles /\ worker' = worker
  BY <1>2, <1>11
<1> QED
  BY <1>3, <1>4, <1>5, <1>6, <1>8, <1>9, <1>10, <1>11
  DEF Next, TcpStep, TcpNotified, TcpAccept, TcpLoop, RelayEnds, tcp_frame, UdpStep, UdpTake,
      UdpNotified, UdpLoop, UdpReceive, UdpError, udp_frame, WorkerHandles,
      StopBegin, StopStep, StopNotify, StopJoin, StopReturn, stop_frame, Age,
      reader_frame, shared, vars
-------------------------------------------------------------------------------
(* The theorems *)

\* IInv holds in every reachable state.
THEOREM Invariance == Spec => []IInv
<1>1. Init => IInv
  BY InitIInv
<1>2. IInv /\ [Next]_vars => IInv'
  BY TypeNext, BuffersNext, EntriesNext, RoomNext, TrackedNext, StopNext
  DEF IInv, Entries
<1> QED
  BY <1>1, <1>2, PTL DEF Spec

\* Every state is well typed, and the map is locked just while the worker
\* stores a reader's handle.
THEOREM TypeCorrect == Spec => []TypeOK
<1>1. IInv => TypeOK
  BY DEF IInv
<1> QED
  BY <1>1, Invariance, PTL

\* take and put never need more buffers than the pool may hold.
THEOREM BuffersCorrect == Spec => []BuffersBounded
<1>1. IInv => BuffersBounded
  BY DEF IInv
<1> QED
  BY <1>1, Invariance, PTL

\* udp_connections never outgrows MAX_UDP_ASSOCIATIONS.
THEOREM LimitCorrect == Spec => []AssociationsBounded
<1>1. IInv => AssociationsBounded
  BY DEF IInv
<1> QED
  BY <1>1, Invariance, PTL

\* No entry outlives its reader.
THEOREM EntriesCorrect == Spec => []NoOrphanEntry
<1>1. IInv => NoOrphanEntry
  BY DEF IInv
<1> QED
  BY <1>1, Invariance, PTL

\* Nobody inserts the worker's key between its two lookups.
THEOREM InsertCorrect == Spec => []NoRacingInsert
<1>1. IInv => NoRacingInsert
  BY DEF IInv, WorkerHolds, NoRacingInsert, Missed
<1> QED
  BY <1>1, Invariance, PTL

\* The map is free while stop() holds the list of readers.
THEOREM LockOrder == Spec => []LocksInOrder
<1>1. IInv => LocksInOrder
  BY DEF IInv, TypeOK, StopOrder, LocksInOrder
<1> QED
  BY <1>1, Invariance, PTL

\* Once stop() drains the list every step of a reader is one towards its end.
THEOREM DrainEnds == Spec => ReadersWindDown
<1> DEFINE Nearer ==
             stop = "drain" =>
               /\ reader_handles' \subseteq reader_handles
               /\ \A a \in Assocs : readers'[a] = readers[a]
                    \/ Distance[readers'[a].pc] < Distance[readers[a].pc]
<1>1. IInv /\ [Next]_vars => [Nearer]_vars
  <2> SUFFICES ASSUME IInv, [Next]_vars, stop = "drain"
               PROVE  /\ reader_handles' \subseteq reader_handles
                      /\ \A a \in Assocs : readers'[a] = readers[a]
                           \/ Distance[readers'[a].pc] < Distance[readers[a].pc]
    OBVIOUS
  <2>1. /\ worker.pc = "done" /\ shutdown
        /\ readers \in [Assocs -> [pc : ReaderPC, key : Keys \cup {NoKey}]]
    BY DEF IInv, TypeOK, StopOrder
  <2>2. CASE readers' = readers /\ reader_handles' \subseteq reader_handles
    BY <2>2
  <2>3. ASSUME NEW a \in Assocs, NEW pc \in ReaderPC, Reader(a, pc),
               reader_handles' = reader_handles,
               Distance[pc] < Distance[readers[a].pc]
        PROVE  /\ reader_handles' \subseteq reader_handles
               /\ \A b \in Assocs : readers'[b] = readers[b]
                    \/ Distance[readers'[b].pc] < Distance[readers[b].pc]
    <3>1. \A b \in Assocs \ {a} : readers'[b] = readers[b]
      BY <2>1, <2>3 DEF Reader
    <3>2. readers'[a].pc = pc
      BY <2>1, <2>3 DEF Reader
    <3> QED
      BY <2>3, <3>1, <3>2
  <2>4. ASSUME NEW a \in Assocs, ReaderStep(a)
        PROVE  /\ reader_handles' = reader_handles
               /\ \E pc \in ReaderPC :
                    Reader(a, pc) /\ Distance[pc] < Distance[readers[a].pc]
    <3> DEFINE Ahead(pcs) == \E pc \in pcs : Reader(a, pc)
    <3>1. reader_handles' = reader_handles
      BY <2>4
      DEF ReaderStep, ReaderTop, ReaderArm, ReaderNotified, ReaderReply,
          ReaderTimeout, ReaderExit, reader_frame
    <3>2. \/ readers[a].pc \in {"reply", "timeout"} /\ Ahead({"top", "exit"})
          \/ readers[a].pc \in {"top", "select"} /\ Ahead({"exit"})
          \/ readers[a].pc = "arm" /\ Ahead({"select"})
          \/ readers[a].pc = "exit" /\ Ahead({"done"})
      BY <2>1, <2>4
      DEF ReaderStep, ReaderTop, ReaderArm, ReaderNotified, ReaderReply,
          ReaderTimeout, ReaderExit
    <3> QED
      BY <3>1, <3>2 DEF ReaderPC, Distance
  <2>5. ASSUME NEW a \in Assocs, NEW outcome \in {"reply", "top", "exit", "timeout"},
               ReaderSelect(a, outcome)
        PROVE  /\ reader_handles' = reader_handles
               /\ \E pc \in ReaderPC :
                    Reader(a, pc) /\ Distance[pc] < Distance[readers[a].pc]
    BY <2>5 DEF ReaderSelect, reader_frame, ReaderPC, Distance
  <2>6. ~ (WorkerHandles \/ WorkerEnds \/ WorkerRecv \/ WorkerTick)
    BY <2>1
    DEF WorkerEnds, WorkerNotified, WorkerClosed, WorkerRecv, WorkerTick, WorkerHandles,
        WorkerFind, WorkerClean, WorkerReap, WorkerLimit, WorkerAssociateFails,
        WorkerAssociate, WorkerInsert, WorkerTrack, WorkerSend
  <2>7. CASE \E a \in Assocs : ReaderStep(a)
    BY <2>3, <2>4, <2>7
  <2>8. CASE \E a \in Assocs, outcome \in {"reply", "top", "exit", "timeout"} :
               ReaderSelect(a, outcome)
    BY <2>3, <2>5, <2>8
  <2> QED
    BY <2>2, <2>6, <2>7, <2>8
    DEF Next, TcpStep, TcpNotified, TcpAccept, TcpLoop, RelayEnds, tcp_frame, UdpStep, UdpTake,
        UdpNotified, UdpLoop, UdpReceive, UdpError, udp_frame, StopBegin, StopStep,
        StopNotify, StopJoin, StopDrain, StopReturn, stop_frame, Age, reader_frame,
        shared, vars
<1> QED
  BY <1>1, Invariance, PTL DEF Spec, ReadersWindDown

\* When stop() returns the accept loops, the worker and every reader have ended
\* and the map is empty, however many TCP relays still run.
THEOREM StopCorrect == Spec => []StopComplete
<1>1. IInv => StopComplete
  <2> SUFFICES ASSUME IInv, stop = "done"
               PROVE  /\ tcp = "done" /\ udp = "done" /\ worker.pc = "done"
                      /\ \A a \in Assocs : readers[a].pc \in {"none", "done"}
                      /\ DOMAIN udp_connections = {}
    BY DEF StopComplete
  <2>1. tcp = "done" /\ udp = "done" /\ worker.pc = "done" /\ reader_handles = {}
    BY DEF IInv, StopOrder
  <2>2. \A a \in Assocs : readers[a].pc \in {"none", "done"}
    BY <2>1 DEF IInv, TypeOK, ReadersTracked, Live
  <2>3. \A k \in DOMAIN udp_connections : udp_connections[k].assoc \in Assocs
    BY DEF IInv, TypeOK
  <2> QED
    BY <2>1, <2>2, <2>3 DEF IInv, NoOrphanEntry
<1> QED
  BY <1>1, Invariance, PTL
===============================================================================
