--------------------------- MODULE TransparentProxy ---------------------------
(***************************************************************************)
(* One transparent proxy after start() and through stop():                 *)
(* src/proxy/transparent_proxy.rs.                                         *)
(*                                                                         *)
(* Its tasks run in parallel: the TCP and the UDP accept loops, the UDP    *)
(* worker (udp_worker_loop, handle_udp_packet), one reader per SOCKS5 UDP  *)
(* association (spawn_udp_reader), one relay per TCP connection, which     *)
(* nobody keeps a handle of, and the caller of stop().  They share the     *)
(* datagram queue, the buffer pool, the map udp_connections, the list      *)
(* udp_reader_handles and the notification shutdown_notify.  A step is     *)
(* what a task does between two suspensions or two critical sections.      *)
(***************************************************************************)
EXTENDS Naturals, Sequences, FiniteSets

CONSTANTS Keys,                  \* UdpAssociationKeys: remote host, client port
          Assocs,                \* bound: associations (and their readers)
          UDP_QUEUE_SIZE,        \* capacity of the datagram queue
          MAX_UDP_ASSOCIATIONS,  \* size limit of udp_connections
          MaxRelays,             \* bound: TCP connections relayed at a time
          NoKey, NoAssoc         \* what the worker holds between datagrams

UDP_PACKET_POOL_MAX == UDP_QUEUE_SIZE + 2

ASSUME ConstantsOK ==
  /\ UDP_QUEUE_SIZE \in Nat \ {0}
  /\ MAX_UDP_ASSOCIATIONS \in Nat \ {0}
  /\ MaxRelays \in Nat
  /\ NoKey \notin Keys
  /\ NoAssoc \notin Assocs
  /\ Assocs \cap {"tcp", "udp", "worker"} = {}

VARIABLES
  shutdown,         \* the flag stop() sets
  notified,         \* tasks whose pending notified() has been woken
  tcp, udp,         \* where the two accept loops are
  relays,           \* number of tasks running handle_tcp_connection
  worker,           \* where the UDP worker is, its datagram's key, its association
  queue,            \* keys of the queued datagrams
  pooled,           \* number of buffers in udp_packet_buffers
  udp_connections,  \* key -> association and whether it has been idle 120 s
  map_locked,       \* the worker holds udp_connections across an await
  readers,          \* association -> its reader's place and key
  reader_handles,   \* associations whose reader is in udp_reader_handles
  stop              \* where the caller of stop() is

vars == <<shutdown, notified, tcp, udp, relays, worker, queue, pooled,
          udp_connections, map_locked, readers, reader_handles, stop>>
shared == <<udp_connections, map_locked, readers, reader_handles>>

AcceptorPC == {"take", "select", "busy", "done"}
WorkerPC == {"select", "find", "clean", "reap", "limit", "associate",
             "insert", "track", "send", "done"}
ReaderPC == {"none", "top", "arm", "select", "reply", "timeout", "exit", "done"}
StopPC == {"idle", "flagged", "join", "drain", "done"}
Tasks == {"tcp", "udp", "worker"} \cup Assocs

\* The worker's places between two datagrams.
Idling == {"select", "done"}

TypeOK ==
  /\ shutdown \in BOOLEAN
  /\ notified \subseteq Tasks
  /\ tcp \in AcceptorPC \ {"take"}
  /\ udp \in AcceptorPC
  /\ relays \in 0 .. MaxRelays
  /\ worker \in [pc : WorkerPC, key : Keys \cup {NoKey},
                 assoc : Assocs \cup {NoAssoc}]
  /\ queue \in Seq(Keys) /\ Len(queue) <= UDP_QUEUE_SIZE
  /\ pooled \in 0 .. UDP_PACKET_POOL_MAX
  /\ DOMAIN udp_connections \subseteq Keys
  /\ udp_connections \in
       [DOMAIN udp_connections -> [assoc : Assocs, stale : BOOLEAN]]
  /\ map_locked = (worker.pc = "track")
  /\ readers \in [Assocs -> [pc : ReaderPC, key : Keys \cup {NoKey}]]
  /\ reader_handles \subseteq Assocs
  /\ stop \in StopPC

Init ==
  /\ shutdown = FALSE
  /\ notified = {}
  /\ tcp = "select"
  /\ udp = "take"
  /\ relays = 0
  /\ worker = [pc |-> "select", key |-> NoKey, assoc |-> NoAssoc]
  /\ queue = << >>
  /\ pooled = 0
  /\ udp_connections = [k \in {} |-> k]
  /\ map_locked = FALSE
  /\ readers = [a \in Assocs |-> [pc |-> "none", key |-> NoKey]]
  /\ reader_handles = {}
  /\ stop = "idle"
-------------------------------------------------------------------------------
(* UdpPacketBufferPool *)

\* Mutant: a buffer is always allocated.
TakeAllocates == pooled' = pooled

\* take: reuse a buffer, or allocate one when there is none.
Take == pooled' = IF pooled > 0 THEN pooled - 1 ELSE 0

\* put: keep the buffer unless the pool is full.
Put == pooled' = IF pooled < UDP_PACKET_POOL_MAX THEN pooled + 1 ELSE pooled
-------------------------------------------------------------------------------
(* accept_tcp_connections and the relays it starts *)

tcp_frame == <<shutdown, udp, worker, queue, pooled, shared, stop>>

TcpNotified ==
  /\ tcp = "select" /\ "tcp" \in notified
  /\ tcp' = "done"
  /\ notified' = notified \ {"tcp"}
  /\ UNCHANGED <<relays, tcp_frame>>

\* An error followed by a pause, or a connection, whose relay is spawned and
\* its handle dropped: the other branch of the select is dropped, and with it
\* a notification that had already come.
TcpAccept ==
  /\ tcp = "select"
  /\ tcp' = "busy"
  /\ notified' = notified \ {"tcp"}
  /\ \/ UNCHANGED relays
     \/ relays < MaxRelays /\ relays' = relays + 1
  /\ UNCHANGED tcp_frame

TcpLoop ==
  /\ tcp = "busy"
  /\ tcp' = "select"
  /\ UNCHANGED <<notified, relays, tcp_frame>>

\* handle_tcp_connection ends: it finds no destination, the SOCKS5 server
\* refuses, or both ends of the relayed connection are closed.  Nothing else
\* ends it: it reads neither the flag nor the notification.
RelayEnds ==
  /\ relays > 0
  /\ relays' = relays - 1
  /\ UNCHANGED <<notified, tcp, tcp_frame>>
-------------------------------------------------------------------------------
(* accept_udp_connections *)

udp_frame == <<shutdown, tcp, relays, worker, shared, stop>>

UdpTake ==
  /\ udp = "take"
  /\ Take
  /\ udp' = "select"
  /\ UNCHANGED <<notified, queue, udp_frame>>

UdpNotified ==
  /\ udp = "select" /\ "udp" \in notified
  /\ Put
  /\ udp' = "done"
  /\ notified' = notified \ {"udp"}
  /\ UNCHANGED <<queue, udp_frame>>

\* A datagram: queued, dropped because the queue is full, or found that the
\* worker is gone, which ends the loop.
UdpReceive(key) ==
  /\ udp = "select"
  /\ notified' = notified \ {"udp"}
  /\ \/ /\ worker.pc # "done" /\ Len(queue) < UDP_QUEUE_SIZE
        /\ queue' = Append(queue, key)
        /\ udp' = "take"
        /\ UNCHANGED pooled
     \/ /\ worker.pc # "done" /\ Len(queue) = UDP_QUEUE_SIZE
        /\ Put
        /\ udp' = "take"
        /\ UNCHANGED queue
     \/ /\ worker.pc = "done"
        /\ Put
        /\ udp' = "done"
        /\ UNCHANGED queue
  /\ UNCHANGED udp_frame

\* recv_from fails: the buffer is put back, and the loop pauses.
UdpError ==
  /\ udp = "select"
  /\ Put
  /\ udp' = "busy"
  /\ notified' = notified \ {"udp"}
  /\ UNCHANGED <<queue, udp_frame>>

UdpLoop ==
  /\ udp = "busy"
  /\ udp' = "take"
  /\ UNCHANGED <<notified, queue, pooled, udp_frame>>
-------------------------------------------------------------------------------
(* udp_worker_loop and handle_udp_packet *)

worker_frame == <<shutdown, tcp, udp, relays, stop>>

Worker(pc) == worker' = [worker EXCEPT !.pc = pc]

\* The datagram is dealt with: its buffer goes back to the pool.
WorkerReturns ==
  /\ worker' = [pc |-> "select", key |-> NoKey, assoc |-> NoAssoc]
  /\ Put

\* cleanup_stale_udp_associations
DropStale ==
  LET fresh == {k \in DOMAIN udp_connections : ~ udp_connections[k].stale}
  IN  udp_connections' = [k \in fresh |-> udp_connections[k]]

Refresh(key) ==
  udp_connections' = [udp_connections EXCEPT ![key].stale = FALSE]

\* The loop ends; the queue is dropped with its receiver.
WorkerNotified ==
  /\ worker.pc = "select" /\ "worker" \in notified
  /\ Worker("done")
  /\ notified' = notified \ {"worker"}
  /\ queue' = << >>
  /\ UNCHANGED <<pooled, shared, worker_frame>>

WorkerTick ==
  /\ worker.pc = "select"
  /\ DropStale
  /\ notified' = notified \ {"worker"}
  /\ UNCHANGED <<worker, queue, pooled, map_locked, readers, reader_handles,
                 worker_frame>>

\* The next datagram.  query_udp finds no destination and it is dropped, or
\* finds its host, which with the client's port makes the key.
WorkerRecv ==
  /\ worker.pc = "select"
  /\ queue # << >>
  /\ queue' = Tail(queue)
  /\ notified' = notified \ {"worker"}
  /\ \/ WorkerReturns
     \/ worker' = [worker EXCEPT !.pc = "find", !.key = Head(queue)]
        /\ UNCHANGED pooled
  /\ UNCHANGED <<shared, worker_frame>>

\* The queue is empty and its sender gone.
WorkerClosed ==
  /\ worker.pc = "select"
  /\ queue = << >> /\ udp = "done"
  /\ Worker("done")
  /\ notified' = notified \ {"worker"}
  /\ UNCHANGED <<queue, pooled, shared, worker_frame>>

\* Mutant: an existing association is looked for only after a new one is made.
WorkerFindSkipped ==
  /\ worker.pc = "find"
  /\ Worker("clean")
  /\ UNCHANGED <<notified, queue, pooled, shared, worker_frame>>

WorkerFind ==
  /\ worker.pc = "find"
  /\ IF worker.key \in DOMAIN udp_connections
     THEN Refresh(worker.key) /\ Worker("send")
     ELSE Worker("clean") /\ UNCHANGED udp_connections
  /\ UNCHANGED <<notified, queue, pooled, map_locked, readers, reader_handles,
                 worker_frame>>

WorkerClean ==
  /\ worker.pc = "clean"
  /\ DropStale
  /\ Worker("reap")
  /\ UNCHANGED <<notified, queue, pooled, map_locked, readers, reader_handles,
                 worker_frame>>

Finished == {a \in reader_handles : readers[a].pc = "done"}

\* reap_udp_reader_handles; the association of a reaped reader may be reused.
WorkerReap ==
  /\ worker.pc = "reap"
  /\ stop # "drain"
  /\ reader_handles' = reader_handles \ Finished
  /\ readers' = [a \in Assocs |-> IF a \in Finished
                                  THEN [pc |-> "none", key |-> NoKey]
                                  ELSE readers[a]]
  /\ Worker("limit")
  /\ UNCHANGED <<notified, queue, pooled, udp_connections, map_locked,
                 worker_frame>>

\* Mutant: the limit is off by one.
WorkerLimitOff ==
  /\ worker.pc = "limit"
  /\ IF Cardinality(DOMAIN udp_connections) > MAX_UDP_ASSOCIATIONS
     THEN WorkerReturns
     ELSE Worker("associate") /\ UNCHANGED pooled
  /\ UNCHANGED <<notified, queue, shared, worker_frame>>

WorkerLimit ==
  /\ worker.pc = "limit"
  /\ IF Cardinality(DOMAIN udp_connections) >= MAX_UDP_ASSOCIATIONS
     THEN WorkerReturns
     ELSE Worker("associate") /\ UNCHANGED pooled
  /\ UNCHANGED <<notified, queue, shared, worker_frame>>

\* udp_associate: the SOCKS5 server refuses, or grants an association.
WorkerAssociateFails ==
  /\ worker.pc = "associate"
  /\ WorkerReturns
  /\ UNCHANGED <<notified, queue, shared, worker_frame>>

WorkerAssociate(a) ==
  /\ worker.pc = "associate"
  /\ readers[a].pc = "none"
  /\ worker' = [worker EXCEPT !.pc = "insert", !.assoc = a]
  /\ UNCHANGED <<notified, queue, pooled, shared, worker_frame>>

\* The second lookup.  With no entry the reader is spawned, and the map stays
\* locked until its handle is stored.
WorkerInsert ==
  /\ worker.pc = "insert"
  /\ IF worker.key \in DOMAIN udp_connections
     THEN /\ Refresh(worker.key)
          /\ Worker("send")
          /\ UNCHANGED <<map_locked, readers>>
     ELSE /\ map_locked' = TRUE
          /\ readers' = [readers EXCEPT ![worker.assoc] =
                           [pc |-> "top", key |-> worker.key]]
          /\ Worker("track")
          /\ UNCHANGED udp_connections
  /\ UNCHANGED <<notified, queue, pooled, reader_handles, worker_frame>>

\* Mutant: the map's guard lives on while the payload is sent.
WorkerTrackKeepsLock ==
  /\ worker.pc = "track"
  /\ stop # "drain"
  /\ reader_handles' = reader_handles \cup {worker.assoc}
  /\ udp_connections' =
       [k \in DOMAIN udp_connections \cup {worker.key} |->
          IF k = worker.key THEN [assoc |-> worker.assoc, stale |-> FALSE]
          ELSE udp_connections[k]]
  /\ Worker("send")
  /\ UNCHANGED <<notified, queue, pooled, map_locked, readers, worker_frame>>

\* spawn_udp_reader stores the handle; the entry is inserted and the map
\* unlocked.
WorkerTrack ==
  /\ worker.pc = "track"
  /\ stop # "drain"
  /\ reader_handles' = reader_handles \cup {worker.assoc}
  /\ udp_connections' =
       [k \in DOMAIN udp_connections \cup {worker.key} |->
          IF k = worker.key THEN [assoc |-> worker.assoc, stale |-> FALSE]
          ELSE udp_connections[k]]
  /\ map_locked' = FALSE
  /\ Worker("send")
  /\ UNCHANGED <<notified, queue, pooled, readers, worker_frame>>

\* The payload is sent to the relay, with or without success.
WorkerSend ==
  /\ worker.pc = "send"
  /\ WorkerReturns
  /\ UNCHANGED <<notified, queue, shared, worker_frame>>
-------------------------------------------------------------------------------
(* spawn_udp_reader: the reader of association a *)

reader_frame == <<shutdown, tcp, udp, relays, worker, queue, pooled,
                  map_locked, reader_handles, stop>>

Reader(a, pc) == readers' = [readers EXCEPT ![a].pc = pc]

\* Mutant: the reader's loop does not check the flag.
ReaderTopUnchecked(a) ==
  /\ readers[a].pc = "top"
  /\ Reader(a, "arm")
  /\ UNCHANGED <<notified, udp_connections, reader_frame>>

\* The head of the loop: while !shutdown.
ReaderTop(a) ==
  /\ readers[a].pc = "top"
  /\ Reader(a, IF shutdown THEN "exit" ELSE "arm")
  /\ UNCHANGED <<notified, udp_connections, reader_frame>>

\* The reader starts to wait; a notification before this step has missed it.
ReaderArm(a) ==
  /\ readers[a].pc = "arm"
  /\ Reader(a, "select")
  /\ UNCHANGED <<notified, udp_connections, reader_frame>>

ReaderNotified(a) ==
  /\ readers[a].pc = "select" /\ a \in notified
  /\ Reader(a, "exit")
  /\ notified' = notified \ {a}
  /\ UNCHANGED <<udp_connections, reader_frame>>

\* The other branch of the select: a datagram with a payload ("reply"),
\* without one ("top"), an error ("exit"), or 500 ms with nothing ("timeout").
ReaderSelect(a, outcome) ==
  /\ readers[a].pc = "select"
  /\ Reader(a, outcome)
  /\ notified' = notified \ {a}
  /\ UNCHANGED <<udp_connections, reader_frame>>

\* The payload went to the client: refresh the entry, or leave if it is gone.
ReaderReply(a) ==
  LET key == readers[a].key
  IN  /\ readers[a].pc = "reply"
      /\ ~ map_locked
      /\ IF key \in DOMAIN udp_connections
         THEN Refresh(key) /\ Reader(a, "top")
         ELSE Reader(a, "exit") /\ UNCHANGED udp_connections
      /\ UNCHANGED <<notified, reader_frame>>

\* After a timeout: leave if the entry is gone.
ReaderTimeout(a) ==
  /\ readers[a].pc = "timeout"
  /\ ~ map_locked
  /\ Reader(a, IF readers[a].key \in DOMAIN udp_connections THEN "top" ELSE "exit")
  /\ UNCHANGED <<notified, udp_connections, reader_frame>>

\* Mutant: the reader removes nothing when it ends.
ReaderExitQuietly(a) ==
  /\ readers[a].pc = "exit"
  /\ ~ map_locked
  /\ Reader(a, "done")
  /\ UNCHANGED <<notified, udp_connections, reader_frame>>

\* The reader ends; it removes the entry of its key, whichever association
\* that entry now holds.
ReaderExit(a) ==
  /\ readers[a].pc = "exit"
  /\ ~ map_locked
  /\ Reader(a, "done")
  /\ udp_connections' =
       [k \in DOMAIN udp_connections \ {readers[a].key} |-> udp_connections[k]]
  /\ UNCHANGED <<notified, reader_frame>>
-------------------------------------------------------------------------------
(* stop *)

stop_frame == <<tcp, udp, relays, worker, queue, pooled, udp_connections,
                map_locked, readers>>

StopBegin ==
  /\ stop = "idle"
  /\ shutdown' = TRUE
  /\ stop' = "flagged"
  /\ UNCHANGED <<notified, reader_handles, stop_frame>>

\* notify_waiters wakes the tasks that are waiting now, and no other.
StopNotify ==
  /\ stop = "flagged"
  /\ notified' =
       {t \in {"tcp"} : tcp = "select"} \cup {t \in {"udp"} : udp = "select"}
       \cup {t \in {"worker"} : worker.pc = "select"}
       \cup {a \in Assocs : readers[a].pc = "select"}
  /\ stop' = "join"
  /\ UNCHANGED <<shutdown, reader_handles, stop_frame>>

\* Mutant: the readers are drained without waiting for the worker.
StopJoinsAcceptors ==
  /\ stop = "join"
  /\ tcp = "done" /\ udp = "done"
  /\ stop' = "drain"
  /\ UNCHANGED <<shutdown, notified, reader_handles, stop_frame>>

\* The three handles are awaited, last spawned first; nothing else can tell
\* in which order.  Then udp_reader_handles is locked.
StopJoin ==
  /\ stop = "join"
  /\ tcp = "done" /\ udp = "done" /\ worker.pc = "done"
  /\ stop' = "drain"
  /\ UNCHANGED <<shutdown, notified, reader_handles, stop_frame>>

StopDrain(a) ==
  /\ stop = "drain"
  /\ a \in reader_handles
  /\ readers[a].pc = "done"
  /\ reader_handles' = reader_handles \ {a}
  /\ UNCHANGED <<shutdown, notified, stop, stop_frame>>

StopReturn ==
  /\ stop = "drain"
  /\ reader_handles = {}
  /\ stop' = "done"
  /\ UNCHANGED <<shutdown, notified, reader_handles, stop_frame>>
-------------------------------------------------------------------------------
\* 120 s pass without activity on an association.
Age(key) ==
  /\ key \in DOMAIN udp_connections
  /\ ~ map_locked
  /\ udp_connections' = [udp_connections EXCEPT ![key].stale = TRUE]
  /\ UNCHANGED <<notified, readers, reader_frame>>

TcpStep == TcpNotified \/ TcpLoop
UdpStep == UdpTake \/ UdpNotified \/ UdpLoop
WorkerHandles ==
  \/ WorkerFind \/ WorkerClean \/ WorkerReap \/ WorkerLimit
  \/ WorkerAssociateFails \/ (\E a \in Assocs : WorkerAssociate(a))
  \/ WorkerInsert \/ WorkerTrack \/ WorkerSend
WorkerEnds == WorkerNotified \/ WorkerClosed
ReaderStep(a) ==
  \/ ReaderTop(a) \/ ReaderArm(a) \/ ReaderNotified(a) \/ ReaderReply(a)
  \/ ReaderTimeout(a)
  \/ ReaderExit(a)
StopStep == StopNotify \/ StopJoin \/ (\E a \in Assocs : StopDrain(a)) \/ StopReturn

Next ==
  \/ TcpStep \/ TcpAccept \/ RelayEnds
  \/ UdpStep \/ (\E key \in Keys : UdpReceive(key)) \/ UdpError
  \/ WorkerHandles \/ WorkerEnds \/ WorkerRecv \/ WorkerTick
  \/ \E a \in Assocs : ReaderStep(a)
  \/ \E a \in Assocs, outcome \in {"reply", "top", "exit", "timeout"} :
       ReaderSelect(a, outcome)
  \/ StopBegin \/ StopStep
  \/ \E key \in Keys : Age(key)

\* Every task that can run is run, and a pending read times out.  Taking a
\* datagram or noticing the closed queue competes in the select with a timer
\* that fires every 5 s only, so it cannot lose for ever: strong fairness.
\* Fairness of WorkerHandles assumes that the SOCKS5 server answers, and
\* completely; nothing is assumed of a relay, which may never end.
Fairness ==
  /\ WF_vars(TcpStep) /\ WF_vars(UdpStep) /\ WF_vars(WorkerHandles)
  /\ SF_vars(WorkerRecv) /\ SF_vars(WorkerEnds)
  /\ \A a \in Assocs : WF_vars(ReaderStep(a)) /\ WF_vars(ReaderSelect(a, "timeout"))
  /\ WF_vars(StopStep)

Spec == Init /\ [][Next]_vars
FairSpec == Spec /\ Fairness
-------------------------------------------------------------------------------
(* Properties *)

Held(holds) == IF holds THEN 1 ELSE 0

\* take, put: the buffers in the pool, in the queue and in the hands of the
\* two tasks never exceed UDP_PACKET_POOL_MAX, so put never discards one and
\* the pool's limit is exactly the number of buffers the design can need.
BuffersBounded ==
  pooled + Len(queue) + Held(udp = "select") + Held(worker.pc \notin Idling)
    <= UDP_PACKET_POOL_MAX

\* The size limit holds although it is checked before an await and the entry
\* inserted after it (handle_udp_packet).
AssociationsBounded ==
  Cardinality(DOMAIN udp_connections) <= MAX_UDP_ASSOCIATIONS

\* An entry always has its reader: whatever evictions, takeovers of a key and
\* exits came before, no reader that has ended leaves its association behind,
\* where no timeout would find it (spawn_udp_reader).
NoOrphanEntry ==
  \A k \in DOMAIN udp_connections :
    LET reader == readers[udp_connections[k].assoc]
    IN  reader.key = k /\ reader.pc \notin {"none", "done"}

\* Between the lookup of a key and the insertion, across three locks and the
\* SOCKS5 handshake, nobody else inserts it: no association is made in vain.
NoRacingInsert ==
  worker.pc = "insert" => worker.key \notin DOMAIN udp_connections

\* When stop() returns, nothing it answers for is left: the accept loops, the
\* worker and every reader have ended, no association is in the map, and no
\* reader escaped the list it drained.  The relays of TCP connections are in
\* no list and may outlive it.
StopComplete ==
  stop = "done" =>
    /\ tcp = "done" /\ udp = "done" /\ worker.pc = "done"
    /\ \A a \in Assocs : readers[a].pc \in {"none", "done"}
    /\ DOMAIN udp_connections = {}

\* Once both accept loops have seen the notification, stop() returns: the
\* worker, the readers and stop() itself cannot wait on each other for ever.
StopFinishes ==
  (stop = "join" /\ tcp = "done" /\ udp = "done") ~> (stop = "done")

\* Why the readers and stop() cannot wait on each other: while stop() holds the
\* list of readers, which the worker takes with the map in hand, nobody holds the
\* map that an ending reader needs (handle_udp_packet, stop).
LocksInOrder == stop = "drain" => ~ map_locked

\* How far a reader is from its end once the flag is set.
Distance == [arm |-> 5, select |-> 4, reply |-> 3, timeout |-> 3, top |-> 2,
             exit |-> 1, done |-> 0, none |-> 0]

\* While stop() waits for the readers it has no more to wait for than before, and
\* each step of a reader, whatever its association still receives, brings it
\* nearer to its end: none goes round its loop again.
ReadersWindDown ==
  [][stop = "drain" =>
       /\ reader_handles' \subseteq reader_handles
       /\ \A a \in Assocs : readers'[a] = readers[a]
            \/ Distance[readers'[a].pc] < Distance[readers[a].pc]]_vars

\* A datagram the worker took is always dealt with, also during a stop.
WorkerReturnsToSelect == (worker.pc \notin Idling) ~> (worker.pc \in Idling)

\* The program's own words: "Press Ctrl+C to stop." (src/app.rs).  Once
\* stop() has been called it returns.
StopTerminates == (stop = "flagged") ~> (stop = "done")
-------------------------------------------------------------------------------
(* The inductive invariant *)

Live == ReaderPC \ {"none", "done"}

\* The worker's places after it found no entry for its key.
Missed == {"clean", "reap", "limit", "associate", "insert", "track"}

\* What the worker holds at its different places.
WorkerHolds ==
  /\ worker.pc \notin Idling => worker.key \in Keys
  /\ worker.pc \in Missed => worker.key \notin DOMAIN udp_connections
  /\ worker.pc \in {"insert", "track"} => worker.assoc \in Assocs
  /\ worker.pc = "insert" => readers[worker.assoc].pc = "none"
  /\ worker.pc = "track" =>
       readers[worker.assoc] \in [pc : Live, key : {worker.key}]

\* Once the limit is checked there is room until the entry is inserted.
RoomLeft ==
  /\ IsFiniteSet(DOMAIN udp_connections)
  /\ worker.pc \in {"associate", "insert", "track"} =>
       Cardinality(DOMAIN udp_connections) < MAX_UDP_ASSOCIATIONS

\* A running reader is in the list stop() drains, or about to be put there.
ReadersTracked ==
  \A a \in Assocs : readers[a].pc \in Live =>
    a \in reader_handles \/ (worker.pc = "track" /\ worker.assoc = a)

StopOrder ==
  /\ stop \in {"drain", "done"} =>
       tcp = "done" /\ udp = "done" /\ worker.pc = "done"
  /\ stop = "done" => reader_handles = {}
  /\ stop # "idle" => shutdown

IInv ==
  /\ TypeOK
  /\ BuffersBounded
  /\ WorkerHolds /\ NoOrphanEntry
  /\ RoomLeft /\ AssociationsBounded
  /\ ReadersTracked /\ StopOrder
===============================================================================
