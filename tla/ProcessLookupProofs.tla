------------------------- MODULE ProcessLookupProofs -------------------------
(***************************************************************************)
(* Proofs about ProcessLookup, for every set of tables, sockets, processes *)
(* and programs, and every limit of the two caches.                        *)
(***************************************************************************)
EXTENDS ProcessLookup, FiniteSetTheorems, TLAPS

LEMMA OlderTyped ==
  ASSUME NEW limit \in Nat, NEW t \in 0 .. limit + 1
  PROVE  /\ Older(limit, t) \in 0 .. limit + 1
         /\ Older(limit, t) >= t
BY DEF Older

LEMMA OlderMonotone ==
  ASSUME NEW limit \in Nat, NEW t \in 0 .. limit + 1, NEW u \in 0 .. limit + 1,
         t <= u
  PROVE  Older(limit, t) <= Older(limit, u)
BY DEF Older

\* Time preserves who is strictly older, up to saturation.
LEMMA OlderStrict ==
  ASSUME NEW limit \in Nat, NEW t \in 0 .. limit + 1, NEW u \in 0 .. limit + 1,
         Older(limit, t) > Older(limit, u)
  PROVE  t > u
BY DEF Older

LEMMA AgesNat == /\ SESSION_CACHE_MAX_AGE \in Nat /\ PROCESS_CACHE_TTL \in Nat
                 /\ PROCESS_CACHE_MAX \in Nat /\ 0 \in Age /\ 0 \in Unused
BY ConstantsOK DEF Age, Unused

\* The path cache within its limit.
PathsOK == IsFiniteSet(DOMAIN paths) /\ PathsBounded

\* The limit holds whatever was stored before the pruning.
LEMMA PrunedBounded ==
  ASSUME NEW cache, IsFiniteSet(DOMAIN cache)
  PROVE  /\ IsFiniteSet(DOMAIN Pruned(cache))
         /\ Cardinality(DOMAIN Pruned(cache)) <= PROCESS_CACHE_MAX
<1>1. CASE Cardinality(DOMAIN cache) <= PROCESS_CACHE_MAX
  BY <1>1 DEF Pruned
<1>2. CASE /\ ~ Cardinality(DOMAIN cache) <= PROCESS_CACHE_MAX
           /\ Cardinality(UsableIn(cache)) <= PROCESS_CACHE_MAX
  <2>1. DOMAIN Pruned(cache) = UsableIn(cache)
    BY <1>2 DEF Pruned
  <2>2. UsableIn(cache) \subseteq DOMAIN cache
    BY DEF UsableIn
  <2>3. IsFiniteSet(UsableIn(cache))
    BY <2>2, FS_Subset
  <2> QED
    BY <1>2, <2>1, <2>3
<1>3. CASE /\ ~ Cardinality(DOMAIN cache) <= PROCESS_CACHE_MAX
           /\ ~ Cardinality(UsableIn(cache)) <= PROCESS_CACHE_MAX
  <2>1. DOMAIN Pruned(cache) = {}
    BY <1>3 DEF Pruned
  <2>2. IsFiniteSet({}) /\ Cardinality({}) = 0
    BY FS_EmptySet
  <2>3. 0 <= PROCESS_CACHE_MAX
    BY ConstantsOK
  <2> QED
    BY <2>1, <2>2, <2>3
<1> QED
  BY <1>1, <1>2, <1>3

LEMMA PrunedTyped ==
  ASSUME NEW cache, DOMAIN cache \subseteq Pid,
         cache \in [DOMAIN cache -> CachedProcess]
  PROVE  /\ DOMAIN Pruned(cache) \subseteq Pid
         /\ Pruned(cache) \in [DOMAIN Pruned(cache) -> CachedProcess]
BY DEF Pruned, UsableIn
-------------------------------------------------------------------------------
(* The session cache *)

\* The rows found are rows of the cache, of the socket itself if it has one.
LEMMA RowsFound ==
  ASSUME NEW cache, NEW s \in Socket
  PROVE  /\ \A row \in Rows(cache, s) :
              \E u \in DOMAIN cache \cap {s, Wildcard[s]} : row = cache[u]
         /\ s \in DOMAIN cache => Rows(cache, s) = {cache[s]}
         /\ Rows(cache, s) = {} => s \notin DOMAIN cache /\ Wildcard[s] \notin DOMAIN cache
BY DEF Rows

\* A rebuilt table has a fresh row for each open socket, and the others keep
\* theirs.
LEMMA RebuiltRows ==
  ASSUME TypeOK, NEW t \in Table
  PROVE  LET new == Rebuilt(sessions, t)
         IN  /\ DOMAIN new \subseteq Socket
             /\ new \in [DOMAIN new -> Row]
             /\ OpenIn(t) \subseteq DOMAIN new
             /\ \A s \in DOMAIN new : TableOf[s] = t =>
                  s \in OpenIn(t) /\ new[s].pid = owner[s] /\ new[s].lost = 0
             /\ \A s \in DOMAIN new : TableOf[s] # t =>
                  s \in DOMAIN sessions /\ new[s] = sessions[s]
             /\ \A s \in DOMAIN sessions : TableOf[s] # t => s \in DOMAIN new
<1> DEFINE new == Rebuilt(sessions, t)
           kept == {u \in DOMAIN sessions : TableOf[u] # t}
           dom == kept \cup OpenIn(t)
<1>1. DOMAIN new = dom
  BY DEF Rebuilt
<1>2. \A s \in OpenIn(t) : s \in Socket /\ TableOf[s] = t /\ owner[s] \in Pid
  BY DEF TypeOK, OpenIn, IsOpen
<1>3. \A s \in OpenIn(t) : new[s] = [pid |-> owner[s], lost |-> 0]
  BY DEF Rebuilt, Snapshot
<1>4. \A s \in kept : new[s] = sessions[s]
  BY <1>2 DEF Rebuilt
<1>5. \A s \in OpenIn(t) : new[s] \in Row /\ new[s].pid = owner[s] /\ new[s].lost = 0
  <2> TAKE s \in OpenIn(t)
  <2> DEFINE row == [pid |-> owner[s], lost |-> 0]
  <2>1. new[s] = row /\ owner[s] \in Pid
    BY <1>2, <1>3
  <2>2. 0 \in Age
    BY AgesNat
  <2>3. row.pid = owner[s] /\ row.lost = 0 /\ row \in Row
    BY <2>1, <2>2 DEF Row
  <2> HIDE DEF row, new
  <2> QED
    BY <2>1, <2>3
<1>6. \A s \in kept : new[s] \in Row
  BY <1>4 DEF TypeOK
<1>7. new \in [dom -> Row]
  <2>1. \A s \in dom : new[s] \in Row
    BY <1>5, <1>6
  <2>2. new = [s \in dom |-> IF s \in OpenIn(t) THEN Snapshot(t)[s] ELSE sessions[s]]
    BY DEF Rebuilt
  <2>3. new = [s \in dom |-> new[s]]
    BY <2>2
  <2> HIDE DEF new, dom
  <2> QED
    BY <2>1, <2>3
<1>8. dom \subseteq Socket
  BY <1>2 DEF TypeOK
<1> QED
  BY <1>1, <1>2, <1>4, <1>5, <1>7, <1>8

\* What Located makes of the lookup.
LEMMA LocatedJob ==
  ASSUME NEW asked \in Job, NEW rows, NEW miss, Located(asked, rows, miss),
         \A row \in rows : row \in Row
  PROVE  \/ rows = {} /\ job' = miss
         \/ \E row \in rows :
              /\ job' \in Job /\ job'.pc = "path" /\ job'.pid = row.pid
              /\ job'.lost = row.lost /\ job'.pid \in Pid
              /\ job'.socket = asked.socket /\ job'.open = asked.open
<1>1. CASE rows = {}
  BY <1>1 DEF Located
<1>2. CASE rows # {}
  <2>1. PICK row \in rows :
          job' = [asked EXCEPT !.pc = "path", !.pid = row.pid, !.lost = row.lost]
    BY <1>2 DEF Located
  <2>2. row.pid \in Pid /\ row.lost \in Age
    BY DEF Row
  <2> QED
    BY <2>1, <2>2 DEF Job
<1> QED
  BY <1>1, <1>2

LEMMA AskedTyped ==
  ASSUME NEW s \in Socket
  PROVE  /\ Asked(s) \in Job /\ Asked(s).pc = "size" /\ Asked(s).socket = s
         /\ Asked(s).open = {u \in {s, Wildcard[s]} : IsOpen(u)}
BY AgesNat, ConstantsOK DEF Asked, Idle, Job, Results
-------------------------------------------------------------------------------
(* The inductive invariant, in the parts the actions disturb *)

SystemOK ==
  /\ owner \in [Socket -> Pid \cup {Nobody}]
  /\ held \in [Socket -> Age]
  /\ program \in [Pid -> Program \cup {Nobody}]
  /\ HeldOnlyOpen

SessionsOK ==
  /\ DOMAIN sessions \subseteq Socket
  /\ sessions \in [DOMAIN sessions -> Row]
  /\ refreshed \in [Table -> Age]
  /\ RowsRecent
  /\ RowsComplete

PathsTyped ==
  /\ DOMAIN paths \subseteq Pid
  /\ paths \in [DOMAIN paths -> CachedProcess]

JobOK ==
  /\ job \in Job
  /\ job.pc \in {"size", "fill"} => job.socket \in Socket
  /\ job.pc \in {"path", "query"} => job.pid \in Pid
  /\ job.pc = "query" => job.pid \notin DOMAIN paths
  /\ OpenStays
  /\ OwnerRecent
  /\ OpenSocketFound

LEMMA Parts ==
  IInv <=> SystemOK /\ SessionsOK /\ PathsTyped /\ PathsOK /\ JobOK
BY DEF IInv, TypeOK, SystemOK, SessionsOK, PathsTyped, PathsOK, JobOK

LEMMA PartsNext ==
  (IInv <=> SystemOK /\ SessionsOK /\ PathsTyped /\ PathsOK /\ JobOK)'
BY Parts, PTL

\* A step of the lookup that reads the sessions and the system.
LEMMA LookupStep ==
  ASSUME IInv, UNCHANGED <<owner, held, program, sessions, refreshed>>,
         PathsTyped', PathsOK', JobOK'
  PROVE  IInv'
<1>1. SystemOK' /\ SessionsOK'
  BY Parts DEF SystemOK, SessionsOK, RowsRecent, RowsComplete, HeldOnlyOpen, IsOpen
<1> QED
  BY <1>1, PartsNext

\* A step of the lookup that also leaves the path cache alone.
LEMMA JobStep ==
  ASSUME IInv, UNCHANGED <<owner, held, program, sessions, refreshed, paths>>,
         JobOK'
  PROVE  IInv'
<1>1. PathsTyped' /\ PathsOK'
  BY Parts DEF PathsTyped, PathsOK, PathsBounded
<1> QED
  BY <1>1, LookupStep

LEMMA InitIInv == Init => IInv
<1> SUFFICES ASSUME Init PROVE IInv
  OBVIOUS
<1> USE DEF Init
<1>1. SystemOK
  BY AgesNat DEF SystemOK, HeldOnlyOpen
<1>2. SessionsOK
  <2>1. SESSION_CACHE_MAX_AGE + 1 \in Age
    BY AgesNat DEF Age
  <2>2. refreshed \in [Table -> Age]
    BY <2>1
  <2>3. \A u \in Socket : TableOf[u] \in Table
    BY ConstantsOK
  <2>4. RowsRecent /\ RowsComplete
    BY <2>3, AgesNat DEF RowsRecent, RowsComplete
  <2> QED
    BY <2>2, <2>4 DEF SessionsOK
<1>3. PathsTyped /\ PathsOK
  BY FS_EmptySet, AgesNat DEF PathsTyped, PathsOK, PathsBounded
<1>4. JobOK
  BY AgesNat DEF JobOK, Job, Idle, OpenStays, OwnerRecent, OpenSocketFound
<1> QED
  BY <1>1, <1>2, <1>3, <1>4, Parts

\* find_pid_*_cached.
LEMMA BeginIInv ==
  ASSUME IInv, NEW s \in Socket, Begin(s) PROVE IInv'
<1>0. UNCHANGED <<owner, held, program, sessions, refreshed, paths>>
  BY DEF Begin, system
<1>1. /\ Asked(s) \in Job /\ Asked(s).pc = "size" /\ Asked(s).socket = s
      /\ Asked(s).open = {u \in {s, Wildcard[s]} : IsOpen(u)}
      /\ Wildcard[s] \in Socket /\ TableOf[Wildcard[s]] = TableOf[s]
      /\ TableOf[s] \in Table
  BY AskedTyped, ConstantsOK
<1>2. CASE job' = Asked(s)
  <2>1. JobOK'
    BY <1>0, <1>1, <1>2 DEF JobOK, OpenStays, OwnerRecent, OpenSocketFound, IsOpen
  <2> QED
    BY <1>0, <2>1, JobStep
<1>3. CASE job' # Asked(s)
  <2>1. ~ Stale(TableOf[s]) /\ Located(Asked(s), Rows(sessions, s), Asked(s))
    BY <1>3 DEF Begin
  <2>2. \A row \in Rows(sessions, s) :
          \E u \in DOMAIN sessions \cap {s, Wildcard[s]} : row = sessions[u]
    BY RowsFound
  <2>3. \A row \in Rows(sessions, s) : row \in Row
    BY <2>2, Parts DEF SessionsOK
  <2>4. PICK row \in Rows(sessions, s) :
          /\ job' \in Job /\ job'.pc = "path" /\ job'.pid = row.pid
          /\ job'.lost = row.lost /\ job'.pid \in Pid
          /\ job'.socket = Asked(s).socket /\ job'.open = Asked(s).open
    BY <1>1, <1>3, <2>1, <2>3, LocatedJob
  <2>5. row.lost <= SESSION_CACHE_MAX_AGE
    <3>1. PICK u \in DOMAIN sessions \cap {s, Wildcard[s]} : row = sessions[u]
      BY <2>2
    <3>2. row.lost <= refreshed[TableOf[s]]
      BY <1>1, <3>1, Parts DEF SessionsOK, RowsRecent
    <3>3. refreshed[TableOf[s]] \in Nat /\ row.lost \in Nat
      BY <1>1, <2>3, AgesNat, Parts DEF SessionsOK, Age, Row
    <3> QED
      BY <2>1, <3>2, <3>3, AgesNat DEF Stale
  <2>6. JobOK'
    BY <1>0, <1>1, <2>4, <2>5 DEF JobOK, OpenStays, OwnerRecent, OpenSocketFound, IsOpen
  <2> QED
    BY <1>0, <2>6, JobStep
<1> QED
  BY <1>2, <1>3

\* The two system calls, when the first succeeds or one of them fails.
LEMMA SizeIInv ==
  ASSUME IInv, Size \/ EnumerationFails PROVE IInv'
<1>0. /\ UNCHANGED <<owner, held, program, sessions, refreshed, paths>>
      /\ job \in Job
  BY Parts DEF Size, EnumerationFails, system, JobOK
<1>1. CASE Size
  <2>1. IsFiniteSet(OpenIn(TableOf[job.socket]))
    <3>1. OpenIn(TableOf[job.socket]) \subseteq Socket
      BY DEF OpenIn
    <3> QED
      BY <3>1, ConstantsOK, FS_Subset
  <2>2. Cardinality(OpenIn(TableOf[job.socket])) \in Nat
    BY <2>1, FS_CardinalityType
  <2>3. /\ job' \in Job /\ job'.pc = "fill" /\ job.pc = "size"
        /\ job'.socket = job.socket /\ job'.open = job.open
    BY <1>0, <1>1, <2>2 DEF Size, Job
  <2>4. JobOK'
    BY <1>0, <2>3, Parts DEF JobOK, OpenStays, OwnerRecent, OpenSocketFound, IsOpen
  <2> QED
    BY <1>0, <2>4, JobStep
<1>2. CASE EnumerationFails
  <2>1. job' \in Job /\ job'.pc = "failed" /\ job'.open = job.open
    BY <1>0, <1>2 DEF EnumerationFails, Job, Results
  <2>2. JobOK'
    BY <1>0, <2>1, Parts DEF JobOK, OpenStays, OwnerRecent, OpenSocketFound, IsOpen
  <2> QED
    BY <1>0, <2>2, JobStep
<1> QED
  BY <1>1, <1>2

\* The table is read, its rows are replaced, and the lookup tries once more.
LEMMA FillIInv ==
  ASSUME IInv, Fill PROVE IInv'
<1> DEFINE t == TableOf[job.socket]
           new == Rebuilt(sessions, t)
           rows == Rows(new, job.socket)
           miss == [job EXCEPT !.pc = "unknown"]
<1>0. /\ UNCHANGED <<owner, held, program, paths>>
      /\ job \in Job /\ job.socket \in Socket /\ t \in Table /\ job.pc = "fill"
      /\ sessions' = new /\ refreshed' = [refreshed EXCEPT ![t] = 0]
      /\ Located(job, rows, miss)
      /\ Wildcard[job.socket] \in Socket /\ TableOf[Wildcard[job.socket]] = t
  BY Parts, ConstantsOK DEF Fill, system, JobOK
<1>1. /\ DOMAIN new \subseteq Socket
      /\ new \in [DOMAIN new -> Row]
      /\ OpenIn(t) \subseteq DOMAIN new
      /\ \A s \in DOMAIN new : TableOf[s] = t =>
           s \in OpenIn(t) /\ new[s].pid = owner[s] /\ new[s].lost = 0
      /\ \A s \in DOMAIN new : TableOf[s] # t =>
           s \in DOMAIN sessions /\ new[s] = sessions[s]
      /\ \A s \in DOMAIN sessions : TableOf[s] # t => s \in DOMAIN new
  BY <1>0, RebuiltRows DEF IInv
<1> HIDE DEF new
<1>2. SystemOK' /\ PathsTyped' /\ PathsOK'
  BY <1>0, Parts DEF SystemOK, HeldOnlyOpen, IsOpen, PathsTyped, PathsOK, PathsBounded
<1>3. SessionsOK'
  <2>1. /\ refreshed' \in [Table -> Age] /\ refreshed'[t] = 0
        /\ \A u \in Table \ {t} : refreshed'[u] = refreshed[u]
    BY <1>0, AgesNat, Parts DEF SessionsOK
  <2>2. RowsRecent'
    <3> SUFFICES ASSUME NEW s \in DOMAIN new
                 PROVE  new[s].lost <= refreshed'[TableOf[s]]
      BY <1>0 DEF RowsRecent
    <3>1. TableOf[s] \in Table
      BY <1>1, ConstantsOK
    <3>2. CASE TableOf[s] = t
      BY <1>1, <2>1, <3>2
    <3>3. CASE TableOf[s] # t
      BY <1>1, <2>1, <3>1, <3>3, Parts DEF SessionsOK, RowsRecent
    <3> QED
      BY <3>2, <3>3
  <2>3. RowsComplete'
    <3> SUFFICES ASSUME NEW s \in Socket, held[s] > refreshed'[TableOf[s]]
                 PROVE  s \in DOMAIN new /\ new[s].pid = owner[s]
      BY <1>0 DEF RowsComplete
    <3>1. TableOf[s] \in Table
      BY ConstantsOK
    <3>2. CASE TableOf[s] # t
      BY <1>1, <2>1, <3>1, <3>2, Parts DEF SessionsOK, RowsComplete
    <3>3. CASE TableOf[s] = t
      <4>1. held[s] > 0
        BY <2>1, <3>3
      <4>2. IsOpen(s)
        BY <4>1, Parts DEF SystemOK, HeldOnlyOpen
      <4>3. s \in OpenIn(t)
        BY <3>3, <4>2 DEF OpenIn
      <4> QED
        BY <1>1, <3>3, <4>3
    <3> QED
      BY <3>2, <3>3
  <2> QED
    BY <1>0, <1>1, <2>1, <2>2, <2>3 DEF SessionsOK
<1>4. JobOK'
  <2>1. \A row \in rows : row \in Row /\ row.lost = 0
    <3> TAKE row \in rows
    <3>1. PICK u \in DOMAIN new \cap {job.socket, Wildcard[job.socket]} : row = new[u]
      BY <1>0, RowsFound
    <3> QED
      BY <1>0, <1>1, <3>1
  <2>2. CASE rows = {} /\ job' = miss
    <3>1. /\ job' \in Job /\ job'.pc = "unknown" /\ job'.open = job.open
      BY <1>0, <2>2 DEF Job, Results
    <3>2. job.socket \notin DOMAIN new /\ Wildcard[job.socket] \notin DOMAIN new
      BY <1>0, <2>2, RowsFound
    <3>3. job.open = {}
      BY <1>0, <1>1, <3>2, Parts DEF JobOK, OpenStays, OpenIn
    <3> QED
      BY <3>1, <3>3 DEF JobOK, OpenStays, OwnerRecent, OpenSocketFound
  <2>3. ASSUME NEW row \in rows,
               job' \in Job /\ job'.pc = "path" /\ job'.pid = row.pid,
               job'.lost = row.lost /\ job'.pid \in Pid,
               job'.socket = job.socket /\ job'.open = job.open
        PROVE  JobOK'
    <3>1. job'.lost <= SESSION_CACHE_MAX_AGE
      BY <2>1, <2>3, AgesNat
    <3> QED
      BY <1>0, <2>3, <3>1, Parts
      DEF JobOK, OpenStays, OwnerRecent, OpenSocketFound, IsOpen
  <2> QED
    BY <1>0, <2>1, <2>2, <2>3, LocatedJob
<1> QED
  BY <1>2, <1>3, <1>4, PartsNext

\* The path cache is asked.
LEMMA PathIInv ==
  ASSUME IInv, Path PROVE IInv'
<1>0. /\ UNCHANGED <<owner, held, program, sessions, refreshed>>
      /\ job \in Job /\ job.pc = "path" /\ job.pid \in Pid
      /\ PathsTyped /\ PathsOK
  BY Parts DEF Path, system, JobOK
<1>1. CASE job.pid \in DOMAIN paths /\ Usable(paths[job.pid])
  <2>1. /\ paths' = [paths EXCEPT ![job.pid].unused = 0]
        /\ job' = [job EXCEPT !.pc = "answered", !.path = paths[job.pid].path]
    BY <1>1 DEF Path, Answer
  <2>2. DOMAIN paths' = DOMAIN paths
    BY <2>1
  <2>3. PathsTyped'
    BY <1>0, <2>1, AgesNat DEF PathsTyped, CachedProcess
  <2>4. PathsOK'
    BY <1>0, <2>2 DEF PathsOK, PathsBounded
  <2>5. job' \in Job /\ job'.pc = "answered" /\ job'.open = job.open
    BY <1>0, <1>1, <2>1 DEF PathsTyped, CachedProcess, Job, Results
  <2>6. JobOK'
    BY <1>0, <2>5, Parts DEF JobOK, OpenStays, OwnerRecent, OpenSocketFound, IsOpen
  <2> QED
    BY <1>0, <2>3, <2>4, <2>6, LookupStep
<1>2. CASE ~ (job.pid \in DOMAIN paths /\ Usable(paths[job.pid]))
  <2>1. /\ paths' = [p \in DOMAIN paths \ {job.pid} |-> paths[p]]
        /\ job' = [job EXCEPT !.pc = "query"]
    BY <1>2 DEF Path
  <2>2. DOMAIN paths' = DOMAIN paths \ {job.pid}
    BY <2>1
  <2>3. PathsTyped'
    BY <1>0, <2>1 DEF PathsTyped
  <2>4. PathsOK'
    <3>1. DOMAIN paths' \subseteq DOMAIN paths
      BY <2>2
    <3>2. /\ IsFiniteSet(DOMAIN paths')
          /\ Cardinality(DOMAIN paths') <= Cardinality(DOMAIN paths)
      BY <1>0, <3>1, FS_Subset DEF PathsOK
    <3>3. Cardinality(DOMAIN paths') \in Nat /\ Cardinality(DOMAIN paths) \in Nat
      BY <1>0, <3>2, FS_CardinalityType DEF PathsOK
    <3> QED
      BY <1>0, <3>2, <3>3, AgesNat DEF PathsOK, PathsBounded
  <2>5. /\ job' \in Job /\ job'.pc = "query" /\ job'.open = job.open
        /\ job'.pid = job.pid /\ job'.lost = job.lost
    BY <1>0, <2>1 DEF Job
  <2>6. JobOK'
    BY <1>0, <2>2, <2>5, Parts
    DEF JobOK, OpenStays, OwnerRecent, OpenSocketFound, IsOpen
  <2> QED
    BY <1>0, <2>3, <2>4, <2>6, LookupStep
<1> QED
  BY <1>1, <1>2

\* The system names the program, and the cache is pruned.
LEMMA QueryIInv ==
  ASSUME IInv, NEW x \in Program, Query(x) PROVE IInv'
<1>0. /\ UNCHANGED <<owner, held, program, sessions, refreshed>>
      /\ job \in Job /\ job.pc = "query" /\ job.pid \in Pid
      /\ PathsTyped /\ PathsOK
      /\ paths' = Pruned(Stored(x))
      /\ job' = [job EXCEPT !.pc = "answered", !.path = x]
  BY Parts DEF Query, Answer, system, JobOK
<1>1. /\ DOMAIN Stored(x) = DOMAIN paths \cup {job.pid}
      /\ DOMAIN Stored(x) \subseteq Pid
      /\ Stored(x) \in [DOMAIN Stored(x) -> CachedProcess]
  BY <1>0, AgesNat DEF PathsTyped, Stored, CachedProcess
<1>2. PathsTyped'
  BY <1>0, <1>1, PrunedTyped DEF PathsTyped
<1>3. PathsOK'
  <2>1. IsFiniteSet(DOMAIN Stored(x))
    BY <1>0, <1>1, FS_AddElement DEF PathsOK
  <2> QED
    BY <1>0, <2>1, PrunedBounded DEF PathsOK, PathsBounded
<1>4. job' \in Job /\ job'.pc = "answered" /\ job'.open = job.open
  BY <1>0 DEF Job, Results
<1>5. JobOK'
  BY <1>0, <1>4, Parts DEF JobOK, OpenStays, OwnerRecent, OpenSocketFound, IsOpen
<1> QED
  BY <1>0, <1>2, <1>3, <1>5, LookupStep

\* The lookup fails or returns.
LEMMA EndIInv ==
  ASSUME IInv, QueryFails \/ Return PROVE IInv'
<1>0. /\ UNCHANGED <<owner, held, program, sessions, refreshed, paths>>
      /\ job \in Job
  BY Parts DEF QueryFails, Return, system, JobOK
<1>1. CASE QueryFails
  <2>1. job' \in Job /\ job'.pc = "failed" /\ job'.open = job.open
    BY <1>0, <1>1 DEF QueryFails, Job, Results
  <2>2. JobOK'
    BY <1>0, <2>1, Parts DEF JobOK, OpenStays, OwnerRecent, OpenSocketFound, IsOpen
  <2> QED
    BY <1>0, <2>2, JobStep
<1>2. CASE Return
  <2>1. job' \in Job /\ job'.pc = "idle" /\ job'.open = {}
    BY <1>2, AgesNat DEF Return, Idle, Job
  <2>2. JobOK'
    BY <2>1 DEF JobOK, OpenStays, OwnerRecent, OpenSocketFound
  <2> QED
    BY <1>0, <2>2, JobStep
<1> QED
  BY <1>1, <1>2

\* A socket is opened.
LEMMA OpenIInv ==
  ASSUME IInv, NEW s \in Socket, NEW p \in Pid, Open(s, p) PROVE IInv'
<1>0. /\ UNCHANGED <<program, sessions, refreshed, paths, job>>
      /\ owner' = [owner EXCEPT ![s] = p] /\ held' = [held EXCEPT ![s] = 0]
      /\ p # Nobody
  BY ConstantsOK DEF Open
<1>1. /\ \A u \in Socket \ {s} : owner'[u] = owner[u] /\ held'[u] = held[u]
      /\ owner'[s] = p /\ held'[s] = 0
      /\ \A u \in Socket : IsOpen(u) => IsOpen(u)'
  BY <1>0, Parts DEF SystemOK, IsOpen
<1>2. SystemOK'
  BY <1>0, <1>1, AgesNat, Parts DEF SystemOK, HeldOnlyOpen, IsOpen
<1>3. SessionsOK'
  <2>1. RowsComplete'
    <3> SUFFICES ASSUME NEW u \in Socket, held'[u] > refreshed[TableOf[u]]
                 PROVE  u \in DOMAIN sessions /\ sessions[u].pid = owner'[u]
      BY <1>0 DEF RowsComplete
    <3>1. refreshed[TableOf[u]] \in Nat
      BY ConstantsOK, AgesNat, Parts DEF SessionsOK, Age
    <3>2. u # s
      BY <1>1, <3>1
    <3> QED
      BY <1>1, <3>2, Parts DEF SessionsOK, RowsComplete
  <2> QED
    BY <1>0, <2>1, Parts DEF SessionsOK, RowsRecent
<1>4. PathsTyped' /\ PathsOK' /\ JobOK'
  BY <1>0, <1>1, Parts
  DEF PathsTyped, PathsOK, PathsBounded, JobOK, OpenStays, OwnerRecent, OpenSocketFound
<1> QED
  BY <1>2, <1>3, <1>4, PartsNext

\* Some sockets are closed: by their owner, or with it.
LEMMA ClosingIInv ==
  ASSUME IInv, NEW closed \in SUBSET Socket,
         UNCHANGED <<sessions, refreshed, paths>>,
         program' \in [Pid -> Program \cup {Nobody}],
         owner' = [u \in Socket |-> IF u \in closed THEN Nobody ELSE owner[u]],
         held' = [u \in Socket |-> IF u \in closed THEN 0 ELSE held[u]],
         job' = [job EXCEPT !.open = job.open \ closed]
  PROVE  IInv'
<1>1. SystemOK'
  BY AgesNat, Parts DEF SystemOK, HeldOnlyOpen, IsOpen
<1>2. SessionsOK'
  <2>1. RowsComplete'
    <3> SUFFICES ASSUME NEW u \in Socket, held'[u] > refreshed[TableOf[u]]
                 PROVE  u \in DOMAIN sessions /\ sessions[u].pid = owner'[u]
      BY DEF RowsComplete
    <3>1. refreshed[TableOf[u]] \in Nat
      BY ConstantsOK, AgesNat, Parts DEF SessionsOK, Age
    <3>2. u \notin closed
      BY <3>1
    <3> QED
      BY <3>2, Parts DEF SessionsOK, RowsComplete
  <2> QED
    BY <2>1, Parts DEF SessionsOK, RowsRecent
<1>3. PathsTyped' /\ PathsOK'
  BY Parts DEF PathsTyped, PathsOK, PathsBounded
<1>4. JobOK'
  <2>1. job \in Job /\ job.open \subseteq Socket
    BY Parts DEF JobOK, Job
  <2>2. /\ job' \in Job /\ job'.open = job.open \ closed /\ job'.pc = job.pc
        /\ job'.socket = job.socket /\ job'.pid = job.pid /\ job'.lost = job.lost
    BY <2>1 DEF Job
  <2>3. \A u \in job'.open : IsOpen(u)'
    BY <2>1, <2>2, Parts DEF JobOK, OpenStays, IsOpen
  <2>4. OpenStays'
    BY <2>1, <2>2, <2>3, Parts DEF JobOK, OpenStays
  <2> QED
    BY <2>2, <2>4, Parts DEF JobOK, OwnerRecent, OpenSocketFound
<1> QED
  BY <1>1, <1>2, <1>3, <1>4, PartsNext

LEMMA CloseIInv ==
  ASSUME IInv, NEW s \in Socket, Close(s) PROVE IInv'
<1>0. owner \in [Socket -> Pid \cup {Nobody}] /\ held \in [Socket -> Age]
      /\ program \in [Pid -> Program \cup {Nobody}]
  BY Parts DEF SystemOK
<1> DEFINE closed == {s}
<1>1. /\ owner' = [u \in Socket |-> IF u \in closed THEN Nobody ELSE owner[u]]
      /\ held' = [u \in Socket |-> IF u \in closed THEN 0 ELSE held[u]]
  BY <1>0 DEF Close
<1>2. /\ UNCHANGED <<program, sessions, refreshed, paths>>
      /\ job' = [job EXCEPT !.open = job.open \ closed]
  BY DEF Close
<1> HIDE DEF closed
<1>3. closed \in SUBSET Socket
  BY DEF closed
<1> QED
  BY <1>0, <1>1, <1>2, <1>3, ClosingIInv

LEMMA ExitIInv ==
  ASSUME IInv, NEW p \in Pid, Exit(p) PROVE IInv'
<1> DEFINE closed == {s \in Socket : owner[s] = p}
<1>0. program \in [Pid -> Program \cup {Nobody}] /\ job.open \subseteq Socket
  BY Parts DEF SystemOK, JobOK, Job
<1>1. /\ owner' = [u \in Socket |-> IF u \in closed THEN Nobody ELSE owner[u]]
      /\ held' = [u \in Socket |-> IF u \in closed THEN 0 ELSE held[u]]
  BY DEF Exit
<1>2. {s \in job.open : owner[s] # p} = job.open \ closed
  BY <1>0
<1>3. /\ UNCHANGED <<sessions, refreshed, paths>>
      /\ job' = [job EXCEPT !.open = job.open \ closed]
  BY <1>2 DEF Exit
<1>4. program' \in [Pid -> Program \cup {Nobody}]
  BY <1>0 DEF Exit
<1>5. closed \in SUBSET Socket
  OBVIOUS
<1> HIDE DEF closed
<1> QED
  BY <1>1, <1>3, <1>4, <1>5, ClosingIInv

LEMMA ExecIInv ==
  ASSUME IInv, NEW p \in Pid, NEW x \in Program, Exec(p, x) PROVE IInv'
<1>0. UNCHANGED <<owner, held, sessions, refreshed, paths, job>>
  BY DEF Exec
<1>1. SystemOK'
  BY <1>0, Parts DEF Exec, SystemOK, HeldOnlyOpen, IsOpen
<1>2. SessionsOK' /\ PathsTyped' /\ PathsOK' /\ JobOK'
  BY <1>0, Parts
  DEF SessionsOK, RowsRecent, RowsComplete, PathsTyped, PathsOK, PathsBounded,
      JobOK, OpenStays, OwnerRecent, OpenSocketFound, IsOpen
<1> QED
  BY <1>1, <1>2, PartsNext

\* The clock.
LEMMA TickIInv ==
  ASSUME IInv, Tick PROVE IInv'
<1> DEFINE M == SESSION_CACHE_MAX_AGE
<1>0. /\ UNCHANGED <<owner, program, job>> /\ job.pc # "query"
      /\ sessions' = [s \in DOMAIN sessions |->
           [sessions[s] EXCEPT
              !.lost = IF owner[s] = sessions[s].pid THEN 0
                       ELSE Older(M, sessions[s].lost)]]
      /\ refreshed' = [t \in Table |-> Older(M, refreshed[t])]
      /\ paths' = [p \in DOMAIN paths |->
           [paths[p] EXCEPT !.unused = Older(PROCESS_CACHE_TTL, paths[p].unused)]]
      /\ held' = [s \in Socket |-> IF IsOpen(s) THEN Older(M, held[s]) ELSE 0]
  BY DEF Tick
<1>1. \A a \in Age : Older(M, a) \in Age
  BY AgesNat, OlderTyped DEF Age
<1>2. \A a \in Unused : Older(PROCESS_CACHE_TTL, a) \in Unused
  BY AgesNat, OlderTyped DEF Unused
<1>3. \A s \in DOMAIN sessions :
        /\ sessions[s] \in Row /\ sessions'[s] \in Row
        /\ sessions'[s].pid = sessions[s].pid
        /\ sessions'[s].lost = IF owner[s] = sessions[s].pid THEN 0
                               ELSE Older(M, sessions[s].lost)
  <2> TAKE s \in DOMAIN sessions
  <2> DEFINE lost == IF owner[s] = sessions[s].pid THEN 0
                     ELSE Older(M, sessions[s].lost)
  <2>1. sessions[s] \in Row
    BY Parts DEF SessionsOK
  <2>2. lost \in Age
    BY <1>1, <2>1, AgesNat DEF Row
  <2>3. sessions'[s] = [sessions[s] EXCEPT !.lost = lost]
    BY <1>0
  <2> HIDE DEF lost
  <2>4. sessions'[s] \in Row /\ sessions'[s].pid = sessions[s].pid
        /\ sessions'[s].lost = lost
    BY <2>1, <2>2, <2>3 DEF Row
  <2> QED
    BY <2>1, <2>4 DEF lost
<1>4. DOMAIN sessions' = DOMAIN sessions /\ DOMAIN paths' = DOMAIN paths
  BY <1>0
<1>5. SystemOK'
  BY <1>0, <1>1, AgesNat, Parts DEF SystemOK, HeldOnlyOpen, IsOpen
<1>6. SessionsOK'
  <2>1. refreshed' \in [Table -> Age]
    BY <1>0, <1>1, Parts DEF SessionsOK
  <2>2. sessions' \in [DOMAIN sessions' -> Row] /\ DOMAIN sessions' \subseteq Socket
    <3>1. sessions' = [s \in DOMAIN sessions |-> sessions'[s]]
      BY <1>0
    <3>2. sessions' \in [DOMAIN sessions -> Row]
      BY <1>3, <3>1
    <3> QED
      BY <1>4, <3>2, Parts DEF SessionsOK
  <2>3. RowsRecent'
    <3> SUFFICES ASSUME NEW s \in DOMAIN sessions
                 PROVE  sessions'[s].lost <= refreshed'[TableOf[s]]
      BY <1>4 DEF RowsRecent
    <3>1. /\ TableOf[s] \in Table /\ refreshed[TableOf[s]] \in Age
          /\ sessions[s].lost \in Age
          /\ sessions[s].lost <= refreshed[TableOf[s]]
          /\ refreshed'[TableOf[s]] = Older(M, refreshed[TableOf[s]])
      BY <1>0, <1>3, ConstantsOK, Parts DEF SessionsOK, RowsRecent, Row
    <3>2. Older(M, sessions[s].lost) <= Older(M, refreshed[TableOf[s]])
      BY <3>1, AgesNat, OlderMonotone DEF Age
    <3>3. Older(M, refreshed[TableOf[s]]) >= 0
      BY <1>1, <3>1, AgesNat DEF Age
    <3> QED
      BY <1>3, <3>1, <3>2, <3>3
  <2>4. RowsComplete'
    <3> SUFFICES ASSUME NEW s \in Socket, held'[s] > refreshed'[TableOf[s]]
                 PROVE  s \in DOMAIN sessions /\ sessions'[s].pid = owner[s]
      BY <1>0, <1>4 DEF RowsComplete
    <3>1. /\ TableOf[s] \in Table /\ refreshed[TableOf[s]] \in Age /\ held[s] \in Age
          /\ refreshed'[TableOf[s]] = Older(M, refreshed[TableOf[s]])
      BY <1>0, ConstantsOK, Parts DEF SessionsOK, SystemOK
    <3>2. Older(M, refreshed[TableOf[s]]) \in Nat
      BY <1>1, <3>1, AgesNat DEF Age
    <3>3. held'[s] = Older(M, held[s])
      BY <1>0, <3>1, <3>2
    <3>4. held[s] > refreshed[TableOf[s]]
      BY <3>1, <3>3, AgesNat, OlderStrict DEF Age
    <3> QED
      BY <1>3, <3>4, Parts DEF SessionsOK, RowsComplete
  <2> QED
    BY <2>1, <2>2, <2>3, <2>4 DEF SessionsOK
<1>7. PathsTyped'
  <2>1. \A p \in DOMAIN paths : paths'[p] \in CachedProcess
    <3> TAKE p \in DOMAIN paths
    <3>1. paths[p] \in CachedProcess
      BY Parts DEF PathsTyped
    <3>2. paths'[p] = [paths[p] EXCEPT !.unused = Older(PROCESS_CACHE_TTL, paths[p].unused)]
      BY <1>0
    <3>3. Older(PROCESS_CACHE_TTL, paths[p].unused) \in Unused
      BY <1>2, <3>1 DEF CachedProcess
    <3> QED
      BY <3>1, <3>2, <3>3 DEF CachedProcess
  <2>2. paths' = [p \in DOMAIN paths |-> paths'[p]]
    BY <1>0
  <2>3. paths' \in [DOMAIN paths -> CachedProcess]
    BY <2>1, <2>2
  <2> QED
    BY <1>4, <2>3, Parts DEF PathsTyped
<1>8. PathsOK' /\ JobOK'
  BY <1>0, <1>4, Parts
  DEF PathsOK, PathsBounded, JobOK, OpenStays, OwnerRecent, OpenSocketFound, IsOpen
<1> QED
  BY <1>5, <1>6, <1>7, <1>8, PartsNext

LEMMA NextIInv == IInv /\ [Next]_vars => IInv'
<1> SUFFICES ASSUME IInv, [Next]_vars PROVE IInv'
  OBVIOUS
<1>1. CASE UNCHANGED vars
  BY <1>1 DEF vars, IInv, TypeOK, HeldOnlyOpen, RowsRecent, RowsComplete, OpenStays,
              OwnerRecent, OpenSocketFound, PathsBounded, IsOpen
<1> QED
  BY <1>1, BeginIInv, SizeIInv, FillIInv, PathIInv, QueryIInv, EndIInv, OpenIInv,
     CloseIInv, ExitIInv, ExecIInv, TickIInv
  DEF Next

\* IInv holds in every reachable state.
THEOREM Invariance == Spec => []IInv
<1>1. IInv /\ [Next]_vars => IInv'
  BY NextIInv
<1> QED
  BY <1>1, InitIInv, PTL DEF Spec
-------------------------------------------------------------------------------
(* The properties *)

\* The caches and the lookup are well typed; in particular the path cache has
\* no entry for the process a running query asks about.
THEOREM TypeCorrect == Spec => []TypeOK
<1>1. IInv => TypeOK
  BY DEF IInv
<1> QED
  BY <1>1, Invariance, PTL

\* is_stale and the rebuild bound how old an attribution can be, up to the time
\* an enumeration of the system's table takes.
THEOREM OwnerBounded == Spec => []OwnerRecent
<1>1. IInv => OwnerRecent
  BY DEF IInv
<1> QED
  BY <1>1, Invariance, PTL

\* The second lookup, after the rebuild, never misses a socket that was open.
THEOREM OpenFound == Spec => []OpenSocketFound
<1>1. IInv => OpenSocketFound
  BY DEF IInv
<1> QED
  BY <1>1, Invariance, PTL

\* The pruning after each insertion keeps the path cache to its limit.
THEOREM CacheBounded == Spec => []PathsBounded
<1>1. IInv => PathsBounded
  BY DEF IInv
<1> QED
  BY <1>1, Invariance, PTL

\* When a lookup settles on a process, a long held socket is its owner's.
LEMMA SettledStep ==
  ASSUME IInv, Next, NEW s \in Socket,
         job.pc # "path", job'.pc = "path", job'.socket = s,
         held[s] > SESSION_CACHE_MAX_AGE
  PROVE  job'.pid = owner[s]
<1>0. /\ held[s] \in Age /\ job \in Job
      /\ TableOf[s] \in Table /\ refreshed[TableOf[s]] \in Age
  BY ConstantsOK, Parts DEF SystemOK, SessionsOK, JobOK
<1>1. ASSUME NEW s1 \in Socket, Begin(s1) PROVE job'.pid = owner[s]
  <2>1. /\ Asked(s1) \in Job /\ Asked(s1).pc = "size" /\ Asked(s1).socket = s1
    BY AskedTyped
  <2>2. ~ Stale(TableOf[s1]) /\ Located(Asked(s1), Rows(sessions, s1), Asked(s1))
    BY <1>1, <2>1 DEF Begin
  <2>3. \A row \in Rows(sessions, s1) : row \in Row
    BY RowsFound, Parts DEF SessionsOK
  <2>4. PICK row \in Rows(sessions, s1) : job'.pid = row.pid /\ job'.socket = s1
    BY <2>1, <2>2, <2>3, LocatedJob
  <2>5. s1 = s
    BY <2>4
  <2>6. held[s] > refreshed[TableOf[s]]
    BY <1>0, <2>2, <2>5, AgesNat DEF Stale, Age
  <2>7. s \in DOMAIN sessions /\ sessions[s].pid = owner[s]
    BY <2>6, Parts DEF SessionsOK, RowsComplete
  <2>8. row = sessions[s]
    BY <2>4, <2>5, <2>7, RowsFound
  <2> QED
    BY <2>4, <2>7, <2>8
<1>2. ASSUME Fill PROVE job'.pid = owner[s]
  <2> DEFINE t == TableOf[job.socket]
             new == Rebuilt(sessions, t)
             rows == Rows(new, job.socket)
  <2>1. /\ job.socket \in Socket /\ t \in Table
        /\ Located(job, rows, [job EXCEPT !.pc = "unknown"])
    BY <1>2, ConstantsOK, Parts DEF Fill, JobOK
  <2>2. /\ new \in [DOMAIN new -> Row]
        /\ OpenIn(t) \subseteq DOMAIN new
        /\ \A u \in DOMAIN new : TableOf[u] = t =>
             u \in OpenIn(t) /\ new[u].pid = owner[u] /\ new[u].lost = 0
    BY <2>1, RebuiltRows DEF IInv
  <2> HIDE DEF new
  <2>3. \A row \in rows : row \in Row
    BY <2>1, <2>2, RowsFound
  <2>4. PICK row \in rows : job'.pid = row.pid /\ job'.socket = job.socket
    <3>1. [job EXCEPT !.pc = "unknown"].pc = "unknown"
      BY <1>0 DEF Job
    <3> QED
      BY <1>0, <2>1, <2>3, <3>1, LocatedJob
  <2>5. job.socket = s
    BY <2>4
  <2>6. IsOpen(s)
    BY <1>0, AgesNat, Parts DEF SystemOK, HeldOnlyOpen
  <2>7. s \in DOMAIN new /\ new[s].pid = owner[s]
    BY <2>1, <2>2, <2>5, <2>6 DEF OpenIn
  <2>8. row = new[s]
    BY <2>1, <2>4, <2>5, <2>7, RowsFound
  <2> QED
    BY <2>4, <2>7, <2>8
<1>3. ASSUME job'.pc \in {job.pc, "fill", "failed", "answered", "query", "idle"}
      PROVE  FALSE
  BY <1>3
<1>4. CASE Size \/ EnumerationFails \/ QueryFails
  BY <1>0, <1>3, <1>4 DEF Size, EnumerationFails, QueryFails, Job
<1>5. ASSUME Path PROVE FALSE
  BY <1>5 DEF Path
<1>6. ASSUME NEW x \in Program, Query(x) PROVE FALSE
  BY <1>0, <1>6, <1>3 DEF Query, Answer, Job
<1>7. ASSUME Return PROVE FALSE
  BY <1>7 DEF Return, Idle
<1>8. ASSUME job'.pc = job.pc PROVE FALSE
  BY <1>8
<1>9. ASSUME NEW u \in Socket, Close(u) PROVE FALSE
  BY <1>0, <1>8, <1>9 DEF Close, Job
<1>10. ASSUME NEW p \in Pid, Exit(p) PROVE FALSE
  BY <1>0, <1>8, <1>10 DEF Exit, Job
<1> QED
  BY <1>1, <1>2, <1>4, <1>5, <1>6, <1>7, <1>8, <1>9, <1>10
  DEF Next, Open, Exec, Tick

\* A socket held for longer than the session cache's age is attributed to its
\* process, though the cache may be older than its wildcard's row.
THEOREM Settled == Spec => SettledOwner
<1> DEFINE Right == \A s \in Socket :
                      (job.pc # "path" /\ job'.pc = "path" /\ job'.socket = s
                         /\ held[s] > SESSION_CACHE_MAX_AGE)
                        => job'.pid = owner[s]
<1>1. IInv /\ [Next]_vars => [Right]_vars
  <2> SUFFICES ASSUME IInv, Next PROVE Right
    BY DEF vars
  <2> QED
    BY SettledStep
<1> QED
  BY <1>1, Invariance, PTL DEF Spec, SettledOwner
===============================================================================
