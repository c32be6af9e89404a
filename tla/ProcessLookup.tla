----------------------------- MODULE ProcessLookup -----------------------------
(***************************************************************************)
(* WindowsProcessLookup of src/windows/process.rs: which program sent a    *)
(* packet.                                                                 *)
(*                                                                         *)
(* A lookup finds the process id of a socket in the session cache, which   *)
(* is rebuilt from the system's socket table when it is too old or has no  *)
(* such socket, and then the program of that id in the path cache, which   *)
(* asks the system when it has none.  The packet loop awaits each lookup,  *)
(* so there is one at a time; between its system calls sockets are opened  *)
(* and closed, and processes end and leave their id to others.             *)
(***************************************************************************)
EXTENDS Naturals, FiniteSets

CONSTANTS Table,     \* the system's socket tables: TCP or UDP, IPv4 or IPv6
          Socket,    \* keys of their rows: a local address, and for TCP a remote
          TableOf,   \* the table of a socket
          Wildcard,  \* a UDP socket -> the one bound to its port on every address
          Pid, Program,
          SESSION_CACHE_MAX_AGE, PROCESS_CACHE_TTL, PROCESS_CACHE_MAX,
          Nobody     \* no process, or no program

ASSUME ConstantsOK ==
  /\ IsFiniteSet(Socket)
  /\ TableOf \in [Socket -> Table]
  /\ Wildcard \in [Socket -> Socket]
  /\ \A s \in Socket : TableOf[Wildcard[s]] = TableOf[s]
  /\ SESSION_CACHE_MAX_AGE \in Nat \ {0}
  /\ PROCESS_CACHE_TTL \in Nat \ {0}
  /\ PROCESS_CACHE_MAX \in Nat \ {0}
  /\ Nobody \notin Pid /\ Nobody \notin Program

VARIABLES
  owner,      \* socket -> the process that has it open
  held,       \* history: how long its owner has had it
  program,    \* process id -> the program it runs
  sessions,   \* the cached rows of all tables
  refreshed,  \* table -> time since its cached rows were rebuilt
  paths,      \* process id -> cached program and time since its last use
  job         \* the lookup under way

vars == <<owner, held, program, sessions, refreshed, paths, job>>
system == <<owner, held, program>>

\* Times saturate one past the limit they are compared with; a table never
\* read is as old as can be.
Age == 0 .. SESSION_CACHE_MAX_AGE + 1
Unused == 0 .. PROCESS_CACHE_TTL + 1
Older(limit, t) == IF t > limit THEN t ELSE t + 1

\* lost is history: how long ago the process gave the socket up.
Row == [pid : Pid, lost : Age]
CachedProcess == [path : Program, unused : Unused]

\* Where a lookup is, what it found, the size it asked for, and two history
\* fields: lost of the row it used, and the sockets that answer its question
\* and have been open since it began.
Results == {"answered", "unknown", "failed"}
Job == [pc : {"idle", "size", "fill", "path", "query"} \cup Results,
        socket : Socket \cup {Nobody}, pid : Pid \cup {Nobody}, lost : Age,
        rows : Nat, open : SUBSET Socket, path : Program \cup {Nobody}]
Idle == [pc |-> "idle", socket |-> Nobody, pid |-> Nobody, lost |-> 0,
         rows |-> 0, open |-> {}, path |-> Nobody]

TypeOK ==
  /\ owner \in [Socket -> Pid \cup {Nobody}]
  /\ held \in [Socket -> Age]
  /\ program \in [Pid -> Program \cup {Nobody}]
  /\ DOMAIN sessions \subseteq Socket
  /\ sessions \in [DOMAIN sessions -> Row]
  /\ refreshed \in [Table -> Age]
  /\ DOMAIN paths \subseteq Pid
  /\ paths \in [DOMAIN paths -> CachedProcess]
  /\ job \in Job
  /\ job.pc \in {"size", "fill"} => job.socket \in Socket
  /\ job.pc \in {"path", "query"} => job.pid \in Pid
  /\ job.pc = "query" => job.pid \notin DOMAIN paths

Init ==
  /\ owner = [s \in Socket |-> Nobody]
  /\ held = [s \in Socket |-> 0]
  /\ program \in [Pid -> Program \cup {Nobody}]
  /\ sessions = [s \in {} |-> s]
  /\ refreshed = [t \in Table |-> SESSION_CACHE_MAX_AGE + 1]
  /\ paths = [p \in {} |-> p]
  /\ job = Idle
-------------------------------------------------------------------------------
(* The session cache *)

IsOpen(s) == owner[s] # Nobody
OpenIn(t) == {s \in Socket : TableOf[s] = t /\ IsOpen(s)}

Stale(t) == refreshed[t] > SESSION_CACHE_MAX_AGE

\* Mutant: the wildcard's row is preferred.
RowsWildcardFirst(cache, s) ==
  {cache[u] : u \in (IF Wildcard[s] \in DOMAIN cache THEN {Wildcard[s]} ELSE {s})
                      \cap DOMAIN cache}

\* lookup_tcp_*, lookup_udp_*: the row of the socket, for UDP else that of
\* its wildcard.
Rows(cache, s) ==
  {cache[u] : u \in (IF s \in DOMAIN cache THEN {s} ELSE {Wildcard[s]})
                      \cap DOMAIN cache}

\* The lookup goes on with the row it found; without one it does what a miss
\* says.
Located(asked, rows, miss) ==
  IF rows = {} THEN job' = miss
  ELSE \E row \in rows :
         job' = [asked EXCEPT !.pc = "path", !.pid = row.pid, !.lost = row.lost]

Asked(s) ==
  [Idle EXCEPT !.pc = "size", !.socket = s,
               !.open = {u \in {s, Wildcard[s]} : IsOpen(u)}]

\* Mutant: a cache that is not stale is taken at its word.
BeginTrustsMiss(s) ==
  /\ job.pc = "idle"
  /\ IF Stale(TableOf[s])
     THEN job' = Asked(s)
     ELSE Located(Asked(s), Rows(sessions, s), [Asked(s) EXCEPT !.pc = "unknown"])
  /\ UNCHANGED <<system, sessions, refreshed, paths>>

\* find_pid_*_cached: a stale cache is rebuilt, and so is one without the
\* socket.
Begin(s) ==
  /\ job.pc = "idle"
  /\ IF Stale(TableOf[s])
     THEN job' = Asked(s)
     ELSE Located(Asked(s), Rows(sessions, s), Asked(s))
  /\ UNCHANGED <<system, sessions, refreshed, paths>>

\* get_*_table asks how large the table is.
Size ==
  /\ job.pc = "size"
  /\ job' = [job EXCEPT !.pc = "fill",
                        !.rows = Cardinality(OpenIn(TableOf[job.socket]))]
  /\ UNCHANGED <<system, sessions, refreshed, paths>>

\* One of the two calls fails, the second in any case when the table has
\* outgrown the buffer: the lookup ends without an answer.
EnumerationFails ==
  /\ job.pc \in {"size", "fill"}
  /\ job' = [job EXCEPT !.pc = "failed"]
  /\ UNCHANGED <<system, sessions, refreshed, paths>>

Snapshot(t) == [s \in OpenIn(t) |-> [pid |-> owner[s], lost |-> 0]]

\* Mutant: the map is not cleared before it is rebuilt.
RebuiltOver(cache, t) ==
  [s \in DOMAIN cache \cup OpenIn(t) |->
     IF s \in OpenIn(t) THEN Snapshot(t)[s] ELSE cache[s]]

\* rebuild_*_map: the table's rows are replaced.
Rebuilt(cache, t) ==
  [s \in {u \in DOMAIN cache : TableOf[u] # t} \cup OpenIn(t) |->
     IF s \in OpenIn(t) THEN Snapshot(t)[s] ELSE cache[s]]

\* The second call, refresh_*_cache and the lookup after it.
Fill ==
  LET t == TableOf[job.socket]
  IN  /\ job.pc = "fill"
      /\ Cardinality(OpenIn(t)) <= job.rows
      /\ sessions' = Rebuilt(sessions, t)
      /\ refreshed' = [refreshed EXCEPT ![t] = 0]
      /\ Located(job, Rows(Rebuilt(sessions, t), job.socket),
                 [job EXCEPT !.pc = "unknown"])
      /\ UNCHANGED <<system, paths>>
-------------------------------------------------------------------------------
(* The path cache *)

Usable(entry) == entry.unused <= PROCESS_CACHE_TTL

Answer(x) == job' = [job EXCEPT !.pc = "answered", !.path = x]

\* Mutant: an expired path is left in the cache until it is replaced.
PathKeepsExpired ==
  /\ job.pc = "path"
  /\ IF job.pid \in DOMAIN paths /\ Usable(paths[job.pid])
     THEN /\ paths' = [paths EXCEPT ![job.pid].unused = 0]
          /\ Answer(paths[job.pid].path)
     ELSE /\ job' = [job EXCEPT !.pc = "query"]
          /\ UNCHANGED paths
  /\ UNCHANGED <<system, sessions, refreshed>>

\* A path used in the last PROCESS_CACHE_TTL answers, and counts as used now;
\* an older one is dropped.
Path ==
  /\ job.pc = "path"
  /\ IF job.pid \in DOMAIN paths /\ Usable(paths[job.pid])
     THEN /\ paths' = [paths EXCEPT ![job.pid].unused = 0]
          /\ Answer(paths[job.pid].path)
     ELSE /\ paths' = [p \in DOMAIN paths \ {job.pid} |-> paths[p]]
          /\ job' = [job EXCEPT !.pc = "query"]
  /\ UNCHANGED <<system, sessions, refreshed>>

UsableIn(cache) == {p \in DOMAIN cache : Usable(cache[p])}

\* Mutant: a cache over its limit only loses its expired entries.
PrunedOnce(cache) ==
  IF Cardinality(DOMAIN cache) <= PROCESS_CACHE_MAX THEN cache
  ELSE [p \in UsableIn(cache) |-> cache[p]]

\* A cache over its limit loses its expired entries, or if that is not
\* enough, all of them.
Pruned(cache) ==
  IF Cardinality(DOMAIN cache) <= PROCESS_CACHE_MAX THEN cache
  ELSE IF Cardinality(UsableIn(cache)) <= PROCESS_CACHE_MAX
       THEN [p \in UsableIn(cache) |-> cache[p]]
       ELSE [p \in {} |-> p]

Stored(x) ==
  [p \in DOMAIN paths \cup {job.pid} |->
     IF p = job.pid THEN [path |-> x, unused |-> 0] ELSE paths[p]]

\* query_process_path names the program that has the id by now.
Query(x) ==
  /\ job.pc = "query"
  /\ program[job.pid] = x
  /\ paths' = Pruned(Stored(x))
  /\ Answer(x)
  /\ UNCHANGED <<system, sessions, refreshed>>

\* The process is gone or may not be opened.
QueryFails ==
  /\ job.pc = "query"
  /\ job' = [job EXCEPT !.pc = "failed"]
  /\ UNCHANGED <<system, sessions, refreshed, paths>>

\* find_process_path returns to the packet loop.
Return ==
  /\ job.pc \in Results
  /\ job' = Idle
  /\ UNCHANGED <<system, sessions, refreshed, paths>>
-------------------------------------------------------------------------------
(* The system and the clock *)

Open(s, p) ==
  /\ ~ IsOpen(s) /\ program[p] # Nobody
  /\ owner' = [owner EXCEPT ![s] = p]
  /\ held' = [held EXCEPT ![s] = 0]
  /\ UNCHANGED <<program, sessions, refreshed, paths, job>>

Close(s) ==
  /\ IsOpen(s)
  /\ owner' = [owner EXCEPT ![s] = Nobody]
  /\ held' = [held EXCEPT ![s] = 0]
  /\ job' = [job EXCEPT !.open = job.open \ {s}]
  /\ UNCHANGED <<program, sessions, refreshed, paths>>

\* A process ends, and its sockets are closed.
Exit(p) ==
  /\ program[p] # Nobody
  /\ program' = [program EXCEPT ![p] = Nobody]
  /\ owner' = [s \in Socket |-> IF owner[s] = p THEN Nobody ELSE owner[s]]
  /\ held' = [s \in Socket |-> IF owner[s] = p THEN 0 ELSE held[s]]
  /\ job' = [job EXCEPT !.open = {s \in job.open : owner[s] # p}]
  /\ UNCHANGED <<sessions, refreshed, paths>>

\* A process starts, perhaps with the id of another one.
Exec(p, x) ==
  /\ program[p] = Nobody
  /\ program' = [program EXCEPT ![p] = x]
  /\ UNCHANGED <<owner, held, sessions, refreshed, paths, job>>

\* The time that asking for a path takes is neglected.
Tick ==
  /\ job.pc # "query"
  /\ sessions' = [s \in DOMAIN sessions |->
       [sessions[s] EXCEPT
          !.lost = IF owner[s] = sessions[s].pid THEN 0
                   ELSE Older(SESSION_CACHE_MAX_AGE, sessions[s].lost)]]
  /\ refreshed' = [t \in Table |-> Older(SESSION_CACHE_MAX_AGE, refreshed[t])]
  /\ paths' = [p \in DOMAIN paths |->
       [paths[p] EXCEPT !.unused = Older(PROCESS_CACHE_TTL, paths[p].unused)]]
  /\ held' = [s \in Socket |-> IF IsOpen(s) THEN Older(SESSION_CACHE_MAX_AGE, held[s])
                               ELSE 0]
  /\ UNCHANGED <<owner, program, job>>

Next ==
  \/ \E s \in Socket : Begin(s)
  \/ Size
  \/ EnumerationFails
  \/ Fill
  \/ Path
  \/ \E x \in Program : Query(x)
  \/ QueryFails
  \/ Return
  \/ \E s \in Socket : \E p \in Pid : Open(s, p)
  \/ \E s \in Socket : Close(s)
  \/ \E p \in Pid : Exit(p)
  \/ \E p \in Pid : \E x \in Program : Exec(p, x)
  \/ Tick

Spec == Init /\ [][Next]_vars
-------------------------------------------------------------------------------
(* Properties *)

\* However sockets change hands, the process a lookup settles on had the
\* socket, or its wildcard, open at most SESSION_CACHE_MAX_AGE before
\* (is_stale, and the rows a rebuild replaces).  The age counts from the end of
\* the enumeration, where the code takes the time: Fill reads the system's table
\* in one step, so that the time this takes has to be added.
OwnerRecent == job.pc \in {"path", "query"} => job.lost <= SESSION_CACHE_MAX_AGE

\* A socket that its process has had for longer than SESSION_CACHE_MAX_AGE is
\* attributed to that process, whoever has its wildcard or had it before.
SettledOwner ==
  [][\A s \in Socket :
       (job.pc # "path" /\ job'.pc = "path" /\ job'.socket = s
          /\ held[s] > SESSION_CACHE_MAX_AGE)
         => job'.pid = owner[s]]_vars

\* "process id not found" is never said of a socket that was open all the
\* time, be it so new that no cache has it: unless the system's table could
\* not be read, its packets are attributed.
OpenSocketFound == job.pc = "unknown" => job.open = {}

\* The path cache keeps to its limit, however many processes come and go.
PathsBounded == Cardinality(DOMAIN paths) <= PROCESS_CACHE_MAX
-------------------------------------------------------------------------------
(* The inductive invariant *)

\* What the session cache says is no older than its table.
RowsRecent == \A s \in DOMAIN sessions : sessions[s].lost <= refreshed[TableOf[s]]

\* A socket older than its table's rows is one of them.
RowsComplete ==
  \A s \in Socket : held[s] > refreshed[TableOf[s]] =>
    s \in DOMAIN sessions /\ sessions[s].pid = owner[s]

\* A closed socket has no owner that held it.
HeldOnlyOpen == \A s \in Socket : ~ IsOpen(s) => held[s] = 0

\* Sockets counted as open are open.
OpenStays ==
  /\ job.open \subseteq {s \in Socket : IsOpen(s)}
  /\ job.pc \in {"size", "fill"} => job.open \subseteq {job.socket, Wildcard[job.socket]}

IInv ==
  /\ TypeOK
  /\ HeldOnlyOpen
  /\ RowsRecent
  /\ RowsComplete
  /\ OpenStays
  /\ OwnerRecent
  /\ OpenSocketFound
  /\ IsFiniteSet(DOMAIN paths) /\ PathsBounded
===============================================================================
