---------------------------- MODULE LifecycleProofs ----------------------------
(***************************************************************************)
(* Proofs about Lifecycle, from what PacketLoopProofs shows of the loop.   *)
(***************************************************************************)
EXTENDS Lifecycle, TLAPS

LoopProofs == INSTANCE PacketLoopProofs

(* Every step of the program is a step of the packet loop's system, or leaves
   it alone. *)
LEMMA LoopStep ==
  ASSUME [Next]_vars
  PROVE  [Loop!Next]_(Loop!vars)
<1>1. CASE UNCHANGED theLoop
  BY <1>1 DEF theLoop, Loop!vars, Loop!environment, Loop!notifications, Loop!loopVars
<1>2. CASE SpawnLoop
  BY <1>2 DEF SpawnLoop, Loop!Next
<1>3. CASE RouterStop
  BY <1>3 DEF RouterStop, Loop!Next
<1>4. CASE CancelNotifications
  BY <1>1, <1>4 DEF CancelNotifications, Loop!Next
<1>5. CASE Running /\ Loop!LoopSteps
  BY <1>5 DEF Loop!Next
<1>6. CASE Surroundings
  BY <1>6 DEF Surroundings, Loop!Next
<1>7. CASE AppProgress /\ ~SpawnLoop /\ ~RouterStop /\ ~CancelNotifications
  BY <1>1, <1>7
  DEF AppProgress, RouterStart, StartProxy, StopProxy, QuitSelected, TuiJoined,
      ReleaseContext, LoopJoined, ResetFilters, Abort
<1>8. CASE ConfigFails \/ AddProxy(TRUE) \/ AddProxy(FALSE) \/ QuitSelected(TRUE)
           \/ TuiShutdown \/ TuiQuits(TRUE) \/ TuiQuits(FALSE)
  BY <1>1, <1>8 DEF ConfigFails, AddProxy, QuitSelected, TuiShutdown, TuiQuits
<1>9. CASE UNCHANGED vars
  BY <1>1, <1>9 DEF vars
<1> QED
  BY <1>2, <1>3, <1>4, <1>5, <1>6, <1>7, <1>8, <1>9 DEF Next

(* The program around it keeps the packet loop's rules. *)
THEOREM LoopImplemented == Spec => Loop!Spec
<1>1. Init => Loop!Init
  BY DEF Init
<1>2. [Next]_vars => [Loop!Next]_(Loop!vars)
  BY LoopStep
<1> QED
  BY <1>1, <1>2, PTL DEF Spec, Loop!Spec

(* Loop and LoopProofs are the same instance of PacketLoop. *)
LEMMA SameLoop ==
  /\ Loop!Init => LoopProofs!Init
  /\ [Loop!Next]_(Loop!vars) => [LoopProofs!Next]_(LoopProofs!vars)
<1> USE DEF Loop!environment, Loop!notifications, Loop!loopVars, Loop!Idle,
            LoopProofs!environment, LoopProofs!notifications, LoopProofs!loopVars,
            LoopProofs!Idle
<1>1. Loop!Init => LoopProofs!Init
  BY DEF Loop!Init, LoopProofs!Init
<1>2. Loop!CallbackSteps => LoopProofs!CallbackSteps
  BY DEF Loop!CallbackSteps, Loop!CallbackBegin, Loop!CallbackFails,
         Loop!CallbackList, Loop!CallbackSelect, Loop!CallbackFallback,
         Loop!CallbackRename,
         Loop!CallbackRestart,
         LoopProofs!CallbackSteps, LoopProofs!CallbackBegin, LoopProofs!CallbackFails,
         LoopProofs!CallbackList, LoopProofs!CallbackSelect,
         LoopProofs!CallbackFallback, LoopProofs!CallbackRename,
         LoopProofs!CallbackRestart
<1>3. Loop!LoopSteps => LoopProofs!LoopSteps
  BY DEF Loop!LoopSteps, Loop!LoopClone, Loop!LoopNotFound, Loop!LoopRetry,
         Loop!LoopFails, Loop!LoopOpen, Loop!LoopRestart, Loop!LoopShutdown,
         Loop!LoopRead, Loop!LoopReadReturns, Loop!LoopBatch, Loop!LoopClose,
         LoopProofs!LoopSteps, LoopProofs!LoopClone, LoopProofs!LoopNotFound,
         LoopProofs!LoopRetry, LoopProofs!LoopFails, LoopProofs!LoopOpen,
         LoopProofs!LoopRestart, LoopProofs!LoopShutdown, LoopProofs!LoopRead,
         LoopProofs!LoopReadReturns, LoopProofs!LoopBatch, LoopProofs!LoopClose
<1>4. Loop!Start \/ Loop!Stop \/ Loop!Cancel \/ Loop!InterfaceChange =>
        LoopProofs!Start \/ LoopProofs!Stop \/ LoopProofs!Cancel
          \/ LoopProofs!InterfaceChange
  BY DEF Loop!Start, Loop!Stop, Loop!Cancel, Loop!InterfaceChange,
         LoopProofs!Start, LoopProofs!Stop, LoopProofs!Cancel,
         LoopProofs!InterfaceChange
<1>5. UNCHANGED Loop!vars => UNCHANGED LoopProofs!vars
  BY DEF Loop!vars, LoopProofs!vars
<1> QED
  BY <1>1, <1>2, <1>3, <1>4, <1>5 DEF Loop!Next, LoopProofs!Next

(* The packet loop's invariant holds in the program. *)
LEMMA LoopInvariant == Spec => []LoopProofs!IInv
<1>1. LoopProofs!AdaptersOK
  BY AdaptersOK DEF LoopProofs!AdaptersOK
<1>2. Loop!Spec => LoopProofs!Spec
  BY SameLoop, PTL DEF Loop!Spec, LoopProofs!Spec
<1> QED
  BY <1>1, <1>2, LoopImplemented, LoopProofs!Invariance, PTL

(* What the proofs below use of it. *)
LEMMA LoopFacts ==
  ASSUME LoopProofs!IInv
  PROVE  /\ registered \in BOOLEAN
         /\ registered => loop # "none"
         /\ callback # Loop!Idle => registered
         /\ loop \in {"ended", "failed"} => \A a \in Adapters : mode[a] = "default"
<1>1. LoopProofs!TypeOK /\ LoopProofs!TunnelOnlyOpen
  BY DEF LoopProofs!IInv
<1>2. registered \in BOOLEAN /\ (registered => loop # "none")
  BY <1>1 DEF LoopProofs!TypeOK
<1>3. callback # Loop!Idle => registered
  BY <1>1 DEF LoopProofs!TypeOK, LoopProofs!CallbackState, Loop!Idle
<1>4. mode \in [Adapters -> {"default", "tunnel"}]
  BY <1>1 DEF LoopProofs!TypeOK
<1>5. loop \in {"ended", "failed"} => \A a \in Adapters : mode[a] # "tunnel"
  BY <1>1 DEF LoopProofs!TunnelOnlyOpen
<1> QED
  BY <1>2, <1>3, <1>4, <1>5

(* The loop's own steps and those around it. *)
LEMMA LoopMoves ==
  /\ Loop!LoopSteps =>
       /\ loop \notin {"none", "ended", "failed"} /\ loop' # "none"
       /\ registered' = registered
  /\ Loop!InterfaceChange \/ Loop!CallbackSteps =>
       loop' = loop /\ registered' = registered
<1>1. Loop!LoopSteps =>
        /\ loop \notin {"none", "ended", "failed"} /\ loop' # "none"
        /\ registered' = registered
  BY DEF Loop!LoopSteps, Loop!LoopClone, Loop!LoopNotFound, Loop!LoopRetry,
         Loop!LoopFails, Loop!LoopOpen, Loop!LoopRestart, Loop!LoopShutdown,
         Loop!LoopRead, Loop!LoopReadReturns, Loop!LoopBatch, Loop!LoopClose,
         Loop!notifications
<1>2. Loop!InterfaceChange \/ Loop!CallbackSteps =>
        loop' = loop /\ registered' = registered
  BY DEF Loop!InterfaceChange, Loop!CallbackSteps, Loop!CallbackBegin,
         Loop!CallbackFails, Loop!CallbackList, Loop!CallbackSelect, Loop!CallbackFallback,
         Loop!CallbackRename, Loop!CallbackRestart, Loop!notifications,
         Loop!loopVars
<1> QED
  BY <1>1, <1>2

(* Nothing takes the flag back that stop has set. *)
LEMMA ShutdownKept ==
  ASSUME [Loop!Next]_(Loop!vars)
  PROVE  shutdown => shutdown'
<1>1. CASE Loop!LoopSteps
  BY <1>1
  DEF Loop!LoopSteps, Loop!LoopClone, Loop!LoopNotFound, Loop!LoopRetry,
      Loop!LoopFails, Loop!LoopOpen, Loop!LoopRestart, Loop!LoopShutdown,
      Loop!LoopRead, Loop!LoopReadReturns, Loop!LoopBatch, Loop!LoopClose
<1>2. CASE Loop!InterfaceChange \/ Loop!CallbackSteps
  BY <1>2
  DEF Loop!InterfaceChange, Loop!CallbackSteps, Loop!CallbackBegin,
      Loop!CallbackFails, Loop!CallbackList, Loop!CallbackSelect, Loop!CallbackFallback,
      Loop!CallbackRename, Loop!CallbackRestart
<1>3. CASE Loop!Start \/ Loop!Stop \/ Loop!Cancel
  BY <1>3 DEF Loop!Start, Loop!Stop, Loop!Cancel
<1> QED
  BY <1>1, <1>2, <1>3 DEF Loop!Next, Loop!vars

LEMMA InitIInv == Init => IInv
<1> SUFFICES ASSUME Init PROVE IInv
  OBVIOUS
<1>1. TypeOK
  <2>1. /\ app \in AppState /\ tui \in {"running", "done"}
        /\ shutdown_requested \in BOOLEAN /\ context \in BOOLEAN
        /\ is_active \in BOOLEAN
        /\ is_active <=> app \in {"starting", "select", "joining", "closing"}
    BY DEF Init, AppState
  <2>2. /\ proxies \in Seq({"idle", "running", "stopped"})
        /\ static_filters = 1 + FILTERS_PER_PROXY * Len(proxies)
    BY DEF Init, FILTERS_PER_PROXY
  <2>3. filter_table \in 0..MAX_STATIC_FILTERS
    BY LimitsOK DEF Init
  <2> QED
    BY <2>1, <2>2, <2>3 DEF TypeOK
<1>2. loop = "none" /\ registered = FALSE
  BY DEF Init, Loop!Init
<1> QED
  BY <1>1, <1>2 DEF Init, IInv, LoopInTurn, ContextInTurn, ClosedLast

(* The filters counted and applied. *)
LEMMA FiltersTyped ==
  ASSUME TypeOK, NEW filters \in Nat, NEW succeeds \in BOOLEAN,
         ApplyStaticFilters(filters, succeeds)
  PROVE  filter_table' \in 0..MAX_STATIC_FILTERS
  BY LimitsOK DEF TypeOK, ApplyStaticFilters

LEMMA TypeStep ==
  ASSUME TypeOK, [Next]_vars
  PROVE  TypeOK'
<1> USE DEF AppState
<1>1. CASE \E succeeds \in BOOLEAN : AddProxy(succeeds)
  <2>1. PICK succeeds \in BOOLEAN : AddProxy(succeeds)
    BY <1>1
  <2>2. /\ proxies' \in Seq({"idle", "running", "stopped"})
        /\ Len(proxies') = Len(proxies) + 1 /\ Len(proxies) \in Nat
    BY <2>1 DEF AddProxy, TypeOK
  <2>3. /\ static_filters' = 1 + FILTERS_PER_PROXY * Len(proxies')
        /\ static_filters' \in Nat
    BY <2>1, <2>2 DEF AddProxy, TypeOK, FILTERS_PER_PROXY
  <2>4. filter_table' \in 0..MAX_STATIC_FILTERS
    BY <2>1, <2>3, FiltersTyped DEF AddProxy
  <2>5. app' \in {"config", "aborting"} /\ app = "config" /\ is_active' = is_active
    BY <2>1 DEF AddProxy
  <2> QED
    BY <2>1, <2>2, <2>3, <2>4, <2>5 DEF AddProxy, TypeOK
<1>2. CASE \E succeeds \in BOOLEAN : RouterStart(succeeds)
  <2>1. PICK succeeds \in BOOLEAN : RouterStart(succeeds)
    BY <1>2
  <2>2. static_filters \in Nat
    BY DEF TypeOK, FILTERS_PER_PROXY
  <2>3. filter_table' \in 0..MAX_STATIC_FILTERS
    BY <2>1, <2>2, FiltersTyped DEF RouterStart
  <2>4. /\ app' \in {"starting", "aborting"} /\ is_active' \in BOOLEAN
        /\ is_active' <=> app' = "starting"
    BY <2>1 DEF RouterStart
  <2>5. UNCHANGED <<tui, shutdown_requested, static_filters, proxies, context>>
    BY <2>1 DEF RouterStart
  <2> QED
    BY <2>3, <2>4, <2>5 DEF TypeOK
<1>3. CASE \E i \in DOMAIN proxies :
             StartProxy(i, TRUE) \/ StartProxy(i, FALSE) \/ StopProxy(i)
  <2>1. PICK i \in DOMAIN proxies :
           StartProxy(i, TRUE) \/ StartProxy(i, FALSE) \/ StopProxy(i)
    BY <1>3
  <2>2. /\ proxies' \in Seq({"idle", "running", "stopped"})
        /\ Len(proxies') = Len(proxies)
    BY <2>1 DEF StartProxy, StopProxy, TypeOK
  <2>3. /\ app' \in AppState
        /\ is_active' \in BOOLEAN
        /\ is_active' <=> app' \in {"starting", "select", "joining", "closing"}
    <3>1. CASE StartProxy(i, TRUE)
      BY <3>1 DEF StartProxy, TypeOK
    <3>2. CASE StartProxy(i, FALSE)
      BY <3>2 DEF StartProxy, TypeOK
    <3>3. CASE StopProxy(i)
      BY <3>3 DEF StopProxy, TypeOK
    <3> QED
      BY <2>1, <3>1, <3>2, <3>3
  <2>4. UNCHANGED <<tui, shutdown_requested, static_filters, filter_table, context>>
    BY <2>1 DEF StartProxy, StopProxy
  <2> QED
    BY <2>2, <2>3, <2>4 DEF TypeOK
<1>4. CASE SpawnLoop
  <2>1. registered' \in BOOLEAN
    BY <1>4 DEF SpawnLoop, Loop!Start
  <2> QED
    BY <1>4, <2>1 DEF SpawnLoop, TypeOK
<1>5. CASE \/ QuitSelected(TRUE) \/ QuitSelected(FALSE) \/ TuiJoined \/ RouterStop
           \/ CancelNotifications \/ ReleaseContext \/ LoopJoined \/ Abort
           \/ ConfigFails
  <2>1. /\ app' \in AppState
        /\ is_active' \in BOOLEAN
        /\ is_active' <=> app' \in {"starting", "select", "joining", "closing"}
    <3>1. CASE \/ QuitSelected(TRUE) \/ QuitSelected(FALSE) \/ TuiJoined
               \/ CancelNotifications \/ ReleaseContext \/ LoopJoined \/ Abort
               \/ ConfigFails
      <4>1. is_active' = is_active
        BY <3>1
        DEF QuitSelected, TuiJoined, CancelNotifications, ReleaseContext,
            LoopJoined, Abort, ConfigFails
      <4>2. \/ app = "select" /\ app' = "joining"
            \/ app = "joining" /\ app' = "closing"
            \/ /\ app \in {"abort_joining", "cancelling", "releasing", "awaiting",
                            "aborting", "config"}
               /\ app' \in {"failed", "releasing", "awaiting", "stopping",
                             "abort_joining", "aborting"}
        BY <3>1
        DEF QuitSelected, TuiJoined, CancelNotifications, ReleaseContext,
            LoopJoined, Abort, ConfigFails
      <4> QED
        BY <4>1, <4>2 DEF TypeOK
    <3>2. CASE RouterStop
      BY <3>2 DEF RouterStop
    <3> QED
      BY <1>5, <3>1, <3>2
  <2>2. shutdown_requested' \in BOOLEAN /\ context' \in BOOLEAN
    BY <1>5
    DEF QuitSelected, TuiJoined, RouterStop, CancelNotifications, ReleaseContext,
        LoopJoined, Abort, ConfigFails, TypeOK
  <2>3. UNCHANGED <<tui, static_filters, filter_table, proxies>>
    BY <1>5
    DEF QuitSelected, TuiJoined, RouterStop, CancelNotifications, ReleaseContext,
        LoopJoined, Abort, ConfigFails
  <2> QED
    BY <2>1, <2>2, <2>3 DEF TypeOK
<1>6. CASE ResetFilters(TRUE) \/ ResetFilters(FALSE)
  <2>1. filter_table' \in 0..MAX_STATIC_FILTERS
    BY <1>6, LimitsOK DEF ResetFilters, TypeOK
  <2> QED
    BY <1>6, <2>1 DEF ResetFilters, TypeOK
<1>7. CASE TuiShutdown \/ TuiQuits(TRUE) \/ TuiQuits(FALSE)
  <2>1. /\ tui' \in {"running", "done"}
        /\ UNCHANGED <<app, is_active, static_filters, filter_table, proxies, context>>
    BY <1>7 DEF TuiShutdown, TuiQuits
  <2>2. shutdown_requested' \in BOOLEAN
    BY <1>7 DEF TuiShutdown, TuiQuits, TypeOK
  <2> QED
    BY <2>1, <2>2 DEF TypeOK
<1>8. CASE UNCHANGED appVars
  BY <1>8 DEF appVars, TypeOK
<1>9. CASE UNCHANGED vars
  BY <1>8, <1>9 DEF vars
<1> QED
  BY <1>1, <1>2, <1>3, <1>4, <1>5, <1>6, <1>7, <1>8, <1>9 DEF Next, AppProgress

(* The proxies run as long as the loop may. *)
LEMMA LoopInTurnStep ==
  ASSUME LoopInTurn, [Next]_vars
  PROVE  LoopInTurn'
<1>1. CASE AppProgress
  <2> USE DEF LoopInTurn
  <2>1. CASE RouterStart(TRUE) \/ RouterStart(FALSE)
    BY <2>1 DEF RouterStart, theLoop
  <2>2. CASE \E i \in DOMAIN proxies : StartProxy(i, TRUE) \/ StartProxy(i, FALSE)
    BY <2>2 DEF StartProxy, theLoop
  <2>3. CASE \E i \in DOMAIN proxies : StopProxy(i)
    BY <2>3 DEF StopProxy, theLoop
  <2>4. CASE SpawnLoop
    BY <2>4 DEF SpawnLoop
  <2>5. CASE RouterStop
    BY <2>5 DEF RouterStop
  <2>6. CASE CancelNotifications
    BY <2>6 DEF CancelNotifications
  <2>7. CASE \/ QuitSelected(FALSE) \/ TuiJoined \/ ReleaseContext \/ LoopJoined
             \/ ResetFilters(TRUE) \/ ResetFilters(FALSE) \/ Abort
    BY <2>7
    DEF QuitSelected, TuiJoined, ReleaseContext, LoopJoined, ResetFilters, Abort,
        theLoop
  <2> QED
    BY <1>1, <2>1, <2>2, <2>3, <2>4, <2>5, <2>6, <2>7 DEF AppProgress
<1>2. CASE ConfigFails \/ AddProxy(TRUE) \/ AddProxy(FALSE) \/ QuitSelected(TRUE)
  BY <1>2 DEF ConfigFails, AddProxy, QuitSelected, LoopInTurn, theLoop
<1>3. CASE TuiShutdown \/ TuiQuits(TRUE) \/ TuiQuits(FALSE)
  BY <1>3 DEF TuiShutdown, TuiQuits, LoopInTurn, theLoop
<1>4. CASE Running /\ Loop!LoopSteps /\ UNCHANGED appVars
  <2>1. app' = app /\ proxies' = proxies
    BY <1>4 DEF appVars
  <2> QED
    BY <1>4, <2>1, LoopMoves DEF Running, LoopInTurn
<1>5. CASE Surroundings /\ UNCHANGED appVars
  <2>1. app' = app /\ proxies' = proxies /\ loop' = loop
    BY <1>5, LoopMoves DEF Surroundings, appVars
  <2> QED
    BY <2>1 DEF LoopInTurn
<1>6. CASE UNCHANGED vars
  BY <1>6 DEF vars, theLoop, appVars, LoopInTurn
<1> QED
  BY <1>1, <1>2, <1>3, <1>4, <1>5, <1>6 DEF Next

(* The reference is there before the registration and until after its end. *)
LEMMA ContextInTurnStep ==
  ASSUME ContextInTurn, LoopInTurn, LoopProofs!IInv, [Next]_vars
  PROVE  ContextInTurn'
<1> USE DEF ContextInTurn
<1>1. CASE AppProgress
  <2>1. CASE RouterStart(TRUE) \/ RouterStart(FALSE)
    <3>1. registered' = registered /\ context' = context
      BY <2>1 DEF RouterStart, theLoop
    <3>2. app' \in {"starting", "aborting"}
      BY <2>1 DEF RouterStart
    <3> QED
      BY <3>1, <3>2
  <2>2. CASE \E i \in DOMAIN proxies :
               StartProxy(i, TRUE) \/ StartProxy(i, FALSE) \/ StopProxy(i)
    BY <2>2 DEF StartProxy, StopProxy, theLoop
  <2>3. CASE SpawnLoop
    BY <2>3 DEF SpawnLoop
  <2>4. CASE RouterStop
    BY <2>4 DEF RouterStop, Loop!Stop, Loop!notifications
  <2>5. CASE CancelNotifications
    <3>1. registered' = FALSE /\ context' = context /\ app' = "releasing"
      BY <2>5, LoopFacts DEF CancelNotifications, Loop!Cancel, theLoop
    <3> QED
      BY <3>1
  <2>6. CASE \/ QuitSelected(FALSE) \/ TuiJoined \/ ReleaseContext \/ LoopJoined
             \/ ResetFilters(TRUE) \/ ResetFilters(FALSE) \/ Abort
    BY <2>6
    DEF QuitSelected, TuiJoined, ReleaseContext, LoopJoined, ResetFilters, Abort,
        theLoop
  <2> QED
    BY <1>1, <2>1, <2>2, <2>3, <2>4, <2>5, <2>6 DEF AppProgress
<1>2. CASE ConfigFails \/ AddProxy(TRUE) \/ AddProxy(FALSE) \/ QuitSelected(TRUE)
  <2>1. registered' = registered /\ context' = context
    BY <1>2 DEF ConfigFails, AddProxy, QuitSelected, theLoop
  <2>2. app' \in {"config", "aborting", "joining"}
    BY <1>2 DEF ConfigFails, AddProxy, QuitSelected
  <2> QED
    BY <2>1, <2>2
<1>3. CASE TuiShutdown \/ TuiQuits(TRUE) \/ TuiQuits(FALSE)
  BY <1>3 DEF TuiShutdown, TuiQuits, theLoop
<1>4. CASE /\ (Running /\ Loop!LoopSteps) \/ Surroundings
           /\ UNCHANGED appVars
  <2>1. app' = app /\ context' = context /\ registered' = registered
    BY <1>4, LoopMoves DEF Surroundings, appVars
  <2> QED
    BY <2>1
<1>5. CASE UNCHANGED vars
  BY <1>5 DEF vars, theLoop, appVars
<1> QED
  BY <1>1, <1>2, <1>3, <1>4, <1>5 DEF Next

LEMMA ClosedLastStep ==
  ASSUME ClosedLast, [Next]_vars
  PROVE  ClosedLast'
<1> USE DEF ClosedLast
<1>1. CASE ResetFilters(TRUE) \/ ResetFilters(FALSE)
  BY <1>1 DEF ResetFilters
<1>2. CASE AppProgress /\ ~ResetFilters(TRUE) /\ ~ResetFilters(FALSE)
  BY <1>2
  DEF AppProgress, RouterStart, StartProxy, StopProxy, SpawnLoop, QuitSelected,
      TuiJoined, RouterStop, CancelNotifications, ReleaseContext, LoopJoined, Abort
<1>3. CASE ConfigFails \/ AddProxy(TRUE) \/ AddProxy(FALSE) \/ QuitSelected(TRUE)
  BY <1>3 DEF ConfigFails, AddProxy, QuitSelected
<1>4. CASE TuiShutdown \/ TuiQuits(TRUE) \/ TuiQuits(FALSE)
  BY <1>4 DEF TuiShutdown, TuiQuits
<1>5. CASE UNCHANGED appVars
  BY <1>5 DEF appVars
<1>6. CASE UNCHANGED vars
  BY <1>5, <1>6 DEF vars
<1> QED
  BY <1>1, <1>2, <1>3, <1>4, <1>5, <1>6 DEF Next

(* IInv is an invariant of the program. *)
THEOREM Invariance == Spec => [](IInv /\ LoopProofs!IInv)
<1>1. IInv /\ LoopProofs!IInv /\ [Next]_vars => IInv'
  BY TypeStep, LoopInTurnStep, ContextInTurnStep, ClosedLastStep DEF IInv
<1> QED
  BY <1>1, InitIInv, LoopInvariant, PTL DEF Spec

(* Type correctness: is_active is set exactly from a start that succeeded to
   the stop, and the router never counts more filters than it applied. *)
THEOREM TypeCorrect == Spec => []TypeOK
<1>1. IInv => TypeOK
  BY DEF IInv
<1> QED
  BY <1>1, Invariance, PTL

(* However the changes of the adapters and the end of the program interleave, a
   running callback has the reference it was registered with. *)
THEOREM CallbackSafe == Spec => []CallbackHasContext
<1>1. IInv /\ LoopProofs!IInv => CallbackHasContext
  BY LoopFacts DEF IInv, ContextInTurn, CallbackHasContext
<1> QED
  BY <1>1, Invariance, PTL

(* For any number of proxies, the loop redirects only while all of them run. *)
THEOREM ProxiesServe == Spec => []PacketsHaveProxies
<1>1. IInv => PacketsHaveProxies
  BY DEF IInv, TypeOK, AppState, LoopInTurn, PacketsHaveProxies
<1> QED
  BY <1>1, Invariance, PTL

(* The terminal is told to end before its thread is joined, the loop before its
   task is awaited and the callback cancelled, and neither is told otherwise. *)
THEOREM WaitsEnd == Spec => []ToldFirst
<1>1. Init => ToldFirst
  BY DEF Init, ToldFirst
<1>2. ToldFirst /\ [Next]_vars => ToldFirst'
  <2> SUFFICES ASSUME ToldFirst, [Next]_vars PROVE ToldFirst'
    OBVIOUS
  <2>1. shutdown => shutdown'
    BY LoopStep, ShutdownKept
  <2>2. CASE AppProgress
    <3>1. CASE RouterStop
      BY <3>1 DEF RouterStop, Loop!Stop, ToldFirst
    <3>2. CASE \/ RouterStart(TRUE) \/ RouterStart(FALSE) \/ SpawnLoop
               \/ QuitSelected(FALSE) \/ TuiJoined \/ CancelNotifications
               \/ ReleaseContext \/ LoopJoined \/ ResetFilters(TRUE)
               \/ ResetFilters(FALSE) \/ Abort
      BY <2>1, <3>2
      DEF RouterStart, SpawnLoop, QuitSelected, TuiJoined, CancelNotifications,
          ReleaseContext, LoopJoined, ResetFilters, Abort, ToldFirst
    <3>3. CASE \E i \in DOMAIN proxies :
                 StartProxy(i, TRUE) \/ StartProxy(i, FALSE) \/ StopProxy(i)
      BY <2>1, <3>3 DEF StartProxy, StopProxy, ToldFirst
    <3> QED
      BY <2>2, <3>1, <3>2, <3>3 DEF AppProgress
  <2>3. CASE ConfigFails \/ AddProxy(TRUE) \/ AddProxy(FALSE) \/ QuitSelected(TRUE)
    BY <2>1, <2>3 DEF ConfigFails, AddProxy, QuitSelected, ToldFirst
  <2>4. CASE TuiShutdown \/ TuiQuits(TRUE) \/ TuiQuits(FALSE)
    BY <2>1, <2>4 DEF TuiShutdown, TuiQuits, ToldFirst
  <2>5. CASE UNCHANGED appVars
    BY <2>1, <2>5 DEF appVars, ToldFirst
  <2> QED
    BY <2>2, <2>3, <2>4, <2>5 DEF Next, vars
<1> QED
  BY <1>1, <1>2, PTL DEF Spec

(* A run that returns without an error has undone all it did. *)
THEOREM CleanClose == Spec => []ClosedClean
<1>1. IInv /\ LoopProofs!IInv => ClosedClean
  BY LoopFacts DEF IInv, LoopInTurn, ContextInTurn, ClosedLast, ClosedClean
<1> QED
  BY <1>1, Invariance, PTL
===============================================================================
