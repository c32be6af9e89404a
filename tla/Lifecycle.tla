------------------------------ MODULE Lifecycle ------------------------------
(***************************************************************************)
(* The life of the program: run of src/app.rs, and the new, start, stop    *)
(* and close of SocksLocalRouter (src/router/mod.rs) that it calls, around *)
(* the packet loop of PacketLoop.                                          *)
(*                                                                         *)
(* run and the packet loop are tasks of one thread: each steps while the   *)
(* other awaits, and neither does while run joins the terminal's thread or *)
(* cancels the notifications, which blocks the thread.  The terminal's     *)
(* thread and the interface callback run beside them.                      *)
(***************************************************************************)
EXTENDS Naturals, Sequences

CONSTANTS Adapters, MaxChanges, Nothing,
          MaxProxies,         \* bound: proxies in config.toml
          MAX_STATIC_FILTERS

ASSUME LimitsOK == MaxProxies \in Nat /\ MAX_STATIC_FILTERS \in Nat
ASSUME AdaptersOK == Nothing \notin Adapters /\ MaxChanges \in Nat

VARIABLES present, best, changes, pending, missed, registered, callback,
          adapter_name, restart, shutdown, loop, opened, mode

Loop == INSTANCE PacketLoop

VARIABLES
  app,                \* where run is
  tui,                \* the terminal's thread
  shutdown_requested, \* TuiState::shutdown
  is_active,
  static_filters,     \* filters the router has collected
  filter_table,       \* filters in the driver's table
  proxies,            \* the router's proxies, in order
  context             \* notify_context: the callback's reference to the router

theLoop == <<present, best, changes, pending, missed, registered, callback,
             adapter_name, restart, shutdown, loop, opened, mode>>
appVars == <<app, tui, shutdown_requested, is_active, static_filters, filter_table,
             proxies, context>>
vars == <<theLoop, appVars>>

AppState == {"config", "starting", "select", "joining", "closing", "cancelling",
             "releasing", "awaiting", "stopping", "closed", "aborting",
             "abort_joining", "failed"}

Exited == app \in {"closed", "failed"}

FILTERS_PER_PROXY == 4

TypeOK ==
  /\ app \in AppState
  /\ tui \in {"running", "done"}
  /\ shutdown_requested \in BOOLEAN
  /\ is_active \in BOOLEAN
  /\ is_active <=> app \in {"starting", "select", "joining", "closing"}
  /\ proxies \in Seq({"idle", "running", "stopped"})
  /\ static_filters = 1 + FILTERS_PER_PROXY * Len(proxies)
  /\ filter_table \in 0..MAX_STATIC_FILTERS
  /\ context \in BOOLEAN

\* The router has been made, with the filter that passes ICMP.
Init ==
  /\ Loop!Init
  /\ app = "config"
  /\ tui = "running"
  /\ shutdown_requested = FALSE
  /\ is_active = FALSE
  /\ static_filters = 1
  /\ filter_table = 0
  /\ proxies = << >>
  /\ context = FALSE
-------------------------------------------------------------------------------
(* Starting *)

\* The loop's task awaits, has not begun or is over: run may step.
LoopAwaits == loop \in {"none", "top", "sleep", "read", "batch", "ended", "failed"}

\* config.toml cannot be read or parsed, or names an endpoint that is none.
ConfigFails ==
  /\ app = "config"
  /\ app' = "aborting"
  /\ UNCHANGED <<theLoop, tui, shutdown_requested, is_active, static_filters,
                 filter_table, proxies, context>>

\* apply_static_filters: more filters than the table holds are refused, and the
\* driver may refuse any.
ApplyStaticFilters(filters, succeeds) ==
  /\ succeeds => filters <= MAX_STATIC_FILTERS
  /\ filter_table' = IF succeeds THEN filters ELSE filter_table

\* add_socks5_proxy and the names associated with the proxy.
AddProxy(succeeds) ==
  /\ app = "config"
  /\ Len(proxies) < MaxProxies
  /\ static_filters' = static_filters + FILTERS_PER_PROXY
  /\ proxies' = Append(proxies, "idle")
  /\ ApplyStaticFilters(static_filters', succeeds)
  /\ app' = IF succeeds THEN "config" ELSE "aborting"
  /\ UNCHANGED <<theLoop, tui, shutdown_requested, is_active, context>>

\* Mutant: is_active stays set when the filters are refused.
RouterStartKeepsActive(succeeds) ==
  /\ app = "config"
  /\ ApplyStaticFilters(static_filters, succeeds)
  /\ is_active' = TRUE
  /\ app' = IF succeeds THEN "starting" ELSE "aborting"
  /\ UNCHANGED <<theLoop, tui, shutdown_requested, static_filters, proxies,
                 context>>

\* start, to the start of the first proxy.
RouterStart(succeeds) ==
  /\ app = "config"
  /\ ApplyStaticFilters(static_filters, succeeds)
  /\ is_active' = succeeds
  /\ app' = IF succeeds THEN "starting" ELSE "aborting"
  /\ UNCHANGED <<theLoop, tui, shutdown_requested, static_filters, proxies,
                 context>>

\* The proxies are started in turn.  The first that fails ends start, and those
\* before it keep running.
StartProxy(i, succeeds) ==
  /\ app = "starting"
  /\ proxies[i] = "idle"
  /\ \A j \in 1..(i - 1) : proxies[j] = "running"
  /\ IF succeeds
     THEN /\ proxies' = [proxies EXCEPT ![i] = "running"]
          /\ UNCHANGED <<app, is_active>>
     ELSE /\ app' = "aborting"
          /\ is_active' = FALSE
          /\ UNCHANGED proxies
  /\ UNCHANGED <<theLoop, tui, shutdown_requested, static_filters, filter_table,
                 context>>

\* The end of start: the packet loop is spawned, the callback registered.
SpawnLoop ==
  /\ app = "starting"
  /\ \A i \in DOMAIN proxies : proxies[i] = "running"
  /\ Loop!Start
  /\ context' = registered'
  /\ app' = "select"
  /\ UNCHANGED <<tui, shutdown_requested, is_active, static_filters, filter_table,
                 proxies>>
-------------------------------------------------------------------------------
(* Stopping *)

\* The select: the terminal's thread is done, or the process is told to end.
QuitSelected(ctrl_c) ==
  /\ app = "select" /\ LoopAwaits
  /\ ctrl_c \/ tui = "done"
  /\ shutdown_requested' = TRUE
  /\ app' = "joining"
  /\ UNCHANGED <<theLoop, tui, is_active, static_filters, filter_table, proxies,
                 context>>

\* The terminal's thread is joined, which blocks this one.
TuiJoined ==
  /\ tui = "done"
  /\ \/ app = "joining" /\ app' = "closing"
     \/ app = "abort_joining" /\ app' = "failed"
  /\ UNCHANGED <<theLoop, tui, shutdown_requested, is_active, static_filters,
                 filter_table, proxies, context>>

\* Mutant: the callback's reference is released before it is cancelled.
RouterStopReleases ==
  /\ app = "closing" /\ LoopAwaits
  /\ is_active' = FALSE
  /\ context' = FALSE
  /\ Loop!Stop
  /\ app' = "cancelling"
  /\ UNCHANGED <<tui, shutdown_requested, static_filters, filter_table, proxies>>

\* The statistics task has been awaited.  close calls stop, which sets the loop's flags.
RouterStop ==
  /\ app = "closing" /\ LoopAwaits
  /\ is_active' = FALSE
  /\ Loop!Stop
  /\ app' = "cancelling"
  /\ UNCHANGED <<tui, shutdown_requested, static_filters, filter_table, proxies,
                 context>>

\* cancel_interface_change_notifications: the registration, if there is one,
CancelNotifications ==
  /\ app = "cancelling"
  /\ IF registered THEN Loop!Cancel ELSE UNCHANGED theLoop
  /\ app' = "releasing"
  /\ UNCHANGED <<tui, shutdown_requested, is_active, static_filters, filter_table,
                 proxies, context>>

\* and then the reference it held.
ReleaseContext ==
  /\ app = "releasing"
  /\ context' = FALSE
  /\ app' = "awaiting"
  /\ UNCHANGED <<theLoop, tui, shutdown_requested, is_active, static_filters,
                 filter_table, proxies>>

\* Mutant: stop does not await the loop's task.
LoopLeft ==
  /\ app = "awaiting" /\ LoopAwaits
  /\ app' = "stopping"
  /\ UNCHANGED <<theLoop, tui, shutdown_requested, is_active, static_filters,
                 filter_table, proxies, context>>

\* The loop's task is awaited.
LoopJoined ==
  /\ app = "awaiting"
  /\ loop \in {"ended", "failed"}
  /\ app' = "stopping"
  /\ UNCHANGED <<theLoop, tui, shutdown_requested, is_active, static_filters,
                 filter_table, proxies, context>>

\* The proxies are stopped in turn (see TransparentProxy).
StopProxy(i) ==
  /\ app = "stopping"
  /\ proxies[i] = "running"
  /\ \A j \in 1..(i - 1) : proxies[j] = "stopped"
  /\ proxies' = [proxies EXCEPT ![i] = "stopped"]
  /\ UNCHANGED <<theLoop, app, tui, shutdown_requested, is_active,
                 static_filters, filter_table, context>>

\* reset_static_filters, and the end of run.
ResetFilters(succeeds) ==
  /\ app = "stopping"
  /\ \A i \in DOMAIN proxies : proxies[i] = "stopped"
  /\ IF succeeds
     THEN filter_table' = 0 /\ app' = "closed"
     ELSE UNCHANGED filter_table /\ app' = "failed"
  /\ UNCHANGED <<theLoop, tui, shutdown_requested, is_active, static_filters,
                 proxies, context>>

\* Mutant: a failed start does not end the terminal.
AbortQuietly ==
  /\ app = "aborting"
  /\ app' = "abort_joining"
  /\ UNCHANGED <<theLoop, tui, shutdown_requested, is_active, static_filters,
                 filter_table, proxies, context>>

\* Starting failed: the terminal is told to end.  The router is not closed.
Abort ==
  /\ app = "aborting"
  /\ shutdown_requested' = TRUE
  /\ app' = "abort_joining"
  /\ UNCHANGED <<theLoop, tui, is_active, static_filters, filter_table, proxies,
                 context>>
-------------------------------------------------------------------------------
(* The terminal's thread, and the packet loop *)

\* Tui::run ends as it is told to.
TuiShutdown ==
  /\ tui = "running" /\ ~Exited
  /\ shutdown_requested
  /\ tui' = "done"
  /\ UNCHANGED <<theLoop, app, shutdown_requested, is_active, static_filters,
                 filter_table, proxies, context>>

\* Its user quits, or the terminal reports an error.
TuiQuits(pressed) ==
  /\ tui = "running" /\ ~Exited
  /\ tui' = "done"
  /\ shutdown_requested' = (shutdown_requested \/ pressed)
  /\ UNCHANGED <<theLoop, app, is_active, static_filters, filter_table, proxies,
                 context>>

\* Loop steps need the main thread.
Running == app \in {"select", "closing", "awaiting", "stopping"}

Surroundings == ~Exited /\ (Loop!InterfaceChange \/ Loop!CallbackSteps)
-------------------------------------------------------------------------------
AppProgress ==
  \/ RouterStart(TRUE) \/ RouterStart(FALSE)
  \/ \E i \in DOMAIN proxies :
       StartProxy(i, TRUE) \/ StartProxy(i, FALSE) \/ StopProxy(i)
  \/ SpawnLoop \/ QuitSelected(FALSE) \/ TuiJoined \/ RouterStop
  \/ CancelNotifications \/ ReleaseContext \/ LoopJoined
  \/ ResetFilters(TRUE) \/ ResetFilters(FALSE) \/ Abort

Next ==
  \/ AppProgress
  \/ ConfigFails \/ AddProxy(TRUE) \/ AddProxy(FALSE) \/ QuitSelected(TRUE)
  \/ TuiShutdown \/ TuiQuits(TRUE) \/ TuiQuits(FALSE)
  \/ Running /\ Loop!LoopSteps /\ UNCHANGED appVars
  \/ Surroundings /\ UNCHANGED appVars

\* Every task and thread gets to run, run whenever the loop keeps awaiting (the
\* executor polls a woken task in its turn); proxies stop (TransparentProxy
\* shows when they do not) and the open adapter delivers packets while it is in
\* tunnel mode.
Fairness ==
  /\ SF_vars(AppProgress)
  /\ WF_vars(TuiShutdown)
  /\ WF_vars(Running /\ Loop!LoopProgress /\ UNCHANGED appVars)
  /\ WF_vars(~Exited /\ Loop!CallbackSteps /\ UNCHANGED appVars)

Spec == Init /\ [][Next]_vars
FairSpec == Spec /\ Fairness
-------------------------------------------------------------------------------
(* Properties *)

\* The callback never runs on a reference that cancel_interface_change_-
\* notifications has released.
CallbackHasContext == callback # Loop!Idle => context

\* The loop redirects packets only while every proxy listens: start and stop
\* keep their order although both are interrupted between any two steps.
PacketsHaveProxies ==
  loop \notin {"none", "ended", "failed"} =>
    \A i \in DOMAIN proxies : proxies[i] = "running"

\* When run returns without an error nothing is left of it: no filter, no proxy,
\* no registration or reference, no adapter in tunnel mode, whenever it was told
\* to end and whatever happened to the adapters meanwhile.
ClosedClean ==
  app = "closed" =>
    /\ filter_table = 0
    /\ \A i \in DOMAIN proxies : proxies[i] = "stopped"
    /\ ~registered /\ ~context
    /\ \A a \in Adapters : mode[a] = "default"

\* run never waits for what has not been told to end, and does not wait for the
\* terminal any more when it cannot tell it (run, stop): the thread of the packet
\* loop is blocked meanwhile, so that nobody else could.
ToldFirst ==
  /\ app \in {"joining", "abort_joining"} => shutdown_requested
  /\ app \in {"closing", "cancelling", "releasing", "awaiting", "stopping"} =>
       tui = "done"
  /\ app \in {"cancelling", "releasing", "awaiting", "stopping"} => shutdown

\* The inductive invariant of LifecycleProofs, beside that of PacketLoop.  Until
\* start has succeeded there is no loop; while run's stop has yet to join it the
\* proxies all run; once joined it is over.
LoopInTurn ==
  /\ app \in {"config", "starting", "aborting", "abort_joining"} => loop = "none"
  /\ app \in {"select", "joining", "closing", "cancelling", "releasing", "awaiting"} =>
       \A i \in DOMAIN proxies : proxies[i] = "running"
  /\ app \in {"stopping", "closed"} => loop \in {"ended", "failed"}
  /\ app = "failed" => loop \in {"none", "ended", "failed"}

\* A registration has a reference, and is cancelled before that is released.
ContextInTurn ==
  /\ registered => context
  /\ app \in {"releasing", "awaiting", "stopping", "closed"} => ~registered
  /\ app \in {"awaiting", "stopping", "closed"} => ~context

ClosedLast ==
  app = "closed" =>
    filter_table = 0 /\ \A i \in DOMAIN proxies : proxies[i] = "stopped"

IInv == TypeOK /\ LoopInTurn /\ ContextInTurn /\ ClosedLast

\* Once the terminal's thread has ended or starting has failed the program ends,
\* unless the loop waits for packets of an adapter that has been removed since it
\* was opened, whether or not it came back.
QuitFinishes == tui = "done" \/ app = "aborting" ~> Exited \/ Loop!Stranded
===============================================================================
