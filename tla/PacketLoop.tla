------------------------------ MODULE PacketLoop ------------------------------
(***************************************************************************)
(* The packet loop of src/router/adapter.rs and the interface-change       *)
(* callback of src/router/mod.rs that redirects it to another adapter.     *)
(*                                                                         *)
(* The loop is a task of the main thread; the callback runs on a thread of *)
(* the system, one call at a time.  They share the adapter's name, behind a *)
(* mutex, and the restart flag, which are not updated together.  What the  *)
(* loop does to the packets of a batch is the subject of UdpFlows and      *)
(* TcpFlows.                                                               *)
(***************************************************************************)
EXTENDS Naturals

CONSTANTS Adapters,    \* names of network adapters
          MaxChanges,  \* bound: interface changes
          Nothing

ASSUME AdaptersOK == Nothing \notin Adapters /\ MaxChanges \in Nat

VARIABLES
  present,       \* the adapters bound to TCP/IP
  best,          \* the one the best route leaves by, Nothing if none is present
  changes,       \* interface changes so far
  pending,       \* a change whose notification has not been delivered
  missed,        \* history: a change since the last refresh that nobody was told
                 \* of, or a refresh that failed or did not find the best adapter
  registered,    \* notify_handle holds a registration
  callback,      \* pc of the callback, and its locals `adapters` and `new_name`
  adapter_name, restart, shutdown,
  loop,          \* pc of run_packet_loop
  opened,        \* the loop's own copy of the name
  mode           \* filter mode of each adapter

environment == <<present, best, changes>>
notifications == <<pending, missed, registered>>
loopVars == <<loop, opened, mode>>
vars == <<environment, notifications, callback, adapter_name, restart, shutdown,
          loopVars>>

CallbackState ==
  [pc : {"idle", "refresh", "renamed"}] \cup
  [pc : {"listed"}, adapters : SUBSET Adapters] \cup
  [pc : {"selected"}, new_name : Adapters]

Idle == [pc |-> "idle"]

\* "while" and "close" are the head and the end of the inner loop; "failed" is
\* the loop left by one of its ? operators.
LoopState == {"none", "top", "find", "sleep", "while", "read", "batch", "close",
              "ended", "failed"}

TypeOK ==
  /\ present \in SUBSET Adapters
  /\ best \in IF present = {} THEN {Nothing} ELSE present
  /\ changes \in 0..MaxChanges
  /\ pending \in BOOLEAN /\ missed \in BOOLEAN /\ registered \in BOOLEAN
  /\ pending => registered
  /\ registered => loop # "none"
  /\ callback \in CallbackState
  /\ callback.pc # "idle" => registered
  /\ adapter_name \in Adapters
  /\ restart \in BOOLEAN /\ shutdown \in BOOLEAN
  /\ loop \in LoopState
  /\ opened \in Adapters \cup {Nothing}
  /\ loop \notin {"none", "top"} => opened # Nothing
  /\ mode \in [Adapters -> {"default", "tunnel"}]

\* SocksLocalRouter::new has chosen an adapter, as the callback does: the best
\* one, or the first that was listed when it cannot tell.
Init ==
  /\ present \in SUBSET Adapters
  /\ best \in present
  /\ changes = 0
  /\ pending = FALSE
  /\ registered = FALSE
  /\ callback = Idle
  /\ adapter_name \in present
  /\ missed = (adapter_name # best)
  /\ restart = FALSE
  /\ shutdown = FALSE
  /\ loop = "none"
  /\ opened = Nothing
  /\ mode = [a \in Adapters |-> "default"]
-------------------------------------------------------------------------------
(* Interface changes *)

\* Adapters come and go and the best route moves.  An adapter that is removed
\* loses its mode.
InterfaceChange ==
  /\ changes < MaxChanges
  /\ changes' = changes + 1
  /\ present' \in SUBSET Adapters
  /\ best' \in IF present' = {} THEN {Nothing} ELSE present'
  /\ <<present', best'>> # <<present, best>>
  /\ pending' = registered
  /\ missed' = (missed \/ ~registered)
  /\ mode' = [a \in Adapters |-> IF a \in present' THEN mode[a] ELSE "default"]
  /\ UNCHANGED <<registered, callback, adapter_name, restart, shutdown, loop,
                 opened>>
-------------------------------------------------------------------------------
(* ip_interface_changed_callback and refresh_adapter_name *)

\* The system calls the callback.  Calls are serialized.
CallbackBegin ==
  /\ pending
  /\ callback = Idle
  /\ callback' = [pc |-> "refresh"]
  /\ pending' = FALSE
  /\ missed' = FALSE
  /\ UNCHANGED <<environment, registered, adapter_name, restart, shutdown,
                 loopVars>>

\* The driver cannot be opened, or there is no adapter to select.
CallbackFails ==
  /\ callback.pc = "refresh"
  /\ callback' = Idle
  /\ missed' = TRUE
  /\ UNCHANGED <<environment, pending, registered, adapter_name, restart,
                 shutdown, loopVars>>

\* select_best_adapter_name lists the adapters,
CallbackList ==
  /\ callback.pc = "refresh"
  /\ present # {}
  /\ callback' = [pc |-> "listed", adapters |-> present]
  /\ UNCHANGED <<environment, notifications, adapter_name, restart, shutdown,
                 loopVars>>

\* and then looks for the best interface among them.
CallbackSelect ==
  /\ callback.pc = "listed"
  /\ best \in callback.adapters
  /\ callback' = [pc |-> "selected", new_name |-> best]
  /\ UNCHANGED <<environment, notifications, adapter_name, restart, shutdown,
                 loopVars>>

\* It takes the first adapter of the list when there is no best route, or the
\* interface it leaves by is none of them or unknown: and reports no error.
CallbackFallback ==
  /\ callback.pc = "listed"
  /\ \E a \in callback.adapters : callback' = [pc |-> "selected", new_name |-> a]
  /\ missed' = TRUE
  /\ UNCHANGED <<environment, pending, registered, adapter_name, restart,
                 shutdown, loopVars>>

\* Mutant: the name is refreshed without telling the loop.
CallbackRenameQuietly ==
  /\ callback.pc = "selected"
  /\ adapter_name' = callback.new_name
  /\ callback' = Idle
  /\ UNCHANGED <<environment, notifications, restart, shutdown, loopVars>>

\* Mutant: the name is replaced only when its adapter is gone.
CallbackRenameOnLoss ==
  /\ callback.pc = "selected"
  /\ adapter_name' = IF adapter_name \in present THEN adapter_name
                     ELSE callback.new_name
  /\ callback' = IF adapter_name' = adapter_name THEN Idle ELSE [pc |-> "renamed"]
  /\ UNCHANGED <<environment, notifications, restart, shutdown, loopVars>>

\* The name is compared and replaced under its lock.
CallbackRename ==
  /\ callback.pc = "selected"
  /\ adapter_name' = callback.new_name
  /\ callback' = IF adapter_name = callback.new_name THEN Idle
                 ELSE [pc |-> "renamed"]
  /\ UNCHANGED <<environment, notifications, restart, shutdown, loopVars>>

CallbackRestart ==
  /\ callback.pc = "renamed"
  /\ restart' = TRUE
  /\ callback' = Idle
  /\ UNCHANGED <<environment, notifications, adapter_name, shutdown, loopVars>>
-------------------------------------------------------------------------------
(* run_packet_loop *)

\* Top of the outer loop: the name is copied.
LoopClone ==
  /\ loop = "top"
  /\ loop' = "find"
  /\ opened' = adapter_name
  /\ UNCHANGED <<environment, notifications, callback, adapter_name, restart,
                 shutdown, mode>>

\* Mutant: a loop that finds no adapter tries for ever.
LoopNotFoundRetries ==
  /\ loop = "find"
  /\ opened \notin present
  /\ loop' = "sleep"
  /\ UNCHANGED <<environment, notifications, callback, adapter_name, restart,
                 shutdown, opened, mode>>

\* find_adapter_handle fails.
LoopNotFound ==
  /\ loop = "find"
  /\ opened \notin present
  /\ loop' = IF shutdown THEN "ended" ELSE "sleep"
  /\ UNCHANGED <<environment, notifications, callback, adapter_name, restart,
                 shutdown, opened, mode>>

\* 200 ms later.
LoopRetry ==
  /\ loop = "sleep"
  /\ loop' = "top"
  /\ UNCHANGED <<environment, notifications, callback, adapter_name, restart,
                 shutdown, opened, mode>>

\* The driver, the adapter or its mode reports an error.
LoopFails ==
  /\ loop = "find"
  /\ loop' = "failed"
  /\ UNCHANGED <<environment, notifications, callback, adapter_name, restart,
                 shutdown, opened, mode>>

LoopOpen ==
  /\ loop = "find"
  /\ opened \in present
  /\ loop' = "while"
  /\ mode' = [mode EXCEPT ![opened] = "tunnel"]
  /\ UNCHANGED <<environment, notifications, callback, adapter_name, restart,
                 shutdown, opened>>

\* Mutant: the restart flag is cleared but the name is not read again.
LoopRestartInPlace ==
  /\ loop = "while"
  /\ ~shutdown /\ restart
  /\ restart' = FALSE
  /\ loop' = "read"
  /\ UNCHANGED <<environment, notifications, callback, adapter_name, shutdown,
                 opened, mode>>

\* The restart flag is swapped out, and ends the inner loop.
LoopRestart ==
  /\ loop = "while"
  /\ ~shutdown /\ restart
  /\ restart' = FALSE
  /\ loop' = "close"
  /\ UNCHANGED <<environment, notifications, callback, adapter_name, shutdown,
                 opened, mode>>

LoopShutdown ==
  /\ loop = "while"
  /\ shutdown
  /\ loop' = "close"
  /\ UNCHANGED <<environment, notifications, callback, adapter_name, restart,
                 shutdown, opened, mode>>

LoopRead ==
  /\ loop = "while"
  /\ ~shutdown /\ ~restart
  /\ loop' = "read"
  /\ UNCHANGED <<environment, notifications, callback, adapter_name, restart,
                 shutdown, opened, mode>>

\* read_packets returns packets, or none or an error.
LoopReadReturns ==
  /\ loop = "read"
  /\ loop' \in {"batch", "while"}
  /\ UNCHANGED <<environment, notifications, callback, adapter_name, restart,
                 shutdown, opened, mode>>

LoopBatch ==
  /\ loop = "batch"
  /\ loop' = "while"
  /\ UNCHANGED <<environment, notifications, callback, adapter_name, restart,
                 shutdown, opened, mode>>

\* Mutant: the mode is reset on shutdown only.
LoopCloseOnShutdown ==
  /\ loop = "close"
  /\ mode' = IF shutdown THEN [mode EXCEPT ![opened] = "default"] ELSE mode
  /\ loop' = IF shutdown THEN "ended" ELSE "top"
  /\ UNCHANGED <<environment, notifications, callback, adapter_name, restart,
                 shutdown, opened>>

\* Mutant: the mode is reset between adapters only.
LoopCloseOnRestart ==
  /\ loop = "close"
  /\ mode' = IF shutdown THEN mode ELSE [mode EXCEPT ![opened] = "default"]
  /\ loop' = IF shutdown THEN "ended" ELSE "top"
  /\ UNCHANGED <<environment, notifications, callback, adapter_name, restart,
                 shutdown, opened>>

\* The mode is reset.  The task ends, or starts over.
LoopClose ==
  /\ loop = "close"
  /\ mode' = [mode EXCEPT ![opened] = "default"]
  /\ loop' = IF shutdown THEN "ended" ELSE "top"
  /\ UNCHANGED <<environment, notifications, callback, adapter_name, restart,
                 shutdown, opened>>
-------------------------------------------------------------------------------
(* What SocksLocalRouter does to the loop *)

\* The end of start: the loop's task is spawned and the callback registered,
\* unless the system refuses.
Start ==
  /\ loop = "none" /\ ~shutdown
  /\ loop' = "top"
  /\ registered' \in BOOLEAN
  /\ UNCHANGED <<environment, pending, missed, callback, adapter_name, restart,
                 shutdown, opened, mode>>

\* The flags that stop sets.
Stop ==
  /\ loop # "none" /\ ~shutdown
  /\ shutdown' = TRUE
  /\ restart' = FALSE
  /\ UNCHANGED <<environment, notifications, callback, adapter_name, loopVars>>

\* Mutant: the handle is dropped without a call of CancelMibChangeNotify2.
CancelForgotten ==
  /\ shutdown /\ registered
  /\ registered' = FALSE
  /\ UNCHANGED <<environment, pending, missed, callback, adapter_name, restart,
                 shutdown, loopVars>>

\* CancelMibChangeNotify2 waits for the end of a call that is running.
Cancel ==
  /\ shutdown /\ registered
  /\ callback = Idle
  /\ registered' = FALSE
  /\ pending' = FALSE
  /\ UNCHANGED <<environment, missed, callback, adapter_name, restart, shutdown,
                 loopVars>>
-------------------------------------------------------------------------------
CallbackSteps ==
  CallbackBegin \/ CallbackFails \/ CallbackList \/ CallbackSelect \/
  CallbackFallback \/ CallbackRename \/ CallbackRestart

LoopSteps ==
  LoopClone \/ LoopNotFound \/ LoopRetry \/ LoopFails \/ LoopOpen \/ LoopRestart
  \/ LoopShutdown \/ LoopRead \/ LoopReadReturns \/ LoopBatch \/ LoopClose

Next ==
  InterfaceChange \/ CallbackSteps \/ LoopSteps \/ Start \/ Stop \/ Cancel

\* The loop waits for packets of an adapter that is not in tunnel mode, as it has
\* been removed since it was opened, and may have come back: to the handle the
\* loop holds it delivers nothing any more.
Stranded == loop = "read" /\ mode[opened] # "tunnel"

\* An adapter in tunnel mode keeps delivering packets: the host is on a network.
\* Nothing is assumed of a read on an adapter that was removed.
LoopProgress ==
  LoopClone \/ LoopNotFound \/ LoopRetry \/ LoopOpen \/ LoopRestart \/
  LoopShutdown \/ LoopRead \/ LoopBatch \/ LoopClose \/
  (~Stranded /\ LoopReadReturns)

Fairness == WF_vars(CallbackSteps) /\ WF_vars(LoopProgress)

Spec == Init /\ [][Next]_vars
FairSpec == Spec /\ Fairness
-------------------------------------------------------------------------------
(* Properties *)

Working == {"find", "while", "read", "batch"}

\* A loop that works on another adapter than the one named will be told to
\* start over: the name is always replaced before the flag is raised, and the
\* flag taken before the name is copied, so no change is lost between them.
RestartOwed ==
  loop \in Working /\ ~shutdown =>
    opened = adapter_name \/ restart \/ callback.pc = "renamed"

\* An adapter is in tunnel mode only while the loop has it open: none is left
\* behind, cut off from the network, when the loop turns to another or ends.
TunnelOnlyOpen ==
  \A a \in Adapters : mode[a] = "tunnel" =>
    a = opened /\ loop \in {"while", "read", "batch", "close"}

\* Between callbacks the name is that of the best adapter, unless a change came
\* when nobody was listening, or the refresh failed or could not tell which
\* adapter is best.
NameCurrent ==
  registered /\ ~missed /\ ~pending /\ callback = Idle => adapter_name = best

\* The inductive invariant of PacketLoopProofs.  A callback that has not been
\* overtaken by another change works on what there is now.
CallbackCurrent ==
  ~missed /\ ~pending /\ (registered \/ loop = "none") =>
    /\ callback.pc \in {"idle", "renamed"} => adapter_name = best
    /\ callback.pc = "listed" => callback.adapters = present
    /\ callback.pc = "selected" => callback.new_name = best

IInv == TypeOK /\ RestartOwed /\ TunnelOnlyOpen /\ CallbackCurrent

\* A loop on the wrong adapter ends up on the right one while that is there,
\* unless it is stranded on the first: the restart flag is read between two
\* reads only.
FollowsName ==
  \A a \in Adapters :
    loop \in Working /\ adapter_name = a /\ opened # a ~>
      \/ opened = a /\ mode[a] = "tunnel"
      \/ adapter_name # a \/ a \notin present \/ Stranded
      \/ shutdown \/ loop = "failed"

\* Steps the loop has left once it is told to end.
Distance == [none |-> 0, ended |-> 0, failed |-> 0, close |-> 1, while |-> 2,
             batch |-> 3, find |-> 3, read |-> 4, top |-> 4, sleep |-> 5]

\* After stop every step of the loop is one towards its end: whatever the
\* callback still names or asks for, it opens at most one adapter more and begins
\* no further read (run_packet_loop, stop).
LoopWindsDown ==
  [][shutdown => loop' = loop \/ Distance[loop'] < Distance[loop]]_vars

\* After stop the loop's task ends, unless it waits for packets of an adapter
\* that has been removed since it was opened.
ShutdownEndsLoop == shutdown ~> loop \in {"ended", "failed"} \/ Stranded
===============================================================================
