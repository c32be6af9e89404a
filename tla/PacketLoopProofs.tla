--------------------------- MODULE PacketLoopProofs ---------------------------
(***************************************************************************)
(* Proofs about PacketLoop.                                                *)
(***************************************************************************)
EXTENDS PacketLoop, TLAPS

(* TypeOK is inductive. *)
LEMMA TypeStep ==
  ASSUME TypeOK, [Next]_vars
  PROVE  TypeOK'
<1> USE AdaptersOK DEF TypeOK, CallbackState, Idle, LoopState
<1>1. CASE InterfaceChange
  <2>1. changes' \in 0..MaxChanges
    BY <1>1, SMT DEF InterfaceChange
  <2>2. mode' \in [Adapters -> {"default", "tunnel"}]
    BY <1>1 DEF InterfaceChange
  <2> QED
    BY <1>1, <2>1, <2>2 DEF InterfaceChange
<1>2. CASE CallbackSteps
  <2>1. CASE CallbackBegin
    BY <2>1 DEF CallbackBegin, environment, loopVars
  <2>2. CASE CallbackFails
    BY <2>2 DEF CallbackFails, environment, loopVars
  <2>3. CASE CallbackList
    BY <2>3 DEF CallbackList, environment, notifications, loopVars
  <2>4. CASE CallbackSelect
    BY <2>4 DEF CallbackSelect, environment, notifications, loopVars
  <2>7. CASE CallbackFallback
    BY <2>7 DEF CallbackFallback, environment, loopVars
  <2>5. CASE CallbackRename
    BY <2>5 DEF CallbackRename, environment, notifications, loopVars
  <2>6. CASE CallbackRestart
    BY <2>6 DEF CallbackRestart, environment, notifications, loopVars
  <2> QED
    BY <1>2, <2>1, <2>2, <2>3, <2>4, <2>5, <2>6, <2>7 DEF CallbackSteps
<1>3. CASE LoopSteps
  <2>1. UNCHANGED <<environment, notifications, callback, adapter_name, shutdown>>
    BY <1>3
    DEF LoopSteps, LoopClone, LoopNotFound, LoopRetry, LoopFails, LoopOpen,
        LoopRestart, LoopShutdown, LoopRead, LoopReadReturns, LoopBatch, LoopClose
  <2>2. restart' \in BOOLEAN
    BY <1>3
    DEF LoopSteps, LoopClone, LoopNotFound, LoopRetry, LoopFails, LoopOpen,
        LoopRestart, LoopShutdown, LoopRead, LoopReadReturns, LoopBatch, LoopClose
  <2>3. /\ loop' \in LoopState \ {"none"}
        /\ opened' \in Adapters \cup {Nothing}
        /\ loop' \notin {"none", "top"} => opened' # Nothing
    BY <1>3
    DEF LoopSteps, LoopClone, LoopNotFound, LoopRetry, LoopFails, LoopOpen,
        LoopRestart, LoopShutdown, LoopRead, LoopReadReturns, LoopBatch, LoopClose
  <2>4. mode' \in [Adapters -> {"default", "tunnel"}]
    BY <1>3
    DEF LoopSteps, LoopClone, LoopNotFound, LoopRetry, LoopFails, LoopOpen,
        LoopRestart, LoopShutdown, LoopRead, LoopReadReturns, LoopBatch, LoopClose
  <2> QED
    BY <2>1, <2>2, <2>3, <2>4 DEF environment, notifications
<1>4. CASE Start
  <2>1. ~registered /\ loop' = "top" /\ registered' \in BOOLEAN
    BY <1>4 DEF Start
  <2>2. UNCHANGED <<environment, pending, missed, callback, adapter_name, restart,
                   shutdown, opened, mode>>
    BY <1>4 DEF Start
  <2> QED
    BY <2>1, <2>2 DEF environment
<1>5. CASE Stop
  <2>1. /\ shutdown' \in BOOLEAN /\ restart' \in BOOLEAN
        /\ UNCHANGED <<environment, notifications, callback, adapter_name, loopVars>>
    BY <1>5 DEF Stop
  <2> QED
    BY <2>1 DEF environment, notifications, loopVars
<1>6. CASE Cancel
  BY <1>6 DEF Cancel, environment, loopVars
<1>7. CASE UNCHANGED vars
  BY <1>7 DEF vars, environment, notifications, loopVars
<1> QED
  BY <1>1, <1>2, <1>3, <1>4, <1>5, <1>6, <1>7 DEF Next

(* No step loses a change of the name between the two shared variables. *)
LEMMA RestartStep ==
  ASSUME TypeOK, RestartOwed, [Next]_vars
  PROVE  RestartOwed'
<1> USE DEF RestartOwed, Working
<1>1. CASE InterfaceChange
  BY <1>1 DEF InterfaceChange
<1>2. CASE CallbackSteps
  BY <1>2
  DEF CallbackSteps, CallbackBegin, CallbackFails, CallbackList, CallbackSelect,
      CallbackFallback, CallbackRename, CallbackRestart, Idle, notifications, loopVars
<1>3. CASE LoopSteps
  BY <1>3
  DEF LoopSteps, LoopClone, LoopNotFound, LoopRetry, LoopFails, LoopOpen,
      LoopRestart, LoopShutdown, LoopRead, LoopReadReturns, LoopBatch, LoopClose
<1>4. CASE Start \/ Stop \/ Cancel
  BY <1>4 DEF Start, Stop, Cancel, loopVars
<1>5. CASE UNCHANGED vars
  BY <1>5 DEF vars, loopVars
<1> QED
  BY <1>1, <1>2, <1>3, <1>4, <1>5 DEF Next

(* The loop moves to another adapter only after it has reset the first. *)
LEMMA TunnelStep ==
  ASSUME TypeOK, TunnelOnlyOpen, [Next]_vars
  PROVE  TunnelOnlyOpen'
<1> USE DEF TunnelOnlyOpen
<1>1. CASE InterfaceChange
  BY <1>1 DEF InterfaceChange
<1>2. CASE UNCHANGED loopVars
  BY <1>2 DEF loopVars
<1>3. CASE LoopOpen
  BY <1>3 DEF LoopOpen, TypeOK
<1>4. CASE LoopClose
  BY <1>4 DEF LoopClose, TypeOK
<1>5. CASE LoopClone \/ LoopNotFound \/ LoopRetry \/ LoopFails
  BY <1>5 DEF LoopClone, LoopNotFound, LoopRetry, LoopFails
<1>6. CASE LoopRestart \/ LoopShutdown \/ LoopRead \/ LoopReadReturns \/ LoopBatch
  BY <1>6 DEF LoopRestart, LoopShutdown, LoopRead, LoopReadReturns, LoopBatch
<1>7. CASE Start
  BY <1>7 DEF Start
<1>8. CASE Stop \/ Cancel \/ UNCHANGED vars
  BY <1>2, <1>8 DEF Stop, Cancel, vars
<1>9. CASE CallbackSteps
  BY <1>2, <1>9
  DEF CallbackSteps, CallbackBegin, CallbackFails, CallbackList, CallbackSelect,
      CallbackFallback, CallbackRename, CallbackRestart
<1> QED
  BY <1>1, <1>3, <1>4, <1>5, <1>6, <1>7, <1>8, <1>9 DEF Next, LoopSteps

(* A callback works on the adapters there are, or another call will follow. *)
LEMMA CallbackStep ==
  ASSUME TypeOK, CallbackCurrent, [Next]_vars
  PROVE  CallbackCurrent'
<1> USE DEF CallbackCurrent
<1>1. CASE InterfaceChange
  <2>1. pending' = registered /\ missed' = (missed \/ ~registered)
    BY <1>1 DEF InterfaceChange
  <2>2. registered \in BOOLEAN
    BY DEF TypeOK
  <2>3. ~pending' => missed'
    BY <2>1, <2>2
  <2> QED
    BY <2>3
<1>2. CASE CallbackBegin
  BY <1>2 DEF CallbackBegin
<1>3. CASE CallbackFails
  BY <1>3 DEF CallbackFails
<1>4. CASE CallbackList
  BY <1>4 DEF CallbackList, environment
<1>5. CASE CallbackSelect
  BY <1>5 DEF CallbackSelect, environment, notifications, loopVars
<1>13. CASE CallbackFallback
  BY <1>13 DEF CallbackFallback
<1>6. CASE CallbackRename
  BY <1>6 DEF CallbackRename, Idle, environment, notifications, loopVars
<1>7. CASE CallbackRestart
  BY <1>7 DEF CallbackRestart, Idle, environment, notifications, loopVars
<1>8. CASE LoopSteps
  BY <1>8
  DEF LoopSteps, LoopClone, LoopNotFound, LoopRetry, LoopFails, LoopOpen,
      LoopRestart, LoopShutdown, LoopRead, LoopReadReturns, LoopBatch, LoopClose,
      environment, notifications
<1>9. CASE Start
  BY <1>9 DEF Start, environment
<1>10. CASE Stop
  BY <1>10 DEF Stop, environment, notifications, loopVars
<1>11. CASE Cancel
  BY <1>11 DEF Cancel, TypeOK, environment, loopVars
<1>12. CASE UNCHANGED vars
  BY <1>12 DEF vars, environment, notifications, loopVars
<1> QED
  BY <1>1, <1>2, <1>3, <1>4, <1>5, <1>6, <1>7, <1>8, <1>9, <1>10, <1>11, <1>12,
     <1>13
  DEF Next, CallbackSteps

(* IInv is an invariant. *)
THEOREM Invariance == Spec => []IInv
<1>1. Init => IInv
  <2>1. Init => TypeOK
    <3>1. ASSUME Init PROVE callback \in CallbackState /\ callback.pc = "idle"
      BY <3>1 DEF Init, CallbackState, Idle
    <3>2. ASSUME Init PROVE best \in IF present = {} THEN {Nothing} ELSE present
      BY <3>2 DEF Init
    <3>3. ASSUME Init PROVE mode \in [Adapters -> {"default", "tunnel"}]
      BY <3>3 DEF Init
    <3>4. ASSUME Init PROVE changes \in 0..MaxChanges
      BY <3>4, AdaptersOK DEF Init
    <3>5. ASSUME Init PROVE missed \in BOOLEAN /\ adapter_name \in Adapters
      BY <3>5 DEF Init
    <3> QED
      BY <3>1, <3>2, <3>3, <3>4, <3>5 DEF Init, TypeOK, LoopState
  <2>2. Init => RestartOwed /\ TunnelOnlyOpen
    BY DEF Init, RestartOwed, Working, TunnelOnlyOpen
  <2>3. Init => CallbackCurrent
    <3>1. ASSUME Init, ~missed PROVE adapter_name = best
      BY <3>1, Zenon DEF Init
    <3>2. ASSUME Init PROVE callback.pc = "idle"
      BY <3>2 DEF Init, Idle
    <3> QED
      BY <3>1, <3>2 DEF CallbackCurrent
  <2> QED
    BY <2>1, <2>2, <2>3 DEF IInv
<1>2. IInv /\ [Next]_vars => IInv'
  BY TypeStep, RestartStep, TunnelStep, CallbackStep DEF IInv
<1> QED
  BY <1>1, <1>2, PTL DEF Spec

(* Type correctness.  A callback runs only while it is registered, and only a
   registered callback has a change pending. *)
THEOREM TypeCorrect == Spec => []TypeOK
<1>1. IInv => TypeOK
  BY DEF IInv
<1> QED
  BY <1>1, Invariance, PTL

(* A loop on another adapter than the one named has the restart flag raised, or
   a callback is about to raise it. *)
THEOREM RestartCorrect == Spec => []RestartOwed
<1>1. IInv => RestartOwed
  BY DEF IInv
<1> QED
  BY <1>1, Invariance, PTL

(* No adapter but the open one is in tunnel mode. *)
THEOREM TunnelCorrect == Spec => []TunnelOnlyOpen
<1>1. IInv => TunnelOnlyOpen
  BY DEF IInv
<1> QED
  BY <1>1, Invariance, PTL

(* Between callbacks the name is the best adapter's, unless a change went by
   unheard, or the refresh failed or fell back to the first adapter. *)
THEOREM NameCorrect == Spec => []NameCurrent
<1>1. IInv => NameCurrent
  BY DEF IInv, CallbackCurrent, NameCurrent, Idle
<1> QED
  BY <1>1, Invariance, PTL

(* Once stop has set the flag, each step of the loop brings it nearer to its
   end, and nothing restarts it. *)
THEOREM LoopEnds == Spec => LoopWindsDown
<1> DEFINE Nearer == shutdown => loop' = loop \/ Distance[loop'] < Distance[loop]
<1>1. [Next]_vars => [Nearer]_vars
  <2> SUFFICES ASSUME Next, shutdown
               PROVE  loop' = loop \/ Distance[loop'] < Distance[loop]
    BY DEF vars
  <2>1. CASE LoopSteps
    <3>1. \/ loop = "sleep" /\ loop' = "top"
          \/ loop = "top" /\ loop' = "find"
          \/ loop = "find" /\ loop' \in {"ended", "failed", "while"}
          \/ loop = "read" /\ loop' \in {"batch", "while"}
          \/ loop = "batch" /\ loop' = "while"
          \/ loop = "while" /\ loop' = "close"
          \/ loop = "close" /\ loop' = "ended"
      BY <2>1
      DEF LoopSteps, LoopClone, LoopNotFound, LoopRetry, LoopFails, LoopOpen,
          LoopRestart, LoopShutdown, LoopRead, LoopReadReturns, LoopBatch, LoopClose
    <3> QED
      BY <3>1 DEF Distance
  <2>2. CASE InterfaceChange \/ CallbackSteps \/ Start \/ Stop \/ Cancel
    BY <2>2
    DEF InterfaceChange, CallbackSteps, CallbackBegin, CallbackFails, CallbackList,
        CallbackSelect, CallbackFallback, CallbackRename, CallbackRestart, Start,
        Stop, Cancel, loopVars
  <2> QED
    BY <2>1, <2>2 DEF Next
<1> QED
  BY <1>1, PTL DEF Spec, LoopWindsDown
===============================================================================
