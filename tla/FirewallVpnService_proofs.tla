---------------------- MODULE FirewallVpnService_proofs ----------------------
(***************************************************************************)
(* Proofs about FirewallVpnService, for every value of its constants.      *)
(***************************************************************************)
EXTENDS FirewallVpnService, TLAPS

(* A group of variables that a step leaves alone keeps its types.          *)
LEMMA UnchangedTypes ==
    /\ UiTypes /\ UNCHANGED ui => UiTypes'
    /\ AmsTypes /\ UNCHANGED <<ams, toggles>> => AmsTypes'
    /\ ScopeTypes /\ UNCHANGED scope => ScopeTypes'
    /\ ThreadTypes /\ UNCHANGED threads => ThreadTypes'
    /\ StaticTypes /\ UNCHANGED statics => StaticTypes'
    /\ ReaderTypes /\ UNCHANGED readers => ReaderTypes'
    /\ FilterTypes /\ UNCHANGED filter => FilterTypes'
    /\ BoundTypes /\ UNCHANGED bounds => BoundTypes'
  BY DEF UiTypes, AmsTypes, ScopeTypes, ThreadTypes, StaticTypes, ReaderTypes, FilterTypes,
     BoundTypes, ui, ams, scope, threads, statics, readers, filter, bounds

(* A thread that goes to a label is at a label.                            *)
LEMMA GotoTypes ==
    ASSUME ThreadTypes, NEW t \in Threads, NEW label \in Labels, Goto(t, label)
    PROVE  pc' \in [Threads -> Labels]
  BY DEF ThreadTypes, Goto

LEMMA MainTakesTypes ==
    ASSUME AmsTypes, ThreadTypes, NEW name, MainTakes(name)
    PROVE  /\ Head(inbox) \in Callbacks
           /\ inbox' \in Seq(Callbacks)
           /\ host' \in [Threads -> 0 .. MaxToggles + 1]
<1>1. Head(inbox) \in Callbacks /\ Tail(inbox) \in Seq(Callbacks)
  BY DEF AmsTypes, MainTakes
<1>2. Head(inbox).to \in 0 .. MaxToggles + 1
  BY <1>1, BoundsAssumption DEF Callbacks, Instances
<1> QED
  BY <1>1, <1>2 DEF MainTakes, ThreadTypes

(* The values of a fresh process are of their types.                       *)
LEMMA FreshTypes ==
    /\ Nowhere \in [Threads -> Labels]
    /\ NoHosts \in [Threads -> 0 .. MaxToggles + 1]
    /\ NoReaders \in [Tunnels -> {"none", "queued", "loop", "busy", "done"}]
    /\ NoOwners \in [Tunnels -> 0 .. MaxToggles + 1]
    /\ NoCollectors \in [Instances -> {"none", "queued", "collecting", "observing", "done"}]
    /\ NoLists \in [Instances -> SUBSET Apps]
  BY BoundsAssumption DEF Nowhere, NoHosts, NoReaders, NoOwners, NoCollectors, NoLists,
     Labels, Tunnels, Instances

(* Every step keeps the types.  Only the countdown of the handlers needs   *)
(* more than the types themselves.                                         *)
LEMMA TypeStep ==
    ASSUME TypeOK, CompletionOwes, [Next]_vars
    PROVE  TypeOK'
<1> USE UnchangedTypes DEF TypeOK
<1>1. CASE SwitchOn \/ SwitchOff
  <2>1. PICK position \in BOOLEAN, command \in {"START", "STOP"} : Toggle(position, command)
    BY <1>1 DEF SwitchOn, SwitchOff
  <2>2. BoundTypes' /\ created \in 0 .. MaxToggles + 1 /\ created + 1 \in Instances
        /\ toggles' = toggles + 1
    BY <2>1, BoundsAssumption DEF Toggle, BoundTypes, AmsTypes, Instances
  <2>3. AmsTypes'
    <3>1. CASE instance
      <4>1. Callback(command, created) \in Callbacks
        BY <2>2, <3>1, BoundsAssumption DEF AmsTypes, Callback, Callbacks, Instances
      <4> QED  BY <2>1, <2>2, <3>1, <4>1 DEF Toggle, Deliver, AmsTypes, BoundTypes
    <3>2. CASE ~instance
      <4>1. Callback("CREATE", created + 1) \in Callbacks /\ Callback(command, created + 1) \in Callbacks
        BY <2>2 DEF Callback, Callbacks
      <4>2. /\ inbox' = inbox \o <<Callback("CREATE", created + 1), Callback(command, created + 1)>>
            /\ instance' = TRUE /\ started' = TRUE /\ created' = created + 1
        BY <2>1, <3>2 DEF Toggle, Deliver
      <4>3. inbox' \in Seq(Callbacks)  BY <4>1, <4>2 DEF AmsTypes
      <4> QED  BY <2>2, <4>2, <4>3 DEF AmsTypes, BoundTypes
    <3> QED  BY <3>1, <3>2
  <2> QED  BY <2>1, <2>2, <2>3 DEF Toggle, UiTypes
<1>2. CASE RecreateActivity \/ Recompose
  <2>1. UiTypes'  BY <1>2 DEF RecreateActivity, Recompose, UiTypes, StaticTypes
  <2> QED  BY <1>2, <2>1 DEF RecreateActivity, Recompose, bounds
<1>3. ASSUME NEW a \in Apps, EditBlockList(a) PROVE TypeOK'
  <2>1. store' \in SUBSET Apps  BY <1>3 DEF EditBlockList
  <2>2. BoundTypes'  BY <1>3, BoundsAssumption DEF EditBlockList, BoundTypes
  <2> QED  BY <1>3, <2>1, <2>2 DEF EditBlockList
<1>4. CASE OnCreate
  <2>1. AmsTypes' /\ ThreadTypes' /\ Head(inbox).to \in Instances
    BY <1>4, MainTakesTypes DEF OnCreate, AmsTypes, ThreadTypes, Callbacks, bounds
  <2>2. FilterTypes'  BY <1>4, <2>1 DEF OnCreate, FilterTypes
  <2> QED  BY <1>4, <2>1, <2>2 DEF OnCreate
<1>5. CASE OnStartCommand \/ OnDestroy
  <2>1. PICK name : MainTakes(name)  BY <1>5 DEF OnStartCommand, OnDestroy
  <2>2. pc' \in [Threads -> Labels]
    BY <1>5, GotoTypes DEF OnStartCommand, OnDestroy, Threads, Labels, ThreadTypes
  <2>3. AmsTypes' /\ ThreadTypes'
    BY <1>5, <2>1, <2>2, MainTakesTypes DEF OnStartCommand, OnDestroy, AmsTypes, ThreadTypes, bounds
  <2> QED  BY <1>5, <2>3 DEF OnStartCommand, OnDestroy
<1>6. CASE DestroyRecord
  <2>1. Callback("DESTROY", created) \in Callbacks
    BY <1>6, BoundsAssumption DEF DestroyRecord, AmsTypes, BoundTypes, Callback, Callbacks, Instances
  <2>2. AmsTypes'
    <3>1. inbox' \in Seq(Callbacks)  BY <1>6, <2>1 DEF DestroyRecord, AmsTypes
    <3>2. instance' = FALSE /\ created' = created /\ started' = started /\ toggles' = toggles
      BY <1>6 DEF DestroyRecord, bounds
    <3> QED  BY <3>1, <3>2 DEF AmsTypes
  <2> QED  BY <1>6, <2>2 DEF DestroyRecord
<1>7. ASSUME NEW t \in Threads, StopRunning(t) PROVE TypeOK'
  <2>1. ThreadTypes'  BY <1>7, GotoTypes DEF StopRunning, ThreadTypes, Labels
  <2>2. AmsTypes'  BY <1>7 DEF StopRunning, AmsTypes, bounds
  <2>3. StaticTypes'  BY <1>7 DEF StopRunning, StaticTypes
  <2> QED  BY <1>7, <2>1, <2>2, <2>3 DEF StopRunning
<1>8. ASSUME NEW t \in Threads, CancelScope(t) \/ RegisterCleanup(t) PROVE TypeOK'
  <2>1. ThreadTypes'
    BY <1>8, GotoTypes DEF CancelScope, RegisterCleanup, AfterDestroy, ThreadTypes, Labels
  <2>2. ScopeTypes'  BY <1>8 DEF CancelScope, RegisterCleanup, ScopeTypes
  <2> QED  BY <1>8, <2>1, <2>2 DEF CancelScope, RegisterCleanup, bounds
<1>9. CASE CompleteJob
  <2>1. ThreadTypes'  BY <1>9, GotoTypes DEF CompleteJob, ThreadTypes, Threads, Labels
  <2>2. ScopeTypes'  BY <1>9 DEF CompleteJob, ScopeTypes
  <2> QED  BY <1>9, <2>1, <2>2 DEF CompleteJob, bounds
<1>10. ASSUME NEW t \in Threads, CloseInterface(t) PROVE TypeOK'
  <2>1. ThreadTypes'  BY <1>10, GotoTypes DEF CloseInterface, ThreadTypes, Labels
  <2>2. StaticTypes'  BY <1>10 DEF CloseInterface, StaticTypes
  <2> QED  BY <1>10, <2>1, <2>2 DEF CloseInterface, bounds
<1>11. ASSUME NEW t \in Threads, ClearInterface(t) PROVE TypeOK'
  <2>1. ThreadTypes'
    BY <1>11, GotoTypes DEF ClearInterface, AfterDestroy, ThreadTypes, Labels
  <2>2. StaticTypes'  BY <1>11 DEF ClearInterface, StaticTypes
  <2>3. ScopeTypes'  BY <1>11 DEF ClearInterface, CompletionOwes, ScopeTypes
  <2> QED  BY <1>11, <2>1, <2>2, <2>3 DEF ClearInterface, bounds
<1>12. ASSUME NEW t \in Threads, StartVpn(t) PROVE TypeOK'
  <2>1. ThreadTypes'  BY <1>12, GotoTypes DEF StartVpn, AfterStart, ThreadTypes, Labels
  <2>2. StaticTypes'
    <3>1. CASE vpnInterface # NoTunnel
      BY <1>12, <3>1 DEF StartVpn
    <3>2. CASE vpnInterface = NoTunnel
      BY <1>12, <3>2, BoundsAssumption DEF StartVpn, StaticTypes, Tunnels
    <3> QED  BY <3>1, <3>2
  <2> QED  BY <1>12, <2>1, <2>2 DEF StartVpn, bounds
<1>13. ASSUME NEW t \in Threads, LaunchReader(t) PROVE TypeOK'
  <2>1. ThreadTypes'  BY <1>13, GotoTypes DEF LaunchReader, AfterStart, ThreadTypes, Labels
  <2>2. ReaderTypes'  BY <1>13 DEF LaunchReader, ReaderTypes, ThreadTypes, StaticTypes
  <2> QED  BY <1>13, <2>1, <2>2 DEF LaunchReader, bounds
<1>14. ASSUME ProcessDies, BoundTypes', toggles' = toggles PROVE TypeOK'
  <2>1. UiTypes' /\ ScopeTypes' /\ store' \in SUBSET Apps
    BY <1>14 DEF ProcessDies, UiTypes, ScopeTypes
  <2>2. ThreadTypes' /\ ReaderTypes' /\ FilterTypes'
    BY <1>14, FreshTypes DEF ProcessDies, ThreadTypes, ReaderTypes, FilterTypes
  <2>3. StaticTypes'
    <3>1. isRunning' = FALSE /\ vpnInterface' = NoTunnel /\ open' = {} /\ established' = 0
      BY <1>14 DEF ProcessDies
    <3>2. isRunning' \in BOOLEAN /\ vpnInterface' \in Tunnels \cup {NoTunnel} /\ open' \in SUBSET Tunnels
      BY <3>1
    <3>3. established' \in 0 .. MaxTunnels
      BY <3>1, BoundsAssumption
    <3> QED  BY <3>2, <3>3 DEF StaticTypes
  <2>4. Callback("CREATE", 1) \in Callbacks /\ Callback("STICKY", 1) \in Callbacks
    BY BoundsAssumption DEF Callback, Callbacks, Instances
  <2>5. AmsTypes'
    <3>1. CASE started
      <4>1. /\ created' = 1 /\ instance' = started /\ started' = started
            /\ inbox' = <<Callback("CREATE", 1), Callback("STICKY", 1)>>
        BY <1>14, <3>1 DEF ProcessDies
      <4>2. inbox' \in Seq(Callbacks)  BY <4>1, <2>4
      <4> QED  BY <1>14, <4>1, <4>2 DEF AmsTypes, BoundTypes
    <3>2. CASE ~started
      <4>1. created' = 0 /\ instance' = started /\ started' = started /\ inbox' = <<>>
        BY <1>14, <3>2 DEF ProcessDies
      <4> QED  BY <1>14, <3>2, <4>1 DEF AmsTypes, BoundTypes
    <3> QED  BY <3>1, <3>2
  <2> QED  BY <1>14, <2>1, <2>2, <2>3, <2>5
<1>15. ASSUME NEW n \in Tunnels, Reading(n) PROVE TypeOK'
  <2>1. ReaderTypes'
    BY <1>15 DEF Reading, ReaderStart, ReaderTurn, ReaderHandled, ReaderBreak, ReaderGoes, ReaderTypes
  <2> QED
    BY <1>15, <2>1 DEF Reading, ReaderStart, ReaderTurn, ReaderHandled, ReaderBreak, ReaderGoes, bounds
<1>16. ASSUME NEW i \in Instances, CollectorStart(i) \/ CollectorCancelled(i) PROVE TypeOK'
  <2>1. FilterTypes'  BY <1>16 DEF CollectorStart, CollectorCancelled, CollectorGoes, FilterTypes
  <2> QED  BY <1>16, <2>1 DEF CollectorStart, CollectorCancelled, bounds
<1>17. ASSUME NEW i \in Instances, CollectorEmit(i) PROVE TypeOK'
  <2>1. FilterTypes'  BY <1>17 DEF CollectorEmit, ActOn, CollectorGoes, FilterTypes
  <2>2. ThreadTypes'
    BY <1>17 DEF CollectorEmit, ActOn, Goto, ThreadTypes, Threads, threads, Labels, Instances
  <2> QED  BY <1>17, <2>1, <2>2 DEF CollectorEmit, bounds
<1>18. ASSUME NEW r \in Restarts, RestartBegin(r) \/ RestartDelay(r) PROVE TypeOK'
  <2>1. ThreadTypes'  BY <1>18, GotoTypes DEF RestartBegin, RestartDelay, ThreadTypes, Threads, Labels
  <2> QED  BY <1>18, <2>1 DEF RestartBegin, RestartDelay, bounds
<1>19. CASE UNCHANGED vars
  BY <1>19 DEF vars, bounds
<1>20. CASE KillProcess
  <2>1. BoundTypes'  BY <1>20, BoundsAssumption DEF KillProcess, BoundTypes
  <2> QED  BY <1>20, <2>1, <1>14 DEF KillProcess
<1>21. ASSUME NEW t \in Threads, LaunchCrash(t) PROVE TypeOK'
  BY <1>21, <1>14 DEF LaunchCrash, bounds
<1> QED
  BY <1>1, <1>2, <1>3, <1>4, <1>5, <1>6, <1>7, <1>8, <1>9, <1>10, <1>11, <1>12, <1>13, <1>15,
     <1>16, <1>17, <1>18, <1>19, <1>20, <1>21
     DEF Next, User, System, Destroying, Starting, Collecting

-----------------------------------------------------------------------------
(* The conjuncts of IInv that are not types.                               *)
Structure ==
    /\ CleanupAfterCompletion /\ CompletedIsQuiet /\ CompletionOwes
    /\ LaunchHoldsInterface /\ ReaderHoldsInterface

(* A step that touches neither the Job, nor a program counter, nor what    *)
(* the coroutines of the scope hold, keeps them.                           *)
LEMMA StructureUnchanged ==
    ASSUME Structure, UNCHANGED <<job, handlers, pc, vpnInterface, open, reader, collector>>
    PROVE  Structure'
  BY DEF Structure, CleanupAfterCompletion, CompletedIsQuiet, NoChildren, LiveReader,
     LiveCollector, LiveRestart, CompletionOwes, LaunchHoldsInterface, ReaderHoldsInterface

(* The completing thread is neither the main thread nor a coroutine.       *)
LEMMA ThreadsApart ==
    /\ Main \in Threads /\ Completion \in Threads
    /\ \A r \in Restarts : r \in Threads /\ r # Main /\ r # Completion
    /\ Main # Completion /\ Main \notin Restarts /\ Completion \notin Restarts
  BY ThreadsAssumption DEF Threads

(* A thread other than the completing one goes to a label outside the      *)
(* handler, and nothing else that matters changes but the Job's handlers.  *)
LEMMA StructureGoto ==
    ASSUME ThreadTypes, ScopeTypes, Structure,
           NEW t \in Threads, t # Completion, NEW label \in Labels, Goto(t, label),
           label \notin {"close", "null", "launch"},
           LiveRestart(t) \/ label \in {"idle", "done"} \/ t \notin Restarts \/ job # "completed",
           handlers' \in {handlers, handlers + 1},
           UNCHANGED <<job, vpnInterface, open, reader, collector>>
    PROVE  Structure'
<1>1. /\ pc'[t] = label /\ pc' \in [Threads -> Labels]
      /\ \A u \in Threads : u # t => pc'[u] = pc[u]
  BY DEF Goto, ThreadTypes
<1>2. CleanupAfterCompletion'
  BY <1>1 DEF Structure, CleanupAfterCompletion
<1>3. CompletedIsQuiet'
  BY <1>1, ThreadsApart
     DEF Structure, CompletedIsQuiet, NoChildren, LiveReader, LiveCollector, LiveRestart
<1>4. CompletionOwes'
  BY <1>1, ThreadsApart DEF Structure, CompletionOwes, ScopeTypes
<1>5. LaunchHoldsInterface'
  BY <1>1 DEF Structure, LaunchHoldsInterface
<1>6. ReaderHoldsInterface'
  BY DEF Structure, ReaderHoldsInterface, LiveReader
<1> QED
  BY <1>2, <1>3, <1>4, <1>5, <1>6 DEF Structure

(* Every step keeps the structure.                                         *)
LEMMA StructureStep ==
    ASSUME TypeOK, Structure, [Next]_vars
    PROVE  Structure'
<1> USE DEF TypeOK
<1>1. CASE SwitchOn \/ SwitchOff \/ RecreateActivity \/ Recompose \/ DestroyRecord
           \/ \E a \in Apps : EditBlockList(a)
  BY <1>1, StructureUnchanged
     DEF SwitchOn, SwitchOff, Toggle, RecreateActivity, Recompose, DestroyRecord, EditBlockList,
         scope, threads, statics, readers, filter
<1>2. CASE OnCreate
  <2>1. /\ UNCHANGED <<job, handlers, pc, vpnInterface, open, reader>>
        /\ \A i \in Instances : LiveCollector(i)' => LiveCollector(i) \/ job = "active"
    BY <1>2, MainTakesTypes
       DEF OnCreate, LiveCollector, FilterTypes, Callbacks, scope, statics, readers
  <2> QED
    BY <2>1 DEF Structure, CleanupAfterCompletion, CompletedIsQuiet, NoChildren, LiveReader,
       LiveRestart, CompletionOwes, LaunchHoldsInterface, ReaderHoldsInterface
<1>3. CASE OnStartCommand \/ OnDestroy
  <2>1. UNCHANGED <<job, handlers, vpnInterface, open, reader, collector>>
    BY <1>3 DEF OnStartCommand, OnDestroy, scope, statics, readers, filter
  <2>2. CASE UNCHANGED pc
    BY <2>1, <2>2, StructureUnchanged
  <2>3. CASE Goto(Main, "check") \/ Goto(Main, "stop")
    BY <2>1, <2>3, StructureGoto, ThreadsApart DEF Labels
  <2> QED  BY <1>3, <2>2, <2>3 DEF OnStartCommand, OnDestroy
<1>4. ASSUME NEW t \in Threads, StopRunning(t) PROVE Structure'
  <2>1. t # Completion /\ LiveRestart(t)
    BY <1>4 DEF StopRunning, Structure, CompletionOwes, LiveRestart
  <2>2. Goto(t, "cancel") /\ UNCHANGED <<job, handlers, vpnInterface, open, reader, collector>>
    BY <1>4 DEF StopRunning, scope, readers, filter
  <2> QED  BY <2>1, <2>2, StructureGoto DEF Labels
<1>5. ASSUME NEW t \in Threads, CancelScope(t) PROVE Structure'
  <2>1. t # Completion /\ LiveRestart(t)
    BY <1>5 DEF CancelScope, Structure, CompletionOwes, LiveRestart
  <2>2. /\ Goto(t, "register") /\ UNCHANGED <<handlers, vpnInterface, open, reader, collector>>
        /\ job' = "completed" => job = "completed" \/ NoChildren
        /\ job = "completed" => job' = "completed"
    BY <1>5 DEF CancelScope, ScopeTypes, statics, readers, filter
  <2>3. /\ pc'[t] = "register" /\ pc' \in [Threads -> Labels]
        /\ \A u \in Threads : u # t => pc'[u] = pc[u]
    BY <2>2 DEF Goto, ThreadTypes, Labels
  <2>4. CompletedIsQuiet'
    <3>1. CASE job' = "completed"
      <4>1. NoChildren  BY <2>2, <3>1 DEF Structure, CompletedIsQuiet
      <4>2. t \notin Restarts  BY <2>1, <4>1 DEF NoChildren
      <4>3. NoChildren'
        BY <2>2, <2>3, <4>1, <4>2, ThreadsApart DEF NoChildren, LiveReader, LiveCollector, LiveRestart
      <4> QED  BY <4>3 DEF CompletedIsQuiet
    <3>2. CASE job' # "completed"  BY <3>2 DEF CompletedIsQuiet
    <3> QED  BY <3>1, <3>2
  <2> QED
    BY <2>1, <2>2, <2>3, <2>4, ThreadsApart
       DEF Structure, CleanupAfterCompletion, CompletionOwes, LaunchHoldsInterface,
           ReaderHoldsInterface, LiveReader
<1>6. ASSUME NEW t \in Threads, RegisterCleanup(t) PROVE Structure'
  <2>1. t # Completion /\ LiveRestart(t)
    BY <1>6 DEF RegisterCleanup, Structure, CompletionOwes, LiveRestart
  <2>2. UNCHANGED <<job, vpnInterface, open, reader, collector>>
    BY <1>6 DEF RegisterCleanup, statics, readers, filter
  <2>3. CASE job = "completed"
    <3>1. Goto(t, "close") /\ handlers' = handlers
      BY <1>6, <2>3 DEF RegisterCleanup
    <3>2. pc'[t] = "close" /\ \A u \in Threads : u # t => pc'[u] = pc[u]
      BY <3>1 DEF Goto, ThreadTypes
    <3>3. t \notin Restarts
      BY <2>1, <2>3 DEF Structure, CompletedIsQuiet, NoChildren
    <3> QED
      BY <2>1, <2>2, <2>3, <3>1, <3>2, <3>3, ThreadsApart
         DEF Structure, CleanupAfterCompletion, CompletedIsQuiet, NoChildren, LiveReader,
             LiveCollector, LiveRestart, CompletionOwes, LaunchHoldsInterface, ReaderHoldsInterface
  <2>4. CASE job # "completed"
    <3>1. Goto(t, AfterDestroy(t)) /\ handlers' = handlers + 1
      BY <1>6, <2>4 DEF RegisterCleanup
    <3> QED
      BY <2>1, <2>2, <2>4, <3>1, StructureGoto DEF AfterDestroy, Labels
  <2> QED  BY <2>3, <2>4
<1>7. CASE CompleteJob
  <2>1. /\ job = "cancelling" /\ job' = "completed" /\ NoChildren
        /\ UNCHANGED <<handlers, vpnInterface, open, reader, collector>>
    BY <1>7 DEF CompleteJob, statics, readers, filter
  <2>2. /\ \A u \in Threads : u # Completion => pc'[u] = pc[u]
        /\ pc'[Completion] \in {"idle", "close"} /\ (pc'[Completion] = "close" => handlers # 0)
    BY <1>7, <2>1, ThreadsApart
       DEF CompleteJob, Goto, ThreadTypes, Structure, CompletionOwes, CleanupAfterCompletion, ScopeTypes
  <2> QED
    BY <2>1, <2>2, ThreadsApart
       DEF Structure, CleanupAfterCompletion, CompletedIsQuiet, NoChildren, LiveReader,
           LiveCollector, LiveRestart, CompletionOwes, LaunchHoldsInterface, ReaderHoldsInterface
<1>8. ASSUME NEW t \in Threads, CloseInterface(t) \/ ClearInterface(t) PROVE Structure'
  <2>1. job = "completed" /\ NoChildren /\ t \notin Restarts
    BY <1>8 DEF CloseInterface, ClearInterface, Structure, CleanupAfterCompletion,
       CompletedIsQuiet, NoChildren, LiveRestart
  <2>2. UNCHANGED <<job, reader, collector>>
    BY <1>8 DEF CloseInterface, ClearInterface, scope, readers, filter
  <2>3. \A u \in Threads : u # t => pc'[u] = pc[u]
    BY <1>8 DEF CloseInterface, ClearInterface, Goto, ThreadTypes
  <2>4. NoChildren'
    BY <2>1, <2>2, <2>3, ThreadsApart DEF NoChildren, LiveReader, LiveCollector, LiveRestart
  <2>5. CompletionOwes'
    <3>1. CASE t = Completion
      BY <1>8, <3>1 DEF CloseInterface, ClearInterface, Goto, ThreadTypes, Structure,
         CompletionOwes, ScopeTypes, scope
    <3>2. CASE t # Completion
      BY <1>8, <2>3, <3>2, ThreadsApart
         DEF CloseInterface, ClearInterface, Structure, CompletionOwes, scope
    <3> QED  BY <3>1, <3>2
  <2> QED
    BY <2>1, <2>2, <2>4, <2>5
       DEF Structure, CleanupAfterCompletion, CompletedIsQuiet, NoChildren, LaunchHoldsInterface,
           ReaderHoldsInterface
<1>9. ASSUME NEW t \in Threads, StartVpn(t) PROVE Structure'
  <2>1. t # Completion /\ LiveRestart(t)
    BY <1>9 DEF StartVpn, Structure, CompletionOwes, LiveRestart
  <2>2. UNCHANGED <<job, handlers, reader, collector>>
    BY <1>9 DEF StartVpn, scope, readers, filter
  <2>3. CASE vpnInterface # NoTunnel
    <3>1. Goto(t, AfterStart(t)) /\ UNCHANGED <<vpnInterface, open>>
      BY <1>9, <2>3 DEF StartVpn, statics
    <3> QED  BY <2>1, <2>2, <3>1, StructureGoto DEF AfterStart, Labels
  <2>4. CASE vpnInterface = NoTunnel
    <3>1. /\ pc'[t] = "launch" /\ \A u \in Threads : u # t => pc'[u] = pc[u]
          /\ vpnInterface' \in open'
      BY <1>9, <2>4 DEF StartVpn, Goto, ThreadTypes
    <3>2. \A n \in Tunnels : ~LiveReader(n)
      BY <2>4 DEF Structure, ReaderHoldsInterface, NoTunnel, Tunnels
    <3> QED
      BY <2>1, <2>2, <3>1, <3>2, ThreadsApart
         DEF Structure, CleanupAfterCompletion, CompletedIsQuiet, NoChildren, LiveReader,
             LiveCollector, LiveRestart, CompletionOwes, LaunchHoldsInterface, ReaderHoldsInterface
  <2> QED  BY <2>3, <2>4
<1>10. ASSUME NEW t \in Threads, LaunchReader(t) PROVE Structure'
  <2>1. t # Completion /\ LiveRestart(t)
    BY <1>10 DEF LaunchReader, Structure, CompletionOwes, LiveRestart
  <2>2. /\ UNCHANGED <<job, handlers, vpnInterface, open, collector>>
        /\ pc'[t] \in {"idle", "done"} /\ \A u \in Threads : u # t => pc'[u] = pc[u]
    BY <1>10 DEF LaunchReader, AfterStart, Goto, ThreadTypes, scope, statics, filter
  <2>3. \A n \in Tunnels : LiveReader(n)' => LiveReader(n) \/ (job = "active" /\ n = vpnInterface)
    BY <1>10 DEF LaunchReader, LiveReader, ReaderTypes
  <2>4. job = "active" => vpnInterface \in open
    BY <1>10 DEF LaunchReader, Structure, LaunchHoldsInterface
  <2>5. ReaderHoldsInterface'
    BY <2>2, <2>3, <2>4 DEF Structure, ReaderHoldsInterface
  <2>6. CompletedIsQuiet'
    BY <2>2, <2>3, ThreadsApart
       DEF Structure, CompletedIsQuiet, NoChildren, LiveCollector, LiveRestart
  <2> QED
    BY <2>1, <2>2, <2>5, <2>6, ThreadsApart
       DEF Structure, CleanupAfterCompletion, CompletionOwes, LaunchHoldsInterface
<1>11. CASE ProcessDies
  <2>1. /\ job' = "active" /\ handlers' = 0 /\ pc' = Nowhere /\ reader' = NoReaders
    BY <1>11 DEF ProcessDies
  <2> QED
    BY <2>1, ThreadsApart
       DEF Nowhere, NoReaders, Structure, CleanupAfterCompletion, CompletedIsQuiet, CompletionOwes,
           LaunchHoldsInterface, ReaderHoldsInterface, LiveReader
<1>12. ASSUME NEW n \in Tunnels, Reading(n) PROVE Structure'
  <2>1. UNCHANGED <<job, handlers, pc, vpnInterface, open, collector>>
    BY <1>12 DEF Reading, ReaderStart, ReaderTurn, ReaderHandled, ReaderBreak, ReaderGoes,
       scope, threads, statics, filter
  <2>2. \A m \in Tunnels : LiveReader(m)' => LiveReader(m)
    BY <1>12 DEF Reading, ReaderStart, ReaderTurn, ReaderHandled, ReaderBreak, ReaderGoes,
       LiveReader, ReaderTypes
  <2> QED
    BY <2>1, <2>2
       DEF Structure, CleanupAfterCompletion, CompletedIsQuiet, NoChildren, LiveCollector,
           LiveRestart, CompletionOwes, LaunchHoldsInterface, ReaderHoldsInterface
<1>13. ASSUME NEW i \in Instances, CollectorStart(i) \/ CollectorCancelled(i) PROVE Structure'
  <2>1. UNCHANGED <<job, handlers, pc, vpnInterface, open, reader>>
    BY <1>13 DEF CollectorStart, CollectorCancelled, scope, threads, statics, readers
  <2>2. \A j \in Instances : LiveCollector(j)' => LiveCollector(j)
    BY <1>13 DEF CollectorStart, CollectorCancelled, CollectorGoes, LiveCollector, FilterTypes
  <2> QED
    BY <2>1, <2>2
       DEF Structure, CleanupAfterCompletion, CompletedIsQuiet, NoChildren, LiveReader,
           LiveRestart, CompletionOwes, LaunchHoldsInterface, ReaderHoldsInterface
<1>14. ASSUME NEW i \in Instances, CollectorEmit(i) PROVE Structure'
  <2>1. job = "active" /\ UNCHANGED <<job, handlers, vpnInterface, open, reader>>
    BY <1>14 DEF CollectorEmit, scope, statics, readers
  <2>2. \A u \in Threads : pc'[u] = pc[u] \/ (u \in Restarts /\ pc'[u] = "queued")
    BY <1>14 DEF CollectorEmit, ActOn, Goto, ThreadTypes, threads
  <2>3. pc'[Completion] = pc[Completion]
    BY <2>2, ThreadsApart
  <2> QED
    BY <2>1, <2>2, <2>3
       DEF Structure, CleanupAfterCompletion, CompletedIsQuiet, CompletionOwes,
           LaunchHoldsInterface, ReaderHoldsInterface, LiveReader
<1>15. ASSUME NEW r \in Restarts, RestartBegin(r) \/ RestartDelay(r) PROVE Structure'
  <2>1. LiveRestart(r) /\ r \in Threads /\ r # Completion
    BY <1>15, ThreadsApart DEF RestartBegin, RestartDelay, LiveRestart
  <2>2. /\ Goto(r, "stop") \/ Goto(r, "check") \/ Goto(r, "done")
        /\ UNCHANGED <<job, handlers, vpnInterface, open, reader, collector>>
    BY <1>15 DEF RestartBegin, RestartDelay, scope, statics, readers, filter
  <2> QED  BY <2>1, <2>2, StructureGoto DEF Labels
<1>16. CASE UNCHANGED vars
  BY <1>16, StructureUnchanged DEF vars, scope, threads, statics, readers, filter
<1> QED
  BY <1>1, <1>2, <1>3, <1>4, <1>5, <1>6, <1>7, <1>8, <1>9, <1>10, <1>11, <1>12, <1>13, <1>14,
     <1>15, <1>16
     DEF Next, User, System, Destroying, Starting, Collecting, KillProcess, LaunchCrash

-----------------------------------------------------------------------------
(* The conjuncts of IInv about callbacks, restarts and the first session.  *)
Fed == CreateComesFirst /\ LaunchedIsFed /\ CollectorsLast /\ RestartsOnlyStop /\ FirstIsServed

(* Which steps change what.  Only ProcessDies, by whatever cause, changes  *)
(* everything.                                                             *)
LEMMA Frame ==
    ASSUME TypeOK, [Next]_vars, ~ProcessDies
    PROVE  /\ UNCHANGED collector \/ OnCreate \/ (\E i \in Instances : Collecting(i))
           /\ \/ UNCHANGED <<inbox, created, instance>>
              \/ SwitchOn \/ SwitchOff \/ OnCreate \/ OnStartCommand \/ OnDestroy \/ DestroyRecord
           /\ \/ UNCHANGED readers
              \/ (\E t \in Threads : LaunchReader(t)) \/ (\E n \in Tunnels : Reading(n))
           /\ UNCHANGED job \/ (\E t \in Threads : CancelScope(t)) \/ CompleteJob
           /\ \/ UNCHANGED <<vpnInterface, open>>
              \/ \E t \in Threads : StartVpn(t) \/ CloseInterface(t) \/ ClearInterface(t)
           /\ \/ pc'[Main] = pc[Main] /\ host'[Main] = host[Main]
              \/ OnCreate \/ OnStartCommand \/ OnDestroy \/ Destroying(Main) \/ StartVpn(Main) \/ LaunchReader(Main)
           /\ \A r \in Restarts :
                 \/ pc'[r] \in {pc[r], "queued"}
                 \/ Destroying(r) \/ StartVpn(r) \/ LaunchReader(r) \/ RestartBegin(r) \/ RestartDelay(r)
<1> USE ThreadsApart DEF TypeOK, ThreadTypes
<1>1. CASE User \/ DestroyRecord \/ UNCHANGED vars
  BY <1>1 DEF User, SwitchOn, SwitchOff, Toggle, RecreateActivity, Recompose, EditBlockList,
     DestroyRecord, vars, ams, scope, threads, statics, readers, filter
<1>2. CASE OnCreate
  BY <1>2 DEF OnCreate, scope, statics, readers
<1>3. CASE OnStartCommand \/ OnDestroy
  BY <1>3 DEF OnStartCommand, OnDestroy, Goto, scope, statics, readers, filter
<1>4. CASE CompleteJob
  BY <1>4 DEF CompleteJob, Goto, ams, statics, readers, filter
<1>5. ASSUME NEW t \in Threads, Destroying(t)
      PROVE  /\ UNCHANGED <<collector, inbox, created, instance, readers, host>>
             /\ UNCHANGED job \/ CancelScope(t)
             /\ UNCHANGED <<vpnInterface, open>> \/ CloseInterface(t) \/ ClearInterface(t)
             /\ \A u \in Threads : u # t => pc'[u] = pc[u]
  BY <1>5 DEF Destroying, StopRunning, CancelScope, RegisterCleanup, CloseInterface, ClearInterface,
     Goto, ams, scope, statics, filter
<1>6. ASSUME NEW t \in Threads, StartVpn(t) \/ LaunchReader(t)
      PROVE  /\ UNCHANGED <<collector, inbox, created, instance, job, host>>
             /\ UNCHANGED readers \/ LaunchReader(t)
             /\ UNCHANGED <<vpnInterface, open>> \/ StartVpn(t)
             /\ \A u \in Threads : u # t => pc'[u] = pc[u]
  BY <1>6 DEF StartVpn, LaunchReader, Goto, ams, scope, statics, filter
<1>7. ASSUME NEW n \in Tunnels, Reading(n)
      PROVE  UNCHANGED <<collector, inbox, created, instance, job, vpnInterface, open, pc, host>>
  BY <1>7 DEF Reading, ReaderStart, ReaderTurn, ReaderHandled, ReaderBreak, ReaderGoes,
     ams, scope, threads, statics, filter
<1>8. ASSUME NEW i \in Instances, Collecting(i)
      PROVE  /\ UNCHANGED <<inbox, created, instance, readers, job, vpnInterface, open>>
             /\ pc'[Main] = pc[Main] /\ host'[Main] = host[Main]
             /\ \A r \in Restarts : pc'[r] \in {pc[r], "queued"}
  BY <1>8 DEF Collecting, CollectorStart, CollectorEmit, CollectorCancelled, ActOn, Goto,
     ams, scope, threads, statics
<1>9. ASSUME NEW r \in Restarts, RestartBegin(r) \/ RestartDelay(r)
      PROVE  /\ UNCHANGED <<collector, inbox, created, instance, readers, job, vpnInterface, open, host>>
             /\ \A u \in Threads : u # r => pc'[u] = pc[u]
  BY <1>9 DEF RestartBegin, RestartDelay, Goto, ams, scope, statics, filter
<1> QED
  <2>1. CASE \E t \in Threads : Destroying(t)
    BY <2>1, <1>5
  <2>2. CASE \E t \in Threads : StartVpn(t) \/ LaunchReader(t)
    BY <2>2, <1>6
  <2>3. CASE \E n \in Tunnels : Reading(n)
    BY <2>3, <1>7
  <2>4. CASE \E i \in Instances : Collecting(i)
    BY <2>4, <1>8
  <2>5. CASE \E r \in Restarts : RestartBegin(r) \/ RestartDelay(r)
    BY <2>5, <1>9
  <2> QED
    BY <1>1, <1>2, <1>3, <1>4, <2>1, <2>2, <2>3, <2>4, <2>5
       DEF Next, System, Starting, LaunchCrash, KillProcess

LaunchedNext(i) == collector'[i] # "none"

(* A scope that is not active stays so, and a collector launched once is   *)
(* not unlaunched.                                                         *)
LEMMA JobStays ==
    ASSUME TypeOK, [Next]_vars, ~ProcessDies
    PROVE  job # "active" => job' # "active"
  BY Frame DEF CancelScope, CompleteJob

LEMMA LaunchedStays ==
    ASSUME TypeOK, [Next]_vars, ~ProcessDies
    PROVE  \A i \in Instances : Launched(i) => LaunchedNext(i)
<1> USE DEF TypeOK, FilterTypes, Launched, LaunchedNext
<1>1. CASE UNCHANGED collector
  BY <1>1
<1>2. CASE OnCreate
  BY <1>2, MainTakesTypes DEF OnCreate, Callbacks
<1>3. ASSUME NEW i \in Instances, Collecting(i) PROVE \A j \in Instances : Launched(j) => LaunchedNext(j)
  BY <1>3 DEF Collecting, CollectorStart, CollectorEmit, CollectorCancelled, CollectorGoes
<1> QED  BY <1>1, <1>2, <1>3, Frame

-----------------------------------------------------------------------------
(* The order of the queue.                                                 *)

(* What appending to a queue, or taking its head, does to what stands in it. *)
LEMMA QueueGrows ==
    ASSUME NEW S, NEW q \in Seq(S), NEW c \in S, NEW k \in DOMAIN Append(q, c)
    PROVE  /\ k \in DOMAIN q => Append(q, c)[k] = q[k]
           /\ k \notin DOMAIN q => k = Len(q) + 1 /\ Append(q, c)[k] = c
           /\ \A j \in DOMAIN q : j \in DOMAIN Append(q, c) /\ Append(q, c)[j] = q[j]
  OBVIOUS

LEMMA QueueShrinks ==
    ASSUME NEW S, NEW q \in Seq(S), q # <<>>, NEW k \in DOMAIN Tail(q)
    PROVE  k + 1 \in DOMAIN q /\ Tail(q)[k] = q[k + 1]
  OBVIOUS

(* Every callback is addressed to an instance.                             *)
LEMMA Addressed ==
    ASSUME NEW q \in Seq(Callbacks), NEW k \in DOMAIN q
    PROVE  q[k].to \in Instances
<1>1. q[k] \in Callbacks
  OBVIOUS
<1> QED  BY <1>1 DEF Callbacks

(* A callback that comes to the end of the queue stands behind the CREATE  *)
(* of its object, or comes after that object's collector was launched.     *)
LEMMA Behind ==
    ASSUME TypeOK, CreateComesFirst, [Next]_vars, ~ProcessDies, instance,
           NEW c \in Callbacks, c.to = created, inbox' = Append(inbox, c)
    PROVE  /\ \A k \in DOMAIN inbox' : inbox'[k].do # "CREATE" =>
                 LaunchedNext(inbox'[k].to) \/ \E j \in 1 .. k - 1 : inbox'[j] = Callback("CREATE", inbox'[k].to)
           /\ LaunchedNext(created) \/ \E j \in DOMAIN inbox' : inbox'[j] = Callback("CREATE", created)
<1>1. inbox \in Seq(Callbacks) /\ created \in Instances
  BY BoundsAssumption DEF TypeOK, AmsTypes, BoundTypes, Instances
<1>2. LaunchedNext(created) \/ \E j \in DOMAIN inbox : inbox[j] = Callback("CREATE", created)
  BY <1>1, LaunchedStays DEF CreateComesFirst
<1>3. ASSUME NEW k \in DOMAIN inbox', inbox'[k].do # "CREATE"
      PROVE  LaunchedNext(inbox'[k].to) \/ \E j \in 1 .. k - 1 : inbox'[j] = Callback("CREATE", inbox'[k].to)
  <2>1. CASE k \in DOMAIN inbox
    <3>1. inbox'[k] = inbox[k] /\ inbox[k].to \in Instances
      BY <1>1, <2>1, Addressed
    <3>2. LaunchedNext(inbox[k].to) \/ \E j \in 1 .. k - 1 : inbox[j] = Callback("CREATE", inbox[k].to)
      BY <1>3, <2>1, <3>1, LaunchedStays DEF CreateComesFirst
    <3>3. \A j \in 1 .. k - 1 : j \in DOMAIN inbox /\ inbox'[j] = inbox[j]
      BY <1>1, <2>1
    <3> QED  BY <3>1, <3>2, <3>3
  <2>2. CASE k \notin DOMAIN inbox
    <3>1. k = Len(inbox) + 1 /\ inbox'[k] = c
      BY <1>1, <1>3, <2>2, QueueGrows
    <3>2. \A j \in DOMAIN inbox : j \in 1 .. k - 1 /\ inbox'[j] = inbox[j]
      BY <1>1, <3>1
    <3> QED  BY <1>2, <3>1, <3>2
  <2> QED  BY <2>1, <2>2
<1>4. \A j \in DOMAIN inbox : j \in DOMAIN inbox' /\ inbox'[j] = inbox[j]
  BY <1>1
<1> QED  BY <1>2, <1>3, <1>4

(* The main thread takes the first callback; one behind it whose CREATE    *)
(* that was finds its collector launched by now.                           *)
LEMMA Taken ==
    ASSUME TypeOK, CreateComesFirst, [Next]_vars, ~ProcessDies, NEW name, MainTakes(name),
           name = "CREATE" => LaunchedNext(Head(inbox).to), UNCHANGED <<created, instance>>
    PROVE  CreateComesFirst'
<1>1. inbox \in Seq(Callbacks) /\ inbox # <<>> /\ inbox' = Tail(inbox) /\ Head(inbox) = inbox[1]
      /\ inbox[1].do = name
  BY DEF TypeOK, AmsTypes, MainTakes
<1>2. ASSUME NEW i \in Instances, NEW k \in DOMAIN inbox, inbox[k] = Callback("CREATE", i)
      PROVE  LaunchedNext(i) \/ (k # 1 /\ k - 1 \in DOMAIN inbox' /\ inbox'[k - 1] = Callback("CREATE", i))
  <2>1. CASE k = 1
    BY <1>1, <1>2, <2>1 DEF Callback
  <2>2. CASE k # 1
    BY <1>1, <1>2, <2>2
  <2> QED  BY <2>1, <2>2
<1>3. ASSUME NEW k \in DOMAIN inbox', inbox'[k].do # "CREATE"
      PROVE  LaunchedNext(inbox'[k].to) \/ \E j \in 1 .. k - 1 : inbox'[j] = Callback("CREATE", inbox'[k].to)
  <2>1. k + 1 \in DOMAIN inbox /\ inbox'[k] = inbox[k + 1] /\ inbox[k + 1].to \in Instances
        /\ k \in Nat
    <3>1. k + 1 \in DOMAIN inbox /\ inbox'[k] = inbox[k + 1] /\ k \in Nat
      BY <1>1
    <3> QED  BY <1>1, <3>1, Addressed
  <2>2. CASE Launched(inbox[k + 1].to)
    BY <2>1, <2>2, LaunchedStays
  <2>3. CASE \E j \in 1 .. k : inbox[j] = Callback("CREATE", inbox[k + 1].to)
    <3>1. PICK j \in 1 .. k : inbox[j] = Callback("CREATE", inbox[k + 1].to)
      BY <2>3
    <3>2. j \in DOMAIN inbox
      BY <1>1, <2>1, <3>1
    <3>3. LaunchedNext(inbox[k + 1].to) \/ (j # 1 /\ inbox'[j - 1] = Callback("CREATE", inbox[k + 1].to))
      BY <1>2, <2>1, <3>1, <3>2
    <3>4. j # 1 => j - 1 \in 1 .. k - 1
      BY <2>1, <3>1
    <3> QED  BY <2>1, <3>3, <3>4
  <2> QED  BY <1>3, <2>1, <2>2, <2>3 DEF CreateComesFirst
<1>4. instance' => LaunchedNext(created') \/ \E j \in DOMAIN inbox' : inbox'[j] = Callback("CREATE", created')
  <2>1. SUFFICES ASSUME instance
                 PROVE  LaunchedNext(created) \/ \E j \in DOMAIN inbox' : inbox'[j] = Callback("CREATE", created)
    OBVIOUS
  <2>2. created \in Instances
    BY <2>1, BoundsAssumption DEF TypeOK, AmsTypes, BoundTypes, Instances
  <2> QED  BY <2>1, <2>2, <1>2, LaunchedStays DEF CreateComesFirst
<1> QED  BY <1>3, <1>4 DEF CreateComesFirst, Launched, LaunchedNext
-----------------------------------------------------------------------------
(* Each conjunct of Fed is kept by the steps of a process that lives on.   *)

LEMMA RestartsOnlyStopStep ==
    ASSUME TypeOK, Structure, RestartsOnlyStop, [Next]_vars, ~ProcessDies
    PROVE  RestartsOnlyStop'
<1> SUFFICES ASSUME NEW r \in Restarts
             PROVE  /\ pc'[r] \notin {"check", "launch"}
                    /\ pc'[r] \in {"register", "delay"} => job' # "active"
  BY DEF RestartsOnlyStop
<1> USE ThreadsApart DEF TypeOK, ThreadTypes, RestartsOnlyStop
<1>1. CASE pc'[r] \in {pc[r], "queued"}
  BY <1>1, JobStays
<1>2. CASE Destroying(r)
  <2>1. CASE CancelScope(r)
    BY <2>1 DEF CancelScope, Goto
  <2>2. CASE StopRunning(r) \/ CloseInterface(r)
    BY <2>2 DEF StopRunning, CloseInterface, Goto
  <2>3. CASE RegisterCleanup(r) \/ ClearInterface(r)
    BY <2>3, JobStays
       DEF RegisterCleanup, ClearInterface, AfterDestroy, Goto, Structure, CleanupAfterCompletion
  <2> QED  BY <1>2, <2>1, <2>2, <2>3 DEF Destroying
<1>3. CASE RestartBegin(r) \/ RestartDelay(r)
  BY <1>3 DEF RestartBegin, RestartDelay, Goto
<1>4. ~StartVpn(r) /\ ~LaunchReader(r)
  BY DEF StartVpn, LaunchReader
<1> QED  BY <1>1, <1>2, <1>3, <1>4, Frame

LEMMA CollectorsLastStep ==
    ASSUME TypeOK, CollectorsLast, [Next]_vars, ~ProcessDies
    PROVE  CollectorsLast'
<1> SUFFICES ASSUME job' = "active", NEW i \in Instances PROVE collector'[i] # "done"
  BY DEF CollectorsLast
<1>1. job = "active" /\ collector[i] # "done"
  BY JobStays DEF CollectorsLast
<1> USE DEF TypeOK, FilterTypes
<1>2. CASE UNCHANGED collector
  BY <1>1, <1>2
<1>3. CASE OnCreate
  BY <1>1, <1>3 DEF OnCreate
<1>4. ASSUME NEW j \in Instances, Collecting(j) PROVE collector'[i] # "done"
  BY <1>1, <1>4 DEF Collecting, CollectorStart, CollectorEmit, CollectorCancelled, CollectorGoes
<1> QED  BY <1>2, <1>3, <1>4, Frame

LEMMA CreateComesFirstStep ==
    ASSUME TypeOK, CreateComesFirst, [Next]_vars, ~ProcessDies
    PROVE  CreateComesFirst'
<1>1. CASE UNCHANGED <<inbox, created, instance>>
  <2>1. inbox \in Seq(Callbacks) /\ (instance => created \in Instances)
    BY BoundsAssumption DEF TypeOK, AmsTypes, BoundTypes, Instances
  <2>2. \A k \in DOMAIN inbox : inbox[k].to \in Instances
    BY <2>1, Addressed
  <2> QED  BY <1>1, <2>1, <2>2, LaunchedStays DEF CreateComesFirst, Launched, LaunchedNext
<1>2. CASE SwitchOn \/ SwitchOff
  <2>1. PICK command \in {"START", "STOP"} : Deliver(command) /\ toggles < MaxToggles
    BY <1>2 DEF SwitchOn, SwitchOff, Toggle
  <2>2. inbox \in Seq(Callbacks) /\ created + 1 \in Instances /\ (instance => created \in Instances)
    BY <2>1, BoundsAssumption DEF TypeOK, AmsTypes, BoundTypes, Instances
  <2>3. CASE instance
    <3>1. inbox' = Append(inbox, Callback(command, created)) /\ created' = created
      BY <2>1, <2>3 DEF Deliver
    <3>2. Callback(command, created) \in Callbacks /\ Callback(command, created).to = created
      BY <2>2, <2>3 DEF Callback, Callbacks
    <3> QED  BY <2>3, <3>1, <3>2, Behind DEF CreateComesFirst, Launched, LaunchedNext
  <2>4. CASE ~instance
    <3> DEFINE c == Callback("CREATE", created + 1)
               d == Callback(command, created + 1)
    <3>1. inbox' = inbox \o <<c, d>> /\ created' = created + 1
      BY <2>1, <2>4 DEF Deliver
    <3>2. c.do = "CREATE" /\ d.to = created + 1
      BY DEF Callback
    <3> HIDE DEF c, d
    <3>3. /\ inbox'[Len(inbox) + 1] = c /\ inbox'[Len(inbox) + 2] = d
          /\ DOMAIN inbox' = 1 .. Len(inbox) + 2 /\ Len(inbox) \in Nat
          /\ DOMAIN inbox = 1 .. Len(inbox)
          /\ \A k \in DOMAIN inbox : inbox'[k] = inbox[k]
      BY <2>2, <3>1
    <3>4. ASSUME NEW k \in DOMAIN inbox', inbox'[k].do # "CREATE"
          PROVE  LaunchedNext(inbox'[k].to) \/ \E j \in 1 .. k - 1 : inbox'[j] = Callback("CREATE", inbox'[k].to)
      <4>1. CASE k \in DOMAIN inbox
        <5>1. inbox'[k] = inbox[k] /\ inbox[k].to \in Instances
          BY <2>2, <3>3, <4>1, Addressed
        <5>2. LaunchedNext(inbox[k].to) \/ \E j \in 1 .. k - 1 : inbox[j] = Callback("CREATE", inbox[k].to)
          BY <3>4, <4>1, <5>1, LaunchedStays DEF CreateComesFirst
        <5>3. \A j \in 1 .. k - 1 : inbox'[j] = inbox[j]
          BY <3>3, <4>1
        <5> QED  BY <5>1, <5>2, <5>3
      <4>2. CASE k = Len(inbox) + 1
        BY <3>2, <3>3, <3>4, <4>2
      <4>3. CASE k = Len(inbox) + 2
        <5>1. inbox'[k].to = created + 1 /\ Len(inbox) + 1 \in 1 .. k - 1
          BY <3>2, <3>3, <4>3
        <5>2. inbox'[Len(inbox) + 1] = Callback("CREATE", inbox'[k].to)
          BY <3>3, <5>1 DEF c
        <5> QED  BY <5>1, <5>2
      <4> QED  BY <3>3, <4>1, <4>2, <4>3
    <3>5. Len(inbox) + 1 \in DOMAIN inbox' /\ inbox'[Len(inbox) + 1] = Callback("CREATE", created')
      BY <3>1, <3>3 DEF c
    <3> QED  BY <3>4, <3>5 DEF CreateComesFirst, Launched, LaunchedNext
  <2> QED  BY <2>3, <2>4
<1>3. CASE OnCreate
  <2>1. LaunchedNext(Head(inbox).to)
    BY <1>3, MainTakesTypes DEF OnCreate, LaunchedNext, TypeOK, FilterTypes, Callbacks
  <2> QED  BY <1>3, <2>1, Taken DEF OnCreate
<1>4. CASE OnStartCommand \/ OnDestroy
  <2>1. PICK name \in {"START", "STOP", "STICKY", "DESTROY"} : MainTakes(name)
    BY <1>4 DEF OnStartCommand, OnDestroy
  <2> QED  BY <1>4, <2>1, Taken DEF OnStartCommand, OnDestroy
<1>5. CASE DestroyRecord
  <2>1. Callback("DESTROY", created) \in Callbacks /\ Callback("DESTROY", created).to = created
    BY <1>5, BoundsAssumption DEF DestroyRecord, TypeOK, AmsTypes, BoundTypes, Callback, Callbacks, Instances
  <2> QED  BY <1>5, <2>1, Behind DEF DestroyRecord, CreateComesFirst, Launched, LaunchedNext
<1> QED  BY <1>1, <1>2, <1>3, <1>4, <1>5, Frame

(* Only the main thread gets to startVpn, and it got its command behind    *)
(* the CREATE of the object it works for.                                  *)
LEMMA OnlyMainStarts ==
    ASSUME Structure, RestartsOnlyStop, NEW t \in Threads, pc[t] \in {"check", "launch"}
    PROVE  t = Main
  BY DEF Threads, Structure, CompletionOwes, RestartsOnlyStop

LEMMA LaunchedIsFedStep ==
    ASSUME TypeOK, Structure, Fed, [Next]_vars, ~ProcessDies
    PROVE  LaunchedIsFed'
<1> USE ThreadsApart DEF TypeOK
<1>1. ASSUME pc'[Main] \in {"check", "launch"}
      PROVE  host'[Main] \in Instances /\ LaunchedNext(host'[Main])
  <2>1. CASE pc'[Main] = pc[Main] /\ host'[Main] = host[Main]
    BY <1>1, <2>1, LaunchedStays DEF Fed, LaunchedIsFed
  <2>2. CASE OnStartCommand /\ MainTakes("START")
    <3>1. /\ inbox \in Seq(Callbacks) /\ inbox # <<>> /\ inbox[1].do = "START"
          /\ host'[Main] = inbox[1].to
      BY <2>2 DEF MainTakes, AmsTypes, ThreadTypes
    <3>2. 1 \in DOMAIN inbox /\ inbox[1].to \in Instances
      <4>1. 1 \in DOMAIN inbox  BY <3>1
      <4> QED  BY <3>1, <4>1, Addressed
    <3>3. Launched(inbox[1].to)
      BY <3>1, <3>2 DEF Fed, CreateComesFirst
    <3> QED  BY <3>1, <3>2, <3>3, LaunchedStays
  <2>3. CASE OnCreate \/ OnDestroy \/ (OnStartCommand /\ ~MainTakes("START"))
    BY <1>1, <2>3 DEF OnCreate, OnDestroy, OnStartCommand, MainTakes, Goto, ThreadTypes
  <2>4. CASE Destroying(Main)
    BY <1>1, <2>4 DEF Destroying, StopRunning, CancelScope, RegisterCleanup, CloseInterface,
       ClearInterface, AfterDestroy, Goto, ThreadTypes
  <2>5. CASE StartVpn(Main)
    BY <2>5, LaunchedStays DEF StartVpn, Fed, LaunchedIsFed
  <2>6. CASE LaunchReader(Main)
    BY <1>1, <2>6 DEF LaunchReader, AfterStart, Goto, ThreadTypes
  <2> QED  BY <2>1, <2>2, <2>3, <2>4, <2>5, <2>6, Frame
<1>2. ASSUME NEW n \in Tunnels, LiveReader(n)'
      PROVE  owner'[n] \in Instances /\ LaunchedNext(owner'[n])
  <2>1. CASE LiveReader(n) /\ owner'[n] = owner[n]
    BY <2>1, LaunchedStays DEF Fed, LaunchedIsFed
  <2>2. CASE UNCHANGED readers
    BY <1>2, <2>1, <2>2 DEF LiveReader, readers
  <2>3. ASSUME NEW m \in Tunnels, Reading(m) PROVE LiveReader(n) /\ owner'[n] = owner[n]
    BY <1>2, <2>3 DEF Reading, ReaderStart, ReaderTurn, ReaderHandled, ReaderBreak, ReaderGoes,
       LiveReader, ReaderTypes
  <2>4. ASSUME NEW t \in Threads, LaunchReader(t)
        PROVE  owner'[n] \in Instances /\ LaunchedNext(owner'[n])
    <3>1. t = Main /\ pc[Main] = "launch"
      BY <2>4, OnlyMainStarts DEF LaunchReader, Fed
    <3>2. CASE n = vpnInterface
      BY <2>4, <3>1, <3>2, LaunchedStays DEF LaunchReader, ReaderTypes, Fed, LaunchedIsFed
    <3>3. CASE n # vpnInterface
      BY <1>2, <2>1, <2>4, <3>3 DEF LaunchReader, LiveReader, ReaderTypes
    <3> QED  BY <3>2, <3>3
  <2> QED  BY <2>1, <2>2, <2>3, <2>4, Frame
<1> QED  BY <1>1, <1>2 DEF LaunchedIsFed, Launched, LaunchedNext

(* Before the scope is cancelled nothing is closed.                        *)
LEMMA NothingCloses ==
    ASSUME Structure, job = "active"
    PROVE  \A t \in Threads : ~CloseInterface(t) /\ ~ClearInterface(t)
  BY DEF Structure, CleanupAfterCompletion, CloseInterface, ClearInterface

LEMMA FirstIsServedStep ==
    ASSUME TypeOK, Structure, Fed, [Next]_vars, ~ProcessDies
    PROVE  FirstIsServed'
<1> USE ThreadsApart DEF TypeOK
<1> SUFFICES ASSUME job' = "active", vpnInterface' = NoTunnel \/ pc'[Main] = "launch",
                    NEW n \in Tunnels
             PROVE  reader'[n] = "none"
  BY DEF FirstIsServed
<1>1. job = "active"
  BY JobStays
<1>2. vpnInterface = NoTunnel \/ pc[Main] = "launch" => reader[n] = "none"
  BY <1>1 DEF Fed, FirstIsServed
<1>3. ASSUME NEW t \in Threads, StartVpn(t) PROVE reader'[n] = "none"
  <2>1. t = Main /\ pc[Main] = "check" /\ pc'[Main] \in {"idle", "launch"}
    BY <1>3, OnlyMainStarts DEF StartVpn, Fed, AfterStart, Goto, ThreadTypes
  <2>2. CASE vpnInterface = NoTunnel
    BY <1>2, <1>3, <2>2 DEF StartVpn, readers
  <2>3. CASE vpnInterface # NoTunnel
    BY <1>3, <2>1, <2>3 DEF StartVpn, statics, AfterStart, Goto, ThreadTypes
  <2> QED  BY <2>2, <2>3
<1>4. ASSUME UNCHANGED <<vpnInterface, open>>, UNCHANGED readers PROVE reader'[n] = "none"
  <2>1. CASE vpnInterface' = NoTunnel \/ pc'[Main] = pc[Main]
    BY <1>2, <1>4, <2>1 DEF readers
  <2>2. CASE OnCreate \/ OnStartCommand \/ OnDestroy \/ Destroying(Main) \/ LaunchReader(Main)
    <3>1. pc'[Main] # "launch" \/ pc'[Main] = pc[Main]
      BY <2>2 DEF OnCreate, OnStartCommand, OnDestroy, Destroying, StopRunning, CancelScope,
         RegisterCleanup, CloseInterface, ClearInterface, AfterDestroy, LaunchReader, AfterStart,
         Goto, ThreadTypes
    <3> QED  BY <2>1, <3>1
  <2> QED  BY <1>3, <2>1, <2>2, Frame
<1>5. ASSUME NEW t \in Threads, LaunchReader(t) PROVE FALSE
  <2>1. t = Main
    BY <1>5, OnlyMainStarts DEF LaunchReader, Fed
  <2> QED  BY <1>5, <2>1 DEF LaunchReader, statics, AfterStart, Goto, ThreadTypes
<1>6. ASSUME NEW m \in Tunnels, Reading(m) PROVE FALSE
  <2>1. /\ UNCHANGED <<vpnInterface, pc>>
        /\ LiveReader(m)
    BY <1>6 DEF Reading, ReaderStart, ReaderTurn, ReaderHandled, ReaderBreak, ReaderGoes,
       LiveReader, threads, statics
  <2>2. vpnInterface = m /\ m # NoTunnel
    BY <2>1 DEF Structure, ReaderHoldsInterface, Tunnels, NoTunnel
  <2>3. reader[m] = "none"
    BY <1>1, <2>1, <2>2 DEF Fed, FirstIsServed
  <2> QED  BY <2>1, <2>3 DEF LiveReader
<1> QED  BY <1>1, <1>3, <1>4, <1>5, <1>6, NothingCloses, Frame

(* A new process starts with the CREATE of its first object, if any.       *)
LEMMA FedFresh ==
    ASSUME ProcessDies
    PROVE  Fed'
<1>1. CreateComesFirst'
  <2>1. CASE started
    <3> DEFINE c == Callback("CREATE", 1)
               d == Callback("STICKY", 1)
    <3>1. inbox' = <<c, d>> /\ created' = 1
      BY <2>1 DEF ProcessDies
    <3>2. c.do = "CREATE" /\ d.to = 1 /\ c = Callback("CREATE", 1)
      BY DEF Callback
    <3> HIDE DEF c, d
    <3>3. DOMAIN inbox' = {1, 2} /\ inbox'[1] = c /\ inbox'[2] = d /\ 1 \in 1 .. 2 - 1
      BY <3>1
    <3> QED  BY <3>1, <3>2, <3>3 DEF CreateComesFirst
  <2>2. CASE ~started
    <3>1. inbox' = <<>> /\ ~instance'
      BY <2>2 DEF ProcessDies
    <3> QED  BY <3>1 DEF CreateComesFirst
  <2> QED  BY <2>1, <2>2
<1>2. LaunchedIsFed' /\ CollectorsLast' /\ RestartsOnlyStop' /\ FirstIsServed'
  BY ThreadsApart
     DEF ProcessDies, Nowhere, NoReaders, NoCollectors, LaunchedIsFed, LiveReader, CollectorsLast,
         RestartsOnlyStop, FirstIsServed
<1> QED  BY <1>1, <1>2 DEF Fed

(* Every step keeps Fed.                                                   *)
LEMMA FedStep ==
    ASSUME TypeOK, Structure, Fed, [Next]_vars
    PROVE  Fed'
<1>1. CASE ProcessDies
  BY <1>1, FedFresh
<1>2. CASE ~ProcessDies
  BY <1>2, CreateComesFirstStep, LaunchedIsFedStep, CollectorsLastStep, RestartsOnlyStopStep,
     FirstIsServedStep DEF Fed
<1> QED  BY <1>1, <1>2

-----------------------------------------------------------------------------
(* Cleanup: who holds a tunnel, and who owes it a handler.                 *)
Owed == HeldIsUp /\ CleanupIsOwed /\ CancelComesFirst

(* What steps of a living process change of the handlers and of the places *)
(* where they are registered and run.                                      *)
LEMMA CleanupFrame ==
    ASSUME TypeOK, Structure, [Next]_vars, ~ProcessDies
    PROVE  /\ UNCHANGED handlers \/ ClearInterface(Completion)
              \/ (\E t \in Threads : RegisterCleanup(t))
           /\ \A t \in Threads :
                 (pc'[t] = "register" <=> pc[t] = "register") \/ CancelScope(t) \/ RegisterCleanup(t)
           /\ \/ pc'[Completion] = pc[Completion] \/ CompleteJob
              \/ Destroying(Completion) \/ Starting(Completion)
<1> USE ThreadsApart DEF TypeOK, ThreadTypes
<1>1. CASE User \/ DestroyRecord \/ OnCreate \/ UNCHANGED vars
  BY <1>1 DEF User, SwitchOn, SwitchOff, Toggle, RecreateActivity, Recompose, EditBlockList,
     DestroyRecord, OnCreate, vars, scope, threads
<1>2. CASE OnStartCommand \/ OnDestroy
  BY <1>2 DEF OnStartCommand, OnDestroy, MainTakes, Goto, scope
<1>3. CASE CompleteJob
  BY <1>3 DEF CompleteJob, Goto, Structure, CompletionOwes
<1>4. ASSUME NEW t \in Threads, Destroying(t)
      PROVE  /\ UNCHANGED handlers \/ (t = Completion /\ ClearInterface(t)) \/ RegisterCleanup(t)
             /\ (pc'[t] = "register" <=> pc[t] = "register") \/ CancelScope(t) \/ RegisterCleanup(t)
             /\ \A u \in Threads : u # t => pc'[u] = pc[u]
  BY <1>4 DEF Destroying, StopRunning, CancelScope, RegisterCleanup, CloseInterface, ClearInterface,
     AfterDestroy, Goto, scope
<1>5. ASSUME NEW t \in Threads, StartVpn(t) \/ LaunchReader(t)
      PROVE  /\ UNCHANGED handlers
             /\ pc'[t] = "register" <=> pc[t] = "register"
             /\ \A u \in Threads : u # t => pc'[u] = pc[u]
  BY <1>5 DEF StartVpn, LaunchReader, AfterStart, Goto, scope
<1>6. ASSUME NEW n \in Tunnels, Reading(n) PROVE UNCHANGED <<handlers, pc>>
  BY <1>6 DEF Reading, ReaderStart, ReaderTurn, ReaderHandled, ReaderBreak, ReaderGoes, scope, threads
<1>7. ASSUME NEW i \in Instances, Collecting(i)
      PROVE  /\ UNCHANGED handlers
             /\ \A t \in Threads : (pc'[t] = "register" <=> pc[t] = "register")
             /\ pc'[Completion] = pc[Completion]
  BY <1>7 DEF Collecting, CollectorStart, CollectorEmit, CollectorCancelled, ActOn, Goto, scope, threads
<1>8. ASSUME NEW r \in Restarts, RestartBegin(r) \/ RestartDelay(r)
      PROVE  /\ UNCHANGED handlers
             /\ \A t \in Threads : (pc'[t] = "register" <=> pc[t] = "register")
             /\ pc'[Completion] = pc[Completion]
  BY <1>8 DEF RestartBegin, RestartDelay, Goto, scope
<1> QED
  <2>1. CASE \E t \in Threads : Destroying(t)
    BY <2>1, <1>4
  <2>2. CASE \E t \in Threads : StartVpn(t) \/ LaunchReader(t)
    BY <2>2, <1>5 DEF Starting
  <2>3. CASE \E n \in Tunnels : Reading(n)
    BY <2>3, <1>6
  <2>4. CASE \E i \in Instances : Collecting(i)
    BY <2>4, <1>7
  <2>5. CASE \E r \in Restarts : RestartBegin(r) \/ RestartDelay(r)
    BY <2>5, <1>8
  <2> QED
    BY <1>1, <1>2, <1>3, <2>1, <2>2, <2>3, <2>4, <2>5 DEF Next, System, Starting, LaunchCrash, KillProcess

(* Handlers run only after the Job completed, and until then a tunnel is   *)
(* established only where none is held.                                    *)
LEMMA HeldIsUpStep ==
    ASSUME TypeOK, Structure, HeldIsUp, [Next]_vars, ~ProcessDies
    PROVE  HeldIsUp'
<1> SUFFICES ASSUME job' # "completed" PROVE open' = {vpnInterface'} \ {NoTunnel}
  BY DEF HeldIsUp
<1>1. job # "completed"
  BY Frame DEF CancelScope, CompleteJob
<1>2. \A t \in Threads : ~CloseInterface(t) /\ ~ClearInterface(t)
  BY <1>1 DEF Structure, CleanupAfterCompletion, CloseInterface, ClearInterface
<1>3. ASSUME NEW t \in Threads, StartVpn(t) PROVE open' = {vpnInterface'} \ {NoTunnel}
  <2>1. CASE vpnInterface # NoTunnel
    BY <1>1, <1>3, <2>1 DEF StartVpn, statics, HeldIsUp
  <2>2. CASE vpnInterface = NoTunnel
    <3>1. vpnInterface' = established + 1 /\ open' = {established + 1} /\ established + 1 # NoTunnel
      BY <1>3, <2>2 DEF StartVpn, TypeOK, StaticTypes, NoTunnel
    <3> QED  BY <3>1
  <2> QED  BY <2>1, <2>2
<1> QED  BY <1>1, <1>2, <1>3, Frame DEF HeldIsUp

(* The completing thread runs nothing but the handlers.                    *)
LEMMA CompletionOnlyCleans ==
    ASSUME Structure, Destroying(Completion) \/ Starting(Completion)
    PROVE  CloseInterface(Completion) \/ ClearInterface(Completion)
  BY DEF Structure, CompletionOwes, Destroying, Starting, StopRunning, CancelScope, RegisterCleanup,
     StartVpn, LaunchReader, LaunchCrash

LEMMA CancelComesFirstStep ==
    ASSUME TypeOK, Structure, CancelComesFirst, [Next]_vars, ~ProcessDies
    PROVE  CancelComesFirst'
<1>1. ASSUME NEW t \in Threads, pc'[t] = "register" PROVE job' # "active"
  <2>1. CASE pc[t] = "register"
    BY <2>1, JobStays DEF CancelComesFirst
  <2>2. CASE CancelScope(t)
    BY <2>2 DEF CancelScope
  <2>3. CASE RegisterCleanup(t)
    BY <2>3, JobStays DEF RegisterCleanup, CancelComesFirst
  <2> QED  BY <1>1, <2>1, <2>2, <2>3, CleanupFrame
<1>2. ASSUME job' = "active" PROVE handlers' = 0
  <2>1. job = "active"
    BY <1>2, JobStays
  <2>2. \A t \in Threads : ~RegisterCleanup(t) /\ ~ClearInterface(t)
    BY <2>1, NothingCloses DEF RegisterCleanup, CancelComesFirst
  <2> QED  BY <2>1, <2>2, CleanupFrame, ThreadsApart DEF CancelComesFirst
<1> QED  BY <1>1, <1>2 DEF CancelComesFirst

LEMMA CleanupIsOwedStep ==
    ASSUME TypeOK, Structure, CleanupIsOwed, CancelComesFirst, [Next]_vars, ~ProcessDies
    PROVE  CleanupIsOwed'
<1> USE ThreadsApart
<1>0. handlers \in Nat
  BY DEF TypeOK, ScopeTypes
<1>1. ASSUME job' = "cancelling" PROVE handlers' > 0 \/ \E t \in Threads : pc'[t] = "register"
  <2>1. ASSUME NEW t \in Threads, CancelScope(t) PROVE pc'[t] = "register"
    BY <2>1 DEF CancelScope, Goto, TypeOK, ThreadTypes
  <2>2. CASE job = "cancelling"
    <3>1. ASSUME NEW t \in Threads, RegisterCleanup(t) PROVE handlers' > 0
      BY <1>0, <2>2, <3>1 DEF RegisterCleanup
    <3>2. ~ClearInterface(Completion)
      BY <2>2 DEF Structure, CleanupAfterCompletion, ClearInterface
    <3> QED  BY <2>1, <2>2, <3>1, <3>2, CleanupFrame DEF CleanupIsOwed
  <2> QED  BY <1>1, <2>1, <2>2, Frame DEF CompleteJob
<1>2. ASSUME job' = "completed", handlers' > 0 PROVE pc'[Completion] \in {"close", "null"}
  <2>1. CASE CompleteJob
    BY <1>2, <2>1 DEF CompleteJob, Goto, TypeOK, ThreadTypes
  <2>2. ASSUME NEW t \in Threads, CancelScope(t) PROVE pc'[Completion] \in {"close", "null"}
    <3>1. handlers' = handlers /\ job # "active" /\ job' = job
      BY <1>0, <1>2, <2>2 DEF CancelScope, CancelComesFirst
    <3>2. t # Completion
      BY <2>2 DEF CancelScope, Structure, CompletionOwes
    <3>3. pc'[Completion] = pc[Completion]
      BY <2>2, <3>2 DEF CancelScope, Goto, TypeOK, ThreadTypes
    <3> QED  BY <1>2, <3>1, <3>3 DEF CleanupIsOwed
  <2>3. CASE CloseInterface(Completion)
    BY <2>3 DEF CloseInterface, Goto, TypeOK, ThreadTypes
  <2>4. CASE ClearInterface(Completion)
    BY <1>0, <1>2, <2>4 DEF ClearInterface, Goto, TypeOK, ThreadTypes
  <2>5. CASE job = "completed" /\ ~CompleteJob /\ ~CloseInterface(Completion) /\ ~ClearInterface(Completion)
    <3>1. pc'[Completion] = pc[Completion]
      BY <2>5, CleanupFrame, CompletionOnlyCleans
    <3>2. UNCHANGED handlers
      <4>1. ASSUME NEW t \in Threads, RegisterCleanup(t) PROVE UNCHANGED handlers
        BY <2>5, <4>1 DEF RegisterCleanup
      <4> QED  BY <2>5, <4>1, CleanupFrame
    <3> QED  BY <1>2, <2>5, <3>1, <3>2 DEF CleanupIsOwed
  <2> QED  BY <1>2, <2>1, <2>2, <2>3, <2>4, <2>5, Frame
<1> QED  BY <1>1, <1>2 DEF CleanupIsOwed

(* Every step keeps Owed.                                                  *)
LEMMA OwedStep ==
    ASSUME TypeOK, Structure, Owed, [Next]_vars
    PROVE  Owed'
<1>1. CASE ProcessDies
  <2>1. /\ job' = "active" /\ handlers' = 0 /\ pc' = Nowhere
        /\ vpnInterface' = NoTunnel /\ open' = {}
    BY <1>1 DEF ProcessDies
  <2>2. HeldIsUp'
    BY <2>1 DEF HeldIsUp
  <2> QED  BY <2>1, <2>2 DEF Owed, CleanupIsOwed, CancelComesFirst, Nowhere
<1>2. CASE ~ProcessDies
  BY <1>2, HeldIsUpStep, CancelComesFirstStep, CleanupIsOwedStep DEF Owed
<1> QED  BY <1>1, <1>2

-----------------------------------------------------------------------------
LEMMA InitIInv == Init => IInv
<1> SUFFICES ASSUME Init PROVE IInv
  OBVIOUS
<1>1. UiTypes /\ ScopeTypes /\ store \in SUBSET Apps
  BY DEF Init, UiTypes, ScopeTypes
<1>2. AmsTypes /\ BoundTypes
  <2>1. toggles = 0 /\ edits = 0 /\ kills = 0 /\ created = 0
    BY DEF Init
  <2>2. inbox \in Seq(Callbacks) /\ instance = FALSE /\ started = FALSE
    BY DEF Init
  <2>3. BoundTypes
    BY <2>1, BoundsAssumption DEF BoundTypes
  <2>4. created \in 0 .. toggles + 1
    BY <2>1
  <2>5. instance \in BOOLEAN /\ started \in BOOLEAN
    BY <2>2
  <2> QED
    BY <2>2, <2>3, <2>4, <2>5 DEF AmsTypes
<1>3. ThreadTypes /\ ReaderTypes /\ FilterTypes
  BY FreshTypes DEF Init, ThreadTypes, ReaderTypes, FilterTypes
<1>4. StaticTypes
  <2>1. isRunning = FALSE /\ vpnInterface = NoTunnel /\ open = {} /\ established = 0
    BY DEF Init
  <2>2. isRunning \in BOOLEAN /\ vpnInterface \in Tunnels \cup {NoTunnel} /\ open \in SUBSET Tunnels
    BY <2>1
  <2>3. established \in 0 .. MaxTunnels
    BY <2>1, BoundsAssumption
  <2> QED
    BY <2>2, <2>3 DEF StaticTypes
<1>5. Structure
  BY ThreadsApart
     DEF Init, Nowhere, NoReaders, Structure, CleanupAfterCompletion, CompletedIsQuiet,
         CompletionOwes, LaunchHoldsInterface, ReaderHoldsInterface, LiveReader
<1>6. Fed
  BY ThreadsApart
     DEF Init, Nowhere, NoReaders, NoCollectors, Fed, CreateComesFirst, LaunchedIsFed, LiveReader,
         CollectorsLast, RestartsOnlyStop, FirstIsServed
<1>7. Owed
  <2>1. HeldIsUp
    BY DEF Init, HeldIsUp
  <2> QED  BY <2>1 DEF Init, Nowhere, Owed, CleanupIsOwed, CancelComesFirst
<1> QED
  BY <1>1, <1>2, <1>3, <1>4, <1>5, <1>6, <1>7 DEF IInv, TypeOK, Structure, Fed, Owed

LEMMA NextIInv == IInv /\ [Next]_vars => IInv'
  BY TypeStep, StructureStep, FedStep, OwedStep DEF IInv, Structure, Fed, Owed

(* IInv holds in every reachable state.                                    *)
THEOREM Inductive == Spec => []IInv
  BY InitIInv, NextIInv, PTL DEF Spec

(* However many threads are in onDestroy, startVpn and restartVpn at once, *)
(* a reader never loses its tunnel: cleanup waits for it.                  *)
THEOREM ReaderIsSafe == Spec => []ReaderHoldsInterface
<1>1. IInv => ReaderHoldsInterface  BY DEF IInv
<1> QED  BY <1>1, Inductive, PTL

(* No stop, restart or start leaves a tunnel up that the static field does *)
(* not hold, as long as the Job has not completed: the one way to lose a   *)
(* tunnel is a handler that runs while a later start establishes it.       *)
THEOREM UpToCompletionTunnelsAreHeld == Spec => []HeldIsUp
<1>1. IInv => HeldIsUp  BY DEF IInv
<1> QED  BY <1>1, Inductive, PTL

(* Whatever threads are in onDestroy at once, a cancelled scope has a      *)
(* handler coming, and the thread that completes the Job leaves none of    *)
(* them waiting: what StopReleasesTunnel needs of every state it passes.   *)
THEOREM CleanupNeverForgotten == Spec => []CleanupIsOwed
<1>1. IInv => CleanupIsOwed  BY DEF IInv
<1> QED  BY <1>1, Inductive, PTL

(* As long as the scope is active, whoever reads the tunnel filters by a   *)
(* list that a living collector keeps up to date: the collector was        *)
(* launched before startVpn was asked for, and only the scope ends it.     *)
THEOREM FilterStaysFed == Spec => []FilterIsFed
<1>1. IInv => FilterIsFed
  BY DEF IInv, TypeOK, FilterTypes, LaunchedIsFed, Launched, CollectorsLast, FilterIsFed, LiveCollector
<1> QED  BY <1>1, Inductive, PTL

-----------------------------------------------------------------------------
(* The refinement of VpnSession: how the phase moves.                      *)
Served == \E n \in Tunnels : LiveReader(n)
NoneYet == \A n \in Tunnels : reader[n] = "none"

LEMMA Phases ==
    /\ SessionPhase = "serving" <=> Served
    /\ SessionPhase = "fresh" <=> job = "active" /\ NoneYet
    /\ SessionPhase \in {"serving", "fresh", "over"}
  BY DEF SessionPhase, Served, NoneYet, LiveReader

LEMMA PhasesNext ==
    /\ SessionPhase' = "serving" <=> Served'
    /\ SessionPhase' = "fresh" <=> job' = "active" /\ NoneYet'
    /\ SessionPhase' \in {"serving", "fresh", "over"}
  BY DEF SessionPhase, Served, NoneYet, LiveReader

(* A step of the service is a step of the session or none of its business. *)
LEMMA SessionStep ==
    ASSUME IInv, [Next]_vars
    PROVE  [Session!Next]_(Session!vars)
<1> USE Phases, PhasesNext, ThreadsApart DEF Session!Next, Session!vars
<1>0. TypeOK /\ Structure /\ Fed
  BY DEF IInv, Structure, Fed
<1>1. CASE ProcessDies
  <2>1. SessionPhase' = "fresh" /\ open' = {}
    BY <1>1 DEF ProcessDies, NoReaders, NoneYet
  <2> QED  BY <2>1 DEF Session!Die
<1>2. ASSUME NEW t \in Threads, LaunchReader(t) PROVE [Session!Next]_(Session!vars)
  <2>1. /\ pc[t] = "launch" /\ t = Main /\ vpnInterface \in Tunnels
        /\ UNCHANGED <<open, job>> /\ reader \in [Tunnels -> {"none", "queued", "loop", "busy", "done"}]
        /\ reader' = [reader EXCEPT ![vpnInterface] = IF job = "active" THEN "queued" ELSE "done"]
    BY <1>0, <1>2, OnlyMainStarts DEF LaunchReader, Fed, TypeOK, StaticTypes, ReaderTypes, scope, statics
  <2>2. CASE job = "active"
    <3>1. NoneYet /\ vpnInterface \in open
      BY <1>0, <2>1, <2>2 DEF Fed, FirstIsServed, NoneYet, Structure, LaunchHoldsInterface
    <3>2. Served'
      BY <2>1, <2>2 DEF Served, LiveReader
    <3> QED  BY <2>1, <2>2, <3>1, <3>2 DEF Session!Serve
  <2>3. CASE job # "active"
    <3>1. ~Served' /\ job' # "active"
      BY <1>0, <2>1, <2>3 DEF Served, LiveReader, Structure, ReaderHoldsInterface
    <3> QED  BY <2>1, <2>3, <3>1 DEF Session!Finish
  <2> QED  BY <2>2, <2>3
<1>3. ASSUME NEW n \in Tunnels, Reading(n) PROVE [Session!Next]_(Session!vars)
  <2>1. UNCHANGED <<open, job>> /\ LiveReader(n) /\ reader'[n] # "none"
    BY <1>0, <1>3 DEF TypeOK, ReaderTypes, Reading, ReaderStart, ReaderTurn, ReaderHandled, ReaderBreak,
       ReaderGoes, LiveReader, scope, statics
  <2>2. Served /\ ~NoneYet'
    BY <2>1 DEF Served, NoneYet
  <2> QED  BY <2>1, <2>2 DEF Session!Finish
<1>4. ASSUME UNCHANGED reader PROVE (Served' <=> Served) /\ (NoneYet' <=> NoneYet)
  BY <1>4 DEF Served, NoneYet, LiveReader
<1>5. ASSUME NEW t \in Threads, CancelScope(t) PROVE [Session!Next]_(Session!vars)
  <2>1. UNCHANGED <<open, reader>> /\ job' # "active"
    BY <1>5 DEF CancelScope, statics, readers
  <2> QED  BY <1>4, <2>1 DEF Session!Abandon
<1>6. CASE CompleteJob
  <2>1. UNCHANGED <<open, reader>> /\ job # "active" /\ job' # "active"
    BY <1>6 DEF CompleteJob, statics, readers
  <2> QED  BY <1>4, <2>1
<1>7. ASSUME NEW t \in Threads, StartVpn(t) PROVE [Session!Next]_(Session!vars)
  <2>1. UNCHANGED <<reader, job>> /\ (open' = open \/ open' # {})
    BY <1>7 DEF StartVpn, statics, readers, scope
  <2>2. Served => open # {}
    BY <1>0 DEF Served, Structure, ReaderHoldsInterface
  <2> QED  BY <1>4, <2>1, <2>2 DEF Session!Establish
<1>8. ASSUME NEW t \in Threads, CloseInterface(t) PROVE [Session!Next]_(Session!vars)
  <2>1. UNCHANGED <<reader, job>> /\ open' \subseteq open
    BY <1>8 DEF CloseInterface, readers, scope
  <2>2. ~Served
    BY <1>0, <1>8 DEF CloseInterface, Served, Structure, CleanupAfterCompletion, CompletedIsQuiet, NoChildren
  <2> QED  BY <1>4, <2>1, <2>2 DEF Session!Release
<1>9. ASSUME UNCHANGED <<reader, job, open>> PROVE [Session!Next]_(Session!vars)
  BY <1>4, <1>9
<1>10. ASSUME NEW t \in Threads, ClearInterface(t) PROVE UNCHANGED <<reader, job, open>>
  BY <1>10 DEF ClearInterface, readers
<1>11. CASE ~ProcessDies
  <2>1. UNCHANGED readers \/ (\E t \in Threads : LaunchReader(t)) \/ (\E n \in Tunnels : Reading(n))
    BY <1>0, <1>11, Frame
  <2>2. UNCHANGED job \/ (\E t \in Threads : CancelScope(t)) \/ CompleteJob
    BY <1>0, <1>11, Frame
  <2>3. \/ UNCHANGED <<vpnInterface, open>>
        \/ \E t \in Threads : StartVpn(t) \/ CloseInterface(t) \/ ClearInterface(t)
    BY <1>0, <1>11, Frame
  <2> QED  BY <2>1, <2>2, <2>3, <1>2, <1>3, <1>5, <1>6, <1>7, <1>8, <1>9, <1>10 DEF readers
<1> QED  BY <1>1, <1>11

(* The service, with all its threads, implements the session it promises:  *)
(* one session in a process, on a tunnel that stays up while it is served. *)
THEOREM ImplementsSession == Spec => SessionSpec
<1>1. Init => Session!Init
  BY Phases DEF Init, NoReaders, NoneYet, Session!Init
<1>2. IInv /\ [Next]_vars => [Session!Next]_(Session!vars)
  BY SessionStep
<1> QED  BY <1>1, <1>2, Inductive, PTL DEF Spec, SessionSpec, Session!Spec
=============================================================================
