------------------------- MODULE FirewallVpnService -------------------------
(***************************************************************************)
(* The lifecycle of the VPN service: FirewallVpnService.kt with the user   *)
(* interface that drives it and the parts of Android it runs on.           *)
(*                                                                         *)
(* Four kinds of thread run the code.  The main thread takes the service   *)
(* callbacks from `inbox' one at a time.  The coroutines of the static     *)
(* vpnScope run on Dispatchers.IO: one collector per service instance      *)
(* (observeBlockedApps), one reader per tunnel (readPackets), one restart  *)
(* per block-list change seen while running (restartVpn).  The thread that *)
(* completes the scope's Job runs the cleanup handlers.  A program counter *)
(* gives each thread's place in onDestroy, startVpn and restartVpn; a step *)
(* is what a thread does between two accesses to what the threads share.   *)
(***************************************************************************)
EXTENDS Integers, Sequences, FiniteSets

CONSTANTS
    Apps,         \* package names the user may block
    Main,         \* the main thread
    Completion,   \* the thread that completes the vpnScope Job
    Restarts,     \* the coroutines restartVpn may launch in one process
    MaxToggles,   \* bound on the user's operations of the switch
    MaxEdits,     \* bound on changes of the block list
    MaxKills,     \* bound on deaths of the process from outside
    MaxTunnels    \* bound on calls of establish() in one process

(* The main thread and the completing thread are not coroutines.           *)
ASSUME ThreadsAssumption ==
    Main # Completion /\ Main \notin Restarts /\ Completion \notin Restarts

(* The collector emits at most MaxEdits + 1 lists in a process, so it finds *)
(* a restart coroutine whenever it wants one.                              *)
ASSUME RestartsAssumption ==
    IsFiniteSet(Restarts) /\ Cardinality(Restarts) > MaxEdits

ASSUME BoundsAssumption ==
    /\ MaxToggles \in Nat /\ MaxEdits \in Nat
    /\ MaxKills \in Nat /\ MaxTunnels \in Nat

Threads == Restarts \cup {Main, Completion}
Instances == 1 .. MaxToggles + 1
Tunnels == 1 .. MaxTunnels
NoTunnel == 0

VARIABLES
    switchState,   \* MainViewModel.switchState: the position of the switch
    shownRunning,  \* App_Item: isRunning as the last composition read it
    store,         \* the block list on disk (DataStore, "blocked_packages")
    inbox,         \* service callbacks queued for the main thread
    created,       \* Android: service records made since the process started
    instance,      \* Android: a service record exists
    started,       \* Android: the record is started (startService, not stopped)
    job,           \* vpnScope's Job: "active", "cancelling" or "completed"
    handlers,      \* cleanup handlers registered on the Job and not run yet
    pc,            \* where each thread is
    host,          \* the service instance each thread works for
    isRunning,     \* companion object: isRunning
    vpnInterface,  \* companion object: vpnInterface, NoTunnel when null
    open,          \* the tunnels that are up: established and not closed
    established,   \* number of tunnels established in this process
    reader,        \* the state of each tunnel's readPackets coroutine
    owner,         \* the instance whose blockedAppCache that reader filters by
    collector,     \* the state of each instance's collector
    cache,         \* each instance's blockedAppCache
    last,          \* each collector's lastBlockedApps
    toggles, edits, kills   \* what has been used of the bounds

ui == <<switchState, shownRunning>>
ams == <<inbox, created, instance, started>>
scope == <<job, handlers>>
threads == <<pc, host>>
statics == <<isRunning, vpnInterface, open, established>>
readers == <<reader, owner>>
filter == <<collector, cache, last>>
bounds == <<toggles, edits, kills>>
vars == <<ui, store, ams, scope, threads, statics, readers, filter, bounds>>

(* A callback is addressed to the service object Android made the record   *)
(* for.                                                                    *)
Callbacks == [do : {"CREATE", "START", "STOP", "STICKY", "DESTROY"}, to : Instances]
Callback(name, i) == [do |-> name, to |-> i]

Labels == {"idle", "queued", "check", "launch", "stop", "cancel", "register",
           "close", "null", "delay", "done"}

LiveReader(n) == reader[n] \in {"queued", "loop", "busy"}
LiveCollector(i) == collector[i] \in {"queued", "collecting", "observing"}
LiveRestart(r) == pc[r] \notin {"idle", "done"}

(* A Job completes when none of its children is left.                      *)
NoChildren ==
    /\ \A n \in Tunnels : ~LiveReader(n)
    /\ \A i \in Instances : ~LiveCollector(i)
    /\ \A r \in Restarts : ~LiveRestart(r)

Goto(t, label) == pc' = [pc EXCEPT ![t] = label]

-----------------------------------------------------------------------------
(* In a fresh process no thread is anywhere, no tunnel has a reader and no  *)
(* instance a collector or a list.                                         *)
Nowhere == [t \in Threads |-> "idle"]
NoHosts == [t \in Threads |-> 0]
NoReaders == [n \in Tunnels |-> "none"]
NoOwners == [n \in Tunnels |-> 0]
NoCollectors == [i \in Instances |-> "none"]
NoLists == [i \in Instances |-> {}]

Init ==
    /\ store \in SUBSET Apps
    /\ switchState = FALSE /\ shownRunning = FALSE
    /\ inbox = <<>> /\ created = 0 /\ instance = FALSE /\ started = FALSE
    /\ job = "active" /\ handlers = 0
    /\ pc = Nowhere /\ host = NoHosts
    /\ isRunning = FALSE /\ vpnInterface = NoTunnel /\ open = {} /\ established = 0
    /\ reader = NoReaders /\ owner = NoOwners
    /\ collector = NoCollectors /\ cache = NoLists /\ last = NoLists
    /\ toggles = 0 /\ edits = 0 /\ kills = 0

-----------------------------------------------------------------------------
(* The user and the user interface.                                        *)

(* startService: Android makes a record when there is none (onCreate comes *)
(* before the command), marks it started and queues the command.           *)
Deliver(command) ==
    /\ started' = TRUE
    /\ instance' = TRUE
    /\ IF instance
       THEN /\ created' = created
            /\ inbox' = Append(inbox, Callback(command, created))
       ELSE /\ created' = created + 1
            /\ inbox' = inbox \o <<Callback("CREATE", created'), Callback(command, created')>>

(* The switch of the top bar: it sends the command the position it shows   *)
(* calls for (the VPN permission has been granted) and flips.              *)
Toggle(position, command) ==
    /\ toggles < MaxToggles
    /\ switchState = position
    /\ Deliver(command)
    /\ switchState' = ~position
    /\ toggles' = toggles + 1
    /\ UNCHANGED <<shownRunning, store, scope, threads, statics, readers,
                   filter, edits, kills>>

SwitchOn == Toggle(FALSE, "START")
SwitchOff == Toggle(TRUE, "STOP")

(* The activity is finished and opened again: its view model starts over.  *)
RecreateActivity ==
    /\ switchState' = FALSE
    /\ shownRunning' = isRunning
    /\ UNCHANGED <<store, ams, scope, threads, statics, readers, filter, bounds>>

(* The list of apps is composed again and reads isRunning anew.            *)
Recompose ==
    /\ shownRunning' = isRunning
    /\ UNCHANGED <<switchState, store, ams, scope, threads, statics, readers,
                   filter, bounds>>

(* A tap on an app's block icon: refused while the composition the user    *)
(* sees was made with the VPN running, else the app joins or leaves the    *)
(* stored list.                                                            *)
EditBlockList(a) ==
    /\ edits < MaxEdits
    /\ ~shownRunning
    /\ store' = IF a \in store THEN store \ {a} ELSE store \cup {a}
    /\ edits' = edits + 1
    /\ UNCHANGED <<ui, ams, scope, threads, statics, readers, filter,
                   toggles, kills>>

-----------------------------------------------------------------------------
(* Service callbacks on the main thread.                                   *)

MainTakes(name) ==
    /\ pc[Main] = "idle"
    /\ inbox # <<>>
    /\ Head(inbox).do = name
    /\ inbox' = Tail(inbox)
    /\ host' = [host EXCEPT ![Main] = Head(inbox).to]

(* onCreate launches the instance's collector; a scope that is not active  *)
(* any more never runs it.                                                 *)
OnCreate ==
    /\ MainTakes("CREATE")
    /\ collector' = [collector EXCEPT
                       ![Head(inbox).to] = IF job = "active" THEN "queued" ELSE "done"]
    /\ UNCHANGED <<ui, store, created, instance, started, scope, pc, statics,
                   readers, cache, last, bounds>>

(* onStartCommand: START runs startVpn, STOP runs onDestroy; the null      *)
(* intent of a sticky restart runs neither.  onDestroy runs once more when *)
(* Android destroys the instance.                                          *)
OnStartCommand ==
    /\ \/ MainTakes("START") /\ Goto(Main, "check")
       \/ MainTakes("STOP") /\ Goto(Main, "stop")
       \/ MainTakes("STICKY") /\ UNCHANGED pc
    /\ UNCHANGED <<ui, store, created, instance, started, scope, statics, readers,
                   filter, bounds>>

OnDestroy ==
    /\ MainTakes("DESTROY")
    /\ Goto(Main, "stop")
    /\ UNCHANGED <<ui, store, created, instance, started, scope, statics, readers,
                   filter, bounds>>

(* Android destroys a record that is not started.  While a tunnel is up it *)
(* keeps a binding of its own to the service and leaves the record alone.  *)
DestroyRecord ==
    /\ instance /\ ~started /\ open = {}
    /\ instance' = FALSE
    /\ inbox' = Append(inbox, Callback("DESTROY", created))
    /\ UNCHANGED <<ui, store, created, started, scope, threads, statics, readers,
                   filter, bounds>>

-----------------------------------------------------------------------------
(* onDestroy, on the main thread or in a restart coroutine.                *)

(* isRunning.store(false); stopSelf(): it counts when the instance is the  *)
(* one Android's record stands for.                                        *)
StopRunning(t) ==
    /\ pc[t] = "stop"
    /\ isRunning' = FALSE
    /\ started' = (started /\ ~(instance /\ created = host[t]))
    /\ Goto(t, "cancel")
    /\ UNCHANGED <<ui, store, inbox, created, instance, scope, host,
                   vpnInterface, open, established, readers, filter, bounds>>

(* vpnScope.cancel(): a Job without children completes on the spot, and    *)
(* cancelling it again does nothing.                                       *)
CancelScope(t) ==
    /\ pc[t] = "cancel"
    /\ job' = IF job # "active" THEN job
              ELSE IF NoChildren THEN "completed" ELSE "cancelling"
    /\ Goto(t, "register")
    /\ UNCHANGED <<ui, store, ams, handlers, host, statics, readers, filter, bounds>>

(* What a thread does after onDestroy: the main thread returns to its      *)
(* queue, a restart goes on to its delay.                                  *)
AfterDestroy(t) == IF t \in Restarts THEN "delay" ELSE "idle"

(* Mutant: onDestroy closes the tunnel itself, without waiting.            *)
RegisterCleanupAtOnce(t) ==
    /\ pc[t] = "register"
    /\ Goto(t, "close")
    /\ UNCHANGED <<ui, store, ams, scope, host, statics, readers, filter, bounds>>

(* Mutant: a handler is registered only for a scope that is still active,  *)
(* but the cancellation came first.                                        *)
RegisterCleanupIfActive(t) ==
    /\ pc[t] = "register"
    /\ IF job = "completed"
       THEN Goto(t, "close")
       ELSE Goto(t, AfterDestroy(t))
    /\ handlers' = IF job = "active" THEN handlers + 1 ELSE handlers
    /\ UNCHANGED <<ui, store, ams, job, host, statics, readers, filter, bounds>>

(* invokeOnCompletion: the handler waits for the Job to complete, or runs  *)
(* at once on this thread when the Job has.                                *)
RegisterCleanup(t) ==
    /\ pc[t] = "register"
    /\ IF job = "completed"
       THEN Goto(t, "close") /\ UNCHANGED handlers
       ELSE Goto(t, AfterDestroy(t)) /\ handlers' = handlers + 1
    /\ UNCHANGED <<ui, store, ams, job, host, statics, readers, filter, bounds>>

(* The last child is gone: the Job is complete, and its handlers run one   *)
(* after the other on the thread that completed it.                        *)
CompleteJob ==
    /\ job = "cancelling" /\ NoChildren
    /\ job' = "completed"
    /\ IF handlers > 0 THEN Goto(Completion, "close") ELSE UNCHANGED pc
    /\ UNCHANGED <<ui, store, ams, handlers, host, statics, readers, filter, bounds>>

(* The handler's two accesses to the static field: vpnInterface?.close()   *)
CloseInterface(t) ==
    /\ pc[t] = "close"
    /\ open' = open \ {vpnInterface}
    /\ Goto(t, "null")
    /\ UNCHANGED <<ui, store, ams, scope, host, isRunning, vpnInterface,
                   established, readers, filter, bounds>>

(* ... and vpnInterface = null.                                            *)
ClearInterface(t) ==
    /\ pc[t] = "null"
    /\ vpnInterface' = NoTunnel
    /\ IF t = Completion
       THEN /\ handlers' = handlers - 1
            /\ Goto(t, IF handlers > 1 THEN "close" ELSE "idle")
       ELSE UNCHANGED handlers /\ Goto(t, AfterDestroy(t))
    /\ UNCHANGED <<ui, store, ams, job, host, isRunning, open, established,
                   readers, filter, bounds>>

Destroying(t) ==
    \/ StopRunning(t) \/ CancelScope(t) \/ RegisterCleanup(t)
    \/ CloseInterface(t) \/ ClearInterface(t)

-----------------------------------------------------------------------------
(* startVpn, on the main thread or in a restart coroutine.                 *)

AfterStart(t) == IF t \in Restarts THEN "done" ELSE "idle"

(* Mutant: startVpn does not look whether a tunnel is held.                *)
StartVpnAgain(t) ==
    /\ pc[t] = "check"
    /\ established < MaxTunnels
    /\ established' = established + 1
    /\ vpnInterface' = established'
    /\ open' = {established'}
    /\ isRunning' = TRUE
    /\ Goto(t, "launch")
    /\ UNCHANGED <<ui, store, ams, scope, host, readers, filter, bounds>>

(* Nothing to do while a tunnel is held.  Else establish a new one: Android *)
(* lets go of any tunnel that was up.                                      *)
StartVpn(t) ==
    /\ pc[t] = "check"
    /\ IF vpnInterface # NoTunnel
       THEN /\ Goto(t, AfterStart(t))
            /\ UNCHANGED statics
       ELSE /\ established < MaxTunnels
            /\ established' = established + 1
            /\ vpnInterface' = established'
            /\ open' = {established'}
            /\ isRunning' = TRUE
            /\ Goto(t, "launch")
    /\ UNCHANGED <<ui, store, ams, scope, host, readers, filter, bounds>>

(* Mutant: the reader is launched in a scope that nobody cancels.          *)
LaunchReaderUnscoped(t) ==
    /\ pc[t] = "launch"
    /\ vpnInterface # NoTunnel
    /\ reader' = [reader EXCEPT ![vpnInterface] = "queued"]
    /\ owner' = [owner EXCEPT ![vpnInterface] = host[t]]
    /\ Goto(t, AfterStart(t))
    /\ UNCHANGED <<ui, store, ams, scope, host, statics, filter, bounds>>

(* The streams of the static field's descriptor, and the reader: a scope   *)
(* that is not active any more never runs it.                              *)
LaunchReader(t) ==
    /\ pc[t] = "launch"
    /\ vpnInterface # NoTunnel
    /\ reader' = [reader EXCEPT
                    ![vpnInterface] = IF job = "active" THEN "queued" ELSE "done"]
    /\ owner' = [owner EXCEPT ![vpnInterface] = host[t]]
    /\ Goto(t, AfterStart(t))
    /\ UNCHANGED <<ui, store, ams, scope, host, statics, filter, bounds>>

(* The process dies: what it held is gone, and Android makes a new record  *)
(* in a new process, with a null intent, for a service it had started.     *)
ProcessDies ==
    /\ instance' = started
    /\ created' = IF started THEN 1 ELSE 0
    /\ inbox' = IF started THEN <<Callback("CREATE", 1), Callback("STICKY", 1)>> ELSE <<>>
    /\ switchState' = FALSE /\ shownRunning' = FALSE
    /\ job' = "active" /\ handlers' = 0
    /\ pc' = Nowhere /\ host' = NoHosts
    /\ isRunning' = FALSE /\ vpnInterface' = NoTunnel /\ open' = {} /\ established' = 0
    /\ reader' = NoReaders /\ owner' = NoOwners
    /\ collector' = NoCollectors /\ cache' = NoLists /\ last' = NoLists
    /\ UNCHANGED <<store, started>>

(* The field went null since establish: the streams get a null descriptor  *)
(* and the exception ends the process.                                     *)
LaunchCrash(t) ==
    /\ pc[t] = "launch"
    /\ vpnInterface = NoTunnel
    /\ ProcessDies
    /\ UNCHANGED bounds

Starting(t) == StartVpn(t) \/ LaunchReader(t) \/ LaunchCrash(t)

KillProcess ==
    /\ kills < MaxKills
    /\ ProcessDies
    /\ kills' = kills + 1
    /\ UNCHANGED <<toggles, edits>>

-----------------------------------------------------------------------------
(* readPackets.                                                            *)

ReaderGoes(n, from, to) ==
    /\ reader[n] = from
    /\ reader' = [reader EXCEPT ![n] = to]
    /\ UNCHANGED <<ui, store, ams, scope, threads, statics, owner, filter, bounds>>

(* The coroutine gets a thread, or was cancelled before it did.            *)
ReaderStart(n) == ReaderGoes(n, "queued", IF job = "active" THEN "loop" ELSE "done")

(* Mutant: while (true).                                                   *)
ReaderTurnForever(n) == ReaderGoes(n, "loop", "busy")

(* while (isActive): read the tunnel and handle what came ...              *)
ReaderTurn(n) == ReaderGoes(n, "loop", IF job = "active" THEN "busy" ELSE "done")

(* ... a packet that was dropped or forwarded, or nothing (read returns 0) *)
ReaderHandled(n) == ReaderGoes(n, "busy", "loop")

(* ... or an exception: the loop ends and nothing else does.               *)
ReaderBreak(n) == ReaderGoes(n, "busy", "done")

Reading(n) == ReaderStart(n) \/ ReaderTurn(n) \/ ReaderHandled(n) \/ ReaderBreak(n)

-----------------------------------------------------------------------------
(* observeBlockedApps and restartVpn.                                      *)

CollectorGoes(i, to) == collector' = [collector EXCEPT ![i] = to]

CollectorStart(i) ==
    /\ collector[i] = "queued" /\ job = "active"
    /\ CollectorGoes(i, "collecting")
    /\ UNCHANGED <<ui, store, ams, scope, threads, statics, readers, cache, last,
                   bounds>>

(* A list seen while running and not acted on yet launches a restart.      *)
ActOn(i) ==
    IF isRunning /\ store # last[i]
    THEN /\ last' = [last EXCEPT ![i] = store]
         /\ \E r \in Restarts :
              /\ pc[r] = "idle"
              /\ Goto(r, "queued")
              /\ host' = [host EXCEPT ![r] = i]
    ELSE UNCHANGED <<last, threads>>

(* Mutant: data.first() instead of data.collect.                           *)
CollectorEmitOnce(i) ==
    /\ job = "active" /\ collector[i] = "collecting"
    /\ CollectorGoes(i, "done")
    /\ cache' = [cache EXCEPT ![i] = store]
    /\ ActOn(i)
    /\ UNCHANGED <<ui, store, ams, scope, statics, readers, bounds>>

(* The collector sees the stored list: the first time whatever it is, then *)
(* when it differs from the one it saw before (distinctUntilChanged).      *)
CollectorEmit(i) ==
    /\ job = "active"
    /\ \/ collector[i] = "collecting"
       \/ collector[i] = "observing" /\ store # cache[i]
    /\ CollectorGoes(i, "observing")
    /\ cache' = [cache EXCEPT ![i] = store]
    /\ ActOn(i)
    /\ UNCHANGED <<ui, store, ams, scope, statics, readers, bounds>>

CollectorCancelled(i) ==
    /\ LiveCollector(i) /\ job # "active"
    /\ CollectorGoes(i, "done")
    /\ UNCHANGED <<ui, store, ams, scope, threads, statics, readers, cache, last,
                   bounds>>

Collecting(i) == CollectorStart(i) \/ CollectorEmit(i) \/ CollectorCancelled(i)

(* The restart gets a thread and runs onDestroy, or was cancelled before.  *)
RestartBegin(r) ==
    /\ pc[r] = "queued"
    /\ Goto(r, IF job = "active" THEN "stop" ELSE "done")
    /\ UNCHANGED <<ui, store, ams, scope, host, statics, readers, filter, bounds>>

(* delay(300) throws in a coroutine that is cancelled; else startVpn.      *)
RestartDelay(r) ==
    /\ pc[r] = "delay"
    /\ Goto(r, IF job = "active" THEN "check" ELSE "done")
    /\ UNCHANGED <<ui, store, ams, scope, host, statics, readers, filter, bounds>>

-----------------------------------------------------------------------------
User ==
    \/ SwitchOn \/ SwitchOff \/ RecreateActivity \/ Recompose
    \/ \E a \in Apps : EditBlockList(a)

(* What the machine does by itself.                                        *)
System ==
    \/ OnCreate \/ OnStartCommand \/ OnDestroy \/ DestroyRecord
    \/ CompleteJob
    \/ \E t \in Threads : Destroying(t) \/ Starting(t)
    \/ \E n \in Tunnels : Reading(n)
    \/ \E i \in Instances : Collecting(i)
    \/ \E r \in Restarts : RestartBegin(r) \/ RestartDelay(r)

Next == User \/ System \/ KillProcess

Spec == Init /\ [][Next]_vars

(* Every thread that can go on does: the main looper, the dispatcher and   *)
(* Android's own thread.  Nothing makes the user act or the process die,   *)
(* and nothing makes a read of the tunnel fail.                            *)
Fairness ==
    /\ WF_vars(OnCreate \/ OnStartCommand \/ OnDestroy)
    /\ WF_vars(DestroyRecord)
    /\ WF_vars(CompleteJob)
    /\ \A t \in Threads : WF_vars(Destroying(t) \/ Starting(t))
    /\ \A n \in Tunnels : WF_vars(ReaderStart(n) \/ ReaderTurn(n) \/ ReaderHandled(n))
    /\ \A i \in Instances : WF_vars(Collecting(i))
    /\ \A r \in Restarts : WF_vars(RestartBegin(r) \/ RestartDelay(r))

FairSpec == Spec /\ Fairness

-----------------------------------------------------------------------------
UiTypes == switchState \in BOOLEAN /\ shownRunning \in BOOLEAN

AmsTypes ==
    /\ inbox \in Seq(Callbacks)
    /\ created \in 0 .. toggles + 1
    /\ instance \in BOOLEAN /\ started \in BOOLEAN
    /\ instance => created # 0

ScopeTypes == job \in {"active", "cancelling", "completed"} /\ handlers \in Nat

ThreadTypes ==
    /\ pc \in [Threads -> Labels]
    /\ host \in [Threads -> 0 .. MaxToggles + 1]

StaticTypes ==
    /\ isRunning \in BOOLEAN
    /\ vpnInterface \in Tunnels \cup {NoTunnel}
    /\ open \in SUBSET Tunnels
    /\ established \in 0 .. MaxTunnels

ReaderTypes ==
    /\ reader \in [Tunnels -> {"none", "queued", "loop", "busy", "done"}]
    /\ owner \in [Tunnels -> 0 .. MaxToggles + 1]

FilterTypes ==
    /\ collector \in [Instances -> {"none", "queued", "collecting", "observing", "done"}]
    /\ cache \in [Instances -> SUBSET Apps]
    /\ last \in [Instances -> SUBSET Apps]

BoundTypes ==
    toggles \in 0 .. MaxToggles /\ edits \in 0 .. MaxEdits /\ kills \in 0 .. MaxKills

TypeOK ==
    /\ UiTypes /\ store \in SUBSET Apps
    /\ AmsTypes /\ ScopeTypes /\ ThreadTypes /\ StaticTypes
    /\ ReaderTypes /\ FilterTypes /\ BoundTypes

(* A reader that is queued or running has its tunnel: the tunnel is up and *)
(* is the one the static field holds, whichever thread is in onDestroy.    *)
(* So the cleanup handler never closes a descriptor under readPackets, and *)
(* there is never a second reader.                                         *)
ReaderHoldsInterface ==
    \A n \in Tunnels : LiveReader(n) => n \in open /\ vpnInterface = n

(* As long as the scope is active, the instance a reader filters for has a *)
(* collector that follows the stored list: no reader is left with a cache  *)
(* nobody updates.                                                         *)
FilterIsFed ==
    job = "active" =>
        \A n \in Tunnels : LiveReader(n) => owner[n] \in Instances /\ LiveCollector(owner[n])

(* Until the Job completes, the tunnels that are up are the one the static *)
(* field holds: a stop that finds the scope at work finds every tunnel.    *)
(* (Of handlers that run after it, MCFirewallVpnService says the rest.)    *)
HeldIsUp == job # "completed" => open = {vpnInterface} \ {NoTunnel}

(* A cancelled scope is never left without somebody who will clean up: a   *)
(* handler waits for the Job, or a thread in onDestroy is about to         *)
(* register one; and when the Job has completed, whatever handlers were    *)
(* left are in the hands of the thread that completed it.                  *)
CleanupIsOwed ==
    /\ job = "cancelling" => handlers > 0 \/ \E t \in Threads : pc[t] = "register"
    /\ job = "completed" /\ handlers > 0 => pc[Completion] \in {"close", "null"}

(* A stop that found the scope at work releases the tunnel: the coroutines *)
(* end, the Job completes and a handler closes the descriptor, also when a *)
(* restart, a STOP and the system's onDestroy run the code at once.        *)
StopReleasesTunnel ==
    \A n \in Tunnels : (job = "cancelling" /\ n \in open) ~> n \notin open

(* The service implements VpnSession: the first tunnel of a process is the *)
(* only one that is served, and it stays up while it is.                   *)
SessionPhase ==
    IF \E n \in Tunnels : LiveReader(n) THEN "serving"
    ELSE IF job = "active" /\ \A n \in Tunnels : reader[n] = "none" THEN "fresh"
    ELSE "over"

Session == INSTANCE VpnSession WITH phase <- SessionPhase, up <- (open # {})

SessionSpec == Session!Spec

(* The strengthening that makes ReaderHoldsInterface inductive: handlers   *)
(* run only after the Job completed, a completed Job has no children, the  *)
(* completing thread owes the handlers that waited, and a thread that has  *)
(* established a tunnel still has it unless the Job completed meanwhile.   *)
CleanupAfterCompletion ==
    \A t \in Threads : pc[t] \in {"close", "null"} => job = "completed"

CompletedIsQuiet == job = "completed" => NoChildren

CompletionOwes ==
    /\ pc[Completion] \in {"idle", "close", "null"}
    /\ pc[Completion] # "idle" => handlers # 0

LaunchHoldsInterface ==
    \A t \in Threads : pc[t] = "launch" /\ job # "completed" => vpnInterface \in open

(* What makes CleanupIsOwed inductive: handlers are registered behind the  *)
(* cancellation, so that none waits for a scope that is active.            *)
CancelComesFirst ==
    /\ \A t \in Threads : pc[t] = "register" => job # "active"
    /\ job = "active" => handlers = 0

(* What makes FilterIsFed and SessionSpec inductive.                       *)

(* The collector of a service object is launched before anything else is   *)
(* asked of the object, since CREATE comes first in the queue; so the main *)
(* thread starts, and readers filter, for objects that have one.           *)
Launched(i) == collector[i] # "none"

CreateComesFirst ==
    /\ \A k \in DOMAIN inbox :
          inbox[k].do # "CREATE" =>
             \/ Launched(inbox[k].to)
             \/ \E j \in 1 .. k - 1 : inbox[j] = Callback("CREATE", inbox[k].to)
    /\ instance => \/ Launched(created)
                   \/ \E j \in DOMAIN inbox : inbox[j] = Callback("CREATE", created)

LaunchedIsFed ==
    /\ pc[Main] \in {"check", "launch"} => host[Main] \in Instances /\ Launched(host[Main])
    /\ \A n \in Tunnels : LiveReader(n) => owner[n] \in Instances /\ Launched(owner[n])

CollectorsLast == job = "active" => \A i \in Instances : collector[i] # "done"

(* A restart has cancelled the scope it runs in before it gets to startVpn, *)
(* so it never does.                                                       *)
RestartsOnlyStop ==
    \A r \in Restarts :
        /\ pc[r] \notin {"check", "launch"}
        /\ pc[r] \in {"register", "delay"} => job # "active"

(* While the scope is active only the first tunnel has had a reader.       *)
FirstIsServed ==
    job = "active" /\ (vpnInterface = NoTunnel \/ pc[Main] = "launch") =>
        \A n \in Tunnels : reader[n] = "none"

IInv ==
    /\ TypeOK
    /\ CleanupAfterCompletion /\ CompletedIsQuiet /\ CompletionOwes
    /\ LaunchHoldsInterface /\ ReaderHoldsInterface
    /\ HeldIsUp /\ CleanupIsOwed /\ CancelComesFirst
    /\ CreateComesFirst /\ LaunchedIsFed /\ CollectorsLast /\ RestartsOnlyStop /\ FirstIsServed
=============================================================================
