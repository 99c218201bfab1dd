# Verification of the firewall VPN app

TLA+ models of the Android firewall app in this repository, the TLC runs that
check them, and TLAPS proofs about them. Paths are relative to the repository;
`J/` stands for `app/src/main/java/com/prashik/firewallapp/`.

## 1. The system

The app routes the traffic of the device through a VPN tunnel of its own, finds
out which app sent each packet, drops what the user has blocked, and forwards
the rest over ordinary sockets.

| Component | Code | State | Operations |
|---|---|---|---|
| VPN service lifecycle | `J/FirewallVpnService.kt` 43-182 | statics `isRunning`, `vpnInterface`, `vpnScope` (one per process); per instance `blockedAppCache`, `packetForwarder` | `onCreate`, `onStartCommand`, `onDestroy`, `startVpn`, `restartVpn`, `observeBlockedApps`, the coroutine of `readPackets` |
| Switch and block-list editing | `J/ui/bottomBar/BottomNavigation.kt`, `J/ui/components/App_Item.kt`, `J/ui/MainViewModel.kt`, `J/data/repository/BlockedAppRepositoryImpl.kt` | `switchState` of the view model, the `isRunning` an item read when composed, the stored set `blocked_packages` | toggle, block and unblock an app |
| Packet pipeline | `J/FirewallVpnService.kt` 184-283, `J/util/UidResolver.kt` | the reader's one 32767-byte buffer | read, parse, resolve the app, decide, drop or forward |
| Address book | `J/data/local/dao/AppAddressDao.kt`, `J/FirewallVpnService.kt` 303-344, `J/ui/MainViewModel.kt` 128-156 | table `app_addresses` | track an address, ask whether it is blocked, toggle one, block or allow all |
| TCP forwarding | `J/PacketForwarder.kt` 98-233 | `tcpConnections`, sockets, one reader per connection | SYN, data, FIN, server data, cleanup of one and of all |
| UDP forwarding | `J/PacketForwarder.kt` 48-96 | one socket per request | send, await one answer for 5 s, close |
| Traffic log | `J/data/local/dao/BlockLogDao.kt`, `J/FirewallVpnService.kt` 254-257, 271-275, 285-301, `J/ui/MainViewModel.kt` 78-88 | table of log rows, keyed by app, protocol and destination; the list on the screen | insert or replace, cut to 100 rows, collect and show |
| Native codec | `app/src/main/cpp/firewallapp.cpp` | none | parse a packet, extract payloads and flags, build packets |
| Navigation | `J/ui/bottomBar/AppNavigation.kt`, `J/ui/screen/` | back stack | push, pop |

Not part of the verification: dependency injection, themes and layout (no
behaviour to get wrong across steps), the vendored PcapPlusPlus headers and
libraries under `app/src/main/cpp/include`, Gradle files.

How they interact. The switch sends START and STOP intents to the service
through Android, which makes the service object when there is none. The UI
writes the block list to the DataStore; a collector coroutine of the service
copies it into `blockedAppCache`. The reader coroutine takes packets off the
tunnel, starts a tracking coroutine in the address book, asks the address book
and the cache, and calls the forwarder, which starts a coroutine per packet;
those coroutines and the connection readers write answers to the tunnel. Log
rows are inserted by yet other coroutines. Nothing but `ConcurrentHashMap`,
`AtomicBoolean` and the databases synchronises them.

What is hard: `onDestroy` runs on the main thread and in a restart coroutine;
the tunnel is closed by a completion handler on whichever thread completes the
scope; the scope is static and survives the service but not its own
cancellation; Android destroys, recreates and kills the service as it likes;
the block list reaches the filter through a cache; tables are checked and then
changed in separate steps; the packet buffer is shared with coroutines that
run later; sockets are closed through a map whose entries can be replaced.

What makes each component correct:

- lifecycle: a reader never loses its tunnel; a stop releases the tunnel and
  ends every coroutine; the filter is fed as long as packets are read; one
  session per process at most;
- address book: trackers overlap without a trace in what is blocked, a block once
  made holds until undone;
- TCP: a socket that is in nobody's hands is closed; bytes arrive in order;
  cleanup of one connection leaves others alone;
- UDP: every socket is closed, one answer at most per request;
- pipeline: what is forwarded is the packet that was decided on;
- log: one row per destination, no more rows than the limit and what is being
  inserted, the oldest go first, the screen shows the table in the end;
- codec and exchange: what a socket on the phone hears was sent to its own request,
  and it is told by whom; a blocked one hears nothing, a request that passed is
  answered.

## 2. Modules

| Module | What it is |
|---|---|
| `FirewallVpnService` | the lifecycle: UI, Android's service record, main thread, coroutines, tunnel; its invariants and liveness properties; mutants of its actions |
| `VpnSession` | what the lifecycle promises of a tunnel, in two variables |
| `MCFirewallVpnService` | instances for TLC, and the claims of the documentation that the code does not keep |
| `FirewallVpnService_proofs` | TLAPS proofs about the lifecycle |
| `PacketFilter` | whose packet it is, address tracking, the decision to drop or forward, the user's changes of the address book |
| `AddressBook` | the address book without duplicates: known addresses, of which some are blocked |
| `MCPacketFilter` | the filter's instances |
| `MCAddressBook` | the claims of the address guide about blocking that the code does not keep |
| `PacketFilter_proofs` | TLAPS proofs about the filter |
| `PacketForwarder` | the coroutines that carry packets, the packet buffer, the connection map, sockets, both cleanups |
| `Carriage` | what the forwarder promises of the servers: sockets opened, used and closed in order |
| `MCPacketForwarder` | the claims about forwarding that the code does not keep |
| `PacketForwarder_proofs` | TLAPS proofs about the forwarder |
| `TrafficLog` | the log's table, its inserts and prunings, the way to the screen |
| `MCTrafficLog` | its calendar |
| `TrafficLog_proofs` | TLAPS proofs about the log |
| `NativeBridge` | the native codec, as operators |
| `Exchange` | `NativeBridge` composed with the coroutines that call it and the phone's network stack: who hears what |
| `Conversation` | what forwarding promises the apps: who asked, what was said to it and by whom, what is heard |
| `MCExchange` | its sockets, and the claims about answers that the code does not keep |
| `Exchange_proofs` | TLAPS proofs about exchanges |

### FirewallVpnService

Threads are `Main`, the set `Restarts` of coroutines that `restartVpn` can
launch, and `Completion`, the thread that completes the Job. `pc[t]` is where a
thread is:

| Label | Code |
|---|---|
| `stop`, `cancel`, `register` | `onDestroy` 135-136, 138, 139 |
| `close`, `null` | the completion handler 141, 142, inline or on `Completion` |
| `check`, `launch` | `startVpn` 150-167, 168-181 |
| `queued`, `delay`, `done` | a restart not dispatched yet, at line 87, finished |

A step is what a thread does between two accesses to shared state. Three
accesses are taken together because no other thread can tell: `isRunning` and
`stopSelf` in `onDestroy` (nobody reads both), and the check, the assignment
and `isRunning` in `startVpn` (only handlers write the field besides, and only
null). `packetForwarder.cleanup()` (137) belongs to the TCP forwarder and does
not touch this state.

`collector[i]` and `reader[n]` are the states of the coroutines of instance `i`
and tunnel `n`. The reader has one state, `busy`, for the handling of a packet:
it may go back to the loop or end with an exception. A coroutine launched in a
scope that is not active never runs.

External behaviour, modelled from how the code uses it:

- Android's service record (`created`, `instance`, `started`): a command makes a
  record if there is none; `stopSelf` counts for the record's own instance; the
  record goes away when it is not started and no tunnel is up (Android binds to
  a VPN service while its tunnel is up); `establish` lets go of an older tunnel.
- `Job`: `cancel` makes it cancelling; it completes when no child is left, and
  then runs its handlers one after the other; a handler registered on a
  completed Job runs at once. `delay` throws in a cancelled coroutine.
- a read of an empty tunnel returns 0, so the loop gets to check `isActive`.
- process death resets everything but the DataStore and `started`; a started
  service comes back with a null intent. Commands in flight are lost with the
  process (Android may deliver them again: the model does not).

VPN permission is taken as granted; without it the switch stays off and nothing
else happens. Revocation of the VPN by the system is seen by the code as a
failing read, which `ReaderBreak` covers.

Properties:

- `ReaderHoldsInterface`: whatever threads run `onDestroy` and `startVpn`, a live
  reader's tunnel is up and is the one in the static field.
- `FilterIsFed`: while the scope is active, a live reader's instance has a live
  collector.
- `HeldIsUp`: until the Job completes, the tunnel that is up is the one in the static
  field, so a stop finds it. (Afterwards it may not be: `UpTunnelIsHeld`.)
- `CleanupIsOwed`: a cancelled scope always has a handler waiting or a thread about
  to register one, and what is left when the Job completes is with the thread that
  completed it. It is `StopReleasesTunnel` without time.
- `SessionSpec`: the module implements `VpnSession` under the mapping
  `SessionPhase` / `open # {}`: at most one served session per process, and the
  tunnel stays up under it.
- `StopReleasesTunnel`: liveness, under `Fairness`.
- `IInv`: the inductive invariant of the proofs; its conjunct `RestartsOnlyStop` says
  of itself that no restart ever gets to `startVpn`. That is how the code is, not how it
  should be (`UpdatesAreServed`); the refinement's proof needs it.

Fairness is weak fairness of every thread: the main looper, the dispatcher's
threads, Android's own. It is justified because each of these steps is
non-blocking code that a running thread gets to (the tunnel is read without
blocking; a suspended coroutine is resumed by its cancellation). The user, the
death of the process and failing reads are not fair.

Each mutant in the module is an action as a plausible bug would have it, kept
beside the action it replaces; for every property of a passing run there is one
that breaks it.

### PacketFilter

The reader's `reader` is where it is in its loop: `read` (187-242), `query`
(inside `isAddressBlockedForApp`, a suspension), `decide` (248-269), `log`
(254-257, 272-275), `done`. `tracker[k]` is the coroutine that packet `k` of a
known app starts (303-334): `query`, then `insert` or `touch`, then `done`. It
belongs to no scope of the service, so a cancellation does not reach it. A step
is one SQL statement or what lies between two.

The table `rows` has an id, a package, an address (IP, port and protocol as one
value) and the flag. Names and time stamps are left out: no decision reads them.
`getAddress ... LIMIT 1` names no order; SQLite scans a table without an index by
row id, so the row with the lowest id answers (`IsFirst`). `insertAddress` replaces
on conflict, but a row that is inserted has a new id and there is no unique
index, so nothing conflicts.

The block list reaches the cache by `Collect`, as in the lifecycle (where the
cache is per instance; here one instance is looked at). The reader may see its
scope cancelled at any time; the two modules are not composed, because the
filter needs from the lifecycle only that the scope can be cancelled.

`Faults` names what can go wrong: `"cancel"`, `"database"` (a DAO call throws),
`"owner"` (the system does not know whose connection it is). `Modern` is the
version branch of line 207; minSdk is 24, so both exist.

The screen with the address toggles cannot be reached in this version
(`BottomNavigation.kt` passes an empty `onAppClick`); the operations are the view
model's API and tests may call them, so they are modelled, with whatever flag.

`held` is a history variable: the address of the packet at hand has been blocked at
every moment from its reading to the decision. The code reads the flag once in
between, so a block that comes or goes meanwhile may or may not count; one that
holds throughout must.

Properties:

- `AddressBlockHolds`: an address blocked throughout is not forwarded to, unless its
  query fails: a query that throws, because the scope was cancelled meanwhile for
  instance, counts as "not blocked".
- `TrackedIsKnown`: a tracking coroutine that found its row, or is done, has one in the
  table, whatever users and other coroutines did meanwhile.
- `OnlyUserChangesRules`: no step but the user's changes which addresses are
  blocked, although trackers insert rows that say "allowed" for addresses that
  are there already.
- `LoneRowObeys`: an address with a single row obeys its toggle; duplicates may not
  (`BlocksTakeEffect`).
- `BookSpec`: the table implements `AddressBook` under `known` = the addresses that
  have a row, `blocked` = those whose first row is blocked. A tracker looks and inserts in
  two statements; to the book it is one step. Of an address with duplicates a toggle
  sets it or nothing; "block all" is about the addresses known by then and reaches all
  of them, duplicates included, and no other app's; an address met again stays what it
  is, even if the coroutine that meets it looked before the block and inserts after it.
  An address met later is allowed: that is the code's rule and not the guide's, see next.
- `BlocksTakeEffect`: the guide's two claims, which do not hold. `ToggleTakesEffect`
  (`ADDRESS_MANAGEMENT_GUIDE.md:16`): an address with a row marked blocked is blocked.
  `BlockAllHolds` (`:18`, `:57-59`): after "block all" no packet of the app is let
  through before the user allows something. One behaviour refutes both.
- `TrackedEventually`: liveness, under weak fairness of each tracker's own steps
  (a dispatched coroutine runs), unless its own statement fails.

Also seen in this module, without a run of its own: before Android 10 (`Modern =
FALSE`) the code asks for the owner with the name of the network layer, no packet
has one, and nothing is ever blocked; of several packages with one UID only the
first can be blocked (`FirstOfUid`). And the two checks are a disjunction (`Decide`): an
app on the block list gets through to no address, whatever its rows say. That is
`ADDRESS_MANAGEMENT_GUIDE.md:36-40` ("If either condition is true, the packet is
dropped"), while `GRANULAR_FILTERING.md:176-180` ("Block entire app", "Allow specific
IP:Port", "Verify only that connection works") wants it otherwise. The two documents
disagree; the model follows the code, and no property takes sides.

### PacketForwarder

Every packet that is let through gets a coroutine, its task. `at[n]` is where the
task of packet `n` is:

| Label | Code |
|---|---|
| `flags`, `payload`, `lookup` | `forwardTcpPacket` 107, 108, 117 |
| `write`, `fin` | 119-127, 130-132 |
| `connect`, `put`, `synack`, `start` | `handleTcpSyn` 146-151, 154, 167, 170 |
| `extract`, `send`, `receive` | `forwardUdpPacket` 56, 58-66, 72-90 |

`tcpReader[n]` is the reader of the connection that task `n` made; sockets bear the
names of the tasks that made them, one each.

The buffer. `readPackets` has one array and gives it to every task. Late tasks see
the packet that is there by then (`InBuffer`), possibly cut off by their own
length. The native functions work on the array itself (an array of 32767 bytes
is a large object, which is not moved or copied by `GetByteArrayElements`), and
even a copy would be of what the array holds at that time. A packet half
overwritten is taken as one of the two or as nothing. The flow of a task is what
the reader parsed before.

A packet of TCP has a SYN, a payload, a FIN, a payload and a FIN, or nothing of
these; a packet of UDP a payload or none. `passed` says what the filter decided:
that is `PacketFilter`'s, of which only the verdict matters here.

Taken together, because no other thread can tell: the removal of a connection
from the map and its closing (once removed only its own task and reader hold it),
the making of a socket and its connection. A socket that fails to connect closes
itself. `cleanup()` is two passes over a `ConcurrentHashMap`, each flow a step, by
any number of threads. Packets of other protocols are written back to the tunnel
and change no state; neither does what a reader writes there.

Properties:

- `MappedIsWatched`: a connection in the map has a reader, or the task that is
  about to start it. Since a reader cleans up by key, it may close its successor,
  and the successor's own reader then finds nothing; the property says that the
  confusion never leaves a connection without any.
- `ClosedIsCleared`: a closed connection is in the map only while a `cleanup()` under
  way is yet to clear it.
- `OnlyPassedAreServed`: what is sent is a payload of the transport of its socket, to a
  server that a packet which passed the filter was for, that packet or an earlier one
  than the payload's. Whose payload it is, is another matter: `BlockedStaysIn`.
- `CarriageSpec`: the module implements `Carriage`: sockets are opened once, to servers
  that packets were let through to, closed at most once, and carry only while open.
  `opened` are the sockets that were ever made, with the flow of their task, `served`
  is `out`; cleanups by key, late tasks and stale connections all have to be a step of
  it or none.
- `ConnectionEnds`, `UdpSocketCloses`: liveness. Fairness: coroutines run, and what
  waits for a server ends, because of the time-outs of 30 s and 5 s; a server that
  keeps sending is taken to stop some time.

`SocketsClose` is the claim of `IMPLEMENTATION_GUIDE.md:87-89` ("Automatic cleanup of
closed connections", "Proper resource management", "Memory leak prevention") that the code
does not keep: of each transport there comes a time, again and again, when no socket is
open. It fails for both in one behaviour. A second SYN leaks the first connection's
socket, which the map no longer has when its reader ends and cleans up by key; and a UDP
socket whose `send` throws stays open (`SendFails`), as only what follows is in the block
with `finally`. A connection put between the passes of a `cleanup()` is dropped unclosed
in the same way; the run, which has no `cleanup()`, shows the shorter one.

### TrafficLog

A packet of an app with a name makes a log row. `LogPacket` launches its insert, a
coroutine of its own (`inserting`), and takes the reader to `prune`, the call of
`deleteExtraLogs` that follows at once: lines 254-257 and 272-275, dropped or
forwarded. Nothing waits for the insert. `Insert` is `REPLACE` on the primary key;
an exception in it has no handler and ends the process (`InsertFails`), after which
the table is what was committed and everything else is gone.

A row is its key and the day of its time stamp; the text `%d/%m/%Y %H:%M:%S` starts
with the day of the month, so `TextLeq` compares that before the month. `Calendar`
gives month and date of each day to come. Within a day, rows count as equal and
`Selections` may keep any of them. `ORDER BY ... LIMIT` chooses one of `Selections`.

`Collectors` are the coroutines of `getBlockLogs`, one for every appearance of the
screen and every use of the switch (`AppNavigation.kt` 26-29); none ever ends but by
an exception. Room tells each of a change (`Invalidate`, external; the tracker is
taken to speak with the commit), a collector queries (`Query`), and the main thread
puts the list into the state flow (`Deliver`), in any order among collectors.

`fresh` is a history variable: what was inserted since the last pruning.

Properties:

- `LogIsCut`: without its fresh rows the table is within the limit, also when
  inserts overlap prunings or are lost with the process.
- `OneRowPerKey` (in `IInv`): one row per key, whatever inserts of it overlap. Which of
  two overlapping inserts the row is from, nobody promises: the older may replace the
  younger (each `Insert` is an action of its own), and no property says otherwise.
- `PruneDropsOldest`: among rows of one month no older row outlives a younger one.
  Across months the text order is wrong: on the first of a month the new rows are
  the first to go. The model has it (`TextLeq`, the turn in `Calendar`); since no
  document says which rows are kept, no property denies it, and this one would not
  catch it.
- `IdleScreenIsRight`: as long as nothing is on its way to the screen, it shows the
  table, in whatever order collectors queried and delivered before; provided none has
  failed. It is `ScreenSettles` without time.
- `ScreenSettles`: liveness. Once writing is over, the screen shows the table,
  although collectors overwrite each other's lists; provided none has failed, since
  a failing one may leave an old list behind. Fairness: a collector that was told
  queries and delivers.

`clearLogs` has no caller. A running VPN has its reader once per process (see
`StartIsServed`), so `StartReader` needs a new process to happen again.

### NativeBridge and Exchange

`NativeBridge` is `firewallapp.cpp` as operators, one per function that
`NativeBridge.kt` declares. A payload is its length (0: none), the flags are the set
of their bits, `htonl` of a `jlong` keeps the low 32 bits (`% SeqModulus`). The
layers PcapPlusPlus makes are external (`InPayloadLayer`): a payload whose port the
library knows becomes a layer of its own class (`UdpLayer.h` 75, `TcpLayer.h` 555,
`DnsLayer.h` 468), and the casts of lines 128 and 270 find a `PayloadLayer` only.
`buildIpv4UdpPacketNative` is not declared in Kotlin and cannot be called. The
payload of `buildTcpPacket` goes out of scope before the packet uses it (line 420);
no caller passes one.

`Exchange` follows a packet from a socket on the phone to its answer. `traffic[n]`
is what the reader parsed of packet `n` and gave to its task. `at[n]`:

| Label | Code |
|---|---|
| `extract`, `send`, `receive` | `forwardUdpPacket` 56, 58-66, 71-84 |
| `flags`, `connect`, `synack` | `forwardTcpPacket` 107-111, `handleTcpSyn` 146-154, 157-167 |
| `reader` | the coroutine of `startTcpReader` |
| `dropped`, `failed`, `done` | the early returns, the caught exceptions, the end |

Flags and payload come from the buffer (`InBuffer`), as in `PacketForwarder`; the
addresses do not, and that is what keeps answers apart. External: the phone's
network stack (`Request`, `IsFor`, `Opens`, `Hears`: a SYN-ACK counts if it comes from
the server and acknowledges the SYN, data if the connection is open, a datagram if
its port has a socket, which is taken not to be a connected one) and the other hosts,
which send any of `AnswerSizes` bytes. A TCP connection's bytes are from its server. The
`DatagramSocket` of a request is never connected and the code does not look at the
sender: `Receive` takes the first datagram, of any of `Hosts`, relays it with the
sender's address and port (`response.address`, `response.port`, lines 75-78), and is done.
Sockets of TCP send SYNs until they are open; since none ever opens, data towards the
server is left to `PacketForwarder`. The filter is a choice (`passed`). The phone gives
every socket a port of its own for the whole run (`SocketsAssumption`): that a port is
used again while an answer to its last owner is under way, up to 5 s, is not modelled.

`answers` is a history variable: what the socket of a task has got, and from whom.

Properties:

- `AnswersAreGenuine`: what a socket hears was sent to a request of its own, by the very
  host and port it is told, whole or cut to the 2048 bytes of the buffer. It does not say
  that this is the server that was asked, for that is not so. Nor that nothing is cut: no
  document sets a size.
- `BlockedHearsNothing`: a socket none of whose packets passed hears nothing. (Its
  payload may still be sent, see `BlockedStaysIn`.)
- `EndsHeard`: a UDP question that passed, on ports the library does not know, is heard
  back when its task is over, unless it was lost in one of the ways named next. It is
  `QuestionsAnswered` without time. Heard (`Heard(n)`) is the answer to that very question,
  of the server it was for.
- `TalkSpec`: the module implements `Conversation`: sockets ask, something is said to a
  socket that asked, and that socket hears it in the name of who said it, cut to the
  buffer at worst, or nobody does. By TCP only the server asked speaks, by UDP any host.
- `QuestionsAnswered`: liveness. A UDP question that passed, on ports the library
  does not know, is heard back, unless the socket fails, the task finds the next
  packet in the buffer, or another host's datagram came before the answer (`Lost`).
  Fairness: tasks run; a silent server is a time-out.
- `Connectivity`: the same of DNS (`DnsAnswered`) and of TCP (`ConnectionOpens`), which
  the guide promises (`IMPLEMENTATION_GUIDE.md:105`, `:117-118`) and of which neither holds,
  as one behaviour shows. The SYN-ACK is wrong twice over: it comes from the phone's own
  address, and it acknowledges the number 1 where the socket's SYN, of number 1 here,
  wants 2. The first alone is enough, which is the theorem `ConnectsOnlyToThePhone`.

## 3. Runs

Five runs check that properties hold, seven that a claim is violated.

| Run | Instance | Shows |
|---|---|---|
| `Lifecycle` | 1 app, 2 restarts, 3 toggles, 1 edit, 1 kill, 2 tunnels | `IInv`, `ReaderHoldsInterface`, `FilterIsFed`, `HeldIsUp`, `CleanupIsOwed`, `SessionSpec`, `StopReleasesTunnel` hold |
| `StartIsServed` | 3 toggles | violated: start, stop, start serves nothing |
| `UpdatesAreServed` | 1 toggle, 1 edit, 2 restarts | violated: a change of the block list stops the VPN for good |
| `UpTunnelIsHeld` | 3 toggles, 1 edit | violated: a handler nulls a new tunnel |
| `FilterRules` | 2 apps of one UID, 2 addresses (one without an owner), 3 packets, 1 user change, 1 edit, cancellation and failing queries | `TypeOK`, `IInv`, `AddressBlockHolds`, `TrackedIsKnown`, `OnlyUserChangesRules`, `LoneRowObeys`, `BookSpec`, `TrackedEventually` hold |
| `BlocksTakeEffect` | 1 app, 2 addresses, 3 packets, 2 changes | violated: the duplicate is toggled, and a new address is allowed after "block all" |
| `Forwarding` | 1 flow each of TCP and UDP, 2 packets, 2 threads in `cleanup()` | `MappedIsWatched`, `ClosedIsCleared`, `OnlyPassedAreServed`, `IInv`, `ConnectionEnds`, `UdpSocketCloses`, `CarriageSpec` hold |
| `SocketsClose` | 1 flow each of TCP and UDP, 3 packets, no `cleanup()` | violated: a second SYN and a failed send leave sockets open |
| `BlockedStaysIn` | 2 packets | violated: the payload of a dropped packet is sent to another server |
| `TrafficLog` | 2 keys, 1 row kept, 3 packets, 3 days (30 and 31 of a month, 1 of the next), 2 collectors, 2 processes | `IInv`, `LogIsCut`, `IdleScreenIsRight`, `PruneDropsOldest`, `ScreenSettles` hold |
| `Exchange` | 5 sockets (DNS, two of UDP, TCP, ICMP), 3 packets, 2 hosts that answer, with 1 or 3 bytes and a buffer of 2, numbers modulo 4 | `AnswersAreGenuine`, `BlockedHearsNothing`, `EndsHeard`, `IInv`, `QuestionsAnswered`, `TalkSpec` hold |
| `Connectivity` | a DNS, a TCP and a UDP socket, 2 packets | violated: the DNS question is never forwarded, the SYN-ACK opens nothing |

Why the bounds are enough: three toggles give start, stop, start; with one edit
there are up to two restarts (the first list and a change) and so up to
three threads in `onDestroy`; one kill gives a sticky restart with uses of the
switch before and after. One app suffices because the lifecycle only compares
lists. (All of the run's properties but the liveness one are proved for any numbers.) For
the filter, two packets to one address make a duplicate, and a third
is decided on with both there, one of them blocked. (That a
user's change leaves other apps and addresses alone is proved for any number of them.)
For the forwarder, two
packets of one flow make a connection and its replacement, or a connection and
data or FIN, with the buffer overwritten at any point and two cleanups at once; the
map's entries are independent, so one flow of TCP suffices (and the invariants are
proved for any). For the log, a limit of one with two keys makes the table outgrow
it, three packets let inserts of one key overlap in either order with a pruning
between, and the calendar has the two turns that matter. For exchanges, three
packets of five sockets give each task its own packet, that of another socket of
its transport, or one of no use to it, in the buffer; two hosts, the servers of the two
UDP sockets, make each a stranger to the other's. `MaxTunnels` is not below the number
of starts, so it never stops `startVpn`. Deadlock is not checked: when the bounds are used up and nothing
runs, the system rests.

The violation runs check claims of the documentation or of the code's own
messages, quoted in the `MC` modules and in the findings. Seen in the models, but
no run of their own: an exception in the read loop leaves the VPN up with nobody
reading it (`ReaderBreak`); the switch says "off" after the activity was recreated
(`RecreateActivity`); and what section 2 names at the filter, the log and the exchanges:
the order of the two checks, the turn of a month, overlapping inserts of one key, and
answers that are cut.

## 4. Proofs

`FirewallVpnService_proofs`, for all values of the constants under
`ThreadsAssumption`, `RestartsAssumption` and `BoundsAssumption`:

- `Inductive`: `Spec => []IInv`;
- `ReaderIsSafe`: `Spec => []ReaderHoldsInterface`;
- `FilterStaysFed`: `Spec => []FilterIsFed`;
- `UpToCompletionTunnelsAreHeld`: `Spec => []HeldIsUp`;
- `CleanupNeverForgotten`: `Spec => []CleanupIsOwed`;
- `ImplementsSession`: `Spec => SessionSpec`, the refinement of `VpnSession`.

`ReaderHoldsInterface` is not inductive: closing the descriptor preserves it
only because no reader is left then. `IInv` adds why: handlers run only after
the Job completed (`CleanupAfterCompletion`), a completed Job has no children
(`CompletedIsQuiet`), the completing thread still owes the handlers that waited
(`CompletionOwes`, which also keeps their count a natural number), and a thread
between `establish` and the launch of the reader has its tunnel unless the Job
completed meanwhile (`LaunchHoldsInterface`). `TypeStep` and `StructureStep` go
through the actions one by one.

`FilterIsFed` rests on the order of the queue. Every callback stands behind the CREATE
of its object or comes after its collector was launched (`CreateComesFirst`), so
`startVpn` runs for objects with a collector (`LaunchedIsFed`), and only a cancelled
scope ends one (`CollectorsLast`). The refinement needs that a thread about to launch
a reader in an active scope is the first to do so (`FirstIsServed`), and that it is
the main thread: a restart has cancelled its scope before its delay and gets no
further (`RestartsOnlyStop`). `Frame` sorts the steps by the variables they change;
each conjunct then has a lemma over the steps that matter to it, and `SessionStep`
maps every step to one of `VpnSession` or a stutter.

`HeldIsUp` needs that only a thread of the completed Job closes or nulls
(`CompletionOnlyCleans`), and that an establish finds the field empty, so that the
tunnel before it is down. `CleanupIsOwed` is inductive with `CancelComesFirst`:
`onDestroy` registers behind its cancellation, so no handler waits for an active scope
and a process that dies takes nothing with it that was owed.

`PacketFilter_proofs`, for all values of the constants under
`PackagesAssumption`, `AddressesAssumption` and `BoundsAssumption`:

- `Inductive`: `Spec => []IInv`;
- `TypeCorrect`: `Spec => []TypeOK`;
- `AddressBlocksHold`: `Spec => []AddressBlockHolds`;
- `TrackedStaysKnown`: `Spec => []TrackedIsKnown`;
- `RulesAreTheUsers`: `Spec => OnlyUserChangesRules`;
- `LoneRowsObey`: `Spec => LoneRowObeys`;
- `ImplementsBook`: `Spec => BookSpec`, the refinement of `AddressBook`.

`IInv` adds that ids are unique and below `nextId` (`IdsOK`): a tracker's new row is
above every other, hence never the first of its address where there is one, and
where there is none it says what no row says (`YoungRowIsNotAsked`). For the
decision it adds that the address is blocked while `held` says so, and that between
the query and the decision the flag read is still what an address blocked
throughout had (`HeldOK`).

The refinement is a case split over what a change of flags does to the first row of
an address: `Update` keeps ids, so it keeps which row is first, and the flag of an
address changes with its first row and with no other. That an address with rows has
a first one is `FirstExists`, an invariant: a new row is above all others, and
becomes the first of its address only if it is alone there. `TrackedIsKnown` rests on rows never leaving the
table and never changing their address.

`PacketForwarder_proofs`, for all values of the constants under `FlowsAssumption`
and `BoundAssumption`, so for any number of flows, packets and threads in
`cleanup()`:

- `Inductive`: `Spec => []IInv`;
- `ConnectionsAreWatched`: `Spec => []MappedIsWatched`;
- `ClosedAreCleared`: `Spec => []ClosedIsCleared`;
- `DroppedServersGetNothing`: `Spec => []OnlyPassedAreServed`;
- `ImplementsCarriage`: `Spec => CarriageSpec`, the refinement of `Carriage`.

A reader's end closes whatever the flow has by then. That this harms neither
of the first two needs that a connection is in the map under its own flow only (`MapOK`), and
that a task is where its protocol takes it (`TasksOK`). `CleanupShape` treats the
cleanup of one connection once, for the five steps that do it; `MoveShape` the
steps that leave sockets, map and readers alone. `OnlyPassedAreServed` rests on `PayloadsOK`:
a task's payload is its own packet's or a later one's of its transport, since a task
takes from the buffer no less than what was there when it began, and only packets
that passed have a task.

The refinement rests on `SocketsOK`: a task that is yet to make its socket has none,
the socket of a request is its own until it has been answered, and the connection a
task has looked up is one of its own flow. So `Connect` and `Send` open a socket that
was never opened, every cleanup of one connection closes an open socket or changes
nothing that the servers see (`OwnSocket`, `Closes`), and a write goes to the flow's
server over an open socket or fails.

`TrafficLog_proofs`, for all values of the constants under `LimitAssumption`,
`CalendarAssumption` and `BoundsAssumption`, so for the limit of 100 and any days:

- `Inductive`: `Spec => []IInv`;
- `LogStaysCut`: `Spec => []LogIsCut`;
- `IdleScreensAreRight`: `Spec => []IdleScreenIsRight`;
- `PruningIsInOrder`: `Spec => PruneDropsOldest`;
- `PruningIsTotal`: there always is a selection for `deleteExtraLogs` to keep.

`LogIsCut` compares the sizes of sets, so `IInv` adds that the table is finite. An
insert adds nothing but a fresh row; a pruning leaves a selection, of at most
`Limit` rows. For the order, two rows of one month compare as texts by their date
alone, and the calendar's assumption makes that their day. `ScreenOK` is why an idle
screen is right: a collector with an old list was told of what made it old and will
query again, and while the screen is out of date some collector is about to repair it.
`PruningIsTotal` takes, of the sets of at least `Limit` rows that a pruning may keep as
far as the order goes, one with no smaller among them (`WFMin` on strict subsets):
had it more than `Limit` rows, it could do without one that the text puts first.

`Exchange_proofs`, for all values of the constants under `SeqAssumption`,
`SocketsAssumption`, `SizesAssumption` and `BoundAssumption`:

- `Inductive`: `Spec => []IInv`;
- `HeardIsGenuine`: `Spec => []AnswersAreGenuine`;
- `BlockedStayDeaf`: `Spec => []BlockedHearsNothing`;
- `QuestionsEndHeard`: `Spec => []EndsHeard`;
- `ImplementsConversation`: `Spec => TalkSpec`, the refinement of `Conversation`;
- `ConnectsOnlyToThePhone`, `ConnectionsAreDeaf`: a TCP socket opens to, and hears from,
  no server but one with the phone's own address. The run `Connectivity` shows it
  of one socket; the theorems say that no choice of addresses, ports and numbers helps.

Why a late task does not hand its answer to the wrong socket is `TasksOK`: what a task
goes by is what its own packet said, however the buffer has changed, and only
packets that passed have a task. What the task's socket gets is built for the port the
socket asked from, and the assumption that the phone gives a port to one socket of a
transport singles the socket out. Who sent it is no part of the argument: `ReplyKeeps`
holds for any sender, and a question is heard or displaced according to whether it was
the server asked (`ReceiveKeeps`).

Only model-checked: the liveness properties (fairness is beyond the prover), which are
`StopReleasesTunnel`, `TrackedEventually`, `ConnectionEnds`,
`UdpSocketCloses`, `ScreenSettles` and `QuestionsAnswered`. Of most, what they promise
without time is an invariant that is proved: `CleanupIsOwed`,
`TrackedIsKnown`, `MappedIsWatched`, `IdleScreenIsRight` and `EndsHeard`. Every other
property of a passing run is a theorem. No recursive definitions are used.

## 5. Not modelled

- Dependency injection and application start, themes, layout, dialogs, the list of
  installed apps: no state that several steps can get wrong.
- The vendored PcapPlusPlus and libpcap headers under `app/src/main/cpp/include` and
  CMake's compiler probes under `app/.cxx`: they are by far most of the C and C++
  in the tree, but third-party or generated, and the app's own C++ is
  `firewallapp.cpp` alone, which `NativeBridge` covers but for the function that cannot
  be called. What the app relies on in the library is one external operator.
- The scan of `/proc/net` and `ipPortToLocalHex` (`UidResolver.kt` 33-62): the only
  caller passes the network layer's name, for which the function returns before it
  looks at either.
- The back stack: pushed and popped by the user, with no other actor.
- The address screen's collectors (`MainViewModel.kt` 116-126): the screen cannot be
  reached.
- Data on an open connection between the phone and a server: none opens.

## 6. Plan

Done: the lifecycle, the filter, the forwarder, the log, the codec and exchanges,
each with its properties and its proofs; every safety property, every action property
and the refinements of `VpnSession`, `AddressBook`, `Carriage` and `Conversation` are
proved. Next: an abstract specification of the log and its refinement. Left besides: an
order of the segments of a connection, if a document comes to promise one.
