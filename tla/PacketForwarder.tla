--------------------------- MODULE PacketForwarder ---------------------------
(***************************************************************************)
(* PacketForwarder.kt: the coroutines that carry packets to their servers, *)
(* the map of TCP connections, the sockets, and the cleanup of the         *)
(* service's onDestroy.                                                    *)
(*                                                                         *)
(* Every packet that is let through has a coroutine, its task.  The task   *)
(* is given what the reader parsed (the flow) and the reader's one buffer; *)
(* flags and payload it takes from the buffer when it gets to run.  A task *)
(* makes at most one socket, so sockets bear the names of tasks.  Packets  *)
(* of other protocols are written back to the tunnel at once.              *)
(***************************************************************************)
EXTENDS Integers, Sequences

CONSTANTS
    TcpFlows, UdpFlows,  \* addresses and ports of both sides
    Cleaners,            \* threads in cleanup()
    MaxPackets           \* bound on the packets read

ASSUME FlowsAssumption == TcpFlows \cap UdpFlows = {}
ASSUME BoundAssumption == MaxPackets \in Nat

Tasks == 1 .. MaxPackets
None == 0  \* no packet, no connection

VARIABLES
    packets,         \* the packets read; the last one is in the buffer
    at,              \* where the task of a packet is
    syn, fin,        \* the flags it saw
    payload,         \* the packet it took its payload from
    connection,      \* the connection it looked up
    socket,          \* the socket it made
    tcpConnections,  \* the map
    tcpReader,       \* the reader of a connection
    out,             \* which packet's payload was sent to the server of which flow
    cleaner          \* threads in cleanup(): phase, and flows left in it

taskData == <<syn, fin, payload, connection>>
sockets == <<socket, tcpConnections>>
vars == <<packets, at, taskData, sockets, tcpReader, out, cleaner>>

(* What a packet says, and whether the filter lets it pass.                *)
Contents ==
    [flow : TcpFlows, has : {{}, {"syn"}, {"data"}, {"fin"}, {"data", "fin"}}, passed : BOOLEAN]
    \cup [flow : UdpFlows, has : {{}, {"data"}}, passed : BOOLEAN]

Flow(n) == packets[n].flow

Init ==
    /\ packets = <<>>
    /\ at = [n \in Tasks |-> "none"]
    /\ syn = [n \in Tasks |-> FALSE] /\ fin = [n \in Tasks |-> FALSE]
    /\ payload = [n \in Tasks |-> None] /\ connection = [n \in Tasks |-> None]
    /\ socket = [n \in Tasks |-> "none"]
    /\ tcpConnections = [f \in TcpFlows |-> None]
    /\ tcpReader = [n \in Tasks |-> "none"]
    /\ out = {}
    /\ cleaner = [t \in Cleaners |-> [phase |-> "idle", left |-> {}]]

-----------------------------------------------------------------------------
(* Mutant: a task is launched whatever the filter says.                    *)
ReadPacketUnfiltered(content) ==
    /\ Len(packets) < MaxPackets
    /\ packets' = Append(packets, content)
    /\ at' = [at EXCEPT ![Len(packets) + 1] =
                 IF content.flow \in TcpFlows THEN "flags" ELSE "extract"]
    /\ UNCHANGED <<taskData, sockets, tcpReader, out, cleaner>>

(* The reader puts a packet into the buffer; if the filter lets it pass,   *)
(* forwardPacket launches its task.                                        *)
ReadPacket(content) ==
    /\ Len(packets) < MaxPackets
    /\ packets' = Append(packets, content)
    /\ at' = [at EXCEPT ![Len(packets) + 1] =
                 IF ~content.passed THEN "done"
                 ELSE IF content.flow \in TcpFlows THEN "flags" ELSE "extract"]
    /\ UNCHANGED <<taskData, sockets, tcpReader, out, cleaner>>

(* What task n finds in the buffer: its packet, or else the last one, of   *)
(* which the task's own length may cut off what it looks for.              *)
InBuffer(n) == IF n = Len(packets) THEN {n} ELSE {Len(packets), None}

(* getTcpFlags, extractTcpPayload, extractUdpPayload: of a packet of the   *)
(* other protocol they find nothing.                                       *)
HasFlag(p, flag) == p # None /\ packets[p].flow \in TcpFlows /\ flag \in packets[p].has
HasPayload(p, flows) == p # None /\ packets[p].flow \in flows /\ "data" \in packets[p].has

(* cleanupTcpConnection.  Between its removal and its closing nobody can   *)
(* find the connection.                                                    *)
CleanupTcpConnection(f) ==
    /\ tcpConnections' = [tcpConnections EXCEPT ![f] = None]
    /\ socket' = [n \in Tasks |-> IF n = tcpConnections[f] THEN "closed" ELSE socket[n]]

Goes(n, label) == at' = [at EXCEPT ![n] = label]

-----------------------------------------------------------------------------
(* forwardTcpPacket.                                                       *)

GetTcpFlags(n) ==
    /\ at[n] = "flags"
    /\ \E p \in InBuffer(n) :
          /\ syn' = [syn EXCEPT ![n] = HasFlag(p, "syn")]
          /\ fin' = [fin EXCEPT ![n] = HasFlag(p, "fin")]
    /\ Goes(n, "payload")
    /\ UNCHANGED <<packets, payload, connection, sockets, tcpReader, out, cleaner>>

ExtractTcpPayload(n) ==
    /\ at[n] = "payload"
    /\ \E p \in InBuffer(n) :
          payload' = [payload EXCEPT ![n] = IF HasPayload(p, TcpFlows) THEN p ELSE None]
    /\ Goes(n, IF syn[n] THEN "connect" ELSE "lookup")
    /\ UNCHANGED <<packets, syn, fin, connection, sockets, tcpReader, out, cleaner>>

Lookup(n) ==
    /\ at[n] = "lookup"
    /\ connection' = [connection EXCEPT ![n] = tcpConnections[Flow(n)]]
    /\ Goes(n, IF tcpConnections[Flow(n)] # None /\ payload[n] # None THEN "write" ELSE "fin")
    /\ UNCHANGED <<packets, syn, fin, payload, sockets, tcpReader, out, cleaner>>

(* Mutant: what is written goes to a buffer that outlives the socket.      *)
WriteBuffered(n) ==
    /\ at[n] = "write"
    /\ out' = out \cup {[payload |-> payload[n], flow |-> Flow(n)]}
    /\ Goes(n, "fin")
    /\ UNCHANGED <<packets, taskData, sockets, tcpReader, cleaner>>

Write(n) ==
    /\ at[n] = "write" /\ socket[connection[n]] = "open"
    /\ out' = out \cup {[payload |-> payload[n], flow |-> Flow(n)]}
    /\ Goes(n, "fin")
    /\ UNCHANGED <<packets, taskData, sockets, tcpReader, cleaner>>

(* The socket is closed, or the server has gone: whatever connection the   *)
(* map has for the flow by now is cleaned up.                              *)
WriteFails(n) ==
    /\ at[n] = "write"
    /\ CleanupTcpConnection(Flow(n))
    /\ Goes(n, "fin")
    /\ UNCHANGED <<packets, taskData, tcpReader, out, cleaner>>

Finish(n) ==
    /\ at[n] = "fin"
    /\ IF fin[n] THEN CleanupTcpConnection(Flow(n)) ELSE UNCHANGED sockets
    /\ Goes(n, "done")
    /\ UNCHANGED <<packets, taskData, tcpReader, out, cleaner>>

-----------------------------------------------------------------------------
(* handleTcpSyn.                                                           *)

Connect(n) ==
    /\ at[n] = "connect"
    /\ socket' = [socket EXCEPT ![n] = "open"]
    /\ Goes(n, "put")
    /\ UNCHANGED <<packets, taskData, tcpConnections, tcpReader, out, cleaner>>

(* A socket that cannot connect closes itself.                             *)
ConnectFails(n) ==
    /\ at[n] = "connect"
    /\ CleanupTcpConnection(Flow(n))
    /\ Goes(n, "done")
    /\ UNCHANGED <<packets, taskData, tcpReader, out, cleaner>>

(* The connection replaces the one the flow may have had.                  *)
Put(n) ==
    /\ at[n] = "put"
    /\ tcpConnections' = [tcpConnections EXCEPT ![Flow(n)] = n]
    /\ Goes(n, "synack")
    /\ UNCHANGED <<packets, taskData, socket, tcpReader, out, cleaner>>

SynAck(n) ==
    /\ at[n] = "synack"
    /\ Goes(n, "start")
    /\ UNCHANGED <<packets, taskData, sockets, tcpReader, out, cleaner>>

(* Mutant: the write to the tunnel fails outside of the try block.         *)
SynAckFailsUncaught(n) ==
    /\ at[n] = "synack"
    /\ Goes(n, "done")
    /\ UNCHANGED <<packets, taskData, sockets, tcpReader, out, cleaner>>

(* The tunnel is closed.                                                   *)
SynAckFails(n) ==
    /\ at[n] = "synack"
    /\ CleanupTcpConnection(Flow(n))
    /\ Goes(n, "done")
    /\ UNCHANGED <<packets, taskData, tcpReader, out, cleaner>>

StartTcpReader(n) ==
    /\ at[n] = "start"
    /\ tcpReader' = [tcpReader EXCEPT ![n] = "read"]
    /\ Goes(n, "done")
    /\ UNCHANGED <<packets, taskData, sockets, out, cleaner>>

(* Mutant: a reader that times out does not clean up.                      *)
TcpReaderLeaves(n) ==
    /\ tcpReader[n] = "read"
    /\ tcpReader' = [tcpReader EXCEPT ![n] = "done"]
    /\ UNCHANGED <<packets, at, taskData, sockets, out, cleaner>>

(* The server closes, the socket is closed, 30 s pass in silence, or the   *)
(* tunnel is closed: the reader's end cleans up what the flow has.         *)
TcpReaderEnds(n) ==
    /\ tcpReader[n] = "read"
    /\ tcpReader' = [tcpReader EXCEPT ![n] = "done"]
    /\ CleanupTcpConnection(Flow(n))
    /\ UNCHANGED <<packets, at, taskData, out, cleaner>>

-----------------------------------------------------------------------------
(* forwardUdpPacket.                                                       *)

ExtractUdpPayload(n) ==
    /\ at[n] = "extract"
    /\ \E p \in InBuffer(n) :
          /\ payload' = [payload EXCEPT ![n] = IF HasPayload(p, UdpFlows) THEN p ELSE None]
          /\ Goes(n, IF HasPayload(p, UdpFlows) THEN "send" ELSE "done")
    /\ UNCHANGED <<packets, syn, fin, connection, sockets, tcpReader, out, cleaner>>

Send(n) ==
    /\ at[n] = "send"
    /\ socket' = [socket EXCEPT ![n] = "open"]
    /\ out' = out \cup {[payload |-> payload[n], flow |-> Flow(n)]}
    /\ Goes(n, "receive")
    /\ UNCHANGED <<packets, taskData, tcpConnections, tcpReader, cleaner>>

(* There is no socket, or there is one and it is left open.                *)
SendFails(n) ==
    /\ at[n] = "send"
    /\ \E made \in {"none", "open"} : socket' = [socket EXCEPT ![n] = made]
    /\ Goes(n, "done")
    /\ UNCHANGED <<packets, taskData, tcpConnections, tcpReader, out, cleaner>>

(* Mutant: the socket is closed after an answer only.                      *)
ReceiveLeaves(n) ==
    /\ at[n] = "receive"
    /\ \E left \in {"open", "closed"} : socket' = [socket EXCEPT ![n] = left]
    /\ Goes(n, "done")
    /\ UNCHANGED <<packets, taskData, tcpConnections, tcpReader, out, cleaner>>

(* An answer, an error, or nothing for 5 s.                                *)
Receive(n) ==
    /\ at[n] = "receive"
    /\ socket' = [socket EXCEPT ![n] = "closed"]
    /\ Goes(n, "done")
    /\ UNCHANGED <<packets, taskData, tcpConnections, tcpReader, out, cleaner>>

-----------------------------------------------------------------------------
(* cleanup(), called by onDestroy on the main thread or in a restart: it   *)
(* goes over the connections and closes them, and then clears the map.     *)
(* Neither is atomic.                                                      *)

Cleanup(t) ==
    /\ cleaner[t].phase = "idle"
    /\ cleaner' = [cleaner EXCEPT ![t] = [phase |-> "close", left |-> TcpFlows]]
    /\ UNCHANGED <<packets, at, taskData, sockets, tcpReader, out>>

CleanupCloses(t, f) ==
    /\ cleaner[t].phase = "close" /\ f \in cleaner[t].left
    /\ socket' = [n \in Tasks |-> IF n = tcpConnections[f] THEN "closed" ELSE socket[n]]
    /\ cleaner' = [cleaner EXCEPT ![t].left = @ \ {f}]
    /\ UNCHANGED <<packets, at, taskData, tcpConnections, tcpReader, out>>

(* Mutant: the map is not cleared.                                         *)
CleanupKeeps(t) ==
    /\ cleaner[t].phase = "close" /\ cleaner[t].left = {}
    /\ cleaner' = [cleaner EXCEPT ![t].phase = "clear"]
    /\ UNCHANGED <<packets, at, taskData, sockets, tcpReader, out>>

CleanupTurns(t) ==
    /\ cleaner[t].phase = "close" /\ cleaner[t].left = {}
    /\ cleaner' = [cleaner EXCEPT ![t] = [phase |-> "clear", left |-> TcpFlows]]
    /\ UNCHANGED <<packets, at, taskData, sockets, tcpReader, out>>

CleanupClears(t, f) ==
    /\ cleaner[t].phase = "clear" /\ f \in cleaner[t].left
    /\ tcpConnections' = [tcpConnections EXCEPT ![f] = None]
    /\ cleaner' = [cleaner EXCEPT ![t].left = @ \ {f}]
    /\ UNCHANGED <<packets, at, taskData, socket, tcpReader, out>>

-----------------------------------------------------------------------------
TcpTask(n) ==
    \/ GetTcpFlags(n) \/ ExtractTcpPayload(n) \/ Lookup(n) \/ Write(n) \/ WriteFails(n) \/ Finish(n)
    \/ Connect(n) \/ ConnectFails(n) \/ Put(n) \/ SynAck(n) \/ SynAckFails(n) \/ StartTcpReader(n)

UdpTask(n) == ExtractUdpPayload(n) \/ Send(n) \/ SendFails(n) \/ Receive(n)

Cleaning(t) == CleanupTurns(t) \/ \E f \in TcpFlows : CleanupCloses(t, f) \/ CleanupClears(t, f)

Next ==
    \/ \E content \in Contents : ReadPacket(content)
    \/ \E n \in Tasks : TcpTask(n) \/ UdpTask(n) \/ TcpReaderEnds(n)
    \/ \E t \in Cleaners : Cleanup(t) \/ Cleaning(t)

Spec == Init /\ [][Next]_vars

(* Coroutines and threads run.  The socket time-outs end what waits for a  *)
(* server: a server is taken to fall silent, or to close, at some time.    *)
FairSpec ==
    /\ Spec
    /\ \A n \in Tasks : WF_vars(TcpTask(n) \/ UdpTask(n)) /\ WF_vars(TcpReaderEnds(n))
    /\ \A t \in Cleaners : WF_vars(Cleaning(t))

-----------------------------------------------------------------------------
Labels == {"none", "flags", "payload", "connect", "put", "synack", "start",
           "lookup", "write", "fin", "extract", "send", "receive", "done"}

TypeOK ==
    /\ packets \in Seq(Contents) /\ Len(packets) \in 0 .. MaxPackets
    /\ at \in [Tasks -> Labels]
    /\ syn \in [Tasks -> BOOLEAN] /\ fin \in [Tasks -> BOOLEAN]
    /\ payload \in [Tasks -> Tasks \cup {None}]
    /\ connection \in [Tasks -> Tasks \cup {None}]
    /\ socket \in [Tasks -> {"none", "open", "closed"}]
    /\ tcpConnections \in [TcpFlows -> Tasks \cup {None}]
    /\ tcpReader \in [Tasks -> {"none", "read", "done"}]
    /\ out \subseteq [payload : Tasks, flow : TcpFlows \cup UdpFlows]
    /\ cleaner \in [Cleaners -> [phase : {"idle", "close", "clear"}, left : SUBSET TcpFlows]]

Mapped(n) == \E f \in TcpFlows : tcpConnections[f] = n

(* A connection stays in the map only while its reader, or the task that   *)
(* is about to start the reader, is there to clean it up, whichever        *)
(* connections of the flow come and go meanwhile.                          *)
MappedIsWatched ==
    \A n \in Tasks : Mapped(n) => at[n] \in {"synack", "start"} \/ tcpReader[n] = "read"

(* A connection in the map whose socket is closed is one that a thread in  *)
(* cleanup() has closed and is yet to clear: no task can find a closed     *)
(* connection for good.                                                    *)
ClosedIsCleared ==
    \A f \in TcpFlows :
        tcpConnections[f] # None /\ socket[tcpConnections[f]] = "closed" =>
            \E t \in Cleaners :
                \/ cleaner[t].phase = "close" /\ f \notin cleaner[t].left
                \/ cleaner[t].phase = "clear" /\ f \in cleaner[t].left

(* What is sent is a payload of the server's own protocol, to a server that *)
(* a packet let through before it was for: however late tasks read the     *)
(* buffer, and whatever they find there, nothing goes to a server all of   *)
(* whose packets were dropped.  (Whose payload it is, is another matter:   *)
(* see BlockedStaysIn in MCPacketForwarder.)                               *)
OnlyPassedAreServed ==
    \A o \in out :
        /\ o.payload \in DOMAIN packets /\ "data" \in packets[o.payload].has
        /\ packets[o.payload].flow \in TcpFlows <=> o.flow \in TcpFlows
        /\ \E n \in 1 .. o.payload : packets[n].passed /\ Flow(n) = o.flow

(* Tasks, the map, failures and cleanups implement Carriage: no cleanup    *)
(* by key, no late task and no stale connection gets a socket opened or    *)
(* closed twice, or serves a server over a socket that is closed, or that  *)
(* is open to another.                                                     *)
Reached == {Flow(n) : n \in {m \in DOMAIN packets : packets[m].passed}}
Made(states) ==
    {[name |-> n, server |-> Flow(n)] : n \in {m \in DOMAIN packets : socket[m] \in states}}

Carried == INSTANCE Carriage WITH
               Servers <- TcpFlows \cup UdpFlows, Sockets <- Tasks, Payloads <- Tasks,
               allowed <- Reached,
               opened <- Made({"open", "closed"}),
               closed <- Made({"closed"}),
               served <- out

CarriageSpec == Carried!Spec

(* Every connection leaves the map.                                        *)
ConnectionEnds ==
    \A n \in Tasks : Mapped(n) ~> ~Mapped(n)

(* The socket of a UDP request that was sent is closed.  (For the sockets  *)
(* that are not, see SocketsClose in MCPacketForwarder.)                   *)
UdpSocketCloses ==
    \A n \in Tasks : at[n] = "receive" ~> socket[n] = "closed"

-----------------------------------------------------------------------------
(* What the proofs need besides.                                           *)

(* A task is where its packet's protocol takes it, and sends what it has.  *)
TasksOK ==
    \A n \in Tasks :
        /\ at[n] = "none" <=> n \notin DOMAIN packets
        /\ at[n] \in {"flags", "payload", "connect", "put", "synack", "start", "lookup", "write", "fin"}
             => Flow(n) \in TcpFlows
        /\ at[n] \in {"extract", "send", "receive"} => Flow(n) \in UdpFlows
        /\ at[n] \in {"write", "send"} => payload[n] # None

(* A connection is in the map under its flow and has a socket; a reader    *)
(* reads a connection of TCP whose task is over.                           *)
MapOK ==
    /\ \A f \in TcpFlows, n \in Tasks :
          tcpConnections[f] = n => n \in DOMAIN packets /\ Flow(n) = f /\ socket[n] # "none"
    /\ \A n \in Tasks :
          /\ at[n] = "none" => socket[n] = "none"
          /\ at[n] = "put" => socket[n] = "open"
          /\ at[n] \in {"synack", "start"} => socket[n] # "none"
          /\ tcpReader[n] # "none" => at[n] = "done" /\ Flow(n) \in TcpFlows

(* Only packets that passed have tasks at work, and the payload a task has *)
(* is its own packet's or a later one's of its protocol.                   *)
PayloadsOK ==
    \A n \in Tasks :
        /\ at[n] \notin {"none", "done"} => packets[n].passed
        /\ payload[n] # None =>
              /\ payload[n] \in n .. Len(packets)
              /\ "data" \in packets[payload[n]].has
              /\ packets[payload[n]].flow \in TcpFlows <=> Flow(n) \in TcpFlows

(* A task that is yet to make its socket has none, that of a request is    *)
(* its own until it has been answered, and the connection a task writes to *)
(* is one of its flow.                                                     *)
SocketsOK ==
    \A n \in Tasks :
        /\ at[n] \in {"flags", "payload", "connect", "extract", "send"} => socket[n] = "none"
        /\ at[n] = "receive" => socket[n] = "open"
        /\ at[n] = "write" => connection[n] \in DOMAIN packets /\ Flow(connection[n]) = Flow(n)

(* The inductive invariant.                                                *)
IInv ==
    /\ TypeOK /\ TasksOK /\ MapOK /\ MappedIsWatched /\ ClosedIsCleared
    /\ PayloadsOK /\ OnlyPassedAreServed /\ SocketsOK
=============================================================================
