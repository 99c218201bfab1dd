----------------------- MODULE PacketForwarder_proofs -----------------------
(* Proofs about PacketForwarder, for any flows, threads and packets.       *)
EXTENDS PacketForwarder, TLAPS

(* What cleanupTcpConnection does to the sockets and the map.              *)
LEMMA CleanupTypes ==
  ASSUME TypeOK, NEW f \in TcpFlows, CleanupTcpConnection(f)
  PROVE  /\ socket' \in [Tasks -> {"none", "open", "closed"}]
         /\ tcpConnections' \in [TcpFlows -> Tasks \cup {None}]
  BY DEF TypeOK, CleanupTcpConnection

LEMMA TaskFlow ==
  ASSUME TypeOK, TasksOK, NEW n \in Tasks,
         at[n] \in {"flags", "payload", "connect", "put", "synack", "start", "lookup", "write", "fin"}
  PROVE  Flow(n) \in TcpFlows /\ n \in DOMAIN packets
  BY DEF TasksOK

LEMMA BufferOK ==
  ASSUME TypeOK, NEW n \in Tasks, NEW p \in InBuffer(n), NEW flows, HasPayload(p, flows)
  PROVE  p \in Tasks
  <1>1. Len(packets) \in 0 .. MaxPackets
    BY DEF TypeOK
  <1> QED BY <1>1, BoundAssumption DEF InBuffer, HasPayload, Tasks, None

LEMMA AppendPacket ==
  ASSUME TypeOK, NEW content \in Contents, ReadPacket(content)
  PROVE  /\ packets' \in Seq(Contents) /\ Len(packets') \in 0 .. MaxPackets
         /\ Len(packets) + 1 \in Tasks /\ Len(packets) \in Nat
         /\ DOMAIN packets = 1 .. Len(packets)
         /\ DOMAIN packets' = 1 .. Len(packets) + 1
         /\ packets'[Len(packets) + 1] = content
         /\ \A n \in DOMAIN packets : packets'[n] = packets[n]
  <1>1. packets \in Seq(Contents) /\ packets' = Append(packets, content)
    BY DEF TypeOK, ReadPacket
  <1>2. packets' \in Seq(Contents) /\ Len(packets') = Len(packets) + 1
    BY <1>1
  <1>3. Len(packets) \in Nat /\ Len(packets) < MaxPackets
    BY <1>1 DEF ReadPacket
  <1>4. Len(packets) + 1 \in Tasks /\ Len(packets') \in 0 .. MaxPackets
    BY <1>2, <1>3, BoundAssumption DEF Tasks
  <1>5. DOMAIN packets = 1 .. Len(packets) /\ DOMAIN packets' = 1 .. Len(packets')
    BY <1>1, <1>2
  <1>6. packets'[Len(packets) + 1] = content /\ \A n \in DOMAIN packets : packets'[n] = packets[n]
    BY <1>1, <1>5
  <1> QED BY <1>2, <1>3, <1>4, <1>5, <1>6

LEMMA InitIInv == Init => IInv
  <1> SUFFICES ASSUME Init PROVE IInv
    OBVIOUS
  <1>1. packets = <<>> /\ packets \in Seq(Contents) /\ Len(packets) = 0 /\ DOMAIN packets = {}
    BY DEF Init
  <1>2. Len(packets) \in 0 .. MaxPackets
    BY <1>1, BoundAssumption
  <1>3. TypeOK
    BY <1>1, <1>2 DEF Init, TypeOK, Labels
  <1>4. \A n \in Tasks : n # None
    BY BoundAssumption DEF Tasks, None
  <1>5. \A n \in Tasks : ~Mapped(n)
    BY <1>4 DEF Init, Mapped
  <1>6. TasksOK /\ MapOK
    BY <1>1, <1>4 DEF Init, TasksOK, MapOK
  <1>7. MappedIsWatched /\ ClosedIsCleared
    BY <1>1, <1>5 DEF Init, MappedIsWatched, ClosedIsCleared
  <1>8. PayloadsOK /\ OnlyPassedAreServed
    BY DEF Init, PayloadsOK, OnlyPassedAreServed
  <1>9. SocketsOK
    BY DEF Init, SocketsOK
  <1> QED BY <1>3, <1>6, <1>7, <1>8, <1>9 DEF IInv

-----------------------------------------------------------------------------
(* Types, action by action.                                                *)

LEMMA TypeStep == TypeOK /\ TasksOK /\ MapOK /\ [Next]_vars => TypeOK'
  <1> SUFFICES ASSUME TypeOK, TasksOK, MapOK, [Next]_vars PROVE TypeOK'
    OBVIOUS
  <1>1. ASSUME NEW content \in Contents, ReadPacket(content) PROVE TypeOK'
    <2>1. at' \in [Tasks -> Labels]
      BY <1>1, AppendPacket DEF ReadPacket, TypeOK, Labels
    <2> QED BY <1>1, <2>1, AppendPacket DEF ReadPacket, TypeOK, taskData, sockets
  <1>2. ASSUME NEW n \in Tasks, GetTcpFlags(n) PROVE TypeOK'
    <2>1. syn' \in [Tasks -> BOOLEAN] /\ fin' \in [Tasks -> BOOLEAN]
      <3>1. PICK p \in InBuffer(n) : /\ syn' = [syn EXCEPT ![n] = HasFlag(p, "syn")]
                                     /\ fin' = [fin EXCEPT ![n] = HasFlag(p, "fin")]
        BY <1>2 DEF GetTcpFlags
      <3>2. HasFlag(p, "syn") \in BOOLEAN /\ HasFlag(p, "fin") \in BOOLEAN
        BY DEF HasFlag
      <3> QED BY <3>1, <3>2 DEF TypeOK
    <2>2. at' \in [Tasks -> Labels]
      BY <1>2 DEF GetTcpFlags, Goes, TypeOK, Labels
    <2> QED BY <1>2, <2>1, <2>2 DEF GetTcpFlags, TypeOK, sockets
  <1>3. ASSUME NEW n \in Tasks, ExtractTcpPayload(n) \/ ExtractUdpPayload(n) PROVE TypeOK'
    <2>1. payload' \in [Tasks -> Tasks \cup {None}]
      <3>1. PICK p \in InBuffer(n), flows \in {TcpFlows, UdpFlows} :
               payload' = [payload EXCEPT ![n] = IF HasPayload(p, flows) THEN p ELSE None]
        BY <1>3 DEF ExtractTcpPayload, ExtractUdpPayload
      <3>2. HasPayload(p, flows) => p \in Tasks
        BY BufferOK
      <3> QED BY <3>1, <3>2 DEF TypeOK
    <2>2. at' \in [Tasks -> Labels]
      BY <1>3 DEF ExtractTcpPayload, ExtractUdpPayload, Goes, TypeOK, Labels
    <2> QED BY <1>3, <2>1, <2>2 DEF ExtractTcpPayload, ExtractUdpPayload, TypeOK, sockets
  <1>4. ASSUME NEW n \in Tasks, Lookup(n) PROVE TypeOK'
    <2>1. Flow(n) \in TcpFlows
      BY <1>4, TaskFlow DEF Lookup
    <2>2. connection' \in [Tasks -> Tasks \cup {None}]
      BY <1>4, <2>1 DEF Lookup, TypeOK
    <2> QED BY <1>4, <2>2 DEF Lookup, Goes, TypeOK, Labels, sockets
  <1>5. ASSUME NEW n \in Tasks, Write(n) \/ Send(n) PROVE TypeOK'
    <2>1. at[n] \in {"write", "send"}
      BY <1>5 DEF Write, Send
    <2>3. payload[n] \in Tasks
      BY <2>1 DEF TypeOK, TasksOK
    <2>4. Flow(n) \in TcpFlows \cup UdpFlows
      BY <2>1 DEF TasksOK
    <2>2. out' \subseteq [payload : Tasks, flow : TcpFlows \cup UdpFlows]
      BY <1>5, <2>3, <2>4 DEF Write, Send, TypeOK
    <2> QED BY <1>5, <2>2 DEF Write, Send, Goes, TypeOK, Labels, taskData, sockets
  <1>6. ASSUME NEW n \in Tasks, WriteFails(n) \/ Finish(n) \/ ConnectFails(n) \/ SynAckFails(n)
        PROVE  TypeOK'
    <2>1. Flow(n) \in TcpFlows
      BY <1>6, TaskFlow DEF WriteFails, Finish, ConnectFails, SynAckFails
    <2>2. /\ socket' \in [Tasks -> {"none", "open", "closed"}]
          /\ tcpConnections' \in [TcpFlows -> Tasks \cup {None}]
      BY <1>6, <2>1, CleanupTypes DEF WriteFails, Finish, ConnectFails, SynAckFails, sockets, TypeOK
    <2> QED BY <1>6, <2>2 DEF WriteFails, Finish, ConnectFails, SynAckFails, Goes, TypeOK, Labels, taskData
  <1>7. ASSUME NEW n \in Tasks, TcpReaderEnds(n) PROVE TypeOK'
    <2>1. Flow(n) \in TcpFlows
      BY <1>7 DEF TcpReaderEnds, MapOK
    <2> QED BY <1>7, <2>1, CleanupTypes DEF TcpReaderEnds, TypeOK, taskData
  <1>8. ASSUME NEW n \in Tasks, Connect(n) \/ SynAck(n) \/ StartTcpReader(n) \/ SendFails(n) \/ Receive(n)
        PROVE  TypeOK'
    <2>1. at' \in [Tasks -> Labels]
      BY <1>8 DEF Connect, SynAck, StartTcpReader, SendFails, Receive, Goes, TypeOK, Labels
    <2>2. socket' \in [Tasks -> {"none", "open", "closed"}]
      BY <1>8 DEF Connect, SynAck, StartTcpReader, SendFails, Receive, TypeOK, sockets
    <2>3. tcpReader' \in [Tasks -> {"none", "read", "done"}]
      BY <1>8 DEF Connect, SynAck, StartTcpReader, SendFails, Receive, TypeOK
    <2>4. UNCHANGED <<packets, taskData, tcpConnections, out, cleaner>>
      BY <1>8 DEF Connect, SynAck, StartTcpReader, SendFails, Receive, sockets
    <2> QED BY <2>1, <2>2, <2>3, <2>4 DEF TypeOK, taskData
  <1>9. ASSUME NEW n \in Tasks, Put(n) PROVE TypeOK'
    <2>1. tcpConnections' \in [TcpFlows -> Tasks \cup {None}]
      BY <1>9, TaskFlow DEF Put, TypeOK
    <2>2. at' \in [Tasks -> Labels]
      BY <1>9 DEF Put, Goes, TypeOK, Labels
    <2> QED BY <1>9, <2>1, <2>2 DEF Put, TypeOK, taskData
  <1>10. ASSUME NEW t \in Cleaners, Cleanup(t) \/ CleanupTurns(t) PROVE TypeOK'
    <2>1. cleaner' \in [Cleaners -> [phase : {"idle", "close", "clear"}, left : SUBSET TcpFlows]]
      BY <1>10 DEF Cleanup, CleanupTurns, TypeOK
    <2> QED BY <1>10, <2>1 DEF Cleanup, CleanupTurns, TypeOK, taskData, sockets
  <1>11. ASSUME NEW t \in Cleaners, NEW f \in TcpFlows, CleanupCloses(t, f) \/ CleanupClears(t, f)
         PROVE  TypeOK'
    <2>1. cleaner' \in [Cleaners -> [phase : {"idle", "close", "clear"}, left : SUBSET TcpFlows]]
      BY <1>11 DEF CleanupCloses, CleanupClears, TypeOK
    <2>2. /\ socket' \in [Tasks -> {"none", "open", "closed"}]
          /\ tcpConnections' \in [TcpFlows -> Tasks \cup {None}]
      BY <1>11 DEF CleanupCloses, CleanupClears, TypeOK
    <2>3. UNCHANGED <<packets, at, taskData, tcpReader, out>>
      BY <1>11 DEF CleanupCloses, CleanupClears
    <2> QED BY <2>1, <2>2, <2>3 DEF TypeOK, taskData
  <1>12. CASE UNCHANGED vars
    BY <1>12 DEF vars, taskData, sockets, TypeOK
  <1> QED
    BY <1>1, <1>2, <1>3, <1>4, <1>5, <1>6, <1>7, <1>8, <1>9, <1>10, <1>11, <1>12
    DEF Next, TcpTask, UdpTask, Cleaning

-----------------------------------------------------------------------------
(* Tasks stay with their protocol.                                         *)

TcpLabels == {"flags", "payload", "connect", "put", "synack", "start", "lookup", "write", "fin"}
UdpLabels == {"extract", "send", "receive"}

LEMMA TcpTaskMoves ==
  ASSUME TypeOK, NEW n \in Tasks, TcpTask(n)
  PROVE  /\ UNCHANGED packets /\ at[n] \in TcpLabels
         /\ \E l \in TcpLabels \cup {"done"} :
               /\ at' = [at EXCEPT ![n] = l]
               /\ payload' = payload \/ (at[n] = "payload" /\ l # "write")
               /\ l = "write" => payload[n] # None
         /\ \A m \in Tasks : m # n => payload'[m] = payload[m]
  <1>1. UNCHANGED packets /\ at[n] \in TcpLabels
    BY DEF TcpTask, GetTcpFlags, ExtractTcpPayload, Lookup, Write, WriteFails, Finish, Connect,
           ConnectFails, Put, SynAck, SynAckFails, StartTcpReader, TcpLabels
  <1>2. CASE ExtractTcpPayload(n)
    <2>1. PICK p \in InBuffer(n) :
             payload' = [payload EXCEPT ![n] = IF HasPayload(p, TcpFlows) THEN p ELSE None]
      BY <1>2 DEF ExtractTcpPayload
    <2>2. \A m \in Tasks : m # n => payload'[m] = payload[m]
      BY <2>1 DEF TypeOK
    <2> DEFINE l == IF syn[n] THEN "connect" ELSE "lookup"
    <2>3. l \in TcpLabels /\ l # "write" /\ at[n] = "payload" /\ at' = [at EXCEPT ![n] = l]
      BY <1>2 DEF ExtractTcpPayload, Goes, TcpLabels
    <2> QED BY <1>1, <2>2, <2>3
  <1>3. CASE Lookup(n)
    <2>1. payload' = payload
      BY <1>3 DEF Lookup, taskData
    <2>2. CASE tcpConnections[Flow(n)] # None /\ payload[n] # None
      <3>1. at' = [at EXCEPT ![n] = "write"]
        BY <1>3, <2>2 DEF Lookup, Goes
      <3>2. "write" \in TcpLabels \cup {"done"}
        BY DEF TcpLabels
      <3>3. \A m \in Tasks : payload'[m] = payload[m]
        BY <2>1
      <3>4. payload[n] # None
        BY <2>2
      <3>5. \E l \in TcpLabels \cup {"done"} :
               /\ at' = [at EXCEPT ![n] = l]
               /\ payload' = payload \/ (at[n] = "payload" /\ l # "write")
               /\ l = "write" => payload[n] # None
        <4> WITNESS "write" \in TcpLabels \cup {"done"}
        <4> QED BY <2>1, <3>1, <3>4
      <3> QED BY <1>1, <3>3, <3>5
    <2>3. CASE ~(tcpConnections[Flow(n)] # None /\ payload[n] # None)
      <3>1. at' = [at EXCEPT ![n] = "fin"]
        BY <1>3, <2>3 DEF Lookup, Goes
      <3> QED BY <1>1, <2>1, <3>1 DEF TcpLabels
    <2> QED BY <2>2, <2>3
  <1>4. CASE GetTcpFlags(n) \/ Write(n) \/ WriteFails(n) \/ Finish(n) \/ Connect(n) \/ ConnectFails(n)
             \/ Put(n) \/ SynAck(n) \/ SynAckFails(n) \/ StartTcpReader(n)
    <2>1. payload' = payload
      BY <1>4 DEF GetTcpFlags, Write, WriteFails, Finish, Connect, ConnectFails, Put, SynAck,
                  SynAckFails, StartTcpReader, taskData
    <2>2. \E l \in (TcpLabels \cup {"done"}) \ {"write"} : at' = [at EXCEPT ![n] = l]
      BY <1>4 DEF GetTcpFlags, Write, WriteFails, Finish, Connect, ConnectFails, Put, SynAck,
                  SynAckFails, StartTcpReader, Goes, TcpLabels
    <2> QED BY <1>1, <2>1, <2>2
  <1> QED BY <1>2, <1>3, <1>4 DEF TcpTask

LEMMA UdpTaskMoves ==
  ASSUME TypeOK, NEW n \in Tasks, UdpTask(n)
  PROVE  /\ UNCHANGED <<packets, tcpConnections, tcpReader, cleaner>> /\ at[n] \in UdpLabels
         /\ \E l \in {"send", "receive", "done"} :
               /\ at' = [at EXCEPT ![n] = l]
               /\ l = "send" => payload'[n] # None
         /\ \A m \in Tasks : m # n => payload'[m] = payload[m] /\ socket'[m] = socket[m]
  <1>1. UNCHANGED <<packets, tcpConnections, tcpReader, cleaner>> /\ at[n] \in UdpLabels
    BY DEF UdpTask, ExtractUdpPayload, Send, SendFails, Receive, UdpLabels, sockets
  <1>2. CASE ExtractUdpPayload(n)
    <2>1. PICK p \in InBuffer(n) :
             /\ payload' = [payload EXCEPT ![n] = IF HasPayload(p, UdpFlows) THEN p ELSE None]
             /\ Goes(n, IF HasPayload(p, UdpFlows) THEN "send" ELSE "done")
      BY <1>2 DEF ExtractUdpPayload
    <2>2. \A m \in Tasks : m # n => payload'[m] = payload[m]
      BY <2>1 DEF TypeOK
    <2>3. socket' = socket
      BY <1>2 DEF ExtractUdpPayload, sockets
    <2>4. HasPayload(p, UdpFlows) => payload'[n] # None
      BY <2>1 DEF HasPayload, TypeOK
    <2>5. \E l \in {"send", "receive", "done"} :
               /\ at' = [at EXCEPT ![n] = l]
               /\ l = "send" => payload'[n] # None
      BY <2>1, <2>4 DEF Goes
    <2> QED BY <1>1, <2>2, <2>3, <2>5
  <1>3. CASE Send(n) \/ SendFails(n) \/ Receive(n)
    <2>1. payload' = payload
      BY <1>3 DEF Send, SendFails, Receive, taskData
    <2>2. \E l \in {"receive", "done"} : at' = [at EXCEPT ![n] = l]
      BY <1>3 DEF Send, SendFails, Receive, Goes
    <2>3. \A m \in Tasks : m # n => socket'[m] = socket[m]
      BY <1>3 DEF Send, SendFails, Receive, TypeOK
    <2> QED BY <1>1, <2>1, <2>2, <2>3
  <1> QED BY <1>2, <1>3 DEF UdpTask

LEMMA TasksStep == TypeOK /\ TasksOK /\ [Next]_vars => TasksOK'
  <1> SUFFICES ASSUME TypeOK, TasksOK, [Next]_vars PROVE TasksOK'
    OBVIOUS
  <1>1. ASSUME NEW content \in Contents, ReadPacket(content) PROVE TasksOK'
    <2> DEFINE new == Len(packets) + 1
    <2>1. /\ new \in Tasks /\ packets'[new] = content /\ new \notin DOMAIN packets
          /\ DOMAIN packets' = DOMAIN packets \cup {new}
          /\ \A m \in DOMAIN packets : packets'[m] = packets[m]
      <3>1. /\ new \in Tasks /\ packets'[new] = content
            /\ Len(packets) \in Nat
            /\ DOMAIN packets = 1 .. Len(packets) /\ DOMAIN packets' = 1 .. new
            /\ \A m \in DOMAIN packets : packets'[m] = packets[m]
        BY <1>1, AppendPacket
      <3>2. 1 .. new = (1 .. Len(packets)) \cup {new} /\ new \notin 1 .. Len(packets)
        BY <3>1
      <3> QED BY <3>1, <3>2
    <2>2. content.flow \in TcpFlows \/ content.flow \in UdpFlows
      BY DEF Contents
    <2>3. \A m \in Tasks : m # new => at'[m] = at[m] /\ payload'[m] = payload[m]
      BY <1>1 DEF ReadPacket, TypeOK, taskData
    <2>4. at'[new] \in {"done", "flags", "extract"}
          /\ (at'[new] = "flags" => content.flow \in TcpFlows)
          /\ (at'[new] = "extract" => content.flow \in UdpFlows)
      BY <1>1, <2>1, <2>2 DEF ReadPacket, TypeOK
    <2> HIDE DEF new
    <2>5. ASSUME NEW m \in Tasks
          PROVE  /\ at'[m] = "none" <=> m \notin DOMAIN packets'
                 /\ at'[m] \in TcpLabels => packets'[m].flow \in TcpFlows
                 /\ at'[m] \in UdpLabels => packets'[m].flow \in UdpFlows
                 /\ at'[m] \in {"write", "send"} => payload'[m] # None
      <3>1. CASE m = new
        BY <3>1, <2>1, <2>4 DEF TcpLabels, UdpLabels
      <3>2. CASE m # new
        <4>1. at[m] \in TcpLabels \cup UdpLabels => m \in DOMAIN packets
          BY DEF TasksOK, TcpLabels, UdpLabels
        <4> QED BY <3>2, <4>1, <2>1, <2>3 DEF TasksOK, Flow, TcpLabels, UdpLabels
      <3> QED BY <3>1, <3>2
    <2> QED BY <2>5 DEF TasksOK, Flow, TcpLabels, UdpLabels
  <1>2. ASSUME NEW n \in Tasks, TcpTask(n) PROVE TasksOK'
    <2>1. /\ UNCHANGED packets /\ at[n] \in TcpLabels
          /\ \A m \in Tasks : m # n => payload'[m] = payload[m]
      BY <1>2, TcpTaskMoves
    <2>2. PICK l \in TcpLabels \cup {"done"} :
               /\ at' = [at EXCEPT ![n] = l]
               /\ payload' = payload \/ (at[n] = "payload" /\ l # "write")
               /\ l = "write" => payload[n] # None
      BY <1>2, TcpTaskMoves
    <2>3. at'[n] = l /\ (\A m \in Tasks : m # n => at'[m] = at[m])
      BY <2>2 DEF TypeOK
    <2> QED BY <2>1, <2>2, <2>3 DEF TasksOK, Flow, TcpLabels
  <1>3. ASSUME NEW n \in Tasks, UdpTask(n) PROVE TasksOK'
    <2>1. /\ UNCHANGED packets /\ at[n] \in UdpLabels
          /\ \A m \in Tasks : m # n => payload'[m] = payload[m]
      BY <1>3, UdpTaskMoves
    <2>2. PICK l \in {"send", "receive", "done"} :
               /\ at' = [at EXCEPT ![n] = l]
               /\ l = "send" => payload'[n] # None
      BY <1>3, UdpTaskMoves
    <2>3. at'[n] = l /\ (\A m \in Tasks : m # n => at'[m] = at[m])
      BY <2>2 DEF TypeOK
    <2> QED BY <2>1, <2>2, <2>3 DEF TasksOK, Flow, UdpLabels
  <1>4. ASSUME UNCHANGED vars \/ (\E n \in Tasks : TcpReaderEnds(n))
               \/ (\E t \in Cleaners : Cleanup(t) \/ Cleaning(t))
        PROVE  TasksOK'
    <2>1. UNCHANGED <<packets, at, payload>>
      BY <1>4 DEF vars, TcpReaderEnds, Cleanup, Cleaning, CleanupTurns, CleanupCloses, CleanupClears,
                  taskData
    <2> QED BY <2>1 DEF TasksOK, Flow
  <1> QED BY <1>1, <1>2, <1>3, <1>4 DEF Next

-----------------------------------------------------------------------------
(* The sockets and the map.  A step that cleans up after one connection,   *)
(* by whomever, is looked at once (CleanupEffect).                         *)

Shape == MapOK /\ MappedIsWatched /\ ClosedIsCleared

LEMMA TasksAreSome == \A n \in Tasks : n # None
  BY BoundAssumption DEF Tasks, None

(* A connection is in the map under its own flow only.                     *)
LEMMA MappedByFlow ==
  ASSUME TypeOK, MapOK, NEW n \in Tasks
  PROVE  Mapped(n) => /\ n \in DOMAIN packets /\ Flow(n) \in TcpFlows
                      /\ tcpConnections[Flow(n)] = n /\ socket[n] # "none"
  BY TasksAreSome DEF Mapped, MapOK

LEMMA CleanupEffect ==
  ASSUME TypeOK, MapOK, NEW f \in TcpFlows, CleanupTcpConnection(f)
  PROVE  /\ tcpConnections'[f] = None
         /\ \A g \in TcpFlows : g # f => tcpConnections'[g] = tcpConnections[g]
         /\ \A n \in Tasks :
               /\ Mapped(n)' <=> Mapped(n) /\ Flow(n) # f
               /\ Mapped(n) /\ Flow(n) = f => socket'[n] = "closed"
               /\ ~(Mapped(n) /\ Flow(n) = f) => socket'[n] = socket[n]
  <1>1. tcpConnections'[f] = None /\ \A g \in TcpFlows : g # f => tcpConnections'[g] = tcpConnections[g]
    BY DEF CleanupTcpConnection, TypeOK
  <1>2. ASSUME NEW n \in Tasks PROVE Mapped(n) /\ Flow(n) = f <=> n = tcpConnections[f]
    BY MappedByFlow, TasksAreSome DEF Mapped, MapOK
  <1>3. ASSUME NEW n \in Tasks PROVE Mapped(n)' <=> Mapped(n) /\ Flow(n) # f
    <2>1. ASSUME NEW g \in TcpFlows, tcpConnections'[g] = n PROVE Mapped(n) /\ Flow(n) # f
      <3>1. g # f /\ tcpConnections[g] = n
        BY <1>1, <2>1, TasksAreSome
      <3> QED BY <3>1 DEF Mapped, MapOK
    <2>2. ASSUME Mapped(n), Flow(n) # f PROVE Mapped(n)'
      BY <1>1, <2>2, MappedByFlow DEF Mapped
    <2>3. Mapped(n)' => \E g \in TcpFlows : tcpConnections'[g] = n
      BY DEF Mapped
    <2> QED BY <2>1, <2>2, <2>3
  <1>4. \A n \in Tasks : socket'[n] = IF n = tcpConnections[f] THEN "closed" ELSE socket[n]
    BY DEF CleanupTcpConnection
  <1> QED BY <1>1, <1>2, <1>3, <1>4

(* The four parts, for a step that cleans up after one connection while    *)
(* its actor, a task or a reader, comes to its end.                        *)
LEMMA CleanupShape ==
  ASSUME IInv, NEW f \in TcpFlows, CleanupTcpConnection(f), UNCHANGED <<packets, cleaner>>,
         NEW n \in Tasks, Flow(n) = f, at[n] # "put",
         \A m \in Tasks : m # n => at'[m] = at[m] /\ tcpReader'[m] = tcpReader[m],
         at'[n] \notin {"none", "put", "synack", "start"},
         tcpReader'[n] # "none" => at'[n] = "done"
  PROVE  Shape'
  <1> USE DEF IInv
  <1>1. /\ tcpConnections'[f] = None
        /\ \A g \in TcpFlows : g # f => tcpConnections'[g] = tcpConnections[g]
        /\ \A m \in Tasks :
               /\ Mapped(m)' <=> Mapped(m) /\ Flow(m) # f
               /\ Mapped(m) /\ Flow(m) = f => socket'[m] = "closed"
               /\ ~(Mapped(m) /\ Flow(m) = f) => socket'[m] = socket[m]
    BY CleanupEffect
  <1>2. \A m : Flow(m)' = Flow(m)
    BY DEF Flow
  <1>3. MapOK'
    <2>1. ASSUME NEW g \in TcpFlows, NEW m \in Tasks, tcpConnections'[g] = m
          PROVE  m \in DOMAIN packets' /\ Flow(m)' = g /\ socket'[m] # "none"
      <3>1. g # f /\ tcpConnections[g] = m
        BY <1>1, <2>1, TasksAreSome
      <3>2. m \in DOMAIN packets /\ Flow(m) = g /\ socket[m] # "none"
        BY <3>1 DEF MapOK
      <3> QED BY <3>1, <3>2, <1>1, <1>2
    <2>2. ASSUME NEW m \in Tasks
          PROVE  /\ at'[m] = "none" => socket'[m] = "none"
                 /\ at'[m] = "put" => socket'[m] = "open"
                 /\ at'[m] \in {"synack", "start"} => socket'[m] # "none"
                 /\ tcpReader'[m] # "none" => at'[m] = "done" /\ Flow(m)' \in TcpFlows
      <3>1. at'[m] = "put" => m # n /\ at[m] = "put" /\ ~Mapped(m)
        BY <2>2 DEF MapOK, MappedIsWatched
      <3>2. at'[m] \in {"synack", "start"} => m # n /\ at[m] = at'[m]
        BY <2>2
      <3>3. tcpReader'[m] # "none" => at'[m] = "done" /\ Flow(m)' \in TcpFlows
        BY <2>2, <1>2 DEF MapOK
      <3>4. at'[m] = "none" => m # n /\ at[m] = "none" /\ ~Mapped(m)
        BY <2>2, MappedByFlow DEF TasksOK
      <3> QED BY <3>1, <3>2, <3>3, <3>4, <1>1 DEF MapOK
    <2> QED BY <2>1, <2>2 DEF MapOK
  <1>4. MappedIsWatched'
    BY <1>1 DEF MappedIsWatched
  <1>5. ClosedIsCleared'
    <2>1. ASSUME NEW g \in TcpFlows, tcpConnections'[g] # None, socket'[tcpConnections'[g]] = "closed"
          PROVE  tcpConnections[g] # None /\ socket[tcpConnections[g]] = "closed"
      <3>1. g # f /\ tcpConnections'[g] = tcpConnections[g] /\ tcpConnections[g] \in Tasks
        BY <1>1, <2>1 DEF TypeOK
      <3>2. Flow(tcpConnections[g]) = g
        BY <3>1, <2>1 DEF MapOK
      <3> QED BY <3>1, <3>2, <2>1, <1>1
    <2> QED BY <2>1 DEF ClosedIsCleared
  <1> QED BY <1>3, <1>4, <1>5 DEF Shape

(* A step that leaves sockets, map and readers alone.                      *)
LEMMA MoveShape ==
  ASSUME IInv, UNCHANGED <<packets, sockets, tcpReader, cleaner>>, NEW n \in Tasks,
         \A m \in Tasks : m # n => at'[m] = at[m],
         at'[n] # "none",
         at'[n] = "put" => at[n] = "put",
         at'[n] \in {"synack", "start"} <=> at[n] \in {"synack", "start"},
         tcpReader[n] # "none" => at'[n] = "done"
  PROVE  Shape'
  <1> USE DEF IInv
  <1>1. \A m : Flow(m)' = Flow(m) /\ Mapped(m)' = Mapped(m)
    BY DEF Flow, Mapped, sockets
  <1>2. UNCHANGED <<packets, socket, tcpConnections, tcpReader, cleaner>>
    BY DEF sockets
  <1>3. MapOK'
    BY <1>1, <1>2 DEF MapOK
  <1>4. MappedIsWatched'
    BY <1>1, <1>2 DEF MappedIsWatched
  <1>5. ClosedIsCleared'
    BY <1>2 DEF ClosedIsCleared
  <1> QED BY <1>3, <1>4, <1>5 DEF Shape

LEMMA ReadShape ==
  ASSUME IInv, NEW content \in Contents, ReadPacket(content)
  PROVE  Shape'
  <1> USE DEF IInv
  <1> DEFINE new == Len(packets) + 1
  <1>1. /\ new \in Tasks
        /\ DOMAIN packets = 1 .. Len(packets) /\ Len(packets) \in Nat
        /\ DOMAIN packets' = 1 .. new
        /\ \A n \in DOMAIN packets : packets'[n] = packets[n]
    BY AppendPacket
  <1>2. new \notin DOMAIN packets /\ DOMAIN packets' = DOMAIN packets \cup {new}
    BY <1>1
  <1>3. UNCHANGED <<socket, tcpConnections, tcpReader, cleaner>>
    BY DEF ReadPacket, sockets
  <1>4. at'[new] \in {"done", "flags", "extract"} /\ \A n \in Tasks : n # new => at'[n] = at[n]
    BY <1>1 DEF ReadPacket, TypeOK
  <1>5. \A n \in DOMAIN packets : n # new /\ n \in Tasks /\ Flow(n)' = Flow(n)
    BY <1>1, <1>2, BoundAssumption DEF Flow, TypeOK, Tasks
  <1>6. \A n : Mapped(n)' = Mapped(n)
    BY <1>3 DEF Mapped
  <1>7. at[new] = "none" /\ tcpReader[new] = "none" /\ socket[new] = "none" /\ ~Mapped(new)
    BY <1>1, <1>2, MappedByFlow DEF TasksOK, MapOK
  <1> HIDE DEF new
  <1>8. \A n \in Tasks : tcpReader[n] # "none" => n \in DOMAIN packets
    BY DEF TasksOK, MapOK
  <1>9. MapOK'
    <2>1. \A f \in TcpFlows, n \in Tasks :
             tcpConnections'[f] = n => n \in DOMAIN packets' /\ Flow(n)' = f /\ socket'[n] # "none"
      BY <1>2, <1>3, <1>5 DEF MapOK
    <2>2. ASSUME NEW n \in Tasks
          PROVE  /\ at'[n] = "none" => socket'[n] = "none"
                 /\ at'[n] = "put" => socket'[n] = "open"
                 /\ at'[n] \in {"synack", "start"} => socket'[n] # "none"
                 /\ tcpReader'[n] # "none" => at'[n] = "done" /\ Flow(n)' \in TcpFlows
      <3>1. CASE n = new
        BY <3>1, <1>3, <1>4, <1>7
      <3>2. CASE n # new
        BY <3>2, <1>3, <1>4, <1>5, <1>8 DEF MapOK
      <3> QED BY <3>1, <3>2
    <2> QED BY <2>1, <2>2 DEF MapOK
  <1>10. MappedIsWatched'
    BY <1>3, <1>4, <1>6, <1>7 DEF MappedIsWatched
  <1>11. ClosedIsCleared'
    BY <1>3 DEF ClosedIsCleared
  <1> QED BY <1>9, <1>10, <1>11 DEF Shape

LEMMA TasksOfPackets == TypeOK => DOMAIN packets \subseteq Tasks
  BY BoundAssumption DEF TypeOK, Tasks

(* A task that is about to make a socket has none in the map.              *)
LEMMA ConnectShape ==
  ASSUME IInv, NEW n \in Tasks, Connect(n)
  PROVE  Shape'
  <1> USE DEF IInv
  <1>1. at[n] = "connect" /\ UNCHANGED <<packets, tcpConnections, tcpReader, cleaner>>
    BY DEF Connect
  <1>2. at'[n] = "put" /\ \A m \in Tasks : m # n => at'[m] = at[m]
    BY DEF Connect, Goes, TypeOK
  <1>3. socket'[n] = "open" /\ \A m \in Tasks : m # n => socket'[m] = socket[m]
    BY DEF Connect, TypeOK
  <1>4. \A m : Flow(m)' = Flow(m) /\ Mapped(m)' = Mapped(m)
    BY <1>1 DEF Flow, Mapped
  <1>5. tcpReader[n] = "none" /\ ~Mapped(n)
    BY <1>1 DEF MapOK, MappedIsWatched, TypeOK
  <1>6. MapOK'
    <2>1. \A g \in TcpFlows, m \in Tasks :
             tcpConnections'[g] = m => m \in DOMAIN packets' /\ Flow(m)' = g /\ socket'[m] # "none"
      BY <1>1, <1>3, <1>4 DEF MapOK
    <2> QED BY <2>1, <1>1, <1>2, <1>3, <1>4, <1>5 DEF MapOK
  <1>7. MappedIsWatched'
    BY <1>1, <1>2, <1>4, <1>5 DEF MappedIsWatched
  <1>8. ClosedIsCleared'
    <2>1. \A g \in TcpFlows : tcpConnections[g] # None => tcpConnections[g] \in Tasks
      BY DEF TypeOK
    <2> QED BY <2>1, <1>1, <1>3 DEF ClosedIsCleared
  <1> QED BY <1>6, <1>7, <1>8 DEF Shape

(* A connection that replaces another.                                     *)
LEMMA PutShape ==
  ASSUME IInv, NEW n \in Tasks, Put(n)
  PROVE  Shape'
  <1> USE DEF IInv
  <1>1. at[n] = "put" /\ UNCHANGED <<packets, socket, tcpReader, cleaner>>
    BY DEF Put
  <1>2. at'[n] = "synack" /\ \A m \in Tasks : m # n => at'[m] = at[m]
    BY DEF Put, Goes, TypeOK
  <1>3. Flow(n) \in TcpFlows /\ n \in DOMAIN packets /\ socket[n] = "open" /\ tcpReader[n] = "none"
    BY <1>1 DEF TasksOK, MapOK
  <1>4. tcpConnections'[Flow(n)] = n /\ \A g \in TcpFlows : g # Flow(n) => tcpConnections'[g] = tcpConnections[g]
    BY <1>3 DEF Put, TypeOK
  <1>5. \A m : Flow(m)' = Flow(m)
    BY <1>1 DEF Flow
  <1>6. MapOK'
    <2>1. \A g \in TcpFlows, m \in Tasks :
             tcpConnections'[g] = m => m \in DOMAIN packets' /\ Flow(m)' = g /\ socket'[m] # "none"
      BY <1>1, <1>3, <1>4, <1>5 DEF MapOK
    <2> QED BY <2>1, <1>1, <1>2, <1>3, <1>5 DEF MapOK
  <1>7. ASSUME NEW m \in Tasks, m # n PROVE Mapped(m)' => Mapped(m)
    BY <1>3, <1>4, <1>7 DEF Mapped
  <1>8. MappedIsWatched'
    BY <1>1, <1>2, <1>7 DEF MappedIsWatched
  <1>9. ClosedIsCleared'
    BY <1>1, <1>3, <1>4 DEF ClosedIsCleared
  <1> QED BY <1>6, <1>8, <1>9 DEF Shape

LEMMA StartShape ==
  ASSUME IInv, NEW n \in Tasks, StartTcpReader(n)
  PROVE  Shape'
  <1> USE DEF IInv
  <1>1. at[n] = "start" /\ UNCHANGED <<packets, socket, tcpConnections, cleaner>>
    BY DEF StartTcpReader, sockets
  <1>2. at'[n] = "done" /\ \A m \in Tasks : m # n => at'[m] = at[m]
    BY DEF StartTcpReader, Goes, TypeOK
  <1>3. tcpReader'[n] = "read" /\ \A m \in Tasks : m # n => tcpReader'[m] = tcpReader[m]
    BY DEF StartTcpReader, TypeOK
  <1>4. \A m : Flow(m)' = Flow(m) /\ Mapped(m)' = Mapped(m)
    BY <1>1 DEF Flow, Mapped
  <1>5. MapOK'
    <2>1. Flow(n) \in TcpFlows
      BY <1>1 DEF TasksOK
    <2>2. \A g \in TcpFlows, m \in Tasks :
             tcpConnections'[g] = m => m \in DOMAIN packets' /\ Flow(m)' = g /\ socket'[m] # "none"
      BY <1>1, <1>4 DEF MapOK
    <2> QED BY <2>1, <2>2, <1>1, <1>2, <1>3, <1>4 DEF MapOK
  <1>6. MappedIsWatched'
    BY <1>2, <1>3, <1>4 DEF MappedIsWatched
  <1>7. ClosedIsCleared'
    BY <1>1 DEF ClosedIsCleared
  <1> QED BY <1>5, <1>6, <1>7 DEF Shape

(* The tasks of UDP have nothing to do with the map.                       *)
LEMMA UdpShape ==
  ASSUME IInv, NEW n \in Tasks, UdpTask(n)
  PROVE  Shape'
  <1> USE DEF IInv
  <1>1. UNCHANGED <<packets, tcpConnections, tcpReader, cleaner>> /\ at[n] \in UdpLabels
    BY UdpTaskMoves
  <1>2. PICK l \in {"send", "receive", "done"} : at' = [at EXCEPT ![n] = l]
    BY UdpTaskMoves
  <1>3. at'[n] = l /\ \A m \in Tasks : m # n => at'[m] = at[m]
    BY <1>2 DEF TypeOK
  <1>4. \A m \in Tasks : m # n => socket'[m] = socket[m]
    BY UdpTaskMoves
  <1>5. \A m : Flow(m)' = Flow(m) /\ Mapped(m)' = Mapped(m)
    BY <1>1 DEF Flow, Mapped
  <1>6. Flow(n) \notin TcpFlows /\ tcpReader[n] = "none"
    BY <1>1, FlowsAssumption DEF TasksOK, MapOK, UdpLabels
  <1>7. ~Mapped(n)
    BY <1>6, MappedByFlow
  <1>8. MapOK'
    <2>1. \A g \in TcpFlows, m \in Tasks :
             tcpConnections'[g] = m => m \in DOMAIN packets' /\ Flow(m)' = g /\ socket'[m] # "none"
      BY <1>1, <1>4, <1>5, <1>6 DEF MapOK
    <2> QED BY <2>1, <1>1, <1>3, <1>4, <1>5, <1>6 DEF MapOK
  <1>9. MappedIsWatched'
    BY <1>1, <1>3, <1>5, <1>7 DEF MappedIsWatched
  <1>10. ClosedIsCleared'
    <2>1. \A g \in TcpFlows : tcpConnections[g] # None => tcpConnections[g] \in Tasks /\ tcpConnections[g] # n
      BY <1>6 DEF TypeOK, MapOK
    <2> QED BY <2>1, <1>1, <1>4 DEF ClosedIsCleared
  <1> QED BY <1>8, <1>9, <1>10 DEF Shape

(* A task of TCP either cleans up, or makes one of the four steps above.   *)
LEMMA TcpShape ==
  ASSUME IInv, NEW n \in Tasks, TcpTask(n)
  PROVE  Shape'
  <1> USE DEF IInv
  <1>1. at[n] \in TcpLabels
    BY TcpTaskMoves
  <1>2. Flow(n) \in TcpFlows /\ tcpReader[n] = "none"
    BY <1>1 DEF TasksOK, MapOK, TcpLabels
  <1>3. \A m \in Tasks : m # n => at'[m] = at[m]
    BY TcpTaskMoves DEF TypeOK
  <1>4. CASE GetTcpFlags(n) \/ ExtractTcpPayload(n) \/ Lookup(n) \/ Write(n) \/ SynAck(n)
             \/ (Finish(n) /\ ~fin[n])
    <2>1. UNCHANGED <<packets, sockets, tcpReader, cleaner>>
      BY <1>4 DEF GetTcpFlags, ExtractTcpPayload, Lookup, Write, SynAck, Finish
    <2>2. at'[n] # "none" /\ at[n] # "put" /\ at'[n] # "put"
          /\ (at'[n] \in {"synack", "start"} <=> at[n] \in {"synack", "start"})
      BY <1>4 DEF GetTcpFlags, ExtractTcpPayload, Lookup, Write, SynAck, Finish, Goes, TypeOK
    <2> QED BY <2>1, <2>2, <1>2, <1>3, MoveShape
  <1>5. CASE WriteFails(n) \/ ConnectFails(n) \/ SynAckFails(n) \/ (Finish(n) /\ fin[n])
    <2>1. CleanupTcpConnection(Flow(n)) /\ UNCHANGED <<packets, tcpReader, cleaner>> /\ at[n] # "put"
      BY <1>5 DEF WriteFails, ConnectFails, SynAckFails, Finish
    <2>2. at'[n] \in {"fin", "done"}
      BY <1>5 DEF WriteFails, ConnectFails, SynAckFails, Finish, Goes, TypeOK
    <2> QED BY <2>1, <2>2, <1>2, <1>3, CleanupShape
  <1>6. CASE Connect(n) \/ Put(n) \/ StartTcpReader(n)
    BY <1>6, ConnectShape, PutShape, StartShape
  <1> QED BY <1>4, <1>5, <1>6 DEF TcpTask

LEMMA ReaderEndShape ==
  ASSUME IInv, NEW n \in Tasks, TcpReaderEnds(n)
  PROVE  Shape'
  <1> USE DEF IInv
  <1>1. at[n] = "done" /\ Flow(n) \in TcpFlows
    BY DEF TcpReaderEnds, MapOK
  <1>2. CleanupTcpConnection(Flow(n)) /\ UNCHANGED <<packets, at, cleaner>>
    BY DEF TcpReaderEnds
  <1>3. \A m \in Tasks : m # n => tcpReader'[m] = tcpReader[m]
    BY DEF TcpReaderEnds, TypeOK
  <1> QED BY <1>1, <1>2, <1>3, CleanupShape

(* The steps of cleanup(): what a thread leaves to the invariant is in its *)
(* phase.                                                                  *)
LEMMA CleanerShape ==
  ASSUME IInv, NEW t \in Cleaners, Cleanup(t) \/ Cleaning(t)
  PROVE  Shape'
  <1> USE DEF IInv
  <1>1. UNCHANGED <<packets, at, tcpReader>> /\ \A m : Flow(m)' = Flow(m)
    BY DEF Cleanup, Cleaning, CleanupTurns, CleanupCloses, CleanupClears, Flow
  <1>2. \A u \in Cleaners : u # t => cleaner'[u] = cleaner[u]
    BY DEF Cleanup, Cleaning, CleanupTurns, CleanupCloses, CleanupClears, TypeOK
  <1>3. CASE Cleanup(t) \/ CleanupTurns(t)
    <2>1. UNCHANGED <<socket, tcpConnections>> /\ \A m : Mapped(m)' = Mapped(m)
      BY <1>3 DEF Cleanup, CleanupTurns, sockets, Mapped
    <2>2. \/ cleaner[t].phase = "idle" /\ cleaner'[t].phase = "close"
          \/ /\ cleaner[t].phase = "close" /\ cleaner[t].left = {}
             /\ cleaner'[t].phase = "clear" /\ cleaner'[t].left = TcpFlows
      BY <1>3 DEF Cleanup, CleanupTurns, TypeOK
    <2>3. MapOK' /\ MappedIsWatched'
      BY <1>1, <2>1 DEF MapOK, MappedIsWatched
    <2>4. ClosedIsCleared'
      <3>1. ASSUME NEW f \in TcpFlows, tcpConnections[f] # None, socket[tcpConnections[f]] = "closed"
            PROVE  \E u \in Cleaners :
                      \/ cleaner'[u].phase = "close" /\ f \notin cleaner'[u].left
                      \/ cleaner'[u].phase = "clear" /\ f \in cleaner'[u].left
        <4>1. PICK u \in Cleaners :
                      \/ cleaner[u].phase = "close" /\ f \notin cleaner[u].left
                      \/ cleaner[u].phase = "clear" /\ f \in cleaner[u].left
          BY <3>1 DEF ClosedIsCleared
        <4>2. CASE u = t
          BY <4>1, <4>2, <2>2
        <4>3. CASE u # t
          BY <4>1, <4>3, <1>2
        <4> QED BY <4>2, <4>3
      <3> QED BY <3>1, <2>1 DEF ClosedIsCleared
    <2> QED BY <2>3, <2>4 DEF Shape
  <1>4. ASSUME NEW f \in TcpFlows, CleanupCloses(t, f) PROVE Shape'
    <2>1. /\ cleaner[t].phase = "close" /\ cleaner'[t].phase = "close"
          /\ cleaner'[t].left = cleaner[t].left \ {f}
          /\ tcpConnections' = tcpConnections /\ \A m : Mapped(m)' = Mapped(m)
      BY <1>4 DEF CleanupCloses, TypeOK, Mapped
    <2>2. \A m \in Tasks : socket'[m] = IF m = tcpConnections[f] THEN "closed" ELSE socket[m]
      BY <1>4 DEF CleanupCloses
    <2>3. \A m \in Tasks : m = tcpConnections[f] => Mapped(m) /\ m \in DOMAIN packets /\ at[m] # "put"
      BY MappedByFlow DEF Mapped, MappedIsWatched, MapOK
    <2>4. MapOK'
      <3>1. \A g \in TcpFlows, m \in Tasks :
               tcpConnections'[g] = m => m \in DOMAIN packets' /\ Flow(m)' = g /\ socket'[m] # "none"
        BY <1>1, <2>1, <2>2 DEF MapOK
      <3>2. \A m \in Tasks : m = tcpConnections[f] => at[m] # "none"
        BY <2>3 DEF TasksOK
      <3> QED BY <3>1, <3>2, <1>1, <2>2, <2>3 DEF MapOK
    <2>5. MappedIsWatched'
      BY <1>1, <2>1 DEF MappedIsWatched
    <2>6. ClosedIsCleared'
      <3>1. ASSUME NEW g \in TcpFlows, tcpConnections[g] # None, socket'[tcpConnections[g]] = "closed"
            PROVE  \E u \in Cleaners :
                      \/ cleaner'[u].phase = "close" /\ g \notin cleaner'[u].left
                      \/ cleaner'[u].phase = "clear" /\ g \in cleaner'[u].left
        <4>1. CASE g = f
          BY <4>1, <2>1
        <4>2. CASE g # f
          <5>1. tcpConnections[g] \in Tasks /\ tcpConnections[g] # tcpConnections[f]
            BY <3>1, <4>2 DEF TypeOK, MapOK
          <5>2. socket[tcpConnections[g]] = "closed"
            BY <5>1, <3>1, <2>2
          <5>3. PICK u \in Cleaners :
                      \/ cleaner[u].phase = "close" /\ g \notin cleaner[u].left
                      \/ cleaner[u].phase = "clear" /\ g \in cleaner[u].left
            BY <3>1, <5>2 DEF ClosedIsCleared
          <5>4. CASE u = t
            BY <5>3, <5>4, <2>1
          <5>5. CASE u # t
            BY <5>3, <5>5, <1>2
          <5> QED BY <5>4, <5>5
        <4> QED BY <4>1, <4>2
      <3> QED BY <3>1, <2>1 DEF ClosedIsCleared
    <2> QED BY <2>4, <2>5, <2>6 DEF Shape
  <1>5. ASSUME NEW f \in TcpFlows, CleanupClears(t, f) PROVE Shape'
    <2>1. /\ cleaner[t].phase = "clear" /\ cleaner'[t].phase = "clear"
          /\ cleaner'[t].left = cleaner[t].left \ {f}
          /\ socket' = socket
      BY <1>5 DEF CleanupClears, TypeOK
    <2>2. tcpConnections'[f] = None /\ \A g \in TcpFlows : g # f => tcpConnections'[g] = tcpConnections[g]
      BY <1>5 DEF CleanupClears, TypeOK
    <2>3. ASSUME NEW m \in Tasks PROVE Mapped(m)' => Mapped(m)
      BY <2>2, TasksAreSome DEF Mapped
    <2>4. MapOK'
      <3>1. \A g \in TcpFlows, m \in Tasks :
               tcpConnections'[g] = m => m \in DOMAIN packets' /\ Flow(m)' = g /\ socket'[m] # "none"
        BY <1>1, <2>1, <2>2, TasksAreSome DEF MapOK
      <3> QED BY <3>1, <1>1, <2>1 DEF MapOK
    <2>5. MappedIsWatched'
      BY <1>1, <2>3 DEF MappedIsWatched
    <2>6. ClosedIsCleared'
      <3>1. ASSUME NEW g \in TcpFlows, g # f, tcpConnections[g] # None, socket[tcpConnections[g]] = "closed"
            PROVE  \E u \in Cleaners :
                      \/ cleaner'[u].phase = "close" /\ g \notin cleaner'[u].left
                      \/ cleaner'[u].phase = "clear" /\ g \in cleaner'[u].left
        <4>1. PICK u \in Cleaners :
                      \/ cleaner[u].phase = "close" /\ g \notin cleaner[u].left
                      \/ cleaner[u].phase = "clear" /\ g \in cleaner[u].left
          BY <3>1 DEF ClosedIsCleared
        <4>2. CASE u = t
          BY <4>1, <4>2, <3>1, <2>1
        <4>3. CASE u # t
          BY <4>1, <4>3, <1>2
        <4> QED BY <4>2, <4>3
      <3> QED BY <3>1, <2>1, <2>2 DEF ClosedIsCleared
    <2> QED BY <2>4, <2>5, <2>6 DEF Shape
  <1> QED BY <1>3, <1>4, <1>5 DEF Cleaning

LEMMA StutterShape ==
  ASSUME IInv, UNCHANGED vars
  PROVE  Shape'
  <1>1. UNCHANGED <<packets, at, socket, tcpConnections, tcpReader, cleaner>>
    BY DEF vars, sockets
  <1>2. \A m : Flow(m)' = Flow(m) /\ Mapped(m)' = Mapped(m)
    BY <1>1 DEF Flow, Mapped
  <1> QED BY <1>1, <1>2 DEF IInv, Shape, MapOK, MappedIsWatched, ClosedIsCleared

-----------------------------------------------------------------------------
(* What is sent, and where.                                                *)

(* The payload a task may take from the buffer.                            *)
Takes(n, p) ==
  /\ p \in n .. Len(packets)
  /\ "data" \in packets[p].has
  /\ packets[p].flow \in TcpFlows <=> Flow(n) \in TcpFlows

LEMMA BufferPayload ==
  ASSUME TypeOK, NEW n \in DOMAIN packets, NEW flows \in {TcpFlows, UdpFlows}, Flow(n) \in flows,
         NEW p \in InBuffer(n), HasPayload(p, flows)
  PROVE  Takes(n, p)
  <1>1. Len(packets) \in Nat /\ n \in 1 .. Len(packets) /\ p = Len(packets)
    BY DEF TypeOK, InBuffer, HasPayload
  <1>2. p \in n .. Len(packets)
    BY <1>1
  <1>3. packets[p].flow \in flows /\ "data" \in packets[p].has
    BY DEF HasPayload
  <1> QED BY <1>2, <1>3, FlowsAssumption DEF Takes

(* A task keeps its payload or takes one from the buffer, and is at work   *)
(* after a step only if it was before.                                     *)
LEMMA TaskTakes ==
  ASSUME TypeOK, TasksOK, NEW n \in Tasks, TcpTask(n) \/ UdpTask(n)
  PROVE  /\ UNCHANGED packets /\ at[n] \notin {"none", "done"}
         /\ \A m \in Tasks : m # n => payload'[m] = payload[m] /\ at'[m] = at[m]
         /\ payload'[n] = payload[n] \/ payload'[n] = None \/ Takes(n, payload'[n])
  <1>1. /\ UNCHANGED packets /\ at[n] \notin {"none", "done"}
        /\ \A m \in Tasks : m # n => payload'[m] = payload[m] /\ at'[m] = at[m]
    <2>1. CASE TcpTask(n)
      <3>1. /\ UNCHANGED packets /\ at[n] \in TcpLabels
            /\ \A m \in Tasks : m # n => payload'[m] = payload[m]
        BY <2>1, TcpTaskMoves
      <3>2. PICK l : at' = [at EXCEPT ![n] = l]
        BY <2>1, TcpTaskMoves
      <3> QED BY <3>1, <3>2 DEF TcpLabels, TypeOK
    <2>2. CASE UdpTask(n)
      <3>1. /\ UNCHANGED packets /\ at[n] \in UdpLabels
            /\ \A m \in Tasks : m # n => payload'[m] = payload[m]
        BY <2>2, UdpTaskMoves
      <3>2. PICK l : at' = [at EXCEPT ![n] = l]
        BY <2>2, UdpTaskMoves
      <3> QED BY <3>1, <3>2 DEF UdpLabels, TypeOK
    <2> QED BY <2>1, <2>2
  <1>2. n \in DOMAIN packets
    BY <1>1 DEF TasksOK
  <1>3. CASE ExtractTcpPayload(n)
    <2>1. PICK p \in InBuffer(n) :
             payload' = [payload EXCEPT ![n] = IF HasPayload(p, TcpFlows) THEN p ELSE None]
      BY <1>3 DEF ExtractTcpPayload
    <2>2. Flow(n) \in TcpFlows
      BY <1>3, TaskFlow DEF ExtractTcpPayload
    <2>3. HasPayload(p, TcpFlows) => Takes(n, p)
      BY <1>2, <2>2, BufferPayload
    <2> QED BY <1>1, <2>1, <2>3 DEF TypeOK
  <1>4. CASE ExtractUdpPayload(n)
    <2>1. PICK p \in InBuffer(n) :
             payload' = [payload EXCEPT ![n] = IF HasPayload(p, UdpFlows) THEN p ELSE None]
      BY <1>4 DEF ExtractUdpPayload
    <2>2. Flow(n) \in UdpFlows
      BY <1>4 DEF ExtractUdpPayload, TasksOK
    <2>3. HasPayload(p, UdpFlows) => Takes(n, p)
      BY <1>2, <2>2, BufferPayload
    <2> QED BY <1>1, <2>1, <2>3 DEF TypeOK
  <1>5. CASE ~ExtractTcpPayload(n) /\ ~ExtractUdpPayload(n)
    <2>1. payload' = payload
      BY <1>5 DEF TcpTask, GetTcpFlags, Lookup, Write, WriteFails, Finish, Connect, ConnectFails, Put,
                  SynAck, SynAckFails, StartTcpReader, UdpTask, Send, SendFails, Receive, taskData
    <2> QED BY <1>1, <2>1
  <1> QED BY <1>3, <1>4, <1>5

(* A packet that has been read is not read again.                          *)
LEMMA PayloadsStep == TypeOK /\ TasksOK /\ PayloadsOK /\ [Next]_vars => PayloadsOK'
  <1> SUFFICES ASSUME TypeOK, TasksOK, PayloadsOK, [Next]_vars PROVE PayloadsOK'
    OBVIOUS
  <1>1. ASSUME NEW content \in Contents, ReadPacket(content) PROVE PayloadsOK'
    <2> DEFINE new == Len(packets) + 1
    <2>1. /\ new \in Tasks /\ packets'[new] = content /\ Len(packets) \in Nat
          /\ DOMAIN packets = 1 .. Len(packets) /\ Len(packets') = new
          /\ \A m \in DOMAIN packets : packets'[m] = packets[m]
      <3>1. Len(packets') = new
        BY <1>1 DEF ReadPacket, TypeOK
      <3> QED BY <1>1, <3>1, AppendPacket
    <2>2. \A m \in Tasks : m # new => at'[m] = at[m]
      BY <1>1 DEF ReadPacket, TypeOK
    <2>3. at'[new] \notin {"none", "done"} => content.passed
      BY <1>1, <2>1 DEF ReadPacket, TypeOK
    <2>4. payload' = payload
      BY <1>1 DEF ReadPacket, taskData
    <2>5. ASSUME NEW m \in Tasks, at'[m] \notin {"none", "done"} PROVE packets'[m].passed
      <3>1. CASE m = new
        BY <2>1, <2>3, <2>5, <3>1
      <3>2. CASE m # new
        BY <2>1, <2>2, <2>5, <3>2 DEF TasksOK, PayloadsOK
      <3> QED BY <3>1, <3>2
    <2>6. ASSUME NEW m \in Tasks, payload[m] # None
          PROVE  /\ payload[m] \in m .. Len(packets')
                 /\ "data" \in packets'[payload[m]].has
                 /\ packets'[payload[m]].flow \in TcpFlows <=> packets'[m].flow \in TcpFlows
      <3>1. Takes(m, payload[m])
        BY <2>6 DEF PayloadsOK, Takes
      <3>2. m \in DOMAIN packets /\ payload[m] \in DOMAIN packets /\ payload[m] \in m .. new
        BY <2>1, <3>1 DEF Takes, Tasks
      <3> QED BY <2>1, <3>1, <3>2 DEF Takes, Flow
    <2> QED BY <2>4, <2>5, <2>6 DEF PayloadsOK, Flow
  <1>2. ASSUME NEW n \in Tasks, TcpTask(n) \/ UdpTask(n) PROVE PayloadsOK'
    BY <1>2, TaskTakes DEF PayloadsOK, Takes, Flow
  <1>3. ASSUME UNCHANGED vars \/ (\E n \in Tasks : TcpReaderEnds(n))
               \/ (\E t \in Cleaners : Cleanup(t) \/ Cleaning(t))
        PROVE  PayloadsOK'
    <2>1. UNCHANGED <<packets, at, payload>>
      BY <1>3 DEF vars, TcpReaderEnds, Cleanup, Cleaning, CleanupTurns, CleanupCloses, CleanupClears,
                  taskData
    <2> QED BY <2>1 DEF PayloadsOK, Flow
  <1> QED BY <1>1, <1>2, <1>3 DEF Next

(* A payload that may be sent to a flow.                                   *)
Serves(o) ==
  /\ o.payload \in DOMAIN packets /\ "data" \in packets[o.payload].has
  /\ packets[o.payload].flow \in TcpFlows <=> o.flow \in TcpFlows
  /\ \E n \in 1 .. o.payload : packets[n].passed /\ Flow(n) = o.flow

LEMMA SentServes ==
  ASSUME TypeOK, TasksOK, PayloadsOK, NEW n \in Tasks, at[n] \in {"write", "send"}
  PROVE  Serves([payload |-> payload[n], flow |-> Flow(n)])
  <1> DEFINE o == [payload |-> payload[n], flow |-> Flow(n)]
  <1>1. payload[n] # None /\ packets[n].passed
    BY DEF TasksOK, PayloadsOK
  <1>2. Takes(n, payload[n])
    BY <1>1 DEF PayloadsOK, Takes
  <1>3. Len(packets) \in Nat /\ DOMAIN packets = 1 .. Len(packets) /\ n >= 1 /\ n \in Int
    BY DEF TypeOK, Tasks
  <1>4. payload[n] \in DOMAIN packets /\ n \in 1 .. payload[n]
    BY <1>2, <1>3 DEF Takes
  <1>5. o.payload = payload[n] /\ o.flow = Flow(n)
    OBVIOUS
  <1> HIDE DEF o
  <1>6. Serves(o)
    BY <1>1, <1>2, <1>4, <1>5 DEF Takes, Serves
  <1> QED BY <1>6 DEF o

LEMMA ServedStep ==
  TypeOK /\ TasksOK /\ PayloadsOK /\ OnlyPassedAreServed /\ [Next]_vars => OnlyPassedAreServed'
  <1> SUFFICES ASSUME TypeOK, TasksOK, PayloadsOK, OnlyPassedAreServed, [Next]_vars
               PROVE  OnlyPassedAreServed'
    OBVIOUS
  <1>1. \A o \in out : Serves(o)
    BY DEF OnlyPassedAreServed, Serves
  <1>2. ASSUME NEW content \in Contents, ReadPacket(content) PROVE OnlyPassedAreServed'
    <2>1. /\ out' = out /\ Len(packets) \in Nat
          /\ DOMAIN packets = 1 .. Len(packets) /\ DOMAIN packets' = 1 .. Len(packets) + 1
          /\ \A m \in DOMAIN packets : packets'[m] = packets[m]
      BY <1>2, AppendPacket DEF ReadPacket
    <2>2. ASSUME NEW o \in out
          PROVE  /\ o.payload \in DOMAIN packets' /\ "data" \in packets'[o.payload].has
                 /\ packets'[o.payload].flow \in TcpFlows <=> o.flow \in TcpFlows
                 /\ \E n \in 1 .. o.payload : packets'[n].passed /\ packets'[n].flow = o.flow
      <3>1. o.payload \in DOMAIN packets /\ o.payload \in DOMAIN packets'
        BY <1>1, <2>1 DEF Serves
      <3>2. PICK n \in 1 .. o.payload : packets[n].passed /\ packets[n].flow = o.flow
        BY <1>1 DEF Serves, Flow
      <3>3. n \in DOMAIN packets
        BY <2>1, <3>1
      <3> QED BY <1>1, <2>1, <3>1, <3>2, <3>3 DEF Serves
    <2> QED BY <2>1, <2>2 DEF OnlyPassedAreServed, Flow
  <1>3. ASSUME UNCHANGED packets, \A o \in out' : Serves(o) PROVE OnlyPassedAreServed'
    BY <1>3 DEF OnlyPassedAreServed, Serves, Flow
  <1>4. ASSUME NEW n \in Tasks, TcpTask(n) \/ UdpTask(n) PROVE OnlyPassedAreServed'
    <2>1. CASE Write(n) \/ Send(n)
      <3>1. /\ at[n] \in {"write", "send"} /\ UNCHANGED packets
            /\ out' = out \cup {[payload |-> payload[n], flow |-> Flow(n)]}
        BY <2>1 DEF Write, Send
      <3>2. Serves([payload |-> payload[n], flow |-> Flow(n)])
        BY <3>1, SentServes
      <3> QED BY <1>1, <1>3, <3>1, <3>2
    <2>2. CASE ~Write(n) /\ ~Send(n)
      <3>1. UNCHANGED <<packets, out>>
        BY <1>4, <2>2 DEF TcpTask, GetTcpFlags, ExtractTcpPayload, Lookup, WriteFails, Finish, Connect,
           ConnectFails, Put, SynAck, SynAckFails, StartTcpReader, UdpTask, ExtractUdpPayload,
           SendFails, Receive
      <3> QED BY <1>1, <1>3, <3>1
    <2> QED BY <2>1, <2>2
  <1>5. ASSUME UNCHANGED vars \/ (\E n \in Tasks : TcpReaderEnds(n))
               \/ (\E t \in Cleaners : Cleanup(t) \/ Cleaning(t))
        PROVE  OnlyPassedAreServed'
    <2>1. UNCHANGED <<packets, out>>
      BY <1>5 DEF vars, TcpReaderEnds, Cleanup, Cleaning, CleanupTurns, CleanupCloses, CleanupClears
    <2> QED BY <1>1, <1>3, <2>1
  <1> QED BY <1>2, <1>4, <1>5 DEF Next

-----------------------------------------------------------------------------
(* Sockets that are not in the map are their task's own.                   *)

LEMMA CleanupLeaves ==
  ASSUME IInv, NEW f \in TcpFlows, CleanupTcpConnection(f)
  PROVE  \A m \in Tasks : at[m] \notin {"synack", "start", "done"} => socket'[m] = socket[m]
  <1>1. \A m \in Tasks : at[m] \notin {"synack", "start", "done"} => ~Mapped(m)
    BY DEF IInv, MappedIsWatched, MapOK
  <1> QED BY <1>1, CleanupEffect DEF IInv

(* A task's step, seen from the others.                                    *)
LEMMA OthersStay ==
  ASSUME IInv, NEW n \in Tasks, TcpTask(n) \/ UdpTask(n), NEW m \in Tasks, m # n
  PROVE  /\ at'[m] = at[m] /\ connection'[m] = connection[m]
         /\ at[m] \notin {"synack", "start", "done"} => socket'[m] = socket[m]
  <1> USE DEF IInv
  <1>1. at'[m] = at[m]
    BY TaskTakes
  <1>2. connection'[m] = connection[m]
    BY DEF TypeOK, TcpTask, GetTcpFlags, ExtractTcpPayload, Lookup, Write, WriteFails, Finish, Connect,
           ConnectFails, Put, SynAck, SynAckFails, StartTcpReader, UdpTask, ExtractUdpPayload, Send,
           SendFails, Receive, taskData
  <1>3. CASE CleanupTcpConnection(Flow(n)) /\ TcpTask(n)
    <2>1. Flow(n) \in TcpFlows
      BY <1>3, TcpTaskMoves DEF TasksOK, TcpLabels
    <2> QED BY <1>1, <1>2, <1>3, <2>1, CleanupLeaves
  <1>4. CASE UdpTask(n)
    BY <1>1, <1>2, <1>4, UdpTaskMoves
  <1>5. CASE TcpTask(n) /\ ~CleanupTcpConnection(Flow(n))
    <2>1. UNCHANGED socket \/ Connect(n)
      BY <1>5 DEF TcpTask, GetTcpFlags, ExtractTcpPayload, Lookup, Write, WriteFails, Finish,
           ConnectFails, Put, SynAck, SynAckFails, StartTcpReader, sockets
    <2>2. socket'[m] = socket[m]
      BY <2>1 DEF Connect, TypeOK
    <2> QED BY <1>1, <1>2, <2>2
  <1> QED BY <1>3, <1>4, <1>5

SocketOK(n) ==
  /\ at[n] \in {"flags", "payload", "connect", "extract", "send"} => socket[n] = "none"
  /\ at[n] = "receive" => socket[n] = "open"
  /\ at[n] = "write" => connection[n] \in DOMAIN packets /\ Flow(connection[n]) = Flow(n)

(* And from itself.                                                        *)
LEMMA OwnSocket ==
  ASSUME IInv, NEW n \in Tasks, TcpTask(n) \/ UdpTask(n)
  PROVE  SocketOK(n)'
  <1> USE DEF IInv
  <1>1. UNCHANGED packets /\ (\A m : Flow(m)' = Flow(m)) /\ at \in [Tasks -> Labels]
    BY TaskTakes DEF Flow, TypeOK
  <1>2. CASE GetTcpFlags(n) \/ ExtractTcpPayload(n) \/ ExtractUdpPayload(n)
    <2>1. at'[n] \in {"payload", "connect", "lookup", "send", "done"}
      BY <1>1, <1>2 DEF GetTcpFlags, ExtractTcpPayload, ExtractUdpPayload, Goes
    <2>2. socket'[n] = "none"
      BY <1>2 DEF GetTcpFlags, ExtractTcpPayload, ExtractUdpPayload, sockets, SocketsOK
    <2> QED BY <2>1, <2>2 DEF SocketOK
  <1>3. CASE Lookup(n)
    <2>1. at'[n] \in {"write", "fin"} /\ (at'[n] = "write" => tcpConnections[Flow(n)] # None)
      BY <1>1, <1>3 DEF Lookup, Goes
    <2>2. connection'[n] = tcpConnections[Flow(n)] /\ Flow(n) \in TcpFlows
      BY <1>3, TaskFlow DEF Lookup, TypeOK
    <2>3. tcpConnections[Flow(n)] # None =>
             tcpConnections[Flow(n)] \in DOMAIN packets /\ Flow(tcpConnections[Flow(n)]) = Flow(n)
      BY <2>2 DEF TypeOK, MapOK
    <2> QED BY <1>1, <2>1, <2>2, <2>3 DEF SocketOK
  <1>4. CASE Send(n)
    <2>1. at'[n] = "receive" /\ socket'[n] = "open"
      BY <1>1, <1>4 DEF Send, Goes, TypeOK
    <2> QED BY <2>1 DEF SocketOK
  <1>5. CASE Write(n) \/ WriteFails(n) \/ Finish(n) \/ Connect(n) \/ ConnectFails(n) \/ Put(n) \/ SynAck(n)
             \/ SynAckFails(n) \/ StartTcpReader(n) \/ SendFails(n) \/ Receive(n)
    <2>1. at'[n] \in {"fin", "done", "put", "synack", "start"}
      BY <1>1, <1>5 DEF Write, WriteFails, Finish, Connect, ConnectFails, Put, SynAck, SynAckFails,
                        StartTcpReader, SendFails, Receive, Goes
    <2> QED BY <2>1 DEF SocketOK
  <1> QED BY <1>2, <1>3, <1>4, <1>5 DEF TcpTask, UdpTask

LEMMA SocketsStep == IInv /\ [Next]_vars => SocketsOK'
  <1> SUFFICES ASSUME IInv, [Next]_vars PROVE \A m \in Tasks : SocketOK(m)'
    BY DEF SocketsOK, SocketOK
  <1> USE DEF IInv
  <1>0. \A m \in Tasks : SocketOK(m)
    BY DEF SocketsOK, SocketOK
  <1>1. ASSUME NEW content \in Contents, ReadPacket(content), NEW m \in Tasks PROVE SocketOK(m)'
    <2> DEFINE new == Len(packets) + 1
    <2>1. /\ new \in Tasks /\ Len(packets) \in Nat /\ DOMAIN packets = 1 .. Len(packets)
          /\ DOMAIN packets' = 1 .. new /\ \A n \in DOMAIN packets : packets'[n] = packets[n]
      BY <1>1, AppendPacket
    <2>2. new \notin DOMAIN packets /\ DOMAIN packets' = DOMAIN packets \cup {new}
      BY <2>1
    <2>3. at'[new] \in {"done", "flags", "extract"} /\ \A n \in Tasks : n # new => at'[n] = at[n]
      BY <1>1, <2>1 DEF ReadPacket, TypeOK
    <2>4. socket' = socket /\ connection' = connection
      BY <1>1 DEF ReadPacket, sockets, taskData
    <2>5. socket[new] = "none"
      BY <2>1, <2>2 DEF TasksOK, MapOK
    <2> HIDE DEF new
    <2>6. CASE m = new
      BY <2>3, <2>4, <2>5, <2>6 DEF SocketOK
    <2>7. CASE m # new
      <3>1. at[m] = "write" => m \in DOMAIN packets
        BY DEF TasksOK
      <3> QED BY <1>0, <2>1, <2>2, <2>3, <2>4, <2>7, <3>1 DEF SocketOK, Flow
    <2> QED BY <2>6, <2>7
  <1>2. ASSUME NEW n \in Tasks, TcpTask(n) \/ UdpTask(n), NEW m \in Tasks PROVE SocketOK(m)'
    <2>1. CASE m = n
      BY <1>2, <2>1, OwnSocket
    <2>2. CASE m # n
      <3>1. UNCHANGED packets
        BY <1>2, TaskTakes
      <3> QED BY <1>0, <1>2, <2>2, <3>1, OthersStay DEF SocketOK, Flow
    <2> QED BY <2>1, <2>2
  <1>3. ASSUME NEW n \in Tasks, TcpReaderEnds(n), NEW m \in Tasks PROVE SocketOK(m)'
    <2>1. Flow(n) \in TcpFlows /\ CleanupTcpConnection(Flow(n))
      BY <1>3 DEF TcpReaderEnds, MapOK
    <2>2. UNCHANGED <<packets, at, connection>>
      BY <1>3 DEF TcpReaderEnds, taskData
    <2> QED BY <1>0, <2>1, <2>2, CleanupLeaves DEF SocketOK, Flow
  <1>4. ASSUME NEW t \in Cleaners, Cleanup(t) \/ Cleaning(t), NEW m \in Tasks PROVE SocketOK(m)'
    <2>1. UNCHANGED <<packets, at, connection>>
      BY <1>4 DEF Cleanup, Cleaning, CleanupTurns, CleanupCloses, CleanupClears, taskData
    <2>2. at[m] \notin {"synack", "start", "done"} => ~Mapped(m)
      BY DEF MappedIsWatched, MapOK
    <2>3. ~Mapped(m) => socket'[m] = socket[m]
      BY <1>4 DEF Cleanup, Cleaning, CleanupTurns, CleanupCloses, CleanupClears, sockets, Mapped
    <2> QED BY <1>0, <2>1, <2>2, <2>3 DEF SocketOK, Flow
  <1>5. CASE UNCHANGED vars
    BY <1>0, <1>5 DEF vars, taskData, sockets, SocketOK, Flow
  <1> QED BY <1>1, <1>2, <1>3, <1>4, <1>5 DEF Next

-----------------------------------------------------------------------------
LEMMA NextIInv == IInv /\ [Next]_vars => IInv'
  <1> SUFFICES ASSUME IInv, [Next]_vars PROVE IInv'
    OBVIOUS
  <1>1. TypeOK' /\ TasksOK'
    BY TypeStep, TasksStep DEF IInv
  <1>2. Shape'
    BY ReadShape, TcpShape, UdpShape, ReaderEndShape, CleanerShape, StutterShape DEF Next
  <1>3. PayloadsOK' /\ OnlyPassedAreServed'
    BY PayloadsStep, ServedStep DEF IInv
  <1>4. SocketsOK'
    BY SocketsStep
  <1> QED BY <1>1, <1>2, <1>3, <1>4 DEF IInv, Shape

(* The invariant holds however many packets, flows and threads there are.  *)
THEOREM Inductive == Spec => []IInv
  BY InitIInv, NextIInv, PTL DEF Spec

(* A connection in the map always has somebody who will clean it up: the   *)
(* reader's end or a failed SYN-ACK, whichever coroutines and cleanups     *)
(* come between.                                                           *)
THEOREM ConnectionsAreWatched == Spec => []MappedIsWatched
  <1>1. IInv => MappedIsWatched
    BY DEF IInv
  <1> QED BY <1>1, Inductive, PTL

(* A closed connection in the map is one that cleanup() is about to clear. *)
THEOREM ClosedAreCleared == Spec => []ClosedIsCleared
  <1>1. IInv => ClosedIsCleared
    BY DEF IInv
  <1> QED BY <1>1, Inductive, PTL

(* However late the tasks read the one buffer, and whatever packets come   *)
(* between, nothing is sent to a server that no packet let through was     *)
(* for, nor a payload of another protocol.                                 *)
THEOREM DroppedServersGetNothing == Spec => []OnlyPassedAreServed
  <1>1. IInv => OnlyPassedAreServed
    BY DEF IInv
  <1> QED BY <1>1, Inductive, PTL

-----------------------------------------------------------------------------
(* The refinement of Carriage: first what a step does to its sockets.      *)

Opened == Made({"open", "closed"})
Closed == Made({"closed"})
Pair(n) == [name |-> n, server |-> Flow(n)]

LEMMA MadeAre ==
  ASSUME NEW states
  PROVE  \A s : s \in Made(states) <=> \E n \in DOMAIN packets : socket[n] \in states /\ s = Pair(n)
  BY DEF Made, Pair

LEMMA SameSockets ==
  ASSUME UNCHANGED <<packets, socket>>
  PROVE  Reached' = Reached /\ Opened' = Opened /\ Closed' = Closed
  BY DEF Reached, Opened, Closed, Made, Flow

LEMMA Opens ==
  ASSUME IInv, NEW n \in DOMAIN packets, socket[n] = "none", packets[n].passed, UNCHANGED packets,
         \A m \in Tasks : socket'[m] = IF m = n THEN "open" ELSE socket[m]
  PROVE  Carried!New(n, Flow(n)) /\ Flow(n) \in TcpFlows \cup UdpFlows
  <1>0. DOMAIN packets \subseteq Tasks /\ (\A m : Flow(m)' = Flow(m) /\ Pair(m)' = Pair(m))
    BY TasksOfPackets DEF IInv, Flow, Pair
  <1>1. Flow(n) \in Reached
    BY DEF Reached
  <1>2. \A s \in Opened : s.name # n
    BY MadeAre DEF Opened, Pair
  <1>3. Opened' = Opened \cup {Pair(n)}
    <2>1. \A s : s \in Opened' <=> \E m \in DOMAIN packets : socket'[m] \in {"open", "closed"} /\ s = Pair(m)
      BY <1>0 DEF Opened, Made, Pair, Flow
    <2>2. \A m \in DOMAIN packets : socket'[m] \in {"open", "closed"} <=> m = n \/ socket[m] \in {"open", "closed"}
      BY <1>0
    <2>3. \A s : s \in Opened' <=> s \in Opened \/ s = Pair(n)
      BY <2>1, <2>2, MadeAre DEF Opened
    <2> QED BY <2>3
  <1>4. Closed' = Closed
    <2>1. \A s : s \in Closed' <=> \E m \in DOMAIN packets : socket'[m] \in {"closed"} /\ s = Pair(m)
      BY <1>0 DEF Closed, Made, Pair, Flow
    <2>2. \A m \in DOMAIN packets : socket'[m] \in {"closed"} <=> socket[m] \in {"closed"}
      BY <1>0
    <2>3. \A s : s \in Closed' <=> s \in Closed
      BY <2>1, <2>2, MadeAre DEF Closed
    <2> QED BY <2>3
  <1>5. Reached' = Reached
    BY <1>0 DEF Reached
  <1>6. Flow(n) \in TcpFlows \cup UdpFlows
    BY DEF IInv, TypeOK, Contents, Flow
  <1> QED BY <1>1, <1>2, <1>3, <1>4, <1>5, <1>6 DEF Carried!New, Carried!To, Opened, Closed, Pair

LEMMA Closes ==
  ASSUME IInv, NEW n \in DOMAIN packets, socket[n] # "none", UNCHANGED <<packets, out>>,
         \A m \in Tasks : socket'[m] = IF m = n THEN "closed" ELSE socket[m]
  PROVE  [Carried!Next]_(Carried!vars)
  <1>0. DOMAIN packets \subseteq Tasks /\ (\A m : Flow(m)' = Flow(m) /\ Pair(m)' = Pair(m))
    BY TasksOfPackets DEF IInv, Flow, Pair
  <1>1. socket[n] \in {"open", "closed"}
    BY <1>0 DEF IInv, TypeOK
  <1>2. Reached' = Reached
    BY <1>0 DEF Reached
  <1>3. Opened' = Opened
    <2>1. \A s : s \in Opened' <=> \E m \in DOMAIN packets : socket'[m] \in {"open", "closed"} /\ s = Pair(m)
      BY <1>0 DEF Opened, Made, Pair, Flow
    <2>2. \A m \in DOMAIN packets : socket'[m] \in {"open", "closed"} <=> socket[m] \in {"open", "closed"}
      BY <1>0, <1>1
    <2>3. \A s : s \in Opened' <=> s \in Opened
      BY <2>1, <2>2, MadeAre DEF Opened
    <2> QED BY <2>3
  <1>4. Closed' = Closed \cup {Pair(n)}
    <2>1. \A s : s \in Closed' <=> \E m \in DOMAIN packets : socket'[m] \in {"closed"} /\ s = Pair(m)
      BY <1>0 DEF Closed, Made, Pair, Flow
    <2>2. \A m \in DOMAIN packets : socket'[m] \in {"closed"} <=> m = n \/ socket[m] \in {"closed"}
      BY <1>0
    <2>3. \A s : s \in Closed' <=> s \in Closed \/ s = Pair(n)
      BY <2>1, <2>2, MadeAre DEF Closed
    <2> QED BY <2>3
  <1>5. Pair(n) \in Opened
    BY <1>1, MadeAre DEF Opened
  <1>6. CASE Pair(n) \in Closed
    <2>1. Closed' = Closed
      BY <1>4, <1>6
    <2> QED BY <1>2, <1>3, <2>1 DEF Carried!vars, Opened, Closed
  <1>7. CASE Pair(n) \notin Closed
    <2>1. Carried!Close(Pair(n))
      BY <1>2, <1>3, <1>4, <1>5, <1>7 DEF Carried!Close, Opened, Closed
    <2> QED BY <2>1, <1>5 DEF Carried!Next, Opened
  <1> QED BY <1>6, <1>7

LEMMA Stutters ==
  ASSUME UNCHANGED <<packets, socket, out>>
  PROVE  [Carried!Next]_(Carried!vars)
  BY SameSockets DEF Carried!vars, Opened, Closed

(* The cleanup after one connection closes it, if it is there and open.    *)
LEMMA ClosesMapped ==
  ASSUME IInv, NEW f \in TcpFlows, UNCHANGED <<packets, out>>,
         \A m \in Tasks : socket'[m] = IF m = tcpConnections[f] THEN "closed" ELSE socket[m],
         socket' \in [Tasks -> {"none", "open", "closed"}]
  PROVE  [Carried!Next]_(Carried!vars)
  <1> USE DEF IInv
  <1>1. CASE tcpConnections[f] = None
    <2>1. socket' = socket
      BY <1>1, TasksAreSome DEF TypeOK
    <2> QED BY <2>1, Stutters
  <1>2. CASE tcpConnections[f] # None
    <2>1. tcpConnections[f] \in DOMAIN packets /\ socket[tcpConnections[f]] # "none"
      BY <1>2 DEF TypeOK, MapOK
    <2> QED BY <2>1, Closes
  <1> QED BY <1>1, <1>2

(* A packet that is read says at most that another server is reached.      *)
LEMMA ReadCarries ==
  ASSUME IInv, NEW content \in Contents, ReadPacket(content)
  PROVE  [Carried!Next]_(Carried!vars)
  <1> DEFINE new == Len(packets) + 1
  <1>1. /\ new \in Tasks /\ Len(packets) \in Nat /\ DOMAIN packets = 1 .. Len(packets)
        /\ DOMAIN packets' = 1 .. new /\ packets'[new] = content
        /\ \A n \in DOMAIN packets : packets'[n] = packets[n]
    BY AppendPacket DEF IInv
  <1>2. new \notin DOMAIN packets /\ DOMAIN packets' = DOMAIN packets \cup {new}
    BY <1>1
  <1>3. socket' = socket /\ out' = out
    BY DEF ReadPacket, sockets
  <1>4. socket[new] = "none"
    BY <1>1, <1>2 DEF IInv, TasksOK, MapOK
  <1>5. \A n \in DOMAIN packets : Pair(n)' = Pair(n) /\ Flow(n)' = Flow(n)
    BY <1>1 DEF Pair, Flow
  <1>6. content.flow \in TcpFlows \cup UdpFlows
    BY DEF Contents
  <1> HIDE DEF new
  <1>7. ASSUME NEW states, "none" \notin states
        PROVE  Made(states)' = Made(states)
    <2>1. \A s : s \in Made(states)' <=> \E n \in DOMAIN packets' : socket'[n] \in states /\ s = Pair(n)'
      BY DEF Made, Pair
    <2>2. \A s : s \in Made(states)' <=> \E n \in DOMAIN packets : socket[n] \in states /\ s = Pair(n)
      BY <2>1, <1>2, <1>3, <1>4, <1>5, <1>7
    <2> QED BY <2>2, MadeAre
  <1>8. Opened' = Opened /\ Closed' = Closed
    BY <1>7 DEF Opened, Closed
  <1>9. Reached' = Reached \/ Reached' = Reached \cup {content.flow}
    <2>1. \A f : f \in Reached <=> \E n \in DOMAIN packets : packets[n].passed /\ f = packets[n].flow
      BY DEF Reached, Flow
    <2>2. \A f : f \in Reached' <=> \E n \in DOMAIN packets' : packets'[n].passed /\ f = packets'[n].flow
      BY DEF Reached, Flow
    <2>3. \A f : f \in Reached' <=> f \in Reached \/ (content.passed /\ f = content.flow)
      <3>1. packets'[new] = content /\ \A n \in DOMAIN packets : packets'[n] = packets[n]
        BY <1>1
      <3>2. ASSUME NEW f PROVE f \in Reached' <=> f \in Reached \/ (content.passed /\ f = content.flow)
        <4>1. f \in Reached' => f \in Reached \/ (content.passed /\ f = content.flow)
          BY <2>1, <2>2, <3>1, <1>2
        <4>2. f \in Reached => f \in Reached'
          BY <2>1, <2>2, <3>1, <1>2
        <4>3. content.passed /\ f = content.flow => f \in Reached'
          BY <2>2, <3>1, <1>2
        <4> QED BY <4>1, <4>2, <4>3
      <3> QED BY <3>2
    <2> QED BY <2>3
  <1>10. CASE Reached' = Reached
    BY <1>3, <1>8, <1>10 DEF Carried!vars, Opened, Closed
  <1>11. CASE Reached' = Reached \cup {content.flow}
    <2>1. Carried!Allow(content.flow)
      BY <1>3, <1>8, <1>11 DEF Carried!Allow, Opened, Closed
    <2> QED BY <2>1, <1>6 DEF Carried!Next
  <1> QED BY <1>9, <1>10, <1>11

(* A step of a task.                                                       *)
LEMMA TaskCarries ==
  ASSUME IInv, NEW n \in Tasks, TcpTask(n) \/ UdpTask(n)
  PROVE  [Carried!Next]_(Carried!vars)
  <1> USE DEF IInv
  <1>1. n \in DOMAIN packets /\ packets[n].passed /\ UNCHANGED packets
    BY TaskTakes DEF TasksOK, PayloadsOK
  <1>2. Flow(n) \in TcpFlows \cup UdpFlows
    BY <1>1 DEF TypeOK, Contents, Flow
  <1>3. CASE GetTcpFlags(n) \/ ExtractTcpPayload(n) \/ Lookup(n) \/ Put(n) \/ SynAck(n) \/ StartTcpReader(n)
             \/ ExtractUdpPayload(n) \/ (Finish(n) /\ ~fin[n])
    <2>1. UNCHANGED <<packets, socket, out>>
      BY <1>3 DEF GetTcpFlags, ExtractTcpPayload, Lookup, Put, SynAck, StartTcpReader, ExtractUdpPayload,
                  Finish, sockets
    <2> QED BY <2>1, Stutters
  <1>4. CASE WriteFails(n) \/ ConnectFails(n) \/ SynAckFails(n) \/ (Finish(n) /\ fin[n])
    <2>1. CleanupTcpConnection(Flow(n)) /\ UNCHANGED <<packets, out>>
      BY <1>4 DEF WriteFails, ConnectFails, SynAckFails, Finish
    <2>2. Flow(n) \in TcpFlows
      BY <1>4, TaskFlow DEF WriteFails, ConnectFails, SynAckFails, Finish
    <2> QED BY <2>1, <2>2, CleanupTypes, ClosesMapped DEF CleanupTcpConnection
  <1>5. CASE Connect(n)
    <2>1. socket[n] = "none" /\ UNCHANGED out
      BY <1>5 DEF Connect, SocketsOK
    <2>2. \A m \in Tasks : socket'[m] = IF m = n THEN "open" ELSE socket[m]
      BY <1>5 DEF Connect, TypeOK
    <2>3. Carried!Open(n, Flow(n))
      BY <1>1, <2>1, <2>2, Opens DEF Carried!Open
    <2> QED BY <1>2, <2>3 DEF Carried!Next
  <1>6. CASE Send(n)
    <2>1. socket[n] = "none" /\ payload[n] \in Tasks
      BY <1>6 DEF Send, SocketsOK, TasksOK, TypeOK
    <2>2. \A m \in Tasks : socket'[m] = IF m = n THEN "open" ELSE socket[m]
      BY <1>6 DEF Send, TypeOK
    <2>3. out' = out \cup {[payload |-> payload[n], flow |-> Flow(n)]}
      BY <1>6 DEF Send
    <2>4. Carried!OpenAndServe(n, Flow(n), payload[n])
      BY <1>1, <2>1, <2>2, <2>3, Opens DEF Carried!OpenAndServe, Carried!Gets
    <2> QED BY <1>2, <2>1, <2>4 DEF Carried!Next
  <1>7. CASE SendFails(n)
    <2>1. socket[n] = "none" /\ UNCHANGED out
      BY <1>7 DEF SendFails, SocketsOK
    <2>2. PICK made \in {"none", "open"} : socket' = [socket EXCEPT ![n] = made]
      BY <1>7 DEF SendFails
    <2>3. CASE made = "none"
      <3>1. socket' = socket
        BY <2>1, <2>2, <2>3 DEF TypeOK
      <3> QED BY <1>1, <2>1, <3>1, Stutters
    <2>4. CASE made = "open"
      <3>1. \A m \in Tasks : socket'[m] = IF m = n THEN "open" ELSE socket[m]
        BY <2>2, <2>4 DEF TypeOK
      <3>2. Carried!Open(n, Flow(n))
        BY <1>1, <2>1, <3>1, Opens DEF Carried!Open
      <3> QED BY <1>2, <3>2 DEF Carried!Next
    <2> QED BY <2>3, <2>4
  <1>8. CASE Receive(n)
    <2>1. socket[n] # "none" /\ UNCHANGED out
      BY <1>8 DEF Receive, SocketsOK
    <2>2. \A m \in Tasks : socket'[m] = IF m = n THEN "closed" ELSE socket[m]
      BY <1>8 DEF Receive, TypeOK
    <2> QED BY <1>1, <2>1, <2>2, Closes
  <1>9. CASE Write(n)
    <2>1. /\ connection[n] \in DOMAIN packets /\ Flow(connection[n]) = Flow(n)
          /\ socket[connection[n]] = "open" /\ payload[n] \in Tasks
      BY <1>9 DEF Write, SocketsOK, TasksOK, TypeOK
    <2>2. UNCHANGED <<packets, socket>> /\ out' = out \cup {[payload |-> payload[n], flow |-> Flow(n)]}
      BY <1>9 DEF Write, sockets
    <2>3. Pair(connection[n]) \in Opened
      BY <2>1, MadeAre DEF Opened
    <2>4. Pair(connection[n]) \notin Closed
      BY <2>1, MadeAre DEF Closed, Pair
    <2>5. Carried!Serve(Pair(connection[n]), payload[n])
      BY <2>1, <2>2, <2>3, <2>4, SameSockets DEF Carried!Serve, Carried!Gets, Opened, Closed, Pair
    <2> QED BY <2>1, <2>3, <2>5 DEF Carried!Next, Opened
  <1> QED BY <1>3, <1>4, <1>5, <1>6, <1>7, <1>8, <1>9 DEF TcpTask, UdpTask

LEMMA CarriageStep == IInv /\ [Next]_vars => [Carried!Next]_(Carried!vars)
  <1> SUFFICES ASSUME IInv, [Next]_vars PROVE [Carried!Next]_(Carried!vars)
    OBVIOUS
  <1>1. ASSUME NEW n \in Tasks, TcpReaderEnds(n) PROVE [Carried!Next]_(Carried!vars)
    <2>1. Flow(n) \in TcpFlows /\ CleanupTcpConnection(Flow(n)) /\ UNCHANGED <<packets, out>>
      BY <1>1 DEF TcpReaderEnds, IInv, MapOK
    <2> QED BY <2>1, CleanupTypes, ClosesMapped DEF CleanupTcpConnection, IInv
  <1>2. ASSUME NEW t \in Cleaners, NEW f \in TcpFlows, CleanupCloses(t, f)
        PROVE  [Carried!Next]_(Carried!vars)
    <2>1. UNCHANGED <<packets, out>> /\ socket' \in [Tasks -> {"none", "open", "closed"}]
          /\ \A m \in Tasks : socket'[m] = IF m = tcpConnections[f] THEN "closed" ELSE socket[m]
      BY <1>2 DEF CleanupCloses, IInv, TypeOK
    <2> QED BY <2>1, ClosesMapped
  <1>3. ASSUME UNCHANGED vars
               \/ (\E t \in Cleaners : Cleanup(t) \/ CleanupTurns(t) \/ \E f \in TcpFlows : CleanupClears(t, f))
        PROVE  [Carried!Next]_(Carried!vars)
    <2>1. UNCHANGED <<packets, socket, out>>
      BY <1>3 DEF vars, Cleanup, CleanupTurns, CleanupClears, sockets
    <2> QED BY <2>1, Stutters
  <1> QED BY <1>1, <1>2, <1>3, ReadCarries, TaskCarries DEF Next, Cleaning

(* The forwarder implements Carriage: whatever is late, stale, cleaned up  *)
(* by key or failing, a socket is opened once, to a server that a packet   *)
(* was let through to, closed at most once, and serves that server only    *)
(* while it is open.                                                       *)
THEOREM ImplementsCarriage == Spec => CarriageSpec
  <1>1. Init => Carried!Init
    BY DEF Init, Carried!Init, Reached, Made
  <1> QED BY <1>1, CarriageStep, Inductive, PTL DEF Spec, CarriageSpec, Carried!Spec
=============================================================================
