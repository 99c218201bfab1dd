------------------------------- MODULE Exchange -------------------------------
(***************************************************************************)
(* Requests and answers, from a socket of an app on the phone through the  *)
(* tunnel, the reader, the forwarding coroutine, the server, and back into *)
(* the tunnel: PacketForwarder.kt together with the native codec.  The     *)
(* DatagramSocket of a request is never connected, and nobody looks at who *)
(* sent what it gets: the first datagram, of whatever host, is the answer, *)
(* relayed in its sender's name.                                           *)
(*                                                                         *)
(* PacketForwarder.tla has the connection map and the ends of connections; *)
(* here it is who is sent what.  A task has its packet's addresses from    *)
(* the reader (traffic), but looks for flags and payload in the reader's   *)
(* one buffer when it gets to run.  What is written to the tunnel, the     *)
(* phone's network stack takes at once.                                    *)
(***************************************************************************)
EXTENDS NativeBridge, Sequences

CONSTANTS
    Sockets,      \* the apps' sockets: transport, port, server, serverPort, iss
    Hosts,        \* whose datagrams reach a request's socket: host, port
    AnswerSizes,  \* bytes a server may answer with
    UdpBuffer,    \* bytes of an answer that are kept: 2048
    MaxPackets    \* bound on the packets read

PhoneAddress == "10.0.0.2"

(* The phone gives each socket a port of its own, and (a simplification)   *)
(* never gives a port to a second one.                                     *)
ASSUME SocketsAssumption ==
    /\ \A s \in Sockets : s.transport \in {"UDP", "TCP", "Unknown"}
    /\ \A s, t \in Sockets : s.transport = t.transport /\ s.port = t.port => s = t

ASSUME SizesAssumption == AnswerSizes \subseteq Nat \ {0} /\ UdpBuffer \in Nat \ {0}
ASSUME BoundAssumption == MaxPackets \in Nat

Tasks == 1 .. MaxPackets
None == 0

VARIABLES
    packets,   \* the packets read, by the socket they are from, and whether the filter let them pass
    traffic,   \* what the reader parsed of a packet
    at,        \* where the task of a packet is
    answers,   \* history: what a task's socket has got, and from whom
    open,      \* the sockets whose connection is open to the phone
    heard      \* what the phone has handed to its sockets

vars == <<packets, traffic, at, answers, open, heard>>

(* The packet a socket sends: a question, or a SYN.                        *)
Request(s) ==
    [src |-> PhoneAddress, dst |-> s.server, transport |-> s.transport,
     srcPort |-> s.port, dstPort |-> s.serverPort,
     flags |-> IF s.transport = "TCP" THEN {SYN} ELSE {},
     seq |-> s.iss, ack |-> 0, payload |-> IF s.transport = "TCP" THEN 0 ELSE 1]

NoTraffic == [protocolByte |-> "Unknown", srcIp |-> "Unknown", srcPort |-> NoPort, dstIp |-> "Unknown", dstPort |-> NoPort]

Init ==
    /\ packets = <<>>
    /\ traffic = [n \in Tasks |-> NoTraffic]
    /\ at = [n \in Tasks |-> "none"]
    /\ answers = {} /\ open = {} /\ heard = {}

Goes(n, label) == at' = [at EXCEPT ![n] = label]

-----------------------------------------------------------------------------
(* The phone's stack.                                                      *)

(* A datagram goes to the socket of its port, which is not a connected     *)
(* one, a segment to the socket of both addresses and ports.               *)
IsFor(p, s) ==
    /\ p.dst = PhoneAddress /\ p.transport = s.transport /\ p.dstPort = s.port
    /\ s.transport = "TCP" => p.src = s.server /\ p.srcPort = s.serverPort

(* A SYN-ACK must acknowledge the socket's SYN.                            *)
Opens(p, s) ==
    IsFor(p, s) /\ p.flags = {SYN, ACK} /\ p.ack = (s.iss + 1) % SeqModulus

Hears(p, s) ==
    /\ IsFor(p, s) /\ p.payload # 0
    /\ s.transport = "UDP" \/ s \in open

PhoneTakes(p) ==
    /\ open' = open \cup {s \in Sockets : Opens(p, s)}
    /\ heard' = heard \cup
         {[socket |-> s, src |-> p.src, srcPort |-> p.srcPort, bytes |-> p.payload] : s \in {t \in Sockets : Hears(p, t)}}

-----------------------------------------------------------------------------
(* Mutant: the packet is forwarded before the filter is asked.             *)
ReadPacketUnfiltered(s, passed) ==
    /\ Len(packets) < MaxPackets
    /\ packets' = Append(packets, [from |-> s, passed |-> passed])
    /\ LET n == Len(packets) + 1
           parsed == ParseRealPacket(Request(s))
       IN /\ traffic' = [traffic EXCEPT ![n] = parsed]
          /\ Goes(n, CASE parsed.protocolByte = "UDP" -> "extract"
                       [] parsed.protocolByte = "TCP" -> "flags"
                       [] OTHER -> "done")
    /\ UNCHANGED <<answers, open, heard>>

(* The reader puts a packet into the buffer; if the filter lets it pass,   *)
(* forwardPacket launches its task, or writes it back to the tunnel.       *)
ReadPacket(s, passed) ==
    /\ Len(packets) < MaxPackets
    /\ packets' = Append(packets, [from |-> s, passed |-> passed])
    /\ LET n == Len(packets) + 1
           parsed == ParseRealPacket(Request(s))
       IN /\ traffic' = [traffic EXCEPT ![n] = parsed]
          /\ Goes(n, CASE passed /\ parsed.protocolByte = "UDP" -> "extract"
                       [] passed /\ parsed.protocolByte = "TCP" -> "flags"
                       [] OTHER -> "done")
          /\ IF passed /\ parsed.protocolByte = "Unknown" THEN PhoneTakes(Request(s))
             ELSE UNCHANGED <<open, heard>>
    /\ UNCHANGED answers

(* What task n finds in the buffer: its packet, or else the last one, of   *)
(* which the task's own length may cut off what it looks for.              *)
InBuffer(n) == IF n = Len(packets) THEN {n} ELSE {Len(packets), None}
Found(p) == Request(packets[p].from)

-----------------------------------------------------------------------------
(* forwardUdpPacket.                                                       *)

ExtractPayload(n) ==
    /\ at[n] = "extract"
    /\ \E p \in InBuffer(n) :
          Goes(n, IF p # None /\ ExtractUdpPayload(Found(p)) # 0 THEN "send" ELSE "dropped")
    /\ UNCHANGED <<packets, traffic, answers, open, heard>>

Send(n) ==
    /\ at[n] = "send"
    /\ Goes(n, "receive")
    /\ UNCHANGED <<packets, traffic, answers, open, heard>>

Answer(n, from, bytes) ==
    answers' = answers \cup {[task |-> n, host |-> from.host, port |-> from.port, bytes |-> bytes]}

(* A long datagram is cut to the buffer.                                   *)
Kept(bytes) == IF bytes > UdpBuffer THEN UdpBuffer ELSE bytes

(* Mutant: the answer's addresses are those of the packet in the buffer.   *)
ReceiveLate(n, from, bytes) ==
    /\ at[n] = "receive"
    /\ Answer(n, from, bytes)
    /\ LET parsed == ParseRealPacket(Found(Len(packets)))
       IN PhoneTakes(BuildUdpResponsePacket(Kept(bytes), from.host, from.port, PhoneAddress, parsed.srcPort))
    /\ Goes(n, "done")
    /\ UNCHANGED <<packets, traffic>>

(* Mutant: whoever answers, it is in the name of the server that was asked. *)
ReceiveInServersName(n, from, bytes) ==
    /\ at[n] = "receive"
    /\ Answer(n, from, bytes)
    /\ PhoneTakes(BuildUdpResponsePacket(Kept(bytes),
                    traffic[n].dstIp, traffic[n].dstPort, PhoneAddress, traffic[n].srcPort))
    /\ Goes(n, "done")
    /\ UNCHANGED <<packets, traffic>>

(* The first datagram that reaches the socket is the answer, whoever sent  *)
(* it.                                                                     *)
Receive(n, from, bytes) ==
    /\ at[n] = "receive"
    /\ Answer(n, from, bytes)
    /\ PhoneTakes(BuildUdpResponsePacket(Kept(bytes), from.host, from.port, PhoneAddress, traffic[n].srcPort))
    /\ Goes(n, "done")
    /\ UNCHANGED <<packets, traffic>>

-----------------------------------------------------------------------------
(* forwardTcpPacket, handleTcpSyn, startTcpReader.                         *)

(* As no connection ever has a payload to write or a FIN while it is being *)
(* opened, a task that finds no SYN is done.                               *)
FindSyn(n) ==
    /\ at[n] = "flags"
    /\ \E p \in InBuffer(n) :
          Goes(n, IF p # None /\ SYN \in GetTcpFlags(Found(p)) THEN "connect" ELSE "dropped")
    /\ UNCHANGED <<packets, traffic, answers, open, heard>>

Connect(n) ==
    /\ at[n] = "connect"
    /\ Goes(n, "synack")
    /\ UNCHANGED <<packets, traffic, answers, open, heard>>

SynAck(n) ==
    /\ at[n] = "synack"
    /\ PhoneTakes(BuildTcpPacket(PhoneAddress, traffic[n].srcIp,
                    traffic[n].dstPort, traffic[n].srcPort, {SYN, ACK}, 1, 1))
    /\ Goes(n, "reader")
    /\ UNCHANGED <<packets, traffic, answers>>

(* The server the socket is connected to talks first, or keeps talking.    *)
Relay(n, bytes) ==
    /\ at[n] = "reader"
    /\ Answer(n, [host |-> traffic[n].dstIp, port |-> traffic[n].dstPort], bytes)
    /\ PhoneTakes(BuildTcpResponsePacket(bytes,
                    traffic[n].dstIp, traffic[n].dstPort, PhoneAddress, traffic[n].srcPort))
    /\ UNCHANGED <<packets, traffic, at>>

(* The server closes, 30 s pass in silence, or something fails.            *)
ReaderEnds(n) ==
    /\ at[n] = "reader"
    /\ Goes(n, "done")
    /\ UNCHANGED <<packets, traffic, answers, open, heard>>

(* No connection, no answer for 5 s, a closed tunnel, an error: logged.    *)
Fails(n) ==
    /\ at[n] \in {"send", "receive", "connect", "synack"}
    /\ Goes(n, "failed")
    /\ UNCHANGED <<packets, traffic, answers, open, heard>>

-----------------------------------------------------------------------------
Task(n) ==
    \/ ExtractPayload(n) \/ Send(n) \/ FindSyn(n) \/ Connect(n) \/ SynAck(n) \/ Fails(n)
    \/ \E from \in Hosts, bytes \in AnswerSizes : Receive(n, from, bytes)

Next ==
    \/ \E s \in Sockets \ open, passed \in BOOLEAN : ReadPacket(s, passed)
    \/ \E n \in Tasks :
          \/ Task(n) \/ ReaderEnds(n)
          \/ \E bytes \in AnswerSizes : Relay(n, bytes)

Spec == Init /\ [][Next]_vars

(* Coroutines run; a server that does not answer is a failure, by time-out. *)
FairSpec == Spec /\ \A n \in Tasks : WF_vars(Task(n))

-----------------------------------------------------------------------------
Labels == {"none", "extract", "send", "receive", "flags", "connect", "synack", "reader", "done", "dropped", "failed"}

TypeOK ==
    /\ packets \in Seq([from : Sockets, passed : BOOLEAN]) /\ Len(packets) <= MaxPackets
    /\ traffic \in [Tasks -> {NoTraffic} \cup {ParseRealPacket(Request(s)) : s \in Sockets}]
    /\ at \in [Tasks -> Labels]
    /\ \A a \in answers : a.task \in DOMAIN packets
    /\ open \subseteq {s \in Sockets : s.transport = "TCP"}

(* What the coroutines of a packet go by is what the packet said, whatever *)
(* is in the buffer by now; only packets that passed have one.             *)
TasksOK ==
    \A n \in Tasks :
        /\ at[n] = "none" <=> n \notin DOMAIN packets
        /\ n \in DOMAIN packets => traffic[n] = ParseRealPacket(Request(packets[n].from))
        /\ at[n] \notin {"none", "done"} => packets[n].passed
        /\ at[n] \in {"extract", "send", "receive"} => packets[n].from.transport = "UDP"
        /\ at[n] \in {"flags", "connect", "synack", "reader"} => packets[n].from.transport = "TCP"

(* What a task's socket got is what the phone handed to the socket that    *)
(* asked, up to the buffer's size.                                         *)
Reaches(a, h) ==
    /\ h.socket = packets[a.task].from /\ h.src = a.host /\ h.srcPort = a.port
    /\ h.bytes = a.bytes \/ (h.bytes = UdpBuffer /\ a.bytes > UdpBuffer)

(* forwardUdpPacket, startTcpReader: what a socket hears was sent, by the  *)
(* host and from the port it is told, to one that had asked for it, though *)
(* the buffer may have changed under the task.                             *)
AnswersAreGenuine == \A h \in heard : \E a \in answers : Reaches(a, h)

(* readPackets: a socket whose packets were all dropped hears nothing,     *)
(* even though a late task may send its payload (to another server).       *)
BlockedHearsNothing ==
    \A h \in heard : \E n \in DOMAIN packets : packets[n].from = h.socket /\ packets[n].passed

(* A question is heard when an answer to it, of the server it is for, is.  *)
Passed(n) == n \in DOMAIN packets /\ packets[n].passed
IsAsked(a) == a.host = packets[a.task].from.server /\ a.port = packets[a.task].from.serverPort
Heard(n) == n \in DOMAIN packets /\ \E a \in answers, h \in heard : a.task = n /\ IsAsked(a) /\ Reaches(a, h)

(* Else its task failed, or found the next packet in the buffer instead,   *)
(* or got another host's datagram, for it receives only once.              *)
Lost(n) ==
    \/ at[n] = "failed"
    \/ at[n] = "dropped" /\ n < Len(packets)
    \/ \E a \in answers : a.task = n /\ ~IsAsked(a)

(* forwardUdpPacket: a question whose payload the library leaves alone is  *)
(* answered.                                                               *)
Plain(s) == s.transport = "UDP" /\ {s.port, s.serverPort} \cap ProtocolPorts = {}
QuestionsAnswered ==
    \A n \in Tasks : Passed(n) /\ Plain(packets[n].from) ~> Heard(n) \/ Lost(n)

(* What there is in QuestionsAnswered without time: the task of such a     *)
(* question does not end before the answer is heard, unless it was lost.   *)
EndsHeard ==
    \A n \in Tasks :
        Passed(n) /\ Plain(packets[n].from) /\ at[n] \in {"done", "dropped", "failed"} =>
            Heard(n) \/ Lost(n)

(* The codec, the buffer and the tasks between a socket and its server     *)
(* implement Conversation: only sockets whose packets passed ask, and what *)
(* is said to one is heard by it, in the name of who said it, or by nobody. *)
Asked == {packets[n].from : n \in {m \in DOMAIN packets : packets[m].passed}}
Said == {[to |-> packets[a.task].from, host |-> a.host, port |-> a.port, bytes |-> a.bytes] : a \in answers}
Talk == INSTANCE Conversation WITH
            Sizes <- AnswerSizes, Limit <- UdpBuffer, asked <- Asked, said <- Said

TalkSpec == Talk!Spec

(* The inductive invariant.                                                *)
IInv == TypeOK /\ TasksOK /\ AnswersAreGenuine /\ BlockedHearsNothing /\ EndsHeard
=============================================================================
