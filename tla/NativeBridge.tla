---------------------------- MODULE NativeBridge ----------------------------
(***************************************************************************)
(* The native codec, firewallapp.cpp, as NativeBridge.kt declares it: what *)
(* it takes from a packet of the tunnel and what the packets it builds     *)
(* look like to the phone.                                                 *)
(*                                                                         *)
(* A payload is its number of bytes; the int of the flags is the set of    *)
(* its bits.  The tunnel's only route is IPv4's, so are its packets.       *)
(***************************************************************************)
EXTENDS Integers

CONSTANTS
    ProtocolPorts,  \* ports whose payload PcapPlusPlus parses as a protocol (DNS, HTTP, TLS, ...)
    SeqModulus      \* 2^32

ASSUME SeqAssumption == SeqModulus \in Nat \ {0}

FIN == 1
SYN == 2
PSH == 8
ACK == 16
TcpFlags == {FIN, SYN, 4, PSH, ACK, 32}

NoPort == -1

(* parseRealPacket: what a TrafficLogResponse says of the packet.          *)
ParseRealPacket(packet) ==
    [protocolByte |-> packet.transport,
     srcIp |-> packet.src, srcPort |-> packet.srcPort,
     dstIp |-> packet.dst, dstPort |-> packet.dstPort]

(* The library makes a layer of its own class of a payload it knows by a   *)
(* port of the packet, and a PayloadLayer of any other.                    *)
InPayloadLayer(packet) ==
    packet.payload # 0 /\ {packet.srcPort, packet.dstPort} \cap ProtocolPorts = {}

(* Both find a payload in a PayloadLayer only; 0 is null.                  *)
ExtractUdpPayload(packet) ==
    IF packet.transport = "UDP" /\ InPayloadLayer(packet) THEN packet.payload ELSE 0

ExtractTcpPayload(packet) ==
    IF packet.transport = "TCP" /\ InPayloadLayer(packet) THEN packet.payload ELSE 0

GetTcpFlags(packet) == IF packet.transport = "TCP" THEN packet.flags ELSE {}

(* Mutant: the ports are swapped.                                          *)
BuildUdpResponsePacketSwapped(payload, srcIp, srcPort, dstIp, dstPort) ==
    [src |-> srcIp, dst |-> dstIp, transport |-> "UDP", srcPort |-> dstPort, dstPort |-> srcPort,
     flags |-> {}, seq |-> 0, ack |-> 0, payload |-> payload]

BuildUdpResponsePacket(payload, srcIp, srcPort, dstIp, dstPort) ==
    [src |-> srcIp, dst |-> dstIp, transport |-> "UDP", srcPort |-> srcPort, dstPort |-> dstPort,
     flags |-> {}, seq |-> 0, ack |-> 0, payload |-> payload]

(* The numbers of a response are constants.                                *)
BuildTcpResponsePacket(payload, srcIp, srcPort, dstIp, dstPort) ==
    [src |-> srcIp, dst |-> dstIp, transport |-> "TCP", srcPort |-> srcPort, dstPort |-> dstPort,
     flags |-> {ACK, PSH}, seq |-> 1 % SeqModulus, ack |-> 1 % SeqModulus, payload |-> payload]

(* htonl keeps 32 bits of a long.  (The payload's layer goes out of scope  *)
(* before computeCalculateFields uses it: undefined behaviour that no      *)
(* caller reaches, as none passes a payload.)                              *)
BuildTcpPacket(srcIp, dstIp, srcPort, dstPort, flags, seqNum, ackNum) ==
    [src |-> srcIp, dst |-> dstIp, transport |-> "TCP", srcPort |-> srcPort, dstPort |-> dstPort,
     flags |-> flags \cap TcpFlags, seq |-> seqNum % SeqModulus, ack |-> ackNum % SeqModulus, payload |-> 0]
=============================================================================
