-------------------------- MODULE MCPacketForwarder --------------------------
(* Small instances of PacketForwarder for TLC, and what the repository     *)
(* says of forwarding that the code does not do.                           *)
EXTENDS PacketForwarder

(* IMPLEMENTATION_GUIDE.md:104: "**Blocked Apps**: No internet access (as  *)
(* intended)".  The payload of a packet that is not let through is not     *)
(* sent anywhere.  A task that runs late takes its payload from the        *)
(* buffer, where the next packet is by then.                               *)
BlockedStaysIn == \A o \in out : packets[o.payload].passed

(* IMPLEMENTATION_GUIDE.md:87-89: "Automatic cleanup of closed             *)
(* connections", "Proper resource management", "Memory leak prevention".   *)
(* There is always a time to come when no socket is open, since packets    *)
(* end and no server keeps talking for ever.  A second SYN of a flow puts  *)
(* its connection over the first one, whose reader then ends by closing    *)
(* what the map has; and the socket of a UDP request whose send fails is   *)
(* left open.                                                              *)
OpenTo(flows) == {n \in DOMAIN packets : socket[n] = "open" /\ Flow(n) \in flows}

TcpSocketsClose == []<>(OpenTo(TcpFlows) = {})
UdpSocketsClose == []<>(OpenTo(UdpFlows) = {})

(* One behaviour refutes both.                                             *)
SocketsClose == TcpSocketsClose \/ UdpSocketsClose
=============================================================================
