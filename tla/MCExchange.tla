----------------------------- MODULE MCExchange -----------------------------
(* Small instances of Exchange for TLC, and what the repository says of    *)
(* exchanges that the code does not do.                                    *)
EXTENDS Exchange

Socket(transport, port, server, serverPort, iss) ==
    [transport |-> transport, port |-> port, server |-> server, serverPort |-> serverPort, iss |-> iss]

Dns == Socket("UDP", 1, "8.8.8.8", 53, 0)
Time == Socket("UDP", 2, "1.1.1.1", 9, 0)
Call == Socket("UDP", 3, "2.2.2.2", 9, 0)
Web == Socket("TCP", 1, "1.1.1.1", 80, 1)
Ping == Socket("Unknown", NoPort, "8.8.8.8", NoPort, 0)

AllSockets == {Dns, Time, Call, Web, Ping}
DnsAndWeb == {Dns, Web, Call}

(* The servers of Time and Call: each is a stranger to the other's socket. *)
TwoHosts == {[host |-> s.server, port |-> s.serverPort] : s \in {Time, Call}}
OneHost == {[host |-> Call.server, port |-> Call.serverPort]}

(* IMPLEMENTATION_GUIDE.md:118: "**DNS**: Domain name resolution should    *)
(* work".  A DNS question that passed is answered, or fails.               *)
DnsAnswered ==
    \A n \in Tasks : Passed(n) /\ packets[n].from.serverPort = 53 ~> Heard(n) \/ Lost(n)

(* IMPLEMENTATION_GUIDE.md:117: "**HTTP/HTTPS**: Web browsing should work  *)
(* for non-blocked apps"; :76: "Handles TCP handshake (SYN/SYN-ACK/ACK)".  *)
(* The connection a SYN that passed asks for opens, or fails.              *)
ConnectionOpens ==
    \A n \in Tasks : Passed(n) /\ packets[n].from.transport = "TCP" ~>
                      Lost(n) \/ (Passed(n) /\ packets[n].from \in open)

(* IMPLEMENTATION_GUIDE.md:105: "Non-blocked Apps: Full internet           *)
(* connectivity maintained".  One behaviour refutes both claims above.     *)
Connectivity == DnsAnswered \/ ConnectionOpens
=============================================================================
