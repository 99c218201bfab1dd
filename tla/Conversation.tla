----------------------------- MODULE Conversation -----------------------------
(***************************************************************************)
(* What forwarding promises the apps, without packets, tasks, buffers and  *)
(* a tunnel: something is said to a socket only if the socket has asked    *)
(* its server, and is heard by that socket, in the name of who said it, up *)
(* to a limit, or by nobody.  Who has asked by TCP is answered by the      *)
(* server it asked; who has asked by UDP, by any host.                     *)
(***************************************************************************)
EXTENDS Integers

CONSTANTS
    Sockets,  \* of apps, each with the server it talks to
    Hosts,    \* who may answer a datagram: host, port
    Sizes,    \* bytes a host may say
    Limit     \* what is heard at least of a longer answer

VARIABLES
    asked,  \* the sockets that have asked their server
    said,   \* what hosts have said, and to whom
    heard   \* what sockets have heard, and from whom

vars == <<asked, said, heard>>

Init == asked = {} /\ said = {} /\ heard = {}

Ask(s) == asked' = asked \cup {s} /\ UNCHANGED <<said, heard>>

Speakers(s) ==
    IF s.transport = "TCP" THEN {[host |-> s.server, port |-> s.serverPort]} ELSE Hosts

Saying(s, from, bytes) == [to |-> s, host |-> from.host, port |-> from.port, bytes |-> bytes]
Hearing(s, from, bytes) == [socket |-> s, src |-> from.host, srcPort |-> from.port, bytes |-> bytes]
Whole(bytes, part) == part = bytes \/ (part = Limit /\ bytes > Limit)

Say(s, from, bytes) ==
    /\ s \in asked
    /\ said' = said \cup {Saying(s, from, bytes)}
    /\ UNCHANGED asked

(* Said and not heard: the answer is lost on the way.                      *)
SayInVain(s, from, bytes) == Say(s, from, bytes) /\ UNCHANGED heard

SayAndHear(s, from, bytes, part) ==
    /\ Say(s, from, bytes)
    /\ Whole(bytes, part)
    /\ heard' = heard \cup {Hearing(s, from, part)}

Next ==
    \E s \in Sockets :
       \/ Ask(s)
       \/ \E from \in Speakers(s), bytes \in Sizes :
             \/ SayInVain(s, from, bytes)
             \/ \E part \in {bytes, Limit} : SayAndHear(s, from, bytes, part)

Spec == Init /\ [][Next]_vars
=============================================================================
