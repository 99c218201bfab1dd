------------------------------- MODULE Carriage -------------------------------
(***************************************************************************)
(* What the forwarder promises of the servers, without tasks, a buffer, a  *)
(* map of connections and their cleanup: a socket is opened once, to a     *)
(* server that packets were let through to; it is closed at most once; and *)
(* a server gets something only over a socket that is open to it.          *)
(***************************************************************************)
EXTENDS Integers

CONSTANTS Servers, Sockets, Payloads

VARIABLES
    allowed,  \* servers that a packet was let through to
    opened,   \* the sockets opened so far, each with its server
    closed,   \* those that have been closed
    served    \* which payload went to which server

vars == <<allowed, opened, closed, served>>

Init == allowed = {} /\ opened = {} /\ closed = {} /\ served = {}

To(name, server) == [name |-> name, server |-> server]
Gets(server, payload) == [payload |-> payload, flow |-> server]

Allow(server) == allowed' = allowed \cup {server} /\ UNCHANGED <<opened, closed, served>>

New(name, server) ==
    /\ server \in allowed
    /\ \A s \in opened : s.name # name
    /\ opened' = opened \cup {To(name, server)}
    /\ UNCHANGED <<allowed, closed>>

Open(name, server) == New(name, server) /\ UNCHANGED served

(* A request of UDP: one payload over a new socket.                        *)
OpenAndServe(name, server, payload) ==
    New(name, server) /\ served' = served \cup {Gets(server, payload)}

Serve(s, payload) ==
    /\ s \in opened \ closed
    /\ served' = served \cup {Gets(s.server, payload)}
    /\ UNCHANGED <<allowed, opened, closed>>

Close(s) ==
    /\ s \in opened \ closed
    /\ closed' = closed \cup {s}
    /\ UNCHANGED <<allowed, opened, served>>

Next ==
    \/ \E server \in Servers :
          \/ Allow(server)
          \/ \E name \in Sockets :
                Open(name, server) \/ \E payload \in Payloads : OpenAndServe(name, server, payload)
    \/ \E s \in opened : Close(s) \/ \E payload \in Payloads : Serve(s, payload)

Spec == Init /\ [][Next]_vars
=============================================================================
