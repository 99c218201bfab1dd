----------------------------- MODULE VpnSession -----------------------------
(***************************************************************************)
(* What the VPN service promises of a tunnel, without its threads: in one  *)
(* process at most one session is served, it is served on a tunnel that is *)
(* up, and the tunnel stays up as long as somebody reads it.               *)
(***************************************************************************)
VARIABLES
    phase,   \* "fresh": no session yet, "serving", "over": no more sessions
    up       \* a tunnel is up

vars == <<phase, up>>

TypeOK == phase \in {"fresh", "serving", "over"} /\ up \in BOOLEAN

Init == phase = "fresh" /\ up = FALSE

(* A tunnel can be established whatever became of the session before ...   *)
Establish == phase # "serving" /\ ~up /\ up' = TRUE /\ UNCHANGED phase

(* ... but the traffic of only the first one is served.                    *)
Serve == phase = "fresh" /\ up /\ phase' = "serving" /\ UNCHANGED up

Finish == phase = "serving" /\ phase' = "over" /\ UNCHANGED up

(* The service is stopped before it served anything.                       *)
Abandon == phase = "fresh" /\ phase' = "over" /\ UNCHANGED up

(* The tunnel goes down, never under a reader.                             *)
Release == phase # "serving" /\ up /\ up' = FALSE /\ UNCHANGED phase

(* The process dies; the next one starts over.                             *)
Die == phase' = "fresh" /\ up' = FALSE

Next == Establish \/ Serve \/ Finish \/ Abandon \/ Release \/ Die

Spec == Init /\ [][Next]_vars
=============================================================================
