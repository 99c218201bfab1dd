--------------------------- MODULE MCAddressBook ----------------------------
(* What ADDRESS_MANAGEMENT_GUIDE.md says of blocking addresses that the    *)
(* code does not do.                                                       *)
EXTENDS MCPacketFilter

(* History variables.                                                      *)
VARIABLES
    closed,  \* the apps whose user blocked all that was shown and allowed nothing since
    barred   \* the packet was read when its app was closed, and it still is

ClaimsInit == Init /\ closed = {} /\ barred = FALSE

Shown(p) == \E r \in rows : r.pkg = p
AppsOf(id) == {r.pkg : r \in {s \in rows : s.id = id}}

(* The user's requests, by what they say about apps; nothing else changes  *)
(* what the user has asked for.                                            *)
Request ==
    \/ \E p \in Packages :
          \/ SetAll(p, TRUE) /\ closed' = IF Shown(p) THEN closed \cup {p} ELSE closed
          \/ SetAll(p, FALSE) /\ closed' = closed \ {p}
    \/ \E id \in 1 .. MaxPackets :
          \/ ToggleAddress(id, TRUE) /\ UNCHANGED closed
          \/ ToggleAddress(id, FALSE) /\ closed' = closed \ AppsOf(id)
    \/ Next /\ taps' = taps /\ UNCHANGED closed

ClaimsNext ==
    /\ Request
    /\ barred' = IF taken' # taken THEN packet'.pkg \in closed
                 ELSE barred /\ packet.pkg \in closed'

ClaimsSpec == ClaimsInit /\ [][ClaimsNext]_<<vars, closed, barred>>

-----------------------------------------------------------------------------
(* ADDRESS_MANAGEMENT_GUIDE.md:16: "**Block specific addresses**: Prevent  *)
(* the app from accessing specific servers".  An address with a row that   *)
(* is marked blocked is blocked.  Two trackers that both find no row       *)
(* insert two, and a toggle of the younger marks one that is never asked   *)
(* (the guide takes them to be unique, :43).                               *)
ToggleTakesEffect == \A r \in rows : r.blocked => Blocked(Key(r))

(* ADDRESS_MANAGEMENT_GUIDE.md:18: "**Block all addresses**: Block all     *)
(* network access for the app", and :57-59: "Block all addresses for the   *)
(* app", "The app will only be able to connect to allowed addresses".      *)
(* After that no packet of the app is let through before the user allows   *)
(* something.  The UPDATE marks the rows there are, and the row of an      *)
(* address met later is inserted as one that is allowed.                   *)
BlockAllHolds == outcome = "forwarded" => ~barred

(* One behaviour refutes both: neither claim holds in its last state.      *)
BlocksTakeEffect == ToggleTakesEffect \/ BlockAllHolds
=============================================================================
