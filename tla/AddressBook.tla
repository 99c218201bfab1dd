---------------------------- MODULE AddressBook -----------------------------
(***************************************************************************)
(* The address book as it would be if a tracking coroutine looked for its  *)
(* address and inserted it in one step and the table had one row for each: *)
(* a set of known addresses of apps, of which some are blocked.            *)
(*                                                                         *)
(* It is the code's own book, with UPDATEs of the rows there are, and not  *)
(* the book of ADDRESS_MANAGEMENT_GUIDE.md:18, "Block all network access   *)
(* for the app", where an address met later would be blocked, too.         *)
(***************************************************************************)
EXTENDS Integers

CONSTANTS Packages, Addresses

VARIABLES
    known,    \* the addresses of apps that were met
    blocked,  \* those that are blocked
    requests  \* what the user has asked for so far

vars == <<known, blocked, requests>>

Keys == [pkg : Packages, addr : Addresses]
Of(p) == {key \in known : key.pkg = p}

Init == known = {} /\ blocked = {} /\ requests = 0

(* An address is met: a new row is one that is not blocked, also when all  *)
(* rows of its app are; met again, the address stays what it is.           *)
Meet(key) == known' = known \cup {key} /\ UNCHANGED <<blocked, requests>>

(* The user blocks or allows known addresses.                              *)
Mark(keys, flag) ==
    /\ keys \subseteq known
    /\ blocked' = IF flag THEN blocked \cup keys ELSE blocked \ keys
    /\ requests' = requests + 1
    /\ UNCHANGED known

(* One address, which may be in vain; or all the known ones of an app.     *)
Set(key, flag) == Mark({key}, flag)
InVain == Mark({}, FALSE)
SetAll(p, flag) == Mark(Of(p), flag)

Next ==
    \/ \E key \in Keys : Meet(key) \/ \E flag \in BOOLEAN : Set(key, flag)
    \/ InVain
    \/ \E p \in Packages, flag \in BOOLEAN : SetAll(p, flag)

Spec == Init /\ [][Next]_vars
=============================================================================
