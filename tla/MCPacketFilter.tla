--------------------------- MODULE MCPacketFilter ---------------------------
(* Small instances of PacketFilter for TLC.                                *)
EXTENDS PacketFilter

CONSTANTS
    First,  \* the package the system names first of those of a UID
    Ping    \* an address that is neither TCP nor UDP

(* Every package has a UID of its own; or all have one.                    *)
OwnUids == [p \in Packages |-> p]
OneUid == [p \in Packages |-> First]

Protocol == [addr \in Addresses |-> IF addr = Ping THEN "Unknown" ELSE "TCP"]
=============================================================================
