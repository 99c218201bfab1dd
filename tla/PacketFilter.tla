---------------------------- MODULE PacketFilter ----------------------------
(***************************************************************************)
(* What readPackets does with a packet before it is forwarded: find the    *)
(* app that sent it (UidResolver), have its address tracked, ask whether   *)
(* the address and whether the app is blocked (FirewallVpnService.kt       *)
(* 184-344), over the table app_addresses and its view-model operations    *)
(* (AppAddressDao, MainViewModel.kt 128-156).                              *)
(*                                                                         *)
(* One reader takes packets one at a time.  Every packet of a known app    *)
(* starts a tracking coroutine of its own, outside the service's scope.    *)
(* A DAO call is one SQL statement; the reader and the trackers can be     *)
(* between any two of theirs while the user and the others go on.          *)
(***************************************************************************)
EXTENDS Integers, FiniteSets

CONSTANTS
    Packages,     \* package names
    NoPackage,    \* no app was found for a packet
    Addresses,    \* destination IP, port and protocol
    ProtocolOf,   \* the protocol of an address
    FirstOfUid,   \* for a package, the first package of its UID
    Modern,       \* Build.VERSION.SDK_INT >= Q
    Faults,       \* "cancel" of the scope, "database" errors, "owner" not found
    MaxPackets,   \* bound on packets read
    MaxTaps,      \* bound on the user's changes of the table
    MaxEdits      \* bound on changes of the block list

ASSUME PackagesAssumption ==
    /\ Packages # {} /\ NoPackage \notin Packages
    /\ FirstOfUid \in [Packages -> Packages]
    /\ Modern \in BOOLEAN
    /\ Faults \subseteq {"cancel", "database", "owner"}

ASSUME AddressesAssumption ==
    Addresses # {} /\ ProtocolOf \in [Addresses -> {"TCP", "UDP", "Unknown"}]

ASSUME BoundsAssumption ==
    MaxPackets \in Nat /\ MaxTaps \in Nat /\ MaxEdits \in Nat

Packets == 1 .. MaxPackets

VARIABLES
    store,           \* the stored block list
    cache,           \* blockedAppCache
    cancelled,       \* the reader's scope is cancelled
    rows,            \* the table app_addresses
    nextId,          \* its next id (autoGenerate)
    taken,           \* packets read so far
    reader,          \* where the reader is in its loop
    packet,          \* the packet it handles
    addressBlocked,  \* isAddressBlocked of that packet
    failed,          \* whether the query for it failed
    outcome,         \* what became of it
    tracker,         \* the tracking coroutine of each packet
    tracked,         \* what that coroutine tracks
    held,            \* the packet's address has been blocked since it was read
    taps, edits      \* what has been used of the bounds

user == <<store, taps, edits>>
table == <<rows, nextId>>
handling == <<taken, packet, addressBlocked, failed, outcome>>
tracking == <<tracker, tracked>>
vars == <<user, cache, cancelled, table, reader, handling, tracking, held>>

Keys == [pkg : Packages, addr : Addresses]
Key(r) == [pkg |-> r.pkg, addr |-> r.addr]
AnyKey == CHOOSE key \in Keys : TRUE

(* getAddress ... LIMIT 1: of several rows of an address, the scan of the  *)
(* table meets the one with the lowest id first.                           *)
Found(key) == {r \in rows : Key(r) = key}
IsFirst(r) == \A s \in Found(Key(r)) : r.id <= s.id
Blocked(key) == \E r \in Found(key) : r.blocked /\ IsFirst(r)

(* The conditions under which a packet is to be dropped.                   *)
AppBlocked == packet.pkg \in cache
AddressBlocked == packet.pkg # NoPackage /\ Blocked([pkg |-> packet.pkg, addr |-> packet.addr])

(* An address allowed while its packet is decided on is not `held' blocked.*)
Deciding == reader \in {"query", "decide"}
KeepHeld == held' = (held /\ (Deciding => AddressBlocked'))

Init ==
    /\ store \in SUBSET Packages /\ cache = {}
    /\ cancelled = FALSE
    /\ rows = {} /\ nextId = 1
    /\ taken = 0 /\ reader = "read"
    /\ packet = [pkg |-> NoPackage, addr |-> AnyKey.addr]
    /\ addressBlocked = FALSE /\ failed = FALSE /\ outcome = "none"
    /\ tracker = [k \in Packets |-> "none"]
    /\ tracked = [k \in Packets |-> AnyKey]
    /\ held = FALSE
    /\ taps = 0 /\ edits = 0

-----------------------------------------------------------------------------
(* The block list: edited on disk, copied into the cache by the collector. *)

EditStore(p) ==
    /\ edits < MaxEdits
    /\ store' = IF p \in store THEN store \ {p} ELSE store \cup {p}
    /\ edits' = edits + 1
    /\ UNCHANGED <<taps, cache, cancelled, table, reader, handling, tracking, held>>

Collect ==
    /\ cache # store
    /\ cache' = store
    /\ UNCHANGED <<user, cancelled, table, reader, handling, tracking, held>>

(* The scope is cancelled: a stop, or a restart.                           *)
Cancel ==
    /\ "cancel" \in Faults /\ ~cancelled
    /\ cancelled' = TRUE
    /\ UNCHANGED <<user, cache, table, reader, handling, tracking, held>>

-----------------------------------------------------------------------------
(* The view model's operations on the table, one UPDATE each.              *)

(* Every row in `which' gets the flag.                                     *)
Update(which, flag) ==
    rows' = {IF r \in which THEN [r EXCEPT !.blocked = flag] ELSE r : r \in rows}

Tap ==
    /\ taps < MaxTaps /\ taps' = taps + 1
    /\ UNCHANGED <<store, edits, cache, cancelled, nextId, reader, handling, tracking>>

(* Mutant: the screen's flag is stored, not its opposite.                  *)
ToggleAddressBack(id, flag) ==
    /\ \E r \in rows : r.id = id
    /\ Tap
    /\ Update({r \in rows : r.id = id}, ~flag)
    /\ KeepHeld

(* updateBlockStatus: by id, with the opposite of the flag the screen      *)
(* showed, which may be an old one.                                        *)
ToggleAddress(id, flag) ==
    /\ \E r \in rows : r.id = id
    /\ Tap
    /\ Update({r \in rows : r.id = id}, flag)
    /\ KeepHeld

(* updateAllAddressesForApp.                                               *)
SetAll(p, flag) ==
    /\ Tap
    /\ Update({r \in rows : r.pkg = p}, flag)
    /\ KeepHeld

-----------------------------------------------------------------------------
(* UidResolver: the package a packet is taken to be from.                  *)

(* Only connections of TCP and UDP have an owner, and the system may not   *)
(* know it (any more).                                                     *)
FindUid(protocol, p) ==
    {IF protocol \in {"TCP", "UDP"} THEN FirstOfUid[p] ELSE NoPackage}
    \cup (IF "owner" \in Faults THEN {NoPackage} ELSE {})

(* Up to Android 9 the code asks with the name of the network layer,       *)
(* "IPv4"; from Android 10 on with the transport.                          *)
Resolved(p, addr) == FindUid(IF Modern THEN ProtocolOf[addr] ELSE "IPv4", p)

-----------------------------------------------------------------------------
(* The reader.                                                             *)

(* A packet arrives; of a known app it is tracked, and its address asked   *)
(* for.                                                                    *)
ReadPacket(p, addr, pkg) ==
    /\ reader = "read" /\ ~cancelled /\ taken < MaxPackets
    /\ pkg \in Resolved(p, addr)
    /\ taken' = taken + 1
    /\ packet' = [pkg |-> pkg, addr |-> addr]
    /\ addressBlocked' = FALSE /\ failed' = FALSE /\ outcome' = "none"
    /\ IF pkg = NoPackage
       THEN reader' = "decide" /\ UNCHANGED tracking
       ELSE /\ reader' = "query"
            /\ tracker' = [tracker EXCEPT ![taken'] = "query"]
            /\ tracked' = [tracked EXCEPT ![taken'] = [pkg |-> pkg, addr |-> addr]]
    /\ UNCHANGED <<user, cache, cancelled, table>>
    /\ held' = AddressBlocked'

(* Mutant: of several rows of the address the newest answers.              *)
QueryNewest ==
    /\ reader = "query" /\ ~cancelled
    /\ addressBlocked' = \E r \in Found([pkg |-> packet.pkg, addr |-> packet.addr]) :
                             r.blocked /\ \A s \in Found(Key(r)) : s.id <= r.id
    /\ reader' = "decide"
    /\ UNCHANGED <<user, cache, cancelled, table, taken, packet, failed, outcome, tracking, held>>

(* isAddressBlockedForApp: the flag of the row found, if any.              *)
QueryAddress ==
    /\ reader = "query" /\ ~cancelled
    /\ addressBlocked' = AddressBlocked
    /\ reader' = "decide"
    /\ UNCHANGED <<user, cache, cancelled, table, taken, packet, failed, outcome, tracking, held>>

(* Any exception counts as not blocked, that of a cancelled query included.*)
QueryFails ==
    /\ reader = "query" /\ (cancelled \/ "database" \in Faults)
    /\ addressBlocked' = FALSE /\ failed' = TRUE
    /\ reader' = "decide"
    /\ UNCHANGED <<user, cache, cancelled, table, taken, packet, outcome, tracking, held>>

(* The app is looked up in the cache and the packet dropped or forwarded.  *)
Decide ==
    /\ reader = "decide"
    /\ outcome' = IF AppBlocked \/ addressBlocked THEN "dropped" ELSE "forwarded"
    /\ reader' = "log"
    /\ UNCHANGED <<user, cache, cancelled, table, taken, packet, addressBlocked, failed, tracking, held>>

(* The log row is inserted elsewhere; pruning the log, if the app has a    *)
(* name, suspends the reader, and an exception of it ends the loop.        *)
LogPacket ==
    /\ reader = "log"
    /\ \/ reader' = "read"
       \/ (cancelled \/ "database" \in Faults) /\ reader' = "done"
    /\ UNCHANGED <<user, cache, cancelled, table, handling, tracking, held>>

(* The loop ends with its scope, or by an exception of anything in it.     *)
ReaderStops ==
    /\ reader = "read"
    /\ reader' = "done"
    /\ UNCHANGED <<user, cache, cancelled, table, handling, tracking, held>>

-----------------------------------------------------------------------------
(* trackAppAddress.                                                        *)

TrackerGoes(k, label) ==
    /\ tracker' = [tracker EXCEPT ![k] = label]
    /\ UNCHANGED <<user, cache, cancelled, reader, handling, tracked>>

(* Mutant: the coroutine is one of the service's scope.                    *)
TrackQueryScoped(k) ==
    /\ tracker[k] = "query" /\ ~cancelled
    /\ TrackerGoes(k, IF Found(tracked[k]) = {} THEN "insert" ELSE "touch")
    /\ UNCHANGED <<table, held>>

(* Mutant: of the coroutines of one address only the first inserts.        *)
TrackQueryOnce(k) ==
    /\ tracker[k] = "query"
    /\ TrackerGoes(k, IF Found(tracked[k]) = {} /\ ~\E j \in Packets : tracked[j] = tracked[k] /\ tracker[j] = "insert"
                      THEN "insert" ELSE "touch")
    /\ UNCHANGED <<table, held>>

TrackQuery(k) ==
    /\ tracker[k] = "query"
    /\ TrackerGoes(k, IF Found(tracked[k]) = {} THEN "insert" ELSE "touch")
    /\ UNCHANGED <<table, held>>

(* Mutant: a row replaces the rows of its address.                         *)
TrackInsertReplacing(k) ==
    /\ tracker[k] = "insert"
    /\ rows' = (rows \ Found(tracked[k])) \cup
                 {[id |-> nextId, pkg |-> tracked[k].pkg, addr |-> tracked[k].addr, blocked |-> FALSE]}
    /\ nextId' = nextId + 1
    /\ TrackerGoes(k, "done")
    /\ KeepHeld

(* Mutant: the id is not generated: every row has the entity's default.    *)
TrackInsertUnnumbered(k) ==
    /\ tracker[k] = "insert"
    /\ rows' = {[id |-> 0, pkg |-> tracked[k].pkg, addr |-> tracked[k].addr, blocked |-> FALSE]}
    /\ nextId' = nextId
    /\ TrackerGoes(k, "done")
    /\ KeepHeld

(* A row of a new id conflicts with none: REPLACE has nothing to replace.  *)
TrackInsert(k) ==
    /\ tracker[k] = "insert"
    /\ rows' = rows \cup
                 {[id |-> nextId, pkg |-> tracked[k].pkg, addr |-> tracked[k].addr, blocked |-> FALSE]}
    /\ nextId' = nextId + 1
    /\ TrackerGoes(k, "done")
    /\ KeepHeld

(* updateLastSeen writes a time stamp, which no decision reads.            *)
TrackTouch(k) ==
    /\ tracker[k] = "touch"
    /\ TrackerGoes(k, "done")
    /\ UNCHANGED <<table, held>>

(* An exception is logged and the coroutine ends.                          *)
TrackFails(k) ==
    /\ "database" \in Faults /\ tracker[k] \in {"query", "insert", "touch"}
    /\ TrackerGoes(k, "failed")
    /\ UNCHANGED <<table, held>>

Track(k) == TrackQuery(k) \/ TrackInsert(k) \/ TrackTouch(k)

-----------------------------------------------------------------------------
User ==
    \/ \E p \in Packages : EditStore(p) \/ \E flag \in BOOLEAN : SetAll(p, flag)
    \/ \E id \in 1 .. MaxPackets, flag \in BOOLEAN : ToggleAddress(id, flag)

Reader ==
    \/ \E p \in Packages, addr \in Addresses, pkg \in Packages \cup {NoPackage} :
          ReadPacket(p, addr, pkg)
    \/ QueryAddress \/ QueryFails \/ Decide \/ LogPacket \/ ReaderStops

Next ==
    \/ User \/ Reader \/ Collect \/ Cancel
    \/ \E k \in Packets : Track(k) \/ TrackFails(k)

Spec == Init /\ [][Next]_vars

(* Coroutines that can go on do; packets, the user and faults come as they *)
(* like.                                                                   *)
FairSpec == Spec /\ \A k \in Packets : WF_vars(Track(k))

-----------------------------------------------------------------------------
Rows == [id : Nat \ {0}, pkg : Packages, addr : Addresses, blocked : BOOLEAN]

TypeOK ==
    /\ store \in SUBSET Packages /\ cache \in SUBSET Packages
    /\ cancelled \in BOOLEAN
    /\ rows \in SUBSET Rows /\ nextId \in Nat \ {0}
    /\ taken \in 0 .. MaxPackets
    /\ reader \in {"read", "query", "decide", "log", "done"}
    /\ packet \in [pkg : Packages \cup {NoPackage}, addr : Addresses]
    /\ addressBlocked \in BOOLEAN /\ failed \in BOOLEAN /\ outcome \in {"none", "dropped", "forwarded"}
    /\ tracker \in [Packets -> {"none", "query", "insert", "touch", "done", "failed"}]
    /\ tracked \in [Packets -> Keys]
    /\ held \in BOOLEAN
    /\ taps \in 0 .. MaxTaps /\ edits \in 0 .. MaxEdits

(* An address that is blocked from the reading of a packet to the decision *)
(* is not let through, whatever trackers insert and users toggle           *)
(* meanwhile, as long as the query for that packet does not fail.          *)
AddressBlockHolds == outcome = "forwarded" /\ ~failed => ~held

(* What there is in TrackedEventually without time: a coroutine that found *)
(* a row of its address, and will touch it, or that is done, has a row in  *)
(* the table, whatever users and other coroutines did to it meanwhile.     *)
TrackedIsKnown ==
    \A k \in Packets : tracker[k] \in {"touch", "done"} => Found(tracked[k]) # {}

(* Tracking never changes which addresses are blocked: only the user does. *)
(* Two trackers that insert the same address leave the older row, the one  *)
(* the user may have blocked, in charge.                                   *)
OnlyUserChangesRules ==
    [][taps' = taps => \A key \in Keys : Blocked(key)' = Blocked(key)]_vars

(* An address with one row obeys the user; only a duplicate may be set in  *)
(* vain (updateBlockStatus is by id).                                      *)
LoneRowObeys ==
    [][\A r \in rows, flag \in BOOLEAN :
         Found(Key(r)) = {r} /\ ToggleAddress(r.id, flag) => Blocked(Key(r))' = flag]_vars

(* The table implements AddressBook, whose trackers look and insert in one *)
(* step: duplicates, whoever inserts them when, show only in toggles that  *)
(* are in vain.  This is what overlapping trackers and requests leave      *)
(* intact, not what the guide makes of blocking: see MCAddressBook.        *)
Book == INSTANCE AddressBook WITH
            known <- {Key(r) : r \in rows},
            blocked <- {key \in Keys : Blocked(key)},
            requests <- taps

BookSpec == Book!Spec

(* A packet of a known app gets its address into the table, also when the  *)
(* VPN is stopped right after, unless its own statement fails.             *)
TrackedEventually ==
    \A k \in Packets :
        tracker[k] = "query" ~> (Found(tracked[k]) # {} \/ tracker[k] = "failed")

-----------------------------------------------------------------------------
(* What the proofs need besides the types: an id names one row and new     *)
(* rows get a higher one (which is why a tracker's row never takes over),  *)
(* and what `held' says while the reader decides.                          *)

IdsOK ==
    /\ \A r \in rows : r.id < nextId
    /\ \A r, s \in rows : r.id = s.id => r = s

(* What has a row has a first one (LIMIT 1 finds something).               *)
FirstExists == \A r \in rows : \E s \in Found(Key(r)) : IsFirst(s)

HeldOK ==
    /\ Deciding => outcome = "none" /\ (held => AddressBlocked)
    /\ reader = "decide" /\ held /\ ~failed => addressBlocked

(* The inductive invariant: a row found for an address, the flag the query *)
(* brought, and the condition it stands for stay together whatever the     *)
(* trackers, the collector and the user do between the reader's steps.     *)
IInv == TypeOK /\ IdsOK /\ FirstExists /\ HeldOK /\ AddressBlockHolds /\ TrackedIsKnown
=============================================================================
