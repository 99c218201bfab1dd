------------------------- MODULE PacketFilter_proofs -------------------------
(* Proofs about PacketFilter, for any packages, addresses and bounds.      *)
EXTENDS PacketFilter, TLAPS

(* Keys exist, so the packet the reader starts with is one.                *)
LEMMA AnyKeyOK == AnyKey \in Keys
  <1>1. PICK p \in Packages, addr \in Addresses : TRUE
    BY PackagesAssumption, AddressesAssumption
  <1>2. [pkg |-> p, addr |-> addr] \in Keys
    BY DEF Keys
  <1>3. \E key \in Keys : TRUE
    BY <1>2
  <1> QED BY <1>3, Zenon DEF AnyKey

(* The owner found for a packet is a package or none.                      *)
LEMMA ResolvedOK ==
  ASSUME NEW p \in Packages, NEW addr \in Addresses
  PROVE  Resolved(p, addr) \subseteq Packages \cup {NoPackage}
  BY PackagesAssumption DEF Resolved, FindUid

LEMMA InitIInv == Init => IInv
  <1> SUFFICES ASSUME Init PROVE IInv
    OBVIOUS
  <1>1. AnyKey.pkg \in Packages /\ AnyKey.addr \in Addresses
    BY AnyKeyOK DEF Keys
  <1>2. taken \in 0 .. MaxPackets /\ taps \in 0 .. MaxTaps /\ edits \in 0 .. MaxEdits
    BY BoundsAssumption DEF Init
  <1>3. TypeOK
    <2>1. packet \in [pkg : Packages \cup {NoPackage}, addr : Addresses]
      BY <1>1 DEF Init
    <2>2. tracker \in [Packets -> {"none", "query", "insert", "touch", "done", "failed"}]
          /\ tracked \in [Packets -> Keys]
      BY AnyKeyOK DEF Init
    <2>3. nextId \in Nat \ {0}
      BY DEF Init
    <2>4. store \in SUBSET Packages /\ cache \in SUBSET Packages
          /\ rows \in SUBSET Rows /\ held \in BOOLEAN
      BY DEF Init
    <2>5. cancelled \in BOOLEAN /\ addressBlocked \in BOOLEAN /\ failed \in BOOLEAN
      BY DEF Init
    <2>6. reader \in {"read", "query", "decide", "log", "done"}
          /\ outcome \in {"none", "dropped", "forwarded"}
      BY DEF Init
    <2> QED BY <1>2, <2>1, <2>2, <2>3, <2>4, <2>5, <2>6 DEF TypeOK
  <1>4. IdsOK
    BY DEF Init, IdsOK
  <1>7. FirstExists
    BY DEF Init, FirstExists
  <1>5. HeldOK
    BY DEF Init, HeldOK, Deciding
  <1>6. AddressBlockHolds
    BY DEF Init, AddressBlockHolds
  <1>8. TrackedIsKnown
    BY DEF Init, TrackedIsKnown
  <1> QED BY <1>3, <1>4, <1>5, <1>6, <1>7, <1>8 DEF IInv

-----------------------------------------------------------------------------
(* Types, action by action.                                                *)

LEMMA TypeStep == TypeOK /\ [Next]_vars => TypeOK'
  <1> SUFFICES ASSUME TypeOK, [Next]_vars PROVE TypeOK'
    OBVIOUS
  <1> USE DEF TypeOK
  <1>1. ASSUME NEW p \in Packages, EditStore(p) PROVE TypeOK'
    <2>1. edits' \in 0 .. MaxEdits
      BY <1>1, BoundsAssumption DEF EditStore
    <2> QED BY <1>1, <2>1 DEF EditStore, table, handling, tracking
  <1>2. ASSUME NEW p \in Packages, NEW flag \in BOOLEAN, SetAll(p, flag) PROVE TypeOK'
    <2>1. taps' \in 0 .. MaxTaps
      BY <1>2, BoundsAssumption DEF SetAll, Tap
    <2>2. rows' \in SUBSET Rows
      BY <1>2 DEF SetAll, Update, Rows
    <2>3. held' \in BOOLEAN
      BY <1>2 DEF SetAll, KeepHeld
    <2> QED BY <1>2, <2>1, <2>2, <2>3 DEF SetAll, Tap, handling, tracking
  <1>3. ASSUME NEW id \in 1 .. MaxPackets, NEW flag \in BOOLEAN, ToggleAddress(id, flag) PROVE TypeOK'
    <2>1. taps' \in 0 .. MaxTaps
      BY <1>3, BoundsAssumption DEF ToggleAddress, Tap
    <2>2. rows' \in SUBSET Rows
      BY <1>3 DEF ToggleAddress, Update, Rows
    <2>3. held' \in BOOLEAN
      BY <1>3 DEF ToggleAddress, KeepHeld
    <2> QED BY <1>3, <2>1, <2>2, <2>3 DEF ToggleAddress, Tap, handling, tracking
  <1>4. ASSUME NEW p \in Packages, NEW addr \in Addresses, NEW pkg \in Packages \cup {NoPackage},
               ReadPacket(p, addr, pkg)
        PROVE  TypeOK'
    <2>1. taken' \in 0 .. MaxPackets
      BY <1>4, BoundsAssumption DEF ReadPacket
    <2>2. packet' \in [pkg : Packages \cup {NoPackage}, addr : Addresses]
      BY <1>4 DEF ReadPacket
    <2>3. reader' \in {"read", "query", "decide", "log", "done"}
      BY <1>4 DEF ReadPacket
    <2>4. tracker' \in [Packets -> {"none", "query", "insert", "touch", "done", "failed"}]
      BY <1>4 DEF ReadPacket, tracking
    <2>5. tracked' \in [Packets -> Keys]
      <3>1. CASE pkg = NoPackage
        BY <1>4, <3>1 DEF ReadPacket, tracking
      <3>2. CASE pkg # NoPackage
        <4>1. [pkg |-> pkg, addr |-> addr] \in Keys
          BY <3>2 DEF Keys
        <4> QED BY <1>4, <3>2, <4>1 DEF ReadPacket
      <3> QED BY <3>1, <3>2
    <2>6. held' \in BOOLEAN
      BY <1>4 DEF ReadPacket, AddressBlocked, Blocked
    <2> QED BY <1>4, <2>1, <2>2, <2>3, <2>4, <2>5, <2>6 DEF ReadPacket, user, table
  <1>5. ASSUME QueryAddress PROVE TypeOK'
    <2>1. addressBlocked' \in BOOLEAN
      BY <1>5 DEF QueryAddress, AddressBlocked, Blocked
    <2> QED BY <1>5, <2>1 DEF QueryAddress, user, table, tracking
  <1>6. ASSUME QueryFails PROVE TypeOK'
    BY <1>6 DEF QueryFails, user, table, tracking
  <1>7. ASSUME Decide PROVE TypeOK'
    BY <1>7 DEF Decide, user, table, tracking
  <1>8. ASSUME LogPacket \/ ReaderStops PROVE TypeOK'
    BY <1>8 DEF LogPacket, ReaderStops, user, table, handling, tracking
  <1>9. ASSUME Collect PROVE TypeOK'
    BY <1>9 DEF Collect, user, table, handling, tracking
  <1>10. ASSUME Cancel PROVE TypeOK'
    BY <1>10 DEF Cancel, user, table, handling, tracking
  <1>11. ASSUME NEW k \in Packets, TrackInsert(k) PROVE TypeOK'
    <2>1. nextId' \in Nat \ {0}
      BY <1>11 DEF TrackInsert
    <2>3. [id |-> nextId, pkg |-> tracked[k].pkg, addr |-> tracked[k].addr, blocked |-> FALSE] \in Rows
      BY DEF Rows, Keys
    <2>4. rows' \in SUBSET Rows
      BY <1>11, <2>3 DEF TrackInsert
    <2>2. held' \in BOOLEAN
      BY <1>11 DEF TrackInsert, TrackerGoes, KeepHeld
    <2> QED BY <1>11, <2>1, <2>2, <2>4 DEF TrackInsert, TrackerGoes, user, handling
  <1>12. ASSUME NEW k \in Packets, TrackQuery(k) \/ TrackTouch(k) \/ TrackFails(k) PROVE TypeOK'
    BY <1>12 DEF TrackQuery, TrackTouch, TrackFails, TrackerGoes, user, handling, table
  <1>13. CASE UNCHANGED vars
    BY <1>13 DEF vars, user, table, handling, tracking
  <1> QED
    BY <1>1, <1>2, <1>3, <1>4, <1>5, <1>6, <1>7, <1>8, <1>9, <1>10, <1>11, <1>12, <1>13
    DEF Next, User, Reader, Track

-----------------------------------------------------------------------------
(* Ids: only TrackInsert adds a row, above all others; the user's updates  *)
(* keep ids and keys.                                                      *)

LEMMA UpdateKeepsIds ==
  ASSUME TypeOK, IdsOK, NEW which \in SUBSET rows, NEW flag \in BOOLEAN, Update(which, flag),
         nextId' = nextId
  PROVE  IdsOK'
  <1> DEFINE up(r) == IF r \in which THEN [r EXCEPT !.blocked = flag] ELSE r
  <1>1. rows' = {up(r) : r \in rows}
    BY DEF Update
  <1>2. \A r \in rows : up(r).id = r.id
    BY DEF TypeOK, Rows
  <1>3. \A r \in rows' : r.id < nextId'
    BY <1>1, <1>2 DEF IdsOK
  <1>4. ASSUME NEW r \in rows', NEW s \in rows', r.id = s.id PROVE r = s
    <2>1. PICK a \in rows : r = up(a)
      BY <1>1
    <2>2. PICK b \in rows : s = up(b)
      BY <1>1
    <2>3. a = b
      BY <1>2, <1>4, <2>1, <2>2 DEF IdsOK
    <2> QED BY <2>1, <2>2, <2>3
  <1> QED BY <1>3, <1>4 DEF IdsOK

LEMMA IdsStep == TypeOK /\ IdsOK /\ [Next]_vars => IdsOK'
  <1> SUFFICES ASSUME TypeOK, IdsOK, [Next]_vars PROVE IdsOK'
    OBVIOUS
  <1>1. CASE UNCHANGED table
    BY <1>1 DEF table, IdsOK
  <1>2. ASSUME NEW p \in Packages, NEW flag \in BOOLEAN, SetAll(p, flag) PROVE IdsOK'
    BY <1>2, UpdateKeepsIds DEF SetAll, Tap
  <1>3. ASSUME NEW id \in 1 .. MaxPackets, NEW flag \in BOOLEAN, ToggleAddress(id, flag) PROVE IdsOK'
    BY <1>3, UpdateKeepsIds DEF ToggleAddress, Tap
  <1>4. ASSUME NEW k \in Packets, TrackInsert(k) PROVE IdsOK'
    <2> DEFINE new == [id |-> nextId, pkg |-> tracked[k].pkg, addr |-> tracked[k].addr, blocked |-> FALSE]
    <2>1. rows' = rows \cup {new} /\ nextId' = nextId + 1 /\ new.id = nextId
      BY <1>4 DEF TrackInsert
    <2>2. nextId \in Nat /\ \A r \in rows : r.id \in Nat /\ r.id < nextId
      BY DEF TypeOK, Rows, IdsOK
    <2> HIDE DEF new
    <2>3. \A r \in rows' : r.id < nextId'
      BY <2>1, <2>2
    <2>4. \A r, s \in rows' : r.id = s.id => r = s
      BY <2>1, <2>2 DEF IdsOK
    <2> QED BY <2>3, <2>4 DEF IdsOK
  <1>5. ASSUME Reader \/ Collect \/ Cancel \/ (\E p \in Packages : EditStore(p)) PROVE UNCHANGED table
    BY <1>5 DEF Reader, ReadPacket, QueryAddress, QueryFails, Decide, LogPacket, ReaderStops,
                Collect, Cancel, EditStore
  <1>6. ASSUME NEW k \in Packets, TrackQuery(k) \/ TrackTouch(k) \/ TrackFails(k) PROVE UNCHANGED table
    BY <1>6 DEF TrackQuery, TrackTouch, TrackFails
  <1>7. ASSUME UNCHANGED vars PROVE UNCHANGED table
    BY <1>7 DEF vars, table
  <1> QED BY <1>1, <1>2, <1>3, <1>4, <1>5, <1>6, <1>7 DEF Next, User, Track

-----------------------------------------------------------------------------
(* First rows: an update leaves the first row of an address first, a new   *)
(* row is first only where there was none.                                 *)

(* What an update makes of a row.                                          *)
Up(which, flag, r) == IF r \in which THEN [r EXCEPT !.blocked = flag] ELSE r

LEMMA UpKeeps ==
  ASSUME NEW r \in Rows, NEW which, NEW flag \in BOOLEAN
  PROVE  /\ Up(which, flag, r).id = r.id
         /\ Key(Up(which, flag, r)) = Key(r)
         /\ Up(which, flag, r).blocked = (IF r \in which THEN flag ELSE r.blocked)
  BY DEF Up, Rows, Key

LEMMA UpdateKeepsFirst ==
  ASSUME TypeOK, NEW which \in SUBSET rows, NEW flag \in BOOLEAN, Update(which, flag),
         NEW r \in rows, NEW x, x = Up(which, flag, r)
  PROVE  x \in rows' /\ Key(x) = Key(r) /\ (IsFirst(r) <=> IsFirst(x)')
  <1>1. rows' = {Up(which, flag, s) : s \in rows}
    BY DEF Update, Up
  <1>2. \A s \in rows : /\ Up(which, flag, s).id = s.id
                        /\ Key(Up(which, flag, s)) = Key(s)
    BY UpKeeps DEF TypeOK
  <1>3. x \in rows' /\ Key(x) = Key(r) /\ x.id = r.id
    BY <1>1, <1>2
  <1>4. ASSUME IsFirst(r), NEW s \in rows', Key(s) = Key(x) PROVE x.id <= s.id
    <2>1. PICK t \in rows : s = Up(which, flag, t)
      BY <1>1
    <2>2. t \in Found(Key(r)) /\ t.id = s.id
      BY <1>2, <1>3, <1>4, <2>1 DEF Found
    <2> QED BY <1>3, <1>4, <2>2 DEF IsFirst
  <1>5. ASSUME IsFirst(x)', NEW t \in rows, Key(t) = Key(r) PROVE r.id <= t.id
    <2>1. Up(which, flag, t) \in rows'
      BY <1>1
    <2>2. \A s \in rows' : Key(s) = Key(x) => x.id <= s.id
      BY <1>5 DEF IsFirst, Found, Key
    <2>3. x.id <= Up(which, flag, t).id
      BY <1>2, <1>3, <1>5, <2>1, <2>2
    <2> QED BY <1>2, <1>3, <2>3
  <1>6. IsFirst(r) => IsFirst(x)'
    BY <1>4 DEF IsFirst, Found, Key
  <1>7. IsFirst(x)' => IsFirst(r)
    BY <1>5 DEF IsFirst, Found
  <1> QED BY <1>3, <1>6, <1>7

LEMMA UpdateKeepsFirsts ==
  ASSUME TypeOK, FirstExists, NEW which \in SUBSET rows, NEW flag \in BOOLEAN, Update(which, flag)
  PROVE  FirstExists'
  <1> SUFFICES ASSUME NEW x \in rows' PROVE \E y \in Found(Key(x))' : IsFirst(y)'
    BY DEF FirstExists, Key
  <1>1. PICK r \in rows : x = Up(which, flag, r)
    BY DEF Update, Up
  <1>2. Key(x) = Key(r)
    BY <1>1, UpdateKeepsFirst
  <1>3. PICK s \in Found(Key(r)) : IsFirst(s)
    BY DEF FirstExists
  <1>4. s \in rows /\ Key(s) = Key(r)
    BY <1>3 DEF Found
  <1>5. PICK y : y = Up(which, flag, s)
    OBVIOUS
  <1>6. y \in rows' /\ Key(y) = Key(s) /\ IsFirst(y)'
    BY <1>3, <1>4, <1>5, UpdateKeepsFirst
  <1>7. y \in Found(Key(x))'
    BY <1>2, <1>4, <1>6 DEF Found, Key
  <1> QED BY <1>6, <1>7

LEMMA InsertKeepsFirsts ==
  ASSUME TypeOK, IdsOK, FirstExists, NEW new \in Rows, new.id = nextId, rows' = rows \cup {new}
  PROVE  FirstExists'
  <1>1. \A r \in rows : r.id \in Nat /\ r.id < new.id
    BY DEF TypeOK, Rows, IdsOK
  <1>2. new.id \in Nat
    BY DEF Rows
  <1> SUFFICES ASSUME NEW x \in rows' PROVE \E y \in Found(Key(x))' : IsFirst(y)'
    BY DEF FirstExists, Key
  <1>3. CASE Found(Key(x)) = {}
    <2>1. x = new /\ \A s \in rows' : Key(s) = Key(x) => s = x
      BY <1>3 DEF Found
    <2>2. x \in Found(Key(x))' /\ IsFirst(x)'
      BY <1>2, <2>1 DEF Found, IsFirst, Key
    <2> QED BY <2>2
  <1>4. CASE Found(Key(x)) # {}
    <2>1. PICK r \in rows : Key(r) = Key(x)
      BY <1>4 DEF Found
    <2>2. PICK y \in Found(Key(r)) : IsFirst(y)
      BY DEF FirstExists
    <2>3. y \in rows /\ Key(y) = Key(x)
      BY <2>1, <2>2 DEF Found
    <2>4. \A s \in rows' : Key(s) = Key(y) => y.id <= s.id
      BY <1>1, <1>2, <2>2, <2>3 DEF IsFirst, Found
    <2>5. y \in Found(Key(x))' /\ IsFirst(y)'
      BY <2>3, <2>4 DEF Found, IsFirst, Key
    <2> QED BY <2>5
  <1> QED BY <1>3, <1>4

LEMMA SameFirsts ==
  ASSUME FirstExists, rows' = rows
  PROVE  FirstExists'
  BY DEF FirstExists, Found, IsFirst, Key

(* A row a tracker inserts.                                                *)
LEMMA NewRow ==
  ASSUME TypeOK, NEW k \in Packets, TrackInsert(k)
  PROVE  \E new \in Rows : /\ new.id = nextId /\ ~new.blocked /\ Key(new) = tracked[k]
                           /\ rows' = rows \cup {new}
  <1> DEFINE new == [id |-> nextId, pkg |-> tracked[k].pkg, addr |-> tracked[k].addr, blocked |-> FALSE]
  <1>1. new \in Rows /\ new.id = nextId /\ ~new.blocked
    BY DEF TypeOK, Rows, Keys
  <1>2. Key(new) = tracked[k]
    BY DEF TypeOK, Keys, Key
  <1>3. rows' = rows \cup {new}
    BY DEF TrackInsert
  <1> HIDE DEF new
  <1> QED BY <1>1, <1>2, <1>3

(* The steps that leave the table as it is.                                *)
LEMMA TableSteps ==
  ASSUME \/ Reader \/ Collect \/ Cancel \/ UNCHANGED vars
         \/ \E p \in Packages : EditStore(p)
         \/ \E k \in Packets : TrackQuery(k) \/ TrackTouch(k) \/ TrackFails(k)
  PROVE  UNCHANGED <<rows, nextId, taps>>
  BY DEF Reader, ReadPacket, QueryAddress, QueryFails, Decide, LogPacket, ReaderStops, Collect,
         Cancel, EditStore, TrackQuery, TrackTouch, TrackFails, TrackerGoes, vars, table, user

LEMMA FirstStep == TypeOK /\ IdsOK /\ FirstExists /\ [Next]_vars => FirstExists'
  <1> SUFFICES ASSUME TypeOK, IdsOK, FirstExists, [Next]_vars PROVE FirstExists'
    OBVIOUS
  <1>1. ASSUME NEW p \in Packages, NEW flag \in BOOLEAN, SetAll(p, flag) PROVE FirstExists'
    BY <1>1, UpdateKeepsFirsts DEF SetAll
  <1>2. ASSUME NEW id \in 1 .. MaxPackets, NEW flag \in BOOLEAN, ToggleAddress(id, flag)
        PROVE  FirstExists'
    BY <1>2, UpdateKeepsFirsts DEF ToggleAddress
  <1>3. ASSUME NEW k \in Packets, TrackInsert(k) PROVE FirstExists'
    BY <1>3, NewRow, InsertKeepsFirsts
  <1>4. CASE rows' = rows
    BY <1>4, SameFirsts
  <1> QED BY <1>1, <1>2, <1>3, <1>4, TableSteps DEF Next, User, Track

-----------------------------------------------------------------------------
(* What `held' says.  Either a step keeps `held' up to date (KeepHeld), or *)
(* it changes nothing that the block of the packet's address is about.     *)

HoldOK == HeldOK /\ AddressBlockHolds

LEMMA SameBlocked ==
  ASSUME UNCHANGED <<packet, rows>>
  PROVE  AddressBlocked' = AddressBlocked
  BY DEF AddressBlocked, Blocked, Found, IsFirst, Key

LEMMA KeepHoldOK ==
  ASSUME TypeOK, HoldOK, KeepHeld, UNCHANGED <<reader, outcome, addressBlocked, failed>>
  PROVE  HoldOK'
  <1>1. held' => held
    BY DEF KeepHeld
  <1>2. Deciding /\ held' => AddressBlocked'
    BY DEF KeepHeld
  <1>3. Deciding' = Deciding
    BY DEF Deciding
  <1> QED BY <1>1, <1>2, <1>3 DEF HoldOK, HeldOK, AddressBlockHolds

LEMMA IdleHoldOK ==
  ASSUME TypeOK, HoldOK,
         UNCHANGED <<held, packet, rows, reader, outcome, addressBlocked, failed>>
  PROVE  HoldOK'
  <1>1. AddressBlocked' = AddressBlocked
    BY SameBlocked
  <1>2. Deciding' = Deciding
    BY DEF Deciding
  <1> QED BY <1>1, <1>2 DEF HoldOK, HeldOK, AddressBlockHolds

LEMMA HoldStep == TypeOK /\ HoldOK /\ [Next]_vars => HoldOK'
  <1> SUFFICES ASSUME TypeOK, HoldOK, [Next]_vars PROVE HoldOK'
    OBVIOUS
  <1>1. ASSUME (\E k \in Packets : TrackInsert(k))
               \/ (\E p \in Packages, flag \in BOOLEAN : SetAll(p, flag))
               \/ (\E id \in 1 .. MaxPackets, flag \in BOOLEAN : ToggleAddress(id, flag))
        PROVE  HoldOK'
    <2>1. KeepHeld /\ UNCHANGED <<reader, handling>>
      BY <1>1 DEF TrackInsert, TrackerGoes, SetAll, ToggleAddress, Tap
    <2> QED BY <2>1, KeepHoldOK DEF handling
  <1>2. ASSUME Collect \/ Cancel \/ (\E p \in Packages : EditStore(p))
               \/ (\E k \in Packets : TrackQuery(k) \/ TrackTouch(k) \/ TrackFails(k))
               \/ UNCHANGED vars
        PROVE  HoldOK'
    <2>1. UNCHANGED <<held, table, reader, handling>>
      BY <1>2 DEF Collect, Cancel, EditStore, TrackQuery, TrackTouch, TrackFails, TrackerGoes, vars
    <2> QED BY <2>1, IdleHoldOK DEF handling, table
  <1>3. ASSUME NEW p \in Packages, NEW addr \in Addresses, NEW pkg \in Packages \cup {NoPackage},
               ReadPacket(p, addr, pkg)
        PROVE  HoldOK'
    <2>1. outcome' = "none" /\ reader' \in {"query", "decide"} /\ (held' => AddressBlocked')
      BY <1>3 DEF ReadPacket
    <2>2. reader' = "decide" => ~held'
      <3>1. reader' = "decide" => packet'.pkg = NoPackage
        BY <1>3 DEF ReadPacket
      <3> QED BY <2>1, <3>1 DEF AddressBlocked
    <2> QED BY <2>1, <2>2 DEF HoldOK, HeldOK, AddressBlockHolds
  <1>4. ASSUME QueryAddress \/ QueryFails PROVE HoldOK'
    <2>1. reader = "query" /\ reader' = "decide"
          /\ UNCHANGED <<held, rows, packet, outcome>>
      BY <1>4 DEF QueryAddress, QueryFails, table
    <2>2. outcome' = "none" /\ (held => AddressBlocked)
      BY <2>1 DEF HoldOK, HeldOK, Deciding
    <2>3. held' => AddressBlocked'
      BY <2>1, <2>2, SameBlocked
    <2>4. held' /\ ~failed' => addressBlocked'
      <3>1. CASE QueryAddress
        <4>1. addressBlocked' = AddressBlocked
          BY <3>1 DEF QueryAddress
        <4> QED BY <2>1, <2>2, <4>1, Zenon
      <3>2. CASE QueryFails
        BY <3>2 DEF QueryFails
      <3> QED BY <1>4, <3>1, <3>2
    <2> QED BY <2>1, <2>2, <2>3, <2>4 DEF HoldOK, HeldOK, AddressBlockHolds
  <1>5. ASSUME Decide PROVE HoldOK'
    <2>1. reader = "decide" /\ reader' = "log" /\ held' = held /\ failed' = failed
          /\ (outcome' = "forwarded" => ~addressBlocked)
      BY <1>5 DEF Decide
    <2>2. held /\ ~failed => addressBlocked
      BY <2>1 DEF HoldOK, HeldOK
    <2> QED BY <2>1, <2>2 DEF HoldOK, HeldOK, Deciding, AddressBlockHolds
  <1>6. ASSUME LogPacket \/ ReaderStops PROVE HoldOK'
    <2>1. ~Deciding' /\ reader' # "decide" /\ UNCHANGED <<outcome, held, failed>>
      BY <1>6 DEF LogPacket, ReaderStops, Deciding, handling
    <2> QED BY <2>1 DEF HoldOK, HeldOK, AddressBlockHolds
  <1> QED BY <1>1, <1>2, <1>3, <1>4, <1>5, <1>6 DEF Next, User, Reader, Track

-----------------------------------------------------------------------------
(* No address that has a row loses it.                                     *)
LEMMA KnownStays ==
  ASSUME TypeOK, [Next]_vars, NEW key, Found(key) # {}
  PROVE  Found(key)' # {}
  <1>1. PICK r \in rows : Key(r) = key
    BY DEF Found
  <1>2. ASSUME NEW which \in SUBSET rows, NEW flag \in BOOLEAN, Update(which, flag)
        PROVE  Found(key)' # {}
    <2>1. PICK x : x = Up(which, flag, r)
      OBVIOUS
    <2>3. r \in Rows
      BY DEF TypeOK
    <2>4. x \in rows'
      BY <1>2, <2>1 DEF Update, Up
    <2>2. x \in rows' /\ Key(x) = key
      BY <1>1, <2>1, <2>3, <2>4, UpKeeps
    <2> QED BY <2>2 DEF Found, Key
  <1>3. ASSUME NEW p \in Packages, NEW flag \in BOOLEAN, SetAll(p, flag) PROVE Found(key)' # {}
    BY <1>2, <1>3 DEF SetAll
  <1>4. ASSUME NEW id \in 1 .. MaxPackets, NEW flag \in BOOLEAN, ToggleAddress(id, flag)
        PROVE  Found(key)' # {}
    BY <1>2, <1>4 DEF ToggleAddress
  <1>5. ASSUME rows \subseteq rows' PROVE Found(key)' # {}
    BY <1>1, <1>5 DEF Found, Key
  <1>6. ASSUME NEW k \in Packets, TrackInsert(k) PROVE rows \subseteq rows'
    BY <1>6 DEF TrackInsert
  <1> QED BY <1>3, <1>4, <1>5, <1>6, TableSteps DEF Next, User, Track

LEMMA KnownStep == TypeOK /\ TrackedIsKnown /\ [Next]_vars => TrackedIsKnown'
  <1> SUFFICES ASSUME TypeOK, TrackedIsKnown, [Next]_vars,
                      NEW k \in Packets, tracker'[k] \in {"touch", "done"}
               PROVE  Found(tracked[k])' # {}
    BY DEF TrackedIsKnown
  <1>1. CASE tracker[k] \in {"touch", "done"} /\ tracked'[k] = tracked[k]
    <2>1. Found(tracked[k]) # {}
      BY <1>1 DEF TrackedIsKnown
    <2>2. PICK key : key = tracked[k]
      OBVIOUS
    <2>3. Found(key)' # {}
      BY <2>1, <2>2, KnownStays
    <2> QED BY <1>1, <2>2, <2>3 DEF Found
  <1>2. CASE UNCHANGED tracking
    BY <1>1, <1>2 DEF tracking
  <1>3. ASSUME NEW j \in Packets, TrackQuery(j) \/ TrackTouch(j) \/ TrackFails(j)
        PROVE  Found(tracked[k])' # {}
    <2>1. tracked' = tracked /\ rows' = rows /\ (j # k => tracker'[k] = tracker[k])
      BY <1>3 DEF TrackQuery, TrackTouch, TrackFails, TrackerGoes, table, TypeOK
    <2>2. CASE j # k
      BY <1>1, <2>1, <2>2
    <2>3. CASE j = k
      <3>1. tracker[k] = "touch" \/ Found(tracked[k]) # {}
        BY <1>3, <2>3 DEF TrackQuery, TrackTouch, TrackFails, TrackerGoes, TypeOK
      <3>2. Found(tracked[k]) # {}
        BY <3>1 DEF TrackedIsKnown
      <3> QED BY <2>1, <3>2 DEF Found, Key
    <2> QED BY <2>2, <2>3
  <1>4. ASSUME NEW j \in Packets, TrackInsert(j) PROVE Found(tracked[k])' # {}
    <2>1. tracked' = tracked /\ (j # k => tracker'[k] = tracker[k])
      BY <1>4 DEF TrackInsert, TrackerGoes, TypeOK
    <2>2. CASE j # k
      BY <1>1, <2>1, <2>2
    <2>3. CASE j = k
      <3> DEFINE x == [id |-> nextId, pkg |-> tracked[k].pkg, addr |-> tracked[k].addr, blocked |-> FALSE]
      <3>1. x \in rows'
        BY <1>4, <2>3 DEF TrackInsert
      <3>2. Key(x) = tracked[k]
        BY DEF Key, Keys, TypeOK
      <3> HIDE DEF x
      <3> QED BY <2>1, <3>1, <3>2 DEF Found, Key
    <2> QED BY <2>2, <2>3
  <1>5. ASSUME NEW p \in Packages, NEW addr \in Addresses, NEW pkg \in Packages \cup {NoPackage},
               ReadPacket(p, addr, pkg)
        PROVE  Found(tracked[k])' # {}
    <2>1. CASE UNCHANGED tracking
      BY <1>2, <2>1
    <2>2. CASE ~UNCHANGED tracking
      <3>1. /\ tracker' = [tracker EXCEPT ![taken'] = "query"]
            /\ tracked' = [tracked EXCEPT ![taken'] = [pkg |-> pkg, addr |-> addr]]
        BY <1>5, <2>2 DEF ReadPacket
      <3>2. k # taken'
        BY <3>1 DEF TypeOK
      <3> QED BY <1>1, <3>1, <3>2 DEF TypeOK
    <2> QED BY <2>1, <2>2
  <1>6. CASE \/ \E p \in Packages : EditStore(p) \/ \E flag \in BOOLEAN : SetAll(p, flag)
             \/ \E id \in 1 .. MaxPackets, flag \in BOOLEAN : ToggleAddress(id, flag)
             \/ QueryAddress \/ QueryFails \/ Decide \/ LogPacket \/ ReaderStops
             \/ Collect \/ Cancel \/ UNCHANGED vars
    <2>1. UNCHANGED tracking
      BY <1>6 DEF EditStore, SetAll, ToggleAddress, Tap, QueryAddress, QueryFails, Decide, LogPacket,
                  ReaderStops, Collect, Cancel, vars
    <2> QED BY <1>2, <2>1
  <1> QED BY <1>3, <1>4, <1>5, <1>6 DEF Next, User, Reader, Track

-----------------------------------------------------------------------------
LEMMA NextIInv == IInv /\ [Next]_vars => IInv'
  <1> SUFFICES ASSUME IInv, [Next]_vars PROVE IInv'
    OBVIOUS
  <1>1. TypeOK'
    BY TypeStep DEF IInv
  <1>2. IdsOK'
    BY IdsStep DEF IInv
  <1>3. HoldOK'
    BY HoldStep DEF IInv, HoldOK
  <1>4. FirstExists'
    BY FirstStep DEF IInv
  <1>5. TrackedIsKnown'
    BY KnownStep DEF IInv
  <1> QED BY <1>1, <1>2, <1>3, <1>4, <1>5 DEF IInv, HoldOK

(* The inductive invariant holds in every reachable state.                 *)
THEOREM Inductive == Spec => []IInv
  <1>1. Init => IInv
    BY InitIInv
  <1>2. IInv /\ [Next]_vars => IInv'
    BY NextIInv
  <1> QED BY <1>1, <1>2, PTL DEF Spec

(* The variables of the filter keep their types.                           *)
THEOREM TypeCorrect == Spec => []TypeOK
  <1>1. IInv => TypeOK
    BY DEF IInv
  <1> QED BY <1>1, Inductive, PTL

(* A row that a tracking coroutine has found or made is there as long as   *)
(* the coroutine counts on it, and for good.                               *)
THEOREM TrackedStaysKnown == Spec => []TrackedIsKnown
  <1>1. IInv => TrackedIsKnown
    BY DEF IInv
  <1> QED BY <1>1, Inductive, PTL

(* An address that is blocked while a packet to it is decided on is not    *)
(* let through, if the query succeeds.                                     *)
THEOREM AddressBlocksHold == Spec => []AddressBlockHolds
  <1>1. IInv => AddressBlockHolds
    BY DEF IInv
  <1> QED BY <1>1, Inductive, PTL

(* A row above all others does not change what is found first.             *)
LEMMA YoungRowIsNotAsked ==
  ASSUME TypeOK, IdsOK, NEW new \in Rows, rows' = rows \cup {new}, new.id = nextId,
         ~new.blocked, NEW key \in Keys
  PROVE  Blocked(key)' = Blocked(key)
  <1>1. \A r \in rows : r.id \in Nat /\ r.id < new.id
    BY DEF TypeOK, Rows, IdsOK
  <1>2. new.id \in Nat
    BY DEF Rows
  <1>3. ASSUME Blocked(key) PROVE Blocked(key)'
    <2>1. PICK r \in Found(key) : r.blocked /\ IsFirst(r)
      BY <1>3 DEF Blocked
    <2>2. r \in rows /\ Key(r) = key
      BY <2>1 DEF Found
    <2>3. \A s \in rows' : Key(s) = key => r.id <= s.id
      BY <1>1, <1>2, <2>1, <2>2 DEF IsFirst, Found
    <2>4. r \in Found(key)' /\ IsFirst(r)'
      BY <2>2, <2>3 DEF IsFirst, Found, Key
    <2> QED BY <2>1, <2>4 DEF Blocked
  <1>4. ASSUME Blocked(key)' PROVE Blocked(key)
    <2>1. PICK r \in Found(key)' : r.blocked /\ IsFirst(r)'
      BY <1>4 DEF Blocked
    <2>2. r # new /\ r \in rows /\ Key(r) = key
      BY <2>1 DEF Found, Key
    <2>3. \A s \in rows : Key(s) = key => r.id <= s.id
      BY <2>1, <2>2 DEF IsFirst, Found, Key
    <2>4. r \in Found(key) /\ IsFirst(r)
      BY <2>2, <2>3 DEF IsFirst, Found
    <2> QED BY <2>1, <2>4 DEF Blocked
  <1>5. Blocked(key) \in BOOLEAN /\ Blocked(key)' \in BOOLEAN
    BY DEF Blocked
  <1> QED BY <1>3, <1>4, <1>5

(* Whatever is tracked concurrently, duplicates included, only the user    *)
(* changes which addresses are blocked.                                    *)
THEOREM RulesAreTheUsers == Spec => OnlyUserChangesRules
  <1> DEFINE Same == taps' = taps => \A key \in Keys : Blocked(key)' = Blocked(key)
  <1>1. IInv /\ [Next]_vars => [Same]_vars
    <2> SUFFICES ASSUME IInv, Next PROVE Same
      BY DEF vars
    <2>1. CASE rows' = rows
      BY <2>1 DEF Blocked, Found, IsFirst, Key
    <2>2. ASSUME NEW k \in Packets, TrackInsert(k) PROVE Same
      BY <2>2, NewRow, YoungRowIsNotAsked DEF IInv
    <2>3. ASSUME NEW p \in Packages, NEW flag \in BOOLEAN, SetAll(p, flag) PROVE Same
      BY <2>3 DEF SetAll, Tap, IInv, TypeOK
    <2>4. ASSUME NEW id \in 1 .. MaxPackets, NEW flag \in BOOLEAN, ToggleAddress(id, flag) PROVE Same
      BY <2>4 DEF ToggleAddress, Tap, IInv, TypeOK
    <2> QED BY <2>1, <2>2, <2>3, <2>4, TableSteps DEF Next, User, Track
  <1> QED BY <1>1, Inductive, PTL DEF Spec, OnlyUserChangesRules

-----------------------------------------------------------------------------
(* What an update does to the rules: it sets the addresses whose first row *)
(* it writes.                                                              *)

Known == {Key(r) : r \in rows}
Forbidden == {key \in Keys : Blocked(key)}
FirstsOf(which) == {Key(r) : r \in {w \in which : IsFirst(w)}}

LEMMA OneFirst ==
  ASSUME TypeOK, IdsOK, NEW r \in rows, NEW s \in rows, Key(r) = Key(s), IsFirst(r), IsFirst(s)
  PROVE  r = s
  <1>1. r.id <= s.id /\ s.id <= r.id
    BY DEF IsFirst, Found
  <1>2. r.id \in Nat /\ s.id \in Nat
    BY DEF TypeOK, Rows
  <1> QED BY <1>1, <1>2 DEF IdsOK

LEMMA UpdateMarks ==
  ASSUME TypeOK, IdsOK, NEW which \in SUBSET rows, NEW flag \in BOOLEAN, Update(which, flag)
  PROVE  /\ Known' = Known
         /\ Forbidden' = IF flag THEN Forbidden \cup FirstsOf(which) ELSE Forbidden \ FirstsOf(which)
  <1>1. rows' = {Up(which, flag, s) : s \in rows}
    BY DEF Update, Up
  <1>2. \A s \in rows : /\ Key(Up(which, flag, s)) = Key(s)
                        /\ Up(which, flag, s).blocked = (IF s \in which THEN flag ELSE s.blocked)
    BY UpKeeps DEF TypeOK
  <1>3. Known' = Known
    <2>1. Known' = {Key(x) : x \in rows'}
      BY DEF Known, Key
    <2> QED BY <1>1, <1>2, <2>1 DEF Known
  <1>4. ASSUME NEW key \in Keys
        PROVE  Blocked(key)' <=> \E r \in Found(key) :
                                   IsFirst(r) /\ (IF r \in which THEN flag ELSE r.blocked)
    <2>1. ASSUME Blocked(key)'
          PROVE  \E r \in Found(key) : IsFirst(r) /\ (IF r \in which THEN flag ELSE r.blocked)
      <3>1. PICK x \in rows' : Key(x) = key /\ x.blocked /\ IsFirst(x)'
        BY <2>1 DEF Blocked, Found, Key
      <3>2. PICK r \in rows : x = Up(which, flag, r)
        BY <1>1, <3>1
      <3>3. IsFirst(r) /\ r \in Found(key)
        BY <1>2, <3>1, <3>2, UpdateKeepsFirst DEF Found
      <3> QED BY <1>2, <3>1, <3>2, <3>3
    <2>2. ASSUME NEW r \in Found(key), IsFirst(r), IF r \in which THEN flag ELSE r.blocked
          PROVE  Blocked(key)'
      <3>1. r \in rows /\ Key(r) = key
        BY DEF Found
      <3>2. PICK x : x = Up(which, flag, r)
        OBVIOUS
      <3>3. x \in rows' /\ Key(x) = key /\ IsFirst(x)' /\ x.blocked
        BY <1>2, <2>2, <3>1, <3>2, UpdateKeepsFirst
      <3> QED BY <3>3 DEF Blocked, Found, Key
    <2> QED BY <2>1, <2>2
  <1>5. ASSUME NEW key \in Keys, NEW r \in Found(key), IsFirst(r)
        PROVE  r \in which <=> key \in FirstsOf(which)
    <2>1. r \in rows /\ Key(r) = key
      BY DEF Found
    <2>2. ASSUME NEW w \in which, IsFirst(w), Key(w) = key PROVE w = r
      BY <1>5, <2>1, <2>2, OneFirst
    <2> QED BY <1>5, <2>1, <2>2 DEF FirstsOf
  <1>6. ASSUME NEW key \in FirstsOf(which) PROVE key \in Keys /\ \E r \in Found(key) : IsFirst(r)
    BY DEF FirstsOf, Found, Keys, Key, TypeOK, Rows
  <1>7. \A key \in Keys :
          Blocked(key)' <=> IF key \in FirstsOf(which) THEN flag ELSE Blocked(key)
    BY <1>4, <1>5, <1>6 DEF Blocked
  <1>8. Forbidden' = {key \in Keys : Blocked(key)'}
    BY DEF Forbidden, Keys
  <1> QED BY <1>3, <1>6, <1>7, <1>8 DEF Forbidden

(* A toggle writes the first row of its address or none.                   *)
LEMMA ToggleMarks ==
  ASSUME TypeOK, IdsOK, NEW r \in rows
  PROVE  FirstsOf({s \in rows : s.id = r.id}) = IF IsFirst(r) THEN {Key(r)} ELSE {}
  <1>1. {s \in rows : s.id = r.id} = {r}
    BY DEF IdsOK
  <1> QED BY <1>1 DEF FirstsOf

(* Setting all addresses of an app writes the first row of each it has.    *)
LEMMA SetAllMarks ==
  ASSUME TypeOK, FirstExists, NEW p \in Packages
  PROVE  FirstsOf({r \in rows : r.pkg = p}) = {key \in Known : key.pkg = p}
  <1>1. ASSUME NEW r \in rows, r.pkg = p PROVE Key(r) \in FirstsOf({s \in rows : s.pkg = p})
    <2>1. PICK s \in Found(Key(r)) : IsFirst(s)
      BY DEF FirstExists
    <2>2. s \in rows /\ Key(s) = Key(r) /\ s.pkg = r.pkg
      BY <2>1 DEF Found, Key
    <2> QED BY <1>1, <2>1, <2>2 DEF FirstsOf
  <1>2. \A r \in rows : Key(r).pkg = r.pkg
    BY DEF Key
  <1> QED BY <1>1, <1>2 DEF FirstsOf, Known

(* An address with a single row is blocked or allowed as the user says.    *)
THEOREM LoneRowsObey == Spec => LoneRowObeys
  <1> DEFINE Obeys == \A r \in rows, flag \in BOOLEAN :
                        Found(Key(r)) = {r} /\ ToggleAddress(r.id, flag) => Blocked(Key(r))' = flag
  <1>1. IInv /\ [Next]_vars => [Obeys]_vars
    <2> SUFFICES ASSUME IInv, NEW r \in rows, NEW flag \in BOOLEAN,
                        Found(Key(r)) = {r}, ToggleAddress(r.id, flag)
                 PROVE  Blocked(Key(r))' = flag
      OBVIOUS
    <2>1. IsFirst(r) /\ Key(r) \in Keys
      BY DEF IsFirst, IInv, TypeOK, Rows, Keys, Key
    <2>2. FirstsOf({s \in rows : s.id = r.id}) = {Key(r)}
      BY <2>1, ToggleMarks DEF IInv
    <2>3. Key(r) \in Forbidden' <=> flag
      BY <2>2, UpdateMarks DEF IInv, ToggleAddress
    <2>4. Forbidden' = {key \in Keys : Blocked(key)'}
      BY DEF Forbidden, Keys
    <2>5. PICK key \in Keys : key = Key(r)
      BY <2>1
    <2>6. (Blocked(Key(r)))' = Blocked(key)' /\ Blocked(key)' \in BOOLEAN
      BY <2>5 DEF Blocked, Key
    <2> QED BY <2>3, <2>4, <2>5, <2>6
  <1> QED BY <1>1, Inductive, PTL DEF Spec, LoneRowObeys

-----------------------------------------------------------------------------
(* The table implements AddressBook.                                       *)

LEMMA BookInit == Init => Book!Init
  BY DEF Init, Book!Init, Found, Blocked

(* An update of rows whose first ones are of known addresses.              *)
LEMMA UpdateIsMark ==
  ASSUME IInv, NEW which \in SUBSET rows, NEW flag \in BOOLEAN, Update(which, flag),
         taps' = taps + 1
  PROVE  Book!Mark(FirstsOf(which), flag)
  <1>1. FirstsOf(which) \subseteq Known
    BY DEF FirstsOf, Known
  <1>2. Known' = Known
        /\ Forbidden' = IF flag THEN Forbidden \cup FirstsOf(which) ELSE Forbidden \ FirstsOf(which)
    BY UpdateMarks DEF IInv
  <1>3. Forbidden = {key \in Keys : Blocked(key)} /\ Forbidden' = {key \in Keys : Blocked(key)}'
        /\ Known = {Key(r) : r \in rows} /\ Known' = {Key(r) : r \in rows}'
    BY DEF Forbidden, Known
  <1> QED BY <1>1, <1>2, <1>3 DEF Book!Mark

LEMMA SetAllIsSetAll ==
  ASSUME IInv, NEW p \in Packages, NEW flag \in BOOLEAN, SetAll(p, flag)
  PROVE  Book!SetAll(p, flag)
  <1>1. Book!Mark(FirstsOf({r \in rows : r.pkg = p}), flag)
    BY UpdateIsMark DEF SetAll, Tap
  <1>2. FirstsOf({r \in rows : r.pkg = p}) = Book!Of(p)
    BY SetAllMarks DEF IInv, Known, Book!Of
  <1> QED BY <1>1, <1>2 DEF Book!SetAll

LEMMA ToggleIsSet ==
  ASSUME IInv, NEW id, NEW flag \in BOOLEAN, ToggleAddress(id, flag)
  PROVE  (\E key \in Book!Keys : Book!Set(key, flag)) \/ Book!InVain
  <1>1. PICK r \in rows : r.id = id
    BY DEF ToggleAddress
  <1>2. Book!Mark(FirstsOf({s \in rows : s.id = id}), flag)
    BY UpdateIsMark DEF ToggleAddress, Tap
  <1>3. CASE IsFirst(r)
    <2>1. FirstsOf({s \in rows : s.id = id}) = {Key(r)}
      BY <1>1, <1>3, ToggleMarks DEF IInv
    <2>2. Key(r) \in Book!Keys
      BY DEF IInv, TypeOK, Rows, Key, Book!Keys
    <2>3. Book!Set(Key(r), flag)
      BY <1>2, <2>1 DEF Book!Set
    <2> QED BY <2>2, <2>3
  <1>4. CASE ~IsFirst(r)
    <2>1. FirstsOf({s \in rows : s.id = id}) = {}
      BY <1>1, <1>4, ToggleMarks DEF IInv
    <2>2. Book!Mark({}, flag)
      BY <1>2, <2>1
    <2> QED BY <2>2 DEF Book!Mark, Book!InVain
  <1> QED BY <1>3, <1>4

LEMMA InsertIsMeet ==
  ASSUME IInv, NEW k \in Packets, TrackInsert(k)
  PROVE  \E key \in Book!Keys : Book!Meet(key)
  <1>1. PICK new \in Rows : /\ new.id = nextId /\ ~new.blocked /\ Key(new) = tracked[k]
                           /\ rows' = rows \cup {new}
    BY NewRow DEF IInv
  <1>2. \A key \in Keys : Blocked(key)' = Blocked(key)
    BY <1>1, YoungRowIsNotAsked DEF IInv
  <1>3. {key \in Keys : Blocked(key)}' = {key \in Keys : Blocked(key)}
    BY <1>2 DEF Keys
  <1>4. {Key(r) : r \in rows}' = {Key(r) : r \in rows} \cup {tracked[k]}
    BY <1>1 DEF Key
  <1>5. tracked[k] \in Book!Keys /\ taps' = taps
    BY DEF IInv, TypeOK, Keys, Book!Keys, TrackInsert, TrackerGoes, user
  <1> QED BY <1>3, <1>4, <1>5 DEF Book!Meet

LEMMA BookStep == IInv /\ [Next]_vars => [Book!Next]_(Book!vars)
  <1> SUFFICES ASSUME IInv, [Next]_vars PROVE [Book!Next]_(Book!vars)
    OBVIOUS
  <1>1. CASE UNCHANGED <<rows, taps>>
    BY <1>1 DEF Book!vars, Blocked, Found, IsFirst, Key, Keys
  <1>2. ASSUME NEW p \in Packages, NEW flag \in BOOLEAN, SetAll(p, flag) PROVE Book!Next
    BY <1>2, SetAllIsSetAll DEF Book!Next
  <1>3. ASSUME NEW id \in 1 .. MaxPackets, NEW flag \in BOOLEAN, ToggleAddress(id, flag)
        PROVE  Book!Next
    BY <1>3, ToggleIsSet DEF Book!Next
  <1>4. ASSUME NEW k \in Packets, TrackInsert(k) PROVE Book!Next
    BY <1>4, InsertIsMeet DEF Book!Next
  <1> QED BY <1>1, <1>2, <1>3, <1>4, TableSteps DEF Next, User, Track

(* The address book with its duplicates, its ids and its concurrent        *)
(* trackers behaves like one whose trackers look and insert in one step,   *)
(* but for toggles that are in vain.                                       *)
THEOREM ImplementsBook == Spec => BookSpec
  <1>1. Init => Book!Init
    BY BookInit
  <1>2. IInv /\ [Next]_vars => [Book!Next]_(Book!vars)
    BY BookStep
  <1> QED BY <1>1, <1>2, Inductive, PTL DEF Spec, BookSpec, Book!Spec
=============================================================================
