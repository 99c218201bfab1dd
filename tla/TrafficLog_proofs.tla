-------------------------- MODULE TrafficLog_proofs --------------------------
(* Proofs about TrafficLog, for any limit, calendar and number of keys,    *)
(* packets and collectors.                                                 *)
EXTENDS TrafficLog, FiniteSetTheorems, TLAPS

LEMMA Elements ==
    ASSUME NEW S, NEW q \in Seq(S), NEW n \in 1 .. Len(q)
    PROVE  q[n] \in S
OBVIOUS

LEMMA DaysAreNumbers == Days = 1 .. Len(Calendar) /\ Len(Calendar) \in Nat /\ 1 \in Days
<1>1. Calendar \in Seq([month : Nat, date : Nat]) /\ Calendar # <<>>
  BY CalendarAssumption
<1> QED
  BY <1>1 DEF Days

(* Within a month, time stamps as texts are in the order of time.          *)
LEMMA TextOrder ==
    ASSUME NEW r \in Rows, NEW s \in Rows, Month(r) = Month(s), TextLeq(r, s)
    PROVE  r.day <= s.day
<1>1. r.day \in DOMAIN Calendar /\ s.day \in DOMAIN Calendar /\ r.day \in Nat /\ s.day \in Nat
  <2>1. r.day \in Days /\ s.day \in Days
    BY DEF Rows
  <2> QED
    BY <2>1, DaysAreNumbers DEF Days
<1>2. Calendar[r.day] \in [month : Nat, date : Nat] /\ Calendar[s.day] \in [month : Nat, date : Nat]
  <2>1. Calendar \in Seq([month : Nat, date : Nat])
    BY CalendarAssumption
  <2>2. r.day \in 1 .. Len(Calendar) /\ s.day \in 1 .. Len(Calendar)
    BY <1>1, DaysAreNumbers DEF Days
  <2> QED
    BY <2>1, <2>2, Elements
<1> SUFFICES ASSUME s.day < r.day PROVE FALSE
  BY <1>1
<1>3. Calendar[s.day].date < Calendar[r.day].date
  BY <1>1, <1>2, CalendarAssumption DEF Month
<1> QED
  BY <1>2, <1>3 DEF TextLeq

(* A set of numbers has a least one.                                       *)
LEMMA LeastNumber ==
    ASSUME NEW T \in SUBSET Nat, T # {}
    PROVE  \E x \in T : \A y \in T : x <= y
<1>1. \A x, y \in Nat : <<x, y>> \in OpToRel(<, Nat) <=> x < y
  BY DEF OpToRel
<1>2. PICK Less : Less = OpToRel(<, Nat)
  OBVIOUS
<1>3. IsWellFoundedOn(Less, Nat) /\ \A x, y \in Nat : <<x, y>> \in Less <=> x < y
  BY <1>1, <1>2, NatLessThanWellFounded
<1>4. PICK x \in T : \A y \in T : ~ (<<y, x>> \in Less)
  <2>1. IsWellFoundedOn(Less, Nat) /\ T \subseteq Nat /\ T # {}
    BY <1>3
  <2> QED
    BY <2>1, WFMin, Zenon
<1>5. \A y \in T : ~ (y < x)
  BY <1>3, <1>4
<1> QED
  BY <1>5

(* Of some rows one comes first in the order of texts.                     *)
LEMMA LeastText ==
    ASSUME NEW T \in SUBSET Rows, T # {}
    PROVE  \E x \in T : \A y \in T : TextLeq(x, y)
<1> DEFINE dateOf(r) == Calendar[r.day].date
<1>1. \A r \in T : dateOf(r) \in Nat /\ Month(r) \in Nat
  <2> SUFFICES ASSUME NEW r \in T PROVE dateOf(r) \in Nat /\ Month(r) \in Nat
    OBVIOUS
  <2>1. r.day \in 1 .. Len(Calendar)
    BY DaysAreNumbers DEF Rows
  <2>2. Calendar[r.day] \in [month : Nat, date : Nat]
    BY <2>1, CalendarAssumption, Elements
  <2> QED
    BY <2>2 DEF Month
<1> DEFINE dates == {dateOf(r) : r \in T}
<1>2. PICK a \in T : \A r \in T : dateOf(a) <= dateOf(r)
  <2>1. dates \in SUBSET Nat /\ dates # {}
    BY <1>1
  <2>2. PICK d \in dates : \A e \in dates : d <= e
    BY <2>1, LeastNumber
  <2> QED
    BY <2>2
<1> DEFINE earliest == {r \in T : dateOf(r) = dateOf(a)}
           months == {Month(r) : r \in earliest}
<1>3. PICK b \in earliest : \A r \in earliest : Month(b) <= Month(r)
  <2>1. months \in SUBSET Nat /\ months # {}
    BY <1>1
  <2>2. PICK m \in months : \A e \in months : m <= e
    BY <2>1, LeastNumber
  <2> QED
    BY <2>2
<1>4. ASSUME NEW r \in T PROVE TextLeq(b, r)
  <2>1. dateOf(b) = dateOf(a) /\ dateOf(a) <= dateOf(r) /\ dateOf(a) \in Nat /\ dateOf(r) \in Nat
    BY <1>1, <1>2
  <2>2. dateOf(r) = dateOf(a) => Month(b) <= Month(r)
    BY <1>3
  <2> QED
    BY <2>1, <2>2 DEF TextLeq
<1> QED
  BY <1>4

(* A set that lost elements, or nothing, is not larger.                    *)
LEMMA SmallerStaysCut ==
    ASSUME NEW S, NEW T, IsFiniteSet(T), S \subseteq T, Cardinality(T) <= Limit
    PROVE  Cardinality(S) <= Limit
<1>1. IsFiniteSet(S) /\ Cardinality(S) <= Cardinality(T)
  BY FS_Subset
<1>2. Cardinality(S) \in Nat /\ Cardinality(T) \in Nat
  BY <1>1, FS_CardinalityType
<1> QED
  BY <1>1, <1>2, LimitAssumption

LEMMA InitHolds == Init => IInv
<1> SUFFICES ASSUME Init PROVE IInv
  OBVIOUS
<1>1. TypeOK
  BY DaysAreNumbers, BoundsAssumption DEF Init, TypeOK
<1>2. IsFiniteSet(table) /\ Cardinality(table \ fresh) = 0
  <2>1. table = {} /\ table \ fresh = {}
    BY DEF Init
  <2> QED
    BY <2>1, FS_EmptySet
<1>3. OneRowPerKey
  BY DEF Init, OneRowPerKey
<1>4. ScreenOK
  BY DEF Init, ScreenOK, Stale
<1> QED
  BY <1>1, <1>2, <1>3, <1>4, LimitAssumption DEF IInv, LogIsCut

(* An insert adds its row to the table and to `fresh' alike.               *)
LEMMA InsertKeepsCut ==
    ASSUME IInv, NEW n, Insert(n)
    PROVE  OneRowPerKey' /\ IsFiniteSet(table)' /\ LogIsCut'
<1> DEFINE row == packets[n]
           left == {r \in table : r.key # row.key}
<1>1. table' = left \cup {row} /\ fresh' = fresh \cup {row}
  BY DEF Insert
<1>2. OneRowPerKey'
  BY <1>1 DEF IInv, OneRowPerKey
<1>3. IsFiniteSet(left)
  BY FS_Subset DEF IInv
<1>4. IsFiniteSet(table')
  BY <1>1, <1>3, FS_AddElement
<1>5. table' \ fresh' \subseteq table \ fresh
  BY <1>1
<1>6. IsFiniteSet(table \ fresh)
  BY FS_Subset DEF IInv
<1>7. Cardinality(table' \ fresh') <= Limit
  BY <1>5, <1>6, SmallerStaysCut DEF IInv, LogIsCut
<1> QED
  BY <1>2, <1>4, <1>7 DEF LogIsCut

(* A pruning leaves no more rows than the limit.                           *)
LEMMA PruningCuts ==
    ASSUME IInv, DeleteExtraLogs
    PROVE  table' \subseteq table /\ OneRowPerKey' /\ IsFiniteSet(table)' /\ LogIsCut'
<1>1. table' \in SUBSET table /\ Cardinality(table') <= Limit /\ fresh' = {}
  BY DEF DeleteExtraLogs, Selections
<1>2. OneRowPerKey'
  BY <1>1 DEF IInv, OneRowPerKey
<1>3. IsFiniteSet(table')
  BY <1>1, FS_Subset DEF IInv
<1>4. table' \ fresh' = table'
  BY <1>1
<1> QED
  BY <1>1, <1>2, <1>3, <1>4 DEF LogIsCut

LEMMA TypeStep ==
    ASSUME TypeOK, [Next]_vars
    PROVE  TypeOK'
<1> USE DaysAreNumbers, BoundsAssumption
<1>1. CASE NextDay
  BY <1>1 DEF TypeOK, NextDay, screen
<1>2. CASE StartReader
  BY <1>2 DEF TypeOK, StartReader, screen
<1>3. CASE ReaderEnds
  BY <1>3 DEF TypeOK, ReaderEnds, screen
<1>4. ASSUME NEW key \in LogKeys, LogPacket(key) PROVE TypeOK'
  <2>1. [key |-> key, day |-> day] \in Rows
    BY DEF TypeOK, Rows
  <2>2. /\ packets' \in Seq(Rows)
        /\ Len(packets') = Len(packets) + 1
        /\ DOMAIN packets' = 1 .. Len(packets) + 1
        /\ DOMAIN packets = 1 .. Len(packets)
        /\ Len(packets) \in Nat
    BY <1>4, <2>1 DEF TypeOK, LogPacket
  <2>3. inserting' \subseteq DOMAIN packets'
    BY <1>4, <2>2 DEF TypeOK, LogPacket
  <2> QED
    BY <1>4, <2>2, <2>3 DEF TypeOK, LogPacket, screen
<1>5. ASSUME NEW n \in 1 .. MaxPackets, Insert(n) PROVE TypeOK'
  <2>1. packets[n] \in Rows
    BY <1>5 DEF TypeOK, Insert
  <2> QED
    BY <1>5, <2>1 DEF TypeOK, Insert, Invalidate
<1>6. ASSUME NEW n \in 1 .. MaxPackets, InsertFails(n) PROVE TypeOK'
  BY <1>6 DEF TypeOK, InsertFails
<1>7. CASE Prune
  BY <1>7 DEF TypeOK, Prune, DeleteExtraLogs, Selections, Invalidate
<1>8. CASE PruneFails
  BY <1>8 DEF TypeOK, PruneFails, DeleteExtraLogs, Selections, Invalidate
<1>9. ASSUME NEW c \in Collectors, GetBlockLogs(c) \/ Query(c) \/ QueryFails(c) \/ Deliver(c)
      PROVE TypeOK'
  <2>1. CASE GetBlockLogs(c)
    BY <2>1 DEF TypeOK, GetBlockLogs, log
  <2>2. CASE Query(c)
    BY <2>2 DEF TypeOK, Query, log
  <2>3. CASE QueryFails(c)
    BY <2>3 DEF TypeOK, QueryFails, log
  <2>4. CASE Deliver(c)
    BY <2>4 DEF TypeOK, Deliver, log
  <2> QED
    BY <1>9, <2>1, <2>2, <2>3, <2>4
<1>10. CASE UNCHANGED vars
  BY <1>10 DEF TypeOK, vars, log, screen
<1> QED
  BY <1>1, <1>2, <1>3, <1>4, <1>5, <1>6, <1>7, <1>8, <1>9, <1>10 DEF Next

(* Only inserts and prunings touch the table and what `fresh' says of it.  *)
LEMMA TableStep ==
    ASSUME [Next]_vars
    PROVE  \/ \E n : Insert(n)
           \/ DeleteExtraLogs
           \/ UNCHANGED <<table, fresh>>
<1>1. CASE NextDay \/ StartReader \/ ReaderEnds
  BY <1>1 DEF NextDay, StartReader, ReaderEnds
<1>2. ASSUME NEW key \in LogKeys, LogPacket(key) PROVE UNCHANGED <<table, fresh>>
  BY <1>2 DEF LogPacket
<1>3. ASSUME NEW n \in 1 .. MaxPackets, InsertFails(n) PROVE UNCHANGED <<table, fresh>>
  BY <1>3 DEF InsertFails
<1>4. CASE Prune \/ PruneFails
  BY <1>4 DEF Prune, PruneFails
<1>5. ASSUME NEW c \in Collectors, GetBlockLogs(c) \/ Query(c) \/ QueryFails(c) \/ Deliver(c)
      PROVE UNCHANGED <<table, fresh>>
  BY <1>5 DEF GetBlockLogs, Query, QueryFails, Deliver, log
<1>6. CASE UNCHANGED vars
  BY <1>6 DEF vars, log
<1> QED
  BY <1>1, <1>2, <1>3, <1>4, <1>5, <1>6 DEF Next

-----------------------------------------------------------------------------
(* The screen.                                                             *)

(* After a change every observer will query again.                         *)
LEMMA ChangeIsTold ==
    ASSUME TypeOK, ScreenOK, Invalidate, UNCHANGED <<watching, carried>>
    PROVE  ScreenOK'
<1>1. \A c \in Collectors : Stale(c)' => c \in watching
  BY DEF ScreenOK, Stale
<1>2. \A c \in watching : c \in signalled'
  BY DEF Invalidate
<1> QED
  BY <1>1, <1>2 DEF ScreenOK, Invalidate, Repairs

(* What is neither about the table nor the screen.                         *)
LEMMA NothingToShow ==
    ASSUME ScreenOK, UNCHANGED <<table, watching, failed, signalled, carried, shown>>
    PROVE  ScreenOK'
BY DEF ScreenOK, Stale, Repairs

LEMMA PruningIsTold ==
    ASSUME TypeOK, ScreenOK, DeleteExtraLogs, UNCHANGED <<watching, failed, carried, shown>>
    PROVE  ScreenOK'
<1>1. CASE table' = table
  BY <1>1, NothingToShow DEF DeleteExtraLogs
<1>2. CASE table' # table
  BY <1>2, ChangeIsTold DEF DeleteExtraLogs
<1> QED
  BY <1>1, <1>2

(* A collector that delivers an old list has been told to query again.     *)
LEMMA DeliverKeepsScreen ==
    ASSUME TypeOK, ScreenOK, NEW c \in Collectors, Deliver(c)
    PROVE  ScreenOK'
<1>1. PICK list \in carried[c] : shown' = list
  BY DEF Deliver
<1>2. /\ carried'[c] = {} /\ \A d \in Collectors \ {c} : carried'[d] = carried[d]
      /\ UNCHANGED <<table, watching, failed, signalled>>
  BY DEF Deliver, log, TypeOK
<1>3. c \in watching
  BY <1>1 DEF ScreenOK
<1>4. shown' # table' => c \in signalled
  BY <1>1, <1>2 DEF ScreenOK, Stale
<1>5. shown' # table' => \E d \in watching' : Repairs(d)'
  BY <1>2, <1>3, <1>4 DEF Repairs
<1>6. \A d \in Collectors : carried'[d] # {} => d \in watching'
  BY <1>2 DEF ScreenOK
<1>7. \A d \in Collectors : Stale(d)' => d \in signalled'
  BY <1>2 DEF ScreenOK, Stale
<1> QED
  BY <1>5, <1>6, <1>7 DEF ScreenOK

LEMMA QueryKeepsScreen ==
    ASSUME TypeOK, ScreenOK, NEW c \in Collectors, Query(c)
    PROVE  ScreenOK'
<1>1. /\ c \in watching /\ carried'[c] = {table}
      /\ \A d \in Collectors \ {c} : carried'[d] = carried[d]
      /\ signalled' = signalled \ {c} /\ UNCHANGED <<table, watching, failed, shown>>
  BY DEF Query, log, TypeOK
<1>2. \E d \in watching' : Repairs(d)'
  BY <1>1 DEF Repairs
<1>3. \A d \in Collectors : carried'[d] # {} => d \in watching'
  BY <1>1 DEF ScreenOK
<1>4. \A d \in Collectors : Stale(d)' => d \in signalled'
  BY <1>1 DEF ScreenOK, Stale
<1> QED
  BY <1>2, <1>3, <1>4 DEF ScreenOK

LEMMA CollectorKeepsScreen ==
    ASSUME TypeOK, ScreenOK, NEW c \in Collectors, GetBlockLogs(c) \/ QueryFails(c)
    PROVE  ScreenOK'
<1>1. CASE GetBlockLogs(c)
  <2>1. c \in watching' /\ Repairs(c)'
    BY <1>1 DEF GetBlockLogs, Repairs
  <2> QED
    BY <1>1, <2>1 DEF GetBlockLogs, log, ScreenOK, Stale
<1>2. CASE QueryFails(c)
  <2>1. carried[c] = {} /\ failed' # {} /\ UNCHANGED <<table, carried>>
        /\ watching' = watching \ {c} /\ signalled' = signalled \ {c}
    BY <1>2 DEF QueryFails, log
  <2> QED
    BY <2>1 DEF ScreenOK, Stale
<1> QED
  BY <1>1, <1>2

LEMMA ScreenStep ==
    ASSUME TypeOK, ScreenOK, [Next]_vars
    PROVE  ScreenOK'
<1>1. CASE NextDay \/ StartReader \/ ReaderEnds \/ UNCHANGED vars
  BY <1>1, NothingToShow DEF NextDay, StartReader, ReaderEnds, vars, log, screen
<1>2. ASSUME NEW key \in LogKeys, LogPacket(key) PROVE ScreenOK'
  BY <1>2, NothingToShow DEF LogPacket, screen
<1>3. ASSUME NEW n, Insert(n) PROVE ScreenOK'
  BY <1>3, ChangeIsTold DEF Insert
<1>4. ASSUME NEW n, InsertFails(n) PROVE ScreenOK'
  BY <1>4 DEF InsertFails, ScreenOK, Stale
<1>5. CASE Prune
  BY <1>5, PruningIsTold DEF Prune
<1>6. CASE PruneFails
  BY <1>6, PruningIsTold, NothingToShow DEF PruneFails
<1>7. ASSUME NEW c \in Collectors, GetBlockLogs(c) \/ Query(c) \/ QueryFails(c) \/ Deliver(c)
      PROVE  ScreenOK'
  BY <1>7, CollectorKeepsScreen, QueryKeepsScreen, DeliverKeepsScreen
<1> QED
  BY <1>1, <1>2, <1>3, <1>4, <1>5, <1>6, <1>7 DEF Next

-----------------------------------------------------------------------------
LEMMA StepHolds ==
    ASSUME IInv, [Next]_vars
    PROVE  IInv'
<1>1. TypeOK'
  BY TypeStep DEF IInv
<1>2. OneRowPerKey' /\ IsFiniteSet(table)' /\ LogIsCut'
  <2>1. ASSUME NEW n, Insert(n) PROVE OneRowPerKey' /\ IsFiniteSet(table)' /\ LogIsCut'
    BY <2>1, InsertKeepsCut
  <2>2. ASSUME DeleteExtraLogs PROVE OneRowPerKey' /\ IsFiniteSet(table)' /\ LogIsCut'
    BY <2>2, PruningCuts
  <2>3. ASSUME UNCHANGED <<table, fresh>> PROVE OneRowPerKey' /\ IsFiniteSet(table)' /\ LogIsCut'
    BY <2>3 DEF IInv, OneRowPerKey, LogIsCut
  <2> QED
    BY <2>1, <2>2, <2>3, TableStep
<1>3. ScreenOK'
  BY ScreenStep DEF IInv
<1> QED
  BY <1>1, <1>2, <1>3 DEF IInv

(* The invariant holds in every behaviour.                                 *)
THEOREM Inductive == Spec => []IInv
<1>1. Init => IInv
  BY InitHolds
<1>2. IInv /\ [Next]_vars => IInv'
  BY StepHolds
<1> QED
  BY <1>1, <1>2, PTL DEF Spec

(* Whatever inserts overlap the prunings, and whenever the process dies,   *)
(* the table outgrows the limit only by rows no pruning has seen.          *)
THEOREM LogStaysCut == Spec => []LogIsCut
<1>1. IInv => LogIsCut
  BY DEF IInv
<1> QED
  BY <1>1, Inductive, PTL

(* A screen that nothing is under way for shows the table, whatever lists  *)
(* overtook each other.                                                    *)
THEOREM IdleScreensAreRight == Spec => []IdleScreenIsRight
<1>1. IInv => IdleScreenIsRight
  <2> SUFFICES ASSUME IInv, watching # {}, failed = {}, Idle, shown # table PROVE FALSE
    BY DEF IdleScreenIsRight
  <2>1. PICK c \in watching : Repairs(c)
    BY DEF IInv, ScreenOK
  <2> QED
    BY <2>1 DEF Repairs, Idle, IInv, TypeOK
<1> QED
  BY <1>1, Inductive, PTL

(* Among rows of one month, a pruning never deletes one that is younger    *)
(* than one it keeps.                                                      *)
THEOREM PruningIsInOrder == Spec => PruneDropsOldest
<1> DEFINE Ordered ==
      DeleteExtraLogs =>
        \A r \in table \ table', s \in table' : Month(r) = Month(s) => r.day <= s.day
<1>1. IInv /\ [Next]_vars => [Ordered]_vars
  <2> SUFFICES ASSUME IInv, DeleteExtraLogs,
                      NEW r \in table \ table', NEW s \in table', Month(r) = Month(s)
               PROVE  r.day <= s.day
    OBVIOUS
  <2>1. r \in Rows /\ s \in Rows /\ TextLeq(r, s)
    BY DEF IInv, TypeOK, DeleteExtraLogs, Selections
  <2> QED
    BY <2>1, TextOrder
<1> QED
  BY <1>1, Inductive, PTL DEF Spec, PruneDropsOldest

(* Whatever the table holds, there are rows a pruning can leave: it never  *)
(* gets stuck, though rows of the same text leave it a choice.             *)
LEMMA SelectionExists ==
    ASSUME NEW rows \in SUBSET Rows, IsFiniteSet(rows)
    PROVE  \E kept \in SUBSET rows :
              /\ Cardinality(kept) <= Limit
              /\ kept = rows \/ Cardinality(kept) = Limit
              /\ \A r \in rows \ kept, s \in kept : TextLeq(r, s)
<1>0. Cardinality(rows) \in Nat /\ Limit \in Nat
  BY FS_CardinalityType, LimitAssumption
<1>1. CASE Cardinality(rows) <= Limit
  BY <1>1
<1>2. CASE Cardinality(rows) > Limit
  <2> DEFINE Less == StrictSubsetOrdering(rows)
             enough == {kept \in SUBSET rows :
                          /\ Cardinality(kept) >= Limit
                          /\ \A r \in rows \ kept, s \in kept : TextLeq(r, s)}
  <2>1. IsWellFoundedOn(Less, SUBSET rows)
    BY FS_StrictSubsetOrderingWellFounded, FS_FiniteSubsetsOfFinite
  <2>2. rows \in enough
    BY <1>0, <1>2
  <2>3. enough \subseteq SUBSET rows /\ enough # {}
    BY <2>2
  <2>4. \A x, y \in SUBSET rows : x \subseteq y /\ x # y => <<x, y>> \in Less
    BY DEF StrictSubsetOrdering
  <2>5. PICK kept \in enough : \A fewer \in enough : ~ (<<fewer, kept>> \in Less)
    <3> HIDE DEF Less, enough
    <3> QED
      BY <2>1, <2>3, WFMin
  <2>6. IsFiniteSet(kept) /\ Cardinality(kept) \in Nat /\ Cardinality(kept) >= Limit
    BY <2>3, FS_Subset, FS_CardinalityType
  <2>7. Cardinality(kept) = Limit
    <3> SUFFICES ASSUME Cardinality(kept) # Limit PROVE FALSE
      OBVIOUS
    <3>1. kept # {}
      BY <1>0, <2>6, FS_EmptySet
    <3>2. PICK x \in kept : \A y \in kept : TextLeq(x, y)
      BY <2>3, <3>1, LeastText
    <3> DEFINE fewer == kept \ {x}
    <3>3. Cardinality(fewer) = Cardinality(kept) - 1
      BY <2>6, FS_RemoveElement
    <3>4. Cardinality(fewer) >= Limit
      BY <1>0, <2>6, <3>3
    <3>5. fewer \in enough
      BY <3>2, <3>4
    <3>6. <<fewer, kept>> \in Less
      BY <2>3, <2>4
    <3> QED
      BY <2>5, <3>5, <3>6
  <2> QED
    BY <1>0, <2>7
<1> QED
  BY <1>0, <1>1, <1>2

(* Whatever the table holds, on any calendar, ORDER BY ... LIMIT selects   *)
(* something for the deletion to keep: pruning is never stuck.             *)
THEOREM PruningIsTotal == Spec => [](Selections # {})
<1>1. IInv => Selections # {}
  <2> SUFFICES ASSUME IInv PROVE Selections # {}
    OBVIOUS
  <2>1. table \in SUBSET Rows /\ IsFiniteSet(table)
    BY DEF IInv, TypeOK
  <2> QED
    BY <2>1, SelectionExists DEF Selections
<1> QED
  BY <1>1, Inductive, PTL
=============================================================================
