------------------------------ MODULE TrafficLog ------------------------------
(***************************************************************************)
(* The traffic log: the table block_log, the coroutines that insert into   *)
(* it, the pruning by the reader of packets (FirewallVpnService.kt), and   *)
(* the coroutines that bring it to the screen (MainViewModel.kt).          *)
(*                                                                         *)
(* A row has a key (app, protocol, destination address and port), and a    *)
(* time stamp that is a text.  A packet's row is inserted by a coroutine   *)
(* of its own, while the reader goes on to cut the table to its limit:     *)
(* neither waits for the other.                                            *)
(***************************************************************************)
EXTENDS Integers, Sequences, FiniteSets

CONSTANTS
    LogKeys,       \* primary keys of rows
    Collectors,    \* coroutines of getBlockLogs
    Limit,         \* rows that pruning leaves: 100
    Calendar,      \* the days to come, each with its month and its day in it
    MaxPackets,    \* bound on the packets logged
    MaxStarts      \* bound on the processes that run the VPN

ASSUME LimitAssumption == Limit \in Nat
ASSUME CalendarAssumption ==
    /\ Calendar \in Seq([month : Nat, date : Nat]) /\ Calendar # <<>>
    /\ \A d, e \in DOMAIN Calendar : d < e =>
         \/ Calendar[d].month < Calendar[e].month
         \/ Calendar[d].month = Calendar[e].month /\ Calendar[d].date < Calendar[e].date
ASSUME BoundsAssumption == MaxPackets \in Nat /\ MaxStarts \in Nat

Days == DOMAIN Calendar
Rows == [key : LogKeys, day : Days]

VARIABLES
    day,        \* the date the native parser stamps packets with
    starts,     \* processes that have run the VPN
    reader,     \* the reader of packets: between packets, pruning, not there
    packets,    \* the packets logged so far, as the rows they make
    inserting,  \* those whose insert is yet to happen
    table,      \* block_log
    fresh,      \* history: rows inserted since the table was last pruned
    launched,   \* collectors there have been
    watching,   \* those that observe the table
    failed,     \* those of this process that failed
    signalled,  \* those that were told of a change
    carried,    \* the list a collector has queried and not delivered, if any
    shown       \* _allBlockLogs

screen == <<launched, watching, failed, signalled, carried, shown>>
log == <<day, starts, reader, packets, inserting, table, fresh>>
vars == <<log, screen>>

(* strftime "%d/%m/%Y %H:%M:%S": texts compare by the day of the month     *)
(* first.                                                                  *)
Month(row) == Calendar[row.day].month
TextLeq(r, s) ==
    LET dateOf(row) == Calendar[row.day].date
    IN dateOf(r) < dateOf(s) \/ (dateOf(r) = dateOf(s) /\ Month(r) <= Month(s))

Init ==
    /\ day = 1 /\ starts = 0
    /\ reader = "off"
    /\ packets = <<>> /\ inserting = {}
    /\ table = {} /\ fresh = {}
    /\ launched = {} /\ watching = {} /\ failed = {} /\ signalled = {}
    /\ carried = [c \in Collectors |-> {}]
    /\ shown = {}

NextDay ==
    /\ day < Len(Calendar)
    /\ day' = day + 1
    /\ UNCHANGED <<starts, reader, packets, inserting, table, fresh, screen>>

(* In a process the VPN has a reader once.                                 *)
StartReader ==
    /\ reader = "off" /\ starts < MaxStarts
    /\ reader' = "read" /\ starts' = starts + 1
    /\ UNCHANGED <<day, packets, inserting, table, fresh, screen>>

(* Its scope is cancelled, or handling a packet fails.                     *)
ReaderEnds ==
    /\ reader = "read"
    /\ reader' = "ended"
    /\ UNCHANGED <<day, starts, packets, inserting, table, fresh, screen>>

-----------------------------------------------------------------------------
(* Writing.                                                                *)

(* Room tells every observer of the table.                                 *)
Invalidate == signalled' = watching

(* logBlockedPacket: for a packet of an app with a name, forwarded or not. *)
LogPacket(key) ==
    /\ reader = "read" /\ Len(packets) < MaxPackets
    /\ packets' = Append(packets, [key |-> key, day |-> day])
    /\ inserting' = inserting \cup {Len(packets) + 1}
    /\ reader' = "prune"
    /\ UNCHANGED <<day, starts, table, fresh, screen>>

(* Mutant: rows have a key of their own: nothing is replaced.              *)
InsertAlways(n) ==
    /\ n \in inserting
    /\ inserting' = inserting \ {n}
    /\ table' = table \cup {packets[n]}
    /\ fresh' = fresh \cup {packets[n]}
    /\ Invalidate
    /\ UNCHANGED <<day, starts, reader, packets, launched, watching, failed, carried, shown>>

(* insert: the row replaces the one with its key, whichever is younger.    *)
Insert(n) ==
    /\ n \in inserting
    /\ inserting' = inserting \ {n}
    /\ table' = {r \in table : r.key # packets[n].key} \cup {packets[n]}
    /\ fresh' = fresh \cup {packets[n]}
    /\ Invalidate
    /\ UNCHANGED <<day, starts, reader, packets, launched, watching, failed, carried, shown>>

(* An exception of an insert is caught by nobody: the process dies, with   *)
(* every coroutine; the table is on disk.                                  *)
InsertFails(n) ==
    /\ n \in inserting
    /\ reader' = "off"
    /\ inserting' = {}
    /\ watching' = {} /\ failed' = {} /\ signalled' = {}
    /\ carried' = [c \in Collectors |-> {}]
    /\ shown' = {}
    /\ UNCHANGED <<day, starts, packets, table, fresh, launched>>

(* Mutant: ascending order.                                                *)
SelectionsAscending ==
    {kept \in SUBSET table :
        /\ Cardinality(kept) <= Limit
        /\ kept = table \/ Cardinality(kept) = Limit
        /\ \A r \in table \ kept, s \in kept : TextLeq(s, r)}

(* Mutant: the limit is one off.                                           *)
SelectionsOneMore ==
    {kept \in SUBSET table :
        /\ Cardinality(kept) <= Limit + 1
        /\ kept = table \/ Cardinality(kept) = Limit + 1
        /\ \A r \in table \ kept, s \in kept : TextLeq(r, s)}

(* What ORDER BY timestamp DESC LIMIT can select: as many rows as there    *)
(* are, up to the limit, and none left out whose text is greater.          *)
Selections ==
    {kept \in SUBSET table :
        /\ Cardinality(kept) <= Limit
        /\ kept = table \/ Cardinality(kept) = Limit
        /\ \A r \in table \ kept, s \in kept : TextLeq(r, s)}

(* Mutant: the deletion tells no observer.                                 *)
DeleteExtraLogsSilently ==
    /\ table' \in Selections
    /\ fresh' = {}
    /\ UNCHANGED signalled

(* deleteExtraLogs; it signals when it deleted something.                  *)
DeleteExtraLogs ==
    /\ table' \in Selections
    /\ fresh' = {}
    /\ IF table' = table THEN UNCHANGED signalled ELSE Invalidate

Prune ==
    /\ reader = "prune"
    /\ DeleteExtraLogs
    /\ reader' = "read"
    /\ UNCHANGED <<day, starts, packets, inserting, launched, watching, failed, carried, shown>>

(* The scope is cancelled or the database fails: the exception ends the    *)
(* reader.  A statement under way when the scope is cancelled is executed. *)
PruneFails ==
    /\ reader = "prune"
    /\ DeleteExtraLogs \/ UNCHANGED <<table, fresh, signalled>>
    /\ reader' = "ended"
    /\ UNCHANGED <<day, starts, packets, inserting, launched, watching, failed, carried, shown>>

-----------------------------------------------------------------------------
(* Showing.                                                                *)

(* getBlockLogs, when the screen appears and at every use of the switch:   *)
(* one collector more, which observes the table and queries it at once.    *)
GetBlockLogs(c) ==
    /\ c \notin launched
    /\ launched' = launched \cup {c}
    /\ watching' = watching \cup {c}
    /\ signalled' = signalled \cup {c}
    /\ UNCHANGED <<log, failed, carried, shown>>

(* Mutant: what was signalled meanwhile is forgotten at the delivery.      *)
DeliverForgets(c) ==
    /\ \E list \in carried[c] : shown' = list
    /\ carried' = [carried EXCEPT ![c] = {}]
    /\ signalled' = signalled \ {c}
    /\ UNCHANGED <<log, launched, watching, failed>>

(* getAllLogs: of the signals since its last query one is left; while a    *)
(* list is being delivered there is no new query.                          *)
Query(c) ==
    /\ c \in signalled /\ carried[c] = {}
    /\ carried' = [carried EXCEPT ![c] = {table}]
    /\ signalled' = signalled \ {c}
    /\ UNCHANGED <<log, launched, watching, failed, shown>>

(* An exception is logged and the collector is gone.                       *)
QueryFails(c) ==
    /\ c \in signalled /\ carried[c] = {}
    /\ watching' = watching \ {c} /\ signalled' = signalled \ {c}
    /\ failed' = failed \cup {c}
    /\ UNCHANGED <<log, launched, carried, shown>>

(* Collectors deliver in any order: a later list may be overwritten by an  *)
(* earlier one.                                                            *)
Deliver(c) ==
    /\ \E list \in carried[c] : shown' = list
    /\ carried' = [carried EXCEPT ![c] = {}]
    /\ UNCHANGED <<log, launched, watching, failed, signalled>>

-----------------------------------------------------------------------------
Next ==
    \/ NextDay \/ StartReader \/ ReaderEnds
    \/ \E key \in LogKeys : LogPacket(key)
    \/ \E n \in 1 .. MaxPackets : Insert(n) \/ InsertFails(n)
    \/ Prune \/ PruneFails
    \/ \E c \in Collectors : GetBlockLogs(c) \/ Query(c) \/ QueryFails(c) \/ Deliver(c)

Spec == Init /\ [][Next]_vars

(* Dispatched coroutines run; packets, switch and failures come as they    *)
(* like.                                                                   *)
FairSpec == Spec /\ \A c \in Collectors : WF_vars(Query(c)) /\ WF_vars(Deliver(c))

-----------------------------------------------------------------------------
TypeOK ==
    /\ day \in Days /\ starts \in 0 .. MaxStarts
    /\ reader \in {"off", "read", "prune", "ended"}
    /\ packets \in Seq(Rows) /\ Len(packets) <= MaxPackets
    /\ inserting \subseteq DOMAIN packets
    /\ table \subseteq Rows /\ fresh \subseteq Rows
    /\ failed \subseteq launched /\ signalled \subseteq watching /\ watching \subseteq launched /\ launched \subseteq Collectors
    /\ carried \in [Collectors -> SUBSET SUBSET Rows]
    /\ shown \subseteq Rows

(* BlockLogEntity's primary key: one row per key, whatever inserts of it   *)
(* overlap.                                                                *)
OneRowPerKey == \A r, s \in table : r.key = s.key => r = s

(* BlockLogDao.deleteExtraLogs: the table outgrows the limit only by rows  *)
(* whose insert a pruning did not wait for, also across a death of the     *)
(* process, which loses prunings as well as inserts.                       *)
LogIsCut == Cardinality(table \ fresh) <= Limit

(* Within a month pruning drops the oldest: text order is time order there *)
(* (and across months it is not).                                          *)
PruneDropsOldest ==
    [][DeleteExtraLogs => \A r \in table \ table', s \in table' : Month(r) = Month(s) => r.day <= s.day]_vars

(* MainViewModel.getBlockLogs: when writing is over, the screen shows what *)
(* the table holds, however many collectors overwrite each other's lists.  *)
(* (One that fails may leave an old list behind that no other overwrites.) *)
ScreenSettles == <>[](watching # {} /\ failed = {} => shown = table)

(* No collector has been told of a change or is about to deliver a list.   *)
Idle == signalled = {} /\ \A c \in Collectors : carried[c] = {}

(* What there is in ScreenSettles without time: as long as no collector    *)
(* has been told of a change or is about to deliver a list, the screen is  *)
(* up to date, whatever was delivered in which order before.               *)
IdleScreenIsRight == watching # {} /\ failed = {} /\ Idle => shown = table

(* Why: a list that is out of date is carried by a collector that will     *)
(* query again, and one whose list is not, or who will, is there as long   *)
(* as the screen is out of date.                                           *)
Stale(c) == carried[c] \notin {{}, {table}}
Repairs(c) == c \in signalled \/ carried[c] = {table}
ScreenOK ==
    /\ \A c \in Collectors : carried[c] # {} => c \in watching
    /\ \A c \in Collectors : Stale(c) => c \in signalled
    /\ watching # {} /\ failed = {} /\ shown # table => \E c \in watching : Repairs(c)

(* The inductive invariant.                                                *)
IInv == TypeOK /\ OneRowPerKey /\ IsFiniteSet(table) /\ LogIsCut /\ ScreenOK
=============================================================================
