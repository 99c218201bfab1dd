--------------------------- MODULE Exchange_proofs ---------------------------
(* Proofs about Exchange, for any sockets, servers, ports, sizes of        *)
(* answers and number of packets.                                          *)
EXTENDS Exchange, TLAPS

LEMMA Elements ==
    ASSUME NEW S, NEW q \in Seq(S), NEW i \in DOMAIN q
    PROVE  q[i] \in S
OBVIOUS

LEMMA InitHolds == Init => IInv
<1> SUFFICES ASSUME Init PROVE IInv
  OBVIOUS
<1>1. TypeOK
  BY BoundAssumption DEF Init, TypeOK, Labels
<1>2. TasksOK
  BY DEF Init, TasksOK
<1>3. EndsHeard
  BY DEF Init, EndsHeard
<1> QED
  BY <1>1, <1>2, <1>3 DEF Init, IInv, AnswersAreGenuine, BlockedHearsNothing

(* A packet for the port of a socket is heard by no other.                 *)
LEMMA OneHears ==
    ASSUME NEW p, NEW s \in Sockets, NEW t \in Sockets,
           p.transport = t.transport, p.dstPort = t.port, Hears(p, s)
    PROVE  s = t
BY SocketsAssumption DEF Hears, IsFor

LEMMA FromOK ==
    ASSUME TypeOK, NEW n \in DOMAIN packets
    PROVE  packets[n].from \in Sockets /\ packets[n].passed \in BOOLEAN
<1>1. packets \in Seq([from : Sockets, passed : BOOLEAN])
  BY DEF TypeOK
<1>2. packets[n] \in [from : Sockets, passed : BOOLEAN]
  BY <1>1, Elements
<1> QED
  BY <1>2

(* What is written to the tunnel for a socket is heard by it or by nobody. *)
LEMMA HeardByOne ==
    ASSUME NEW s \in Sockets, NEW p, p.transport = s.transport, p.dstPort = s.port, PhoneTakes(p)
    PROVE  \/ heard' = heard /\ ~Hears(p, s)
           \/ heard' = heard \cup
                 {[socket |-> s, src |-> p.src, srcPort |-> p.srcPort, bytes |-> p.payload]}
<1>1. ASSUME NEW t \in Sockets, Hears(p, t) PROVE t = s
  BY <1>1, OneHears
<1>2. {t \in Sockets : Hears(p, t)} = IF Hears(p, s) THEN {s} ELSE {}
  BY <1>1
<1> QED
  BY <1>2 DEF PhoneTakes

(* What is written to the tunnel for a packet that passed, in the name of  *)
(* who answered it, keeps what sockets hear in order.                      *)
LEMMA GenuineKeeps ==
    ASSUME IInv, NEW n \in DOMAIN packets, NEW p,
           p.transport = packets[n].from.transport, p.dstPort = packets[n].from.port,
           packets[n].passed, UNCHANGED packets, PhoneTakes(p),
           answers \subseteq answers',
           NEW a \in answers', a.task = n, a.host = p.src, a.port = p.srcPort,
           p.payload = a.bytes \/ (p.payload = UdpBuffer /\ a.bytes > UdpBuffer)
    PROVE  AnswersAreGenuine' /\ BlockedHearsNothing'
<1> DEFINE s == packets[n].from
<1>1. s \in Sockets
  BY FromOK DEF IInv
<1>2. ASSUME NEW h \in heard', h \notin heard
      PROVE  h.socket = s /\ h.src = p.src /\ h.srcPort = p.srcPort /\ h.bytes = p.payload
  BY <1>1, <1>2, HeardByOne
<1>3. AnswersAreGenuine'
  <2> SUFFICES ASSUME NEW h \in heard' PROVE \E b \in answers' : Reaches(b, h)'
    BY DEF AnswersAreGenuine
  <2>1. CASE h \in heard
    <3>1. PICK b \in answers : Reaches(b, h)
      BY <2>1 DEF IInv, AnswersAreGenuine
    <3>2. Reaches(b, h)' /\ b \in answers'
      BY <3>1 DEF Reaches
    <3> QED
      BY <3>2
  <2>2. CASE h \notin heard
    <3>1. Reaches(a, h)'
      BY <1>2, <2>2 DEF Reaches
    <3> QED
      BY <3>1
  <2> QED
    BY <2>1, <2>2
<1>4. BlockedHearsNothing'
  BY <1>1, <1>2 DEF IInv, BlockedHearsNothing
<1> QED
  BY <1>3, <1>4

(* A packet without payload is heard by nobody, and so is one of another   *)
(* protocol.                                                               *)
LEMMA SilenceKeeps ==
    ASSUME IInv, NEW p, PhoneTakes(p), p.payload = 0 \/ p.transport = "Unknown"
    PROVE  heard' = heard
<1>1. ASSUME NEW t \in Sockets, Hears(p, t) PROVE FALSE
  BY <1>1 DEF Hears, IsFor, IInv, TypeOK
<1> QED
  BY <1>1 DEF PhoneTakes

(* Only SYN-ACKs open connections.                                         *)
LEMMA OpenStep ==
    ASSUME TypeOK, NEW p, PhoneTakes(p), p.transport = "TCP" \/ p.flags = {}
    PROVE  open' \subseteq {s \in Sockets : s.transport = "TCP"}
<1>1. ASSUME NEW s \in Sockets, Opens(p, s) PROVE s.transport = "TCP"
  BY <1>1 DEF Opens, IsFor
<1> QED
  BY <1>1 DEF TypeOK, PhoneTakes

(* Steps that only move a task on.                                         *)
LEMMA MoveKeeps ==
    ASSUME IInv, NEW n \in Tasks, NEW label \in Labels \ {"none"}, Goes(n, label),
           at[n] \notin {"none", "done"},
           label \in {"extract", "send", "receive"} => packets[n].from.transport = "UDP",
           label \in {"flags", "connect", "synack", "reader"} => packets[n].from.transport = "TCP",
           UNCHANGED <<packets, traffic>>
    PROVE  TasksOK' /\ at' \in [Tasks -> Labels]
<1>1. at' \in [Tasks -> Labels]
  BY DEF IInv, TypeOK, Goes
<1>2. TasksOK'
  BY DEF IInv, TypeOK, TasksOK, Goes
<1> QED
  BY <1>1, <1>2

(* What was heard stays heard, and what was lost, lost.                    *)
LEMMA HeardStays ==
    ASSUME TypeOK, heard \subseteq heard', answers \subseteq answers',
           NEW n \in DOMAIN packets, UNCHANGED packets
    PROVE  (Heard(n) => Heard(n)') /\ (at'[n] = at[n] /\ Lost(n) => Lost(n)')
<1>1. ASSUME NEW a \in answers, NEW h \in heard, a.task = n, IsAsked(a), Reaches(a, h)
      PROVE  Heard(n)'
  <2>1. a \in answers' /\ h \in heard' /\ IsAsked(a)' /\ Reaches(a, h)'
    BY <1>1 DEF IsAsked, Reaches
  <2> QED
    BY <1>1, <2>1 DEF Heard
<1>2. ASSUME NEW a \in answers, a.task = n, ~IsAsked(a) PROVE Lost(n)'
  <2>1. a \in answers' /\ ~IsAsked(a)'
    BY <1>2 DEF IsAsked
  <2> QED
    BY <1>2, <2>1 DEF Lost
<1> QED
  BY <1>1, <1>2 DEF Heard, Lost

LEMMA EndsKeep ==
    ASSUME IInv, NEW n \in Tasks, NEW label, Goes(n, label),
           heard \subseteq heard', answers \subseteq answers', UNCHANGED packets,
           label \in {"done", "dropped", "failed"} /\ Plain(packets[n].from) =>
               Heard(n)' \/ Lost(n)'
    PROVE  EndsHeard'
<1> SUFFICES ASSUME NEW m \in Tasks, Passed(m)', Plain(packets'[m].from),
                    at'[m] \in {"done", "dropped", "failed"}
             PROVE  Heard(m)' \/ Lost(m)'
  BY DEF EndsHeard, Plain
<1>1. CASE m = n
  BY <1>1 DEF IInv, TypeOK, Goes
<1>2. CASE m # n
  <2>1. at'[m] = at[m] /\ packets' = packets
    BY <1>2 DEF IInv, TypeOK, Goes
  <2>2. m \in DOMAIN packets /\ Passed(m)
    BY <2>1 DEF Passed
  <2>3. Heard(m) \/ Lost(m)
    BY <2>1, <2>2 DEF IInv, EndsHeard
  <2> QED
    BY <2>1, <2>2, <2>3, HeardStays DEF IInv
<1> QED
  BY <1>1, <1>2

LEMMA ReadPacketKeeps ==
    ASSUME IInv, NEW s \in Sockets, NEW passed \in BOOLEAN, ReadPacket(s, passed)
    PROVE  IInv'
<1> DEFINE n == Len(packets) + 1
           parsed == ParseRealPacket(Request(s))
<1>1. /\ packets \in Seq([from : Sockets, passed : BOOLEAN])
      /\ packets' = Append(packets, [from |-> s, passed |-> passed])
      /\ Len(packets) \in Nat /\ n \in Tasks
  BY BoundAssumption DEF IInv, TypeOK, ReadPacket, Tasks
<1>2. /\ packets' \in Seq([from : Sockets, passed : BOOLEAN]) /\ Len(packets') = n
      /\ DOMAIN packets' = DOMAIN packets \cup {n} /\ n \notin DOMAIN packets
      /\ packets'[n] = [from |-> s, passed |-> passed]
      /\ \A m \in DOMAIN packets : packets'[m] = packets[m]
  <2>1. [from |-> s, passed |-> passed] \in [from : Sockets, passed : BOOLEAN]
    OBVIOUS
  <2> QED
    BY <1>1, <2>1
<1>3. parsed.protocolByte = s.transport
  BY DEF ParseRealPacket, Request
<1> DEFINE label == CASE passed /\ parsed.protocolByte = "UDP" -> "extract"
                      [] passed /\ parsed.protocolByte = "TCP" -> "flags"
                      [] OTHER -> "done"
<1>4. /\ Goes(n, label) /\ traffic' = [traffic EXCEPT ![n] = parsed]
      /\ label \in {"extract", "flags", "done"}
      /\ label = "extract" => passed /\ s.transport = "UDP"
      /\ label = "flags" => passed /\ s.transport = "TCP"
  BY <1>3 DEF ReadPacket
<1>5. PICK silent : /\ silent = Request(s)
                    /\ \/ PhoneTakes(silent) /\ s.transport = "Unknown"
                       \/ UNCHANGED <<open, heard>>
  BY <1>3 DEF ReadPacket
<1>6. heard' = heard /\ open' \subseteq {t \in Sockets : t.transport = "TCP"}
  <2>1. s.transport = "Unknown" => silent.transport = "Unknown" /\ silent.flags = {}
    BY <1>5 DEF Request
  <2> QED
    BY <1>5, <2>1, SilenceKeeps, OpenStep DEF IInv, TypeOK
<1>7. at' \in [Tasks -> Labels]
  BY <1>1, <1>4 DEF IInv, TypeOK, Goes, Labels
<1>8. TypeOK'
  <2>1. traffic' \in [Tasks -> {NoTraffic} \cup {ParseRealPacket(Request(t)) : t \in Sockets}]
    BY <1>1, <1>4 DEF IInv, TypeOK
  <2> QED
    BY <1>1, <1>2, <1>6, <1>7, <2>1 DEF IInv, TypeOK, Tasks, ReadPacket
<1>9. TasksOK'
  <2> SUFFICES ASSUME NEW m \in Tasks
               PROVE  /\ at'[m] = "none" <=> m \notin DOMAIN packets'
                      /\ m \in DOMAIN packets' => traffic'[m] = ParseRealPacket(Request(packets'[m].from))
                      /\ at'[m] \notin {"none", "done"} => packets'[m].passed
                      /\ at'[m] \in {"extract", "send", "receive"} => packets'[m].from.transport = "UDP"
                      /\ at'[m] \in {"flags", "connect", "synack", "reader"} => packets'[m].from.transport = "TCP"
    BY DEF TasksOK
  <2>1. CASE m = n
    BY <1>1, <1>2, <1>4, <2>1 DEF IInv, TypeOK, Goes
  <2>2. CASE m # n
    <3>1. at'[m] = at[m] /\ traffic'[m] = traffic[m] /\ (m \in DOMAIN packets' <=> m \in DOMAIN packets)
      BY <1>2, <1>4, <2>2 DEF IInv, TypeOK, Goes
    <3> QED
      BY <1>2, <3>1 DEF IInv, TasksOK
  <2> QED
    BY <2>1, <2>2
<1>10. ASSUME NEW a \in answers
       PROVE  /\ a \in answers' /\ a.task \in DOMAIN packets
              /\ \A h : Reaches(a, h) <=> Reaches(a, h)'
              /\ IsAsked(a) <=> IsAsked(a)'
  <2>1. a \in answers' /\ a.task \in DOMAIN packets
    BY DEF IInv, TypeOK, ReadPacket
  <2>2. packets'[a.task] = packets[a.task]
    BY <1>2, <2>1
  <2> QED
    BY <2>1, <2>2 DEF Reaches, IsAsked
<1>13. AnswersAreGenuine'
  <2> SUFFICES ASSUME NEW h \in heard PROVE \E a \in answers' : Reaches(a, h)'
    BY <1>6 DEF AnswersAreGenuine
  <2>1. PICK a \in answers : Reaches(a, h)
    BY DEF IInv, AnswersAreGenuine
  <2> QED
    BY <1>10, <2>1
<1>11. BlockedHearsNothing'
  BY <1>2, <1>6 DEF IInv, BlockedHearsNothing
<1>12. EndsHeard'
  <2> SUFFICES ASSUME NEW m \in Tasks, Passed(m)', Plain(packets'[m].from),
                      at'[m] \in {"done", "dropped", "failed"}
               PROVE  Heard(m)' \/ Lost(m)'
    BY DEF EndsHeard, Plain
  <2>1. CASE m = n
    <3>1. packets'[m].from = s /\ s.transport = "UDP" /\ passed
      BY <1>2, <2>1 DEF Plain, Passed
    <3>2. at'[m] = "extract"
      BY <1>1, <1>3, <1>4, <2>1, <3>1 DEF IInv, TypeOK, Goes
    <3> QED
      BY <3>2
  <2>2. CASE m # n
    <3>1. m \in DOMAIN packets /\ packets'[m] = packets[m] /\ at'[m] = at[m]
      BY <1>2, <1>4, <2>2 DEF Passed, IInv, TypeOK, Goes
    <3>2. Heard(m) \/ Lost(m)
      BY <3>1 DEF IInv, EndsHeard, Passed
    <3>3. ASSUME NEW a \in answers, NEW h \in heard, a.task = m, IsAsked(a), Reaches(a, h)
          PROVE  Heard(m)'
      BY <1>2, <1>6, <1>10, <3>1, <3>3 DEF Heard
    <3>4. ASSUME NEW a \in answers, a.task = m, ~IsAsked(a) PROVE Lost(m)'
      BY <1>10, <3>4 DEF Lost
    <3> QED
      BY <1>1, <1>2, <3>1, <3>2, <3>3, <3>4 DEF Heard, Lost
  <2> QED
    BY <2>1, <2>2
<1> QED
  BY <1>8, <1>9, <1>11, <1>12, <1>13 DEF IInv

(* The answer to a task, written for its traffic.                          *)
LEMMA ReplyKeeps ==
    ASSUME IInv, NEW n \in Tasks, at[n] \in {"receive", "reader"}, UNCHANGED packets,
           NEW from, NEW bytes \in AnswerSizes, Answer(n, from, bytes), NEW p, PhoneTakes(p),
           p.transport = packets[n].from.transport,
           p.src = from.host, p.srcPort = from.port, p.dstPort = traffic[n].srcPort,
           p.payload = bytes \/ p.payload = Kept(bytes)
    PROVE  /\ AnswersAreGenuine' /\ BlockedHearsNothing'
           /\ answers \subseteq answers' /\ \A a \in answers' : a.task \in DOMAIN packets'
<1>1. n \in DOMAIN packets /\ packets[n].passed /\ traffic[n] = ParseRealPacket(Request(packets[n].from))
  BY DEF IInv, TasksOK
<1>2. p.dstPort = packets[n].from.port
  BY <1>1 DEF ParseRealPacket, Request
<1> DEFINE a == [task |-> n, host |-> from.host, port |-> from.port, bytes |-> bytes]
<1>3. answers' = answers \cup {a}
  BY DEF Answer
<1>4. a.task = n /\ a.host = p.src /\ a.port = p.srcPort /\ a.bytes = bytes
  OBVIOUS
<1> HIDE DEF a
<1>5. p.payload = a.bytes \/ (p.payload = UdpBuffer /\ a.bytes > UdpBuffer)
  BY <1>4 DEF Kept
<1>6. AnswersAreGenuine' /\ BlockedHearsNothing'
  BY <1>1, <1>2, <1>3, <1>4, <1>5, GenuineKeeps
<1> QED
  BY <1>1, <1>3, <1>4, <1>6 DEF IInv, TypeOK

(* A task that finds its own packet in the buffer finds its payload too.   *)
LEMMA PlainIsFound ==
    ASSUME IInv, NEW n \in Tasks, at[n] = "extract", Plain(packets[n].from),
           NEW p \in InBuffer(n), ~(p # None /\ ExtractUdpPayload(Found(p)) # 0)
    PROVE  n \in DOMAIN packets /\ n < Len(packets)
<1>1. n \in DOMAIN packets /\ packets \in Seq([from : Sockets, passed : BOOLEAN])
  BY DEF IInv, TypeOK, TasksOK
<1>2. n <= Len(packets) /\ n \in Nat \ {0} /\ Len(packets) \in Nat
  BY <1>1, BoundAssumption DEF Tasks
<1>3. ExtractUdpPayload(Found(n)) = 1
  BY DEF Plain, Found, Request, ExtractUdpPayload, InPayloadLayer
<1>4. p # n
  BY <1>2, <1>3 DEF None
<1>5. n # Len(packets)
  BY <1>4 DEF InBuffer
<1> QED
  BY <1>1, <1>2, <1>5

LEMMA QuietEnds ==
    ASSUME IInv, NEW n \in Tasks, UNCHANGED <<packets, answers, heard>>,
           ExtractPayload(n) \/ Send(n) \/ FindSyn(n) \/ Connect(n) \/ Fails(n) \/ ReaderEnds(n)
    PROVE  EndsHeard'
<1>1. CASE ExtractPayload(n)
  <2>1. PICK p \in InBuffer(n) :
          Goes(n, IF p # None /\ ExtractUdpPayload(Found(p)) # 0 THEN "send" ELSE "dropped")
    BY <1>1 DEF ExtractPayload
  <2>2. CASE p # None /\ ExtractUdpPayload(Found(p)) # 0
    <3>1. Goes(n, "send")
      BY <2>1, <2>2
    <3> QED
      BY <3>1, EndsKeep
  <2>3. CASE ~(p # None /\ ExtractUdpPayload(Found(p)) # 0)
    <3>1. Goes(n, "dropped")
      BY <2>1, <2>3
    <3>2. Plain(packets[n].from) => Lost(n)'
      BY <1>1, <2>3, <3>1, PlainIsFound DEF ExtractPayload, Lost, Goes, IInv, TypeOK
    <3> QED
      BY <3>1, <3>2, EndsKeep
  <2> QED
    BY <2>2, <2>3
<1>2. CASE Send(n) \/ Connect(n)
  <2>1. PICK label \in {"receive", "synack"} : Goes(n, label)
    BY <1>2 DEF Send, Connect
  <2> QED
    BY <2>1, EndsKeep
<1>3. CASE FindSyn(n) \/ ReaderEnds(n)
  <2>1. PICK label : Goes(n, label)
    BY <1>3 DEF FindSyn, ReaderEnds
  <2>2. ~Plain(packets[n].from)
    BY <1>3 DEF FindSyn, ReaderEnds, IInv, TasksOK, Plain
  <2> QED
    BY <2>1, <2>2, EndsKeep
<1>4. CASE Fails(n)
  <2>1. Goes(n, "failed") /\ Lost(n)'
    BY <1>4 DEF Fails, Goes, Lost, IInv, TypeOK
  <2> QED
    BY <2>1, EndsKeep
<1> QED
  BY <1>1, <1>2, <1>3, <1>4

(* A task's steps, but for those that write to the tunnel, leave alone     *)
(* what is heard.                                                          *)
LEMMA QuietKeeps ==
    ASSUME IInv, NEW n \in Tasks,
           ExtractPayload(n) \/ Send(n) \/ FindSyn(n) \/ Connect(n) \/ Fails(n) \/ ReaderEnds(n)
    PROVE  IInv'
<1>1. UNCHANGED <<packets, traffic, answers, open, heard>>
  BY DEF ExtractPayload, Send, FindSyn, Connect, Fails, ReaderEnds
<1>2. PICK label \in Labels \ {"none"} :
        /\ Goes(n, label) /\ at[n] \notin {"none", "done"}
        /\ label \in {"extract", "send", "receive"} => at[n] \in {"extract", "send"}
        /\ label \in {"flags", "connect", "synack", "reader"} => at[n] \in {"flags", "connect"}
  <2>1. CASE ExtractPayload(n)
    BY <2>1 DEF ExtractPayload, Labels
  <2>2. CASE Send(n)
    BY <2>2 DEF Send, Labels
  <2>3. CASE FindSyn(n)
    BY <2>3 DEF FindSyn, Labels
  <2>4. CASE Connect(n)
    BY <2>4 DEF Connect, Labels
  <2>5. CASE Fails(n)
    BY <2>5 DEF Fails, Labels
  <2>6. CASE ReaderEnds(n)
    BY <2>6 DEF ReaderEnds, Labels
  <2> QED
    BY <2>1, <2>2, <2>3, <2>4, <2>5, <2>6
<1>3. TasksOK' /\ at' \in [Tasks -> Labels]
  BY <1>1, <1>2, MoveKeeps DEF IInv, TasksOK
<1>4. EndsHeard'
  BY <1>1, QuietEnds
<1> QED
  BY <1>1, <1>3, <1>4 DEF IInv, TypeOK, AnswersAreGenuine, Reaches, BlockedHearsNothing

LEMMA ReceiveKeeps ==
    ASSUME IInv, NEW n \in Tasks, NEW from \in Hosts, NEW bytes \in AnswerSizes, Receive(n, from, bytes)
    PROVE  IInv'
<1> DEFINE p == BuildUdpResponsePacket(Kept(bytes), from.host, from.port, PhoneAddress, traffic[n].srcPort)
<1>1. at[n] = "receive" /\ packets[n].from.transport = "UDP"
  BY DEF Receive, IInv, TasksOK
<1>2. /\ p.transport = "UDP" /\ p.flags = {} /\ p.payload = Kept(bytes) /\ p.dst = PhoneAddress
      /\ p.src = from.host /\ p.srcPort = from.port /\ p.dstPort = traffic[n].srcPort
  BY DEF BuildUdpResponsePacket
<1>3. PhoneTakes(p) /\ Answer(n, from, bytes) /\ Goes(n, "done") /\ UNCHANGED <<packets, traffic>>
  BY DEF Receive
<1> HIDE DEF p
<1>4. /\ AnswersAreGenuine' /\ BlockedHearsNothing'
      /\ answers \subseteq answers' /\ \A a \in answers' : a.task \in DOMAIN packets'
  BY <1>1, <1>2, <1>3, ReplyKeeps
<1>5. TasksOK' /\ at' \in [Tasks -> Labels]
  BY <1>1, <1>3, MoveKeeps DEF Labels
<1>6. open' \subseteq {s \in Sockets : s.transport = "TCP"}
  BY <1>2, <1>3, OpenStep DEF IInv
<1>7. n \in DOMAIN packets /\ packets[n].from \in Sockets
      /\ traffic[n] = ParseRealPacket(Request(packets[n].from))
  BY <1>1, FromOK DEF IInv, TasksOK
<1>8. EndsHeard'
  <2>1. PICK a \in answers' : a.task = n /\ a.host = p.src /\ a.port = p.srcPort /\ a.bytes = bytes
    <3>1. [task |-> n, host |-> from.host, port |-> from.port, bytes |-> bytes] \in answers'
      BY <1>3 DEF Answer
    <3> QED
      BY <1>2, <3>1
  <2>2. p.dstPort = packets[n].from.port /\ p.payload # 0
    <3>1. p.dstPort = packets[n].from.port
      BY <1>2, <1>7 DEF ParseRealPacket, Request
    <3>2. Kept(bytes) # 0
      BY SizesAssumption DEF Kept
    <3> QED
      BY <1>2, <3>1, <3>2
  <2>3. Hears(p, packets[n].from)
    BY <1>1, <1>2, <2>2 DEF Hears, IsFor
  <2>4. heard' = heard \cup
          {[socket |-> packets[n].from, src |-> p.src, srcPort |-> p.srcPort, bytes |-> p.payload]}
    BY <1>1, <1>2, <1>3, <1>7, <2>2, <2>3, HeardByOne
  <2>5. PICK h \in heard' :
          h.socket = packets[n].from /\ h.src = p.src /\ h.srcPort = p.srcPort /\ h.bytes = p.payload
    <3>1. [socket |-> packets[n].from, src |-> p.src, srcPort |-> p.srcPort, bytes |-> p.payload] \in heard'
      BY <2>4
    <3> QED
      BY <3>1
  <2>6. Reaches(a, h)'
    BY <1>2, <1>3, <2>1, <2>5 DEF Reaches, Kept
  <2>7. CASE IsAsked(a)'
    <3>1. Heard(n)'
      BY <1>3, <1>7, <2>1, <2>5, <2>6, <2>7 DEF Heard
    <3> QED
      BY <1>3, <1>4, <2>4, <3>1, EndsKeep
  <2>8. CASE ~IsAsked(a)'
    <3>1. Lost(n)'
      BY <2>1, <2>8 DEF Lost
    <3> QED
      BY <1>3, <1>4, <2>4, <3>1, EndsKeep
  <2> QED
    BY <2>7, <2>8
<1> QED
  BY <1>3, <1>4, <1>5, <1>6, <1>8 DEF IInv, TypeOK

LEMMA SynAckKeeps ==
    ASSUME IInv, NEW n \in Tasks, SynAck(n)
    PROVE  IInv'
<1> DEFINE p == BuildTcpPacket(PhoneAddress, traffic[n].srcIp,
                  traffic[n].dstPort, traffic[n].srcPort, {SYN, ACK}, 1, 1)
<1>1. at[n] = "synack" /\ packets[n].from.transport = "TCP"
  BY DEF SynAck, IInv, TasksOK
<1>2. p.transport = "TCP" /\ p.payload = 0
  BY DEF BuildTcpPacket
<1>3. PhoneTakes(p) /\ Goes(n, "reader") /\ UNCHANGED <<packets, traffic, answers>>
  BY DEF SynAck
<1> HIDE DEF p
<1>4. heard' = heard
  BY <1>2, <1>3, SilenceKeeps
<1>5. TasksOK' /\ at' \in [Tasks -> Labels]
  BY <1>1, <1>3, MoveKeeps DEF Labels
<1>6. open' \subseteq {s \in Sockets : s.transport = "TCP"}
  BY <1>2, <1>3, OpenStep DEF IInv
<1>7. EndsHeard'
  BY <1>3, <1>4, EndsKeep
<1> QED
  BY <1>3, <1>4, <1>5, <1>6, <1>7 DEF IInv, TypeOK, AnswersAreGenuine, Reaches, BlockedHearsNothing

LEMMA RelayKeeps ==
    ASSUME IInv, NEW n \in Tasks, NEW bytes \in AnswerSizes, Relay(n, bytes)
    PROVE  IInv'
<1> DEFINE p == BuildTcpResponsePacket(bytes,
                  traffic[n].dstIp, traffic[n].dstPort, PhoneAddress, traffic[n].srcPort)
           from == [host |-> traffic[n].dstIp, port |-> traffic[n].dstPort]
<1>1. at[n] = "reader" /\ packets[n].from.transport = "TCP"
  BY DEF Relay, IInv, TasksOK
<1>2. /\ p.transport = "TCP" /\ p.payload = bytes
      /\ p.src = from.host /\ p.srcPort = from.port /\ p.dstPort = traffic[n].srcPort
  BY DEF BuildTcpResponsePacket
<1>3. PhoneTakes(p) /\ Answer(n, from, bytes) /\ UNCHANGED <<packets, traffic, at>>
  BY DEF Relay
<1> HIDE DEF p, from
<1>4. /\ AnswersAreGenuine' /\ BlockedHearsNothing'
      /\ answers \subseteq answers' /\ \A a \in answers' : a.task \in DOMAIN packets'
  BY <1>1, <1>2, <1>3, ReplyKeeps
<1>5. open' \subseteq {s \in Sockets : s.transport = "TCP"}
  BY <1>2, <1>3, OpenStep DEF IInv
<1>6. heard \subseteq heard'
  BY <1>3 DEF PhoneTakes
<1>7. EndsHeard'
  <2>1. at'[n] = at[n] /\ Goes(n, at[n])
    BY <1>3 DEF IInv, TypeOK, Goes
  <2> QED
    BY <1>1, <1>3, <1>4, <1>6, <2>1, EndsKeep
<1> QED
  BY <1>3, <1>4, <1>5, <1>7 DEF IInv, TypeOK, TasksOK

LEMMA StepHolds ==
    ASSUME IInv, [Next]_vars
    PROVE  IInv'
<1>1. ASSUME NEW s \in Sockets, NEW passed \in BOOLEAN, ReadPacket(s, passed) PROVE IInv'
  BY <1>1, ReadPacketKeeps
<1>2. ASSUME NEW n \in Tasks, Task(n) \/ ReaderEnds(n) PROVE IInv'
  <2>1. CASE ExtractPayload(n) \/ Send(n) \/ FindSyn(n) \/ Connect(n) \/ Fails(n) \/ ReaderEnds(n)
    BY <2>1, QuietKeeps
  <2>2. CASE SynAck(n)
    BY <2>2, SynAckKeeps
  <2>3. ASSUME NEW from \in Hosts, NEW bytes \in AnswerSizes, Receive(n, from, bytes) PROVE IInv'
    BY <2>3, ReceiveKeeps
  <2> QED
    BY <1>2, <2>1, <2>2, <2>3 DEF Task
<1>3. ASSUME NEW n \in Tasks, NEW bytes \in AnswerSizes, Relay(n, bytes) PROVE IInv'
  BY <1>3, RelayKeeps
<1>4. CASE UNCHANGED vars
  BY <1>4 DEF vars, IInv, TypeOK, TasksOK, AnswersAreGenuine, BlockedHearsNothing,
                EndsHeard, Passed, Plain, Heard, Lost, IsAsked, Reaches
<1> QED
  BY <1>1, <1>2, <1>3, <1>4 DEF Next

(* The invariant holds in every behaviour.                                 *)
THEOREM Inductive == Spec => []IInv
<1>1. Init => IInv
  BY InitHolds
<1>2. IInv /\ [Next]_vars => IInv'
  BY StepHolds
<1> QED
  BY <1>1, <1>2, PTL DEF Spec

(* A socket hears only what a host has sent to the request of the socket,  *)
(* and in the name of that host.                                           *)
THEOREM HeardIsGenuine == Spec => []AnswersAreGenuine
<1>1. IInv => AnswersAreGenuine
  BY DEF IInv
<1> QED
  BY <1>1, Inductive, PTL

(* The task of a question does not end in silence unless it is lost.       *)
THEOREM QuestionsEndHeard == Spec => []EndsHeard
<1>1. IInv => EndsHeard
  BY DEF IInv
<1> QED
  BY <1>1, Inductive, PTL

(* A socket whose packets were all dropped hears nothing.                  *)
THEOREM BlockedStayDeaf == Spec => []BlockedHearsNothing
<1>1. IInv => BlockedHearsNothing
  BY DEF IInv
<1> QED
  BY <1>1, Inductive, PTL

-----------------------------------------------------------------------------
(* Exchange implements Conversation.                                       *)

LEMMA ReadPacketAsks ==
    ASSUME IInv, NEW s \in Sockets, NEW passed \in BOOLEAN, ReadPacket(s, passed)
    PROVE  Talk!Ask(s) \/ UNCHANGED Talk!vars
<1>1. /\ packets \in Seq([from : Sockets, passed : BOOLEAN])
      /\ packets' = Append(packets, [from |-> s, passed |-> passed])
      /\ answers' = answers
  BY DEF IInv, TypeOK, ReadPacket
<1>2. heard' = heard
  <2>1. PICK silent : /\ silent = Request(s)
                      /\ \/ PhoneTakes(silent) /\ silent.transport = "Unknown"
                         \/ UNCHANGED heard
    BY DEF ReadPacket, ParseRealPacket
  <2> QED
    BY <2>1, SilenceKeeps
<1>3. Asked' = IF passed THEN Asked \cup {s} ELSE Asked
  <2> DEFINE n == Len(packets) + 1
  <2>1. /\ DOMAIN packets' = DOMAIN packets \cup {n} /\ n \notin DOMAIN packets
        /\ packets'[n].from = s /\ packets'[n].passed = passed
        /\ \A m \in DOMAIN packets : packets'[m] = packets[m]
    BY <1>1
  <2> HIDE DEF n
  <2> QED
    BY <2>1 DEF Asked
<1>4. Said' = Said
  <2>1. ASSUME NEW a \in answers PROVE packets'[a.task] = packets[a.task]
    <3>1. a.task \in DOMAIN packets
      BY DEF IInv, TypeOK
    <3> QED
      BY <1>1, <3>1
  <2> QED
    BY <1>1, <2>1 DEF Said
<1> QED
  BY <1>1, <1>2, <1>3, <1>4 DEF Talk!Ask, Talk!vars

(* An answer to a task is said to the socket of its packet, and heard by   *)
(* it or by nobody.                                                        *)
LEMMA ReplyIsSaid ==
    ASSUME IInv, NEW n \in Tasks, at[n] \in {"receive", "reader"}, UNCHANGED packets,
           NEW from \in Talk!Speakers(packets[n].from), NEW bytes \in AnswerSizes,
           Answer(n, from, bytes), NEW p, PhoneTakes(p),
           p.transport = packets[n].from.transport,
           p.src = from.host, p.srcPort = from.port, p.dstPort = traffic[n].srcPort,
           p.payload = bytes \/ p.payload = Kept(bytes)
    PROVE  Talk!Next
<1> DEFINE s == packets[n].from
<1>1. /\ n \in DOMAIN packets /\ packets[n].passed /\ s \in Sockets
      /\ traffic[n] = ParseRealPacket(Request(s))
  BY FromOK DEF IInv, TasksOK
<1>2. p.dstPort = s.port
  BY <1>1 DEF ParseRealPacket, Request
<1>3. Talk!Say(s, from, bytes)
  <2>1. s \in Asked /\ Asked' = Asked
    BY <1>1 DEF Asked
  <2>2. Said' = Said \cup {Talk!Saying(s, from, bytes)}
    <3> DEFINE a == [task |-> n, host |-> from.host, port |-> from.port, bytes |-> bytes]
    <3>1. answers' = answers \cup {a} /\ packets' = packets
      BY DEF Answer
    <3>2. [to |-> packets[a.task].from, host |-> a.host, port |-> a.port, bytes |-> a.bytes]
            = Talk!Saying(s, from, bytes)
      BY DEF Talk!Saying
    <3> HIDE DEF a
    <3> QED
      BY <3>1, <3>2 DEF Said
  <2> QED
    BY <2>1, <2>2 DEF Talk!Say
<1>4. CASE heard' = heard
  BY <1>1, <1>3, <1>4 DEF Talk!Next, Talk!SayInVain
<1>5. CASE heard' = heard \cup
             {[socket |-> s, src |-> p.src, srcPort |-> p.srcPort, bytes |-> p.payload]}
  <2>1. PICK part \in {bytes, UdpBuffer} : part = p.payload /\ Talk!Whole(bytes, part)
    BY DEF Kept, Talk!Whole
  <2>2. heard' = heard \cup {Talk!Hearing(s, from, part)}
    BY <1>5, <2>1 DEF Talk!Hearing
  <2>3. Talk!SayAndHear(s, from, bytes, part)
    BY <1>3, <2>1, <2>2 DEF Talk!SayAndHear
  <2> QED
    BY <1>1, <2>1, <2>3 DEF Talk!Next
<1> QED
  BY <1>1, <1>2, <1>4, <1>5, HeardByOne

LEMMA TalkStep ==
    ASSUME IInv, [Next]_vars
    PROVE  [Talk!Next]_(Talk!vars)
<1>1. ASSUME NEW s \in Sockets, NEW passed \in BOOLEAN, ReadPacket(s, passed)
      PROVE  [Talk!Next]_(Talk!vars)
  BY <1>1, ReadPacketAsks DEF Talk!Next
<1>2. ASSUME NEW n \in Tasks, NEW from \in Hosts, NEW bytes \in AnswerSizes, Receive(n, from, bytes)
      PROVE  Talk!Next
  <2> DEFINE p == BuildUdpResponsePacket(Kept(bytes), from.host, from.port, PhoneAddress, traffic[n].srcPort)
  <2>1. at[n] = "receive" /\ packets[n].from.transport = "UDP"
    BY <1>2 DEF Receive, IInv, TasksOK
  <2>2. /\ p.transport = "UDP" /\ p.payload = Kept(bytes)
        /\ p.src = from.host /\ p.srcPort = from.port /\ p.dstPort = traffic[n].srcPort
    BY DEF BuildUdpResponsePacket
  <2>3. PhoneTakes(p) /\ Answer(n, from, bytes) /\ UNCHANGED packets
    BY <1>2 DEF Receive
  <2>4. from \in Talk!Speakers(packets[n].from)
    BY <2>1 DEF Talk!Speakers
  <2> HIDE DEF p
  <2> QED
    BY <2>1, <2>2, <2>3, <2>4, ReplyIsSaid
<1>3. ASSUME NEW n \in Tasks, NEW bytes \in AnswerSizes, Relay(n, bytes) PROVE Talk!Next
  <2> DEFINE p == BuildTcpResponsePacket(bytes,
                    traffic[n].dstIp, traffic[n].dstPort, PhoneAddress, traffic[n].srcPort)
             from == [host |-> traffic[n].dstIp, port |-> traffic[n].dstPort]
  <2>1. at[n] = "reader" /\ packets[n].from.transport = "TCP"
    BY <1>3 DEF Relay, IInv, TasksOK
  <2>2. /\ p.transport = "TCP" /\ p.payload = bytes
        /\ p.src = from.host /\ p.srcPort = from.port /\ p.dstPort = traffic[n].srcPort
    BY DEF BuildTcpResponsePacket
  <2>3. PhoneTakes(p) /\ Answer(n, from, bytes) /\ UNCHANGED packets
    BY <1>3 DEF Relay
  <2>4. from \in Talk!Speakers(packets[n].from)
    <3>1. traffic[n] = ParseRealPacket(Request(packets[n].from))
      BY <2>1 DEF IInv, TasksOK
    <3>2. traffic[n].dstIp = packets[n].from.server /\ traffic[n].dstPort = packets[n].from.serverPort
      BY <3>1 DEF ParseRealPacket, Request
    <3> QED
      BY <2>1, <3>2 DEF Talk!Speakers
  <2> HIDE DEF p, from
  <2> QED
    BY <2>1, <2>2, <2>3, <2>4, ReplyIsSaid
<1>4. ASSUME NEW n \in Tasks, SynAck(n) PROVE UNCHANGED Talk!vars
  <2> DEFINE p == BuildTcpPacket(PhoneAddress, traffic[n].srcIp,
                    traffic[n].dstPort, traffic[n].srcPort, {SYN, ACK}, 1, 1)
  <2>1. p.payload = 0
    BY DEF BuildTcpPacket
  <2>2. PhoneTakes(p) /\ UNCHANGED <<packets, answers>>
    BY <1>4 DEF SynAck
  <2> HIDE DEF p
  <2>3. heard' = heard
    BY <2>1, <2>2, SilenceKeeps
  <2> QED
    BY <2>2, <2>3 DEF Talk!vars, Asked, Said
<1>5. ASSUME NEW n \in Tasks,
             ExtractPayload(n) \/ Send(n) \/ FindSyn(n) \/ Connect(n) \/ Fails(n) \/ ReaderEnds(n)
      PROVE  UNCHANGED Talk!vars
  BY <1>5 DEF ExtractPayload, Send, FindSyn, Connect, Fails, ReaderEnds, Talk!vars, Asked, Said
<1>6. CASE UNCHANGED vars
  BY <1>6 DEF vars, Talk!vars, Asked, Said
<1> QED
  BY <1>1, <1>2, <1>3, <1>4, <1>5, <1>6 DEF Next, Task

(* Forwarding, with its codec, buffer and tasks, behaves like a            *)
(* conversation: who has not asked, or was dropped, is told nothing, and   *)
(* what comes for one who asked is heard by that one, in the name of who   *)
(* sent it, or by nobody.                                                  *)
THEOREM ImplementsConversation == Spec => TalkSpec
<1>1. Init => Talk!Init
  BY DEF Init, Talk!Init, Asked, Said
<1>2. IInv /\ [Next]_vars => [Talk!Next]_(Talk!vars)
  BY TalkStep
<1> QED
  BY <1>1, <1>2, Inductive, PTL DEF Spec, TalkSpec, Talk!Spec

-----------------------------------------------------------------------------
(* Why ConnectionOpens fails: sendSynAck answers in the phone's own name,  *)
(* so whatever the socket, its SYN's number and the ports, a connection    *)
(* opens only to a server that has the phone's address.                    *)

ToThePhone == \A s \in open : s.server = PhoneAddress

LEMMA SynAckOpens ==
    ASSUME IInv, NEW n \in Tasks, SynAck(n), ToThePhone
    PROVE  ToThePhone'
<1> DEFINE p == BuildTcpPacket(PhoneAddress, traffic[n].srcIp,
                  traffic[n].dstPort, traffic[n].srcPort, {SYN, ACK}, 1, 1)
<1>1. PhoneTakes(p) /\ p.src = PhoneAddress
  BY DEF SynAck, BuildTcpPacket
<1> HIDE DEF p
<1>2. ASSUME NEW s \in Sockets, Opens(p, s) PROVE s.server = PhoneAddress \/ s.transport # "TCP"
  BY <1>1, <1>2 DEF Opens, IsFor
<1>3. open' \subseteq {s \in Sockets : s.transport = "TCP"}
  BY SynAckKeeps DEF IInv, TypeOK
<1> QED
  BY <1>1, <1>2, <1>3 DEF ToThePhone, PhoneTakes

(* Nothing else that is written to the tunnel is a SYN-ACK.                *)
LEMMA OthersOpenNothing ==
    ASSUME NEW p, PhoneTakes(p), p.flags # {SYN, ACK}
    PROVE  open' = open
BY DEF PhoneTakes, Opens

(* A connection opens to nobody but a server with the phone's own address. *)
THEOREM ConnectsOnlyToThePhone == Spec => []ToThePhone
<1>1. Init => ToThePhone
  BY DEF Init, ToThePhone
<1>2. IInv /\ ToThePhone /\ [Next]_vars => ToThePhone'
  <2> SUFFICES ASSUME IInv, ToThePhone, [Next]_vars PROVE ToThePhone'
    OBVIOUS
  <2>1. ASSUME NEW s \in Sockets, NEW passed \in BOOLEAN, ReadPacket(s, passed) PROVE open' = open
    <3>1. PICK p : p = Request(s) /\ ((PhoneTakes(p) /\ s.transport = "Unknown") \/ open' = open)
      BY <2>1 DEF ReadPacket, ParseRealPacket, Request
    <3>2. s.transport = "Unknown" => p.flags # {SYN, ACK}
      BY <3>1 DEF Request, SYN
    <3> QED
      BY <3>1, <3>2, OthersOpenNothing
  <2>2. ASSUME NEW n \in Tasks, NEW from \in Hosts, NEW bytes \in AnswerSizes, Receive(n, from, bytes)
        PROVE  open' = open
    <3>1. PICK p : PhoneTakes(p) /\ p.flags = {}
      BY <2>2 DEF Receive, BuildUdpResponsePacket
    <3> QED
      BY <3>1, OthersOpenNothing
  <2>3. ASSUME NEW n \in Tasks, NEW bytes \in AnswerSizes, Relay(n, bytes) PROVE open' = open
    <3>1. PICK p : PhoneTakes(p) /\ p.flags = {ACK, PSH}
      BY <2>3 DEF Relay, BuildTcpResponsePacket
    <3>2. {ACK, PSH} # {SYN, ACK}
      BY DEF ACK, PSH, SYN
    <3> QED
      BY <3>1, <3>2, OthersOpenNothing
  <2>4. ASSUME NEW n \in Tasks, SynAck(n) PROVE ToThePhone'
    BY <2>4, SynAckOpens
  <2>5. ASSUME NEW n \in Tasks,
               ExtractPayload(n) \/ Send(n) \/ FindSyn(n) \/ Connect(n) \/ Fails(n) \/ ReaderEnds(n)
        PROVE  open' = open
    BY <2>5 DEF ExtractPayload, Send, FindSyn, Connect, Fails, ReaderEnds
  <2>6. CASE UNCHANGED vars
    BY <2>6 DEF vars, ToThePhone
  <2>7. open' = open => ToThePhone'
    BY DEF ToThePhone
  <2> QED
    BY <2>1, <2>2, <2>3, <2>4, <2>5, <2>6, <2>7 DEF Next, Task
<1> QED
  BY <1>1, <1>2, Inductive, PTL DEF Spec

(* So the app of a TCP socket hears nothing of any other server either.    *)
TcpHearsThePhone ==
    \A h \in heard : h.socket.transport = "TCP" => h.socket.server = PhoneAddress

(* Whatever a step hands to sockets, it hands them by PhoneTakes.          *)
LEMMA HeardByTaking ==
    ASSUME [Next]_vars
    PROVE  heard' = heard \/ \E p : PhoneTakes(p)
<1>1. ASSUME NEW s \in Sockets, NEW passed \in BOOLEAN, ReadPacket(s, passed)
      PROVE  heard' = heard \/ \E p : PhoneTakes(p)
  BY <1>1 DEF ReadPacket
<1>2. ASSUME NEW n \in Tasks, Task(n) \/ ReaderEnds(n)
      PROVE  heard' = heard \/ \E p : PhoneTakes(p)
  BY <1>2, Zenon DEF Task, ExtractPayload, Send, FindSyn, Connect, SynAck, Fails, Receive, ReaderEnds
<1>3. ASSUME NEW n \in Tasks, NEW bytes \in AnswerSizes, Relay(n, bytes) PROVE \E p : PhoneTakes(p)
  BY <1>3, Zenon DEF Relay
<1> QED
  BY <1>1, <1>2, <1>3 DEF Next, vars

(* What a TCP socket hears, it hears of nobody but the phone itself.       *)
THEOREM ConnectionsAreDeaf == Spec => []TcpHearsThePhone
<1>1. Init => TcpHearsThePhone
  BY DEF Init, TcpHearsThePhone
<1>2. TcpHearsThePhone /\ ToThePhone /\ [Next]_vars => TcpHearsThePhone'
  <2> SUFFICES ASSUME TcpHearsThePhone, ToThePhone, NEW p, PhoneTakes(p) PROVE TcpHearsThePhone'
    BY HeardByTaking DEF TcpHearsThePhone
  <2>1. ASSUME NEW t \in Sockets, Hears(p, t), t.transport = "TCP" PROVE t.server = PhoneAddress
    BY <2>1 DEF Hears, ToThePhone
  <2> QED
    BY <2>1 DEF TcpHearsThePhone, PhoneTakes
<1> QED
  BY <1>1, <1>2, ConnectsOnlyToThePhone, PTL DEF Spec
=============================================================================
