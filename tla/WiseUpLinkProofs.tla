--------------------------- MODULE WiseUpLinkProofs ---------------------------
(***************************************************************************)
(* The gateway and its hubs over the air, for any number of hubs, relays,   *)
(* requests, packets lost and deaths of the daemon: types, that connected   *)
(* hubs are clients, and that requests are settled only when carried out.   *)
(***************************************************************************)
EXTENDS WiseUpLink, ActionTasksProofs, FiniteSetTheorems

HubRecord ==
  [state : {"DISCOVERY", "CONNECTED"}, server : {Broadcast, Gateway},
   pin : [Ports -> Levels], value : [Ports -> Levels], xor : Levels,
   ackPort : Ports \cup {None}, age : [Timers -> Nat]]

(* Packets for a hub, and packets of a hub.                                 *)
ToHub == [type : {"addr"}, addr : {Gateway}, body : Hubs]
           \cup [type : {"cmd"}, port : Ports, data : {0, 1}, body : Commands]

Payloads == UNION {[P -> Levels] : P \in SUBSET Ports}
FromHub  == [type : {"req"}, target : {Broadcast, Gateway}]
              \cup [type : {"data", "ack"}, target : {Broadcast, Gateway}, values : Payloads]

-----------------------------------------------------------------------------
(* What the hub's program does to its record.                               *)
LEMMA BootRecord == Boot \in HubRecord
BY DEF Boot, HubRecord, AllLow, Levels

LEMMA IntervalsNatural == \A t \in Timers : Interval(t) \in Nat
BY HubConstants DEF Timers, Interval

LEMMA ElapseRecord ==
  ASSUME NEW h \in HubRecord
  PROVE  Elapse(h) \in HubRecord /\ Elapse(h).state = h.state /\ Elapse(h).ackPort = h.ackPort
BY IntervalsNatural DEF Elapse, HubRecord

LEMMA RestartRecord ==
  ASSUME NEW h \in HubRecord, NEW t \in Timers
  PROVE  LET r == [h EXCEPT !.age[t] = 0]
         IN  /\ r \in HubRecord /\ r.state = h.state /\ r.ackPort = h.ackPort
             /\ r.server = h.server /\ r.value = h.value /\ r.pin = h.pin
BY DEF HubRecord

(* Only a gateway's address connects a hub, only a command asks it for an   *)
(* acknowledgement.                                                         *)
LEMMA HandleRecord ==
  ASSUME NEW h \in HubRecord, NEW p \in ToHub
  PROVE  /\ Handle(h, p) \in HubRecord
         /\ Handle(h, p).state = "CONNECTED" => p.type = "addr" \/ h.state = "CONNECTED"
         /\ Handle(h, p).ackPort = IF p.type = "cmd" THEN p.port ELSE h.ackPort
<1>1. CASE p.type = "addr"
  <2> DEFINE e == Elapse(h)
             f == [e EXCEPT !.server = p.addr, !.state = "CONNECTED"]
  <2>1. e \in HubRecord /\ e.ackPort = h.ackPort
    BY ElapseRecord
  <2>2. p.addr = Gateway
    BY <1>1 DEF ToHub
  <2>3. Handle(h, p) = [f EXCEPT !.age["rediscover"] = 0]
    BY <1>1 DEF Handle, Connect
  <2> HIDE DEF e
  <2>4. f \in HubRecord /\ f.ackPort = h.ackPort
    BY <2>1, <2>2 DEF HubRecord
  <2> HIDE DEF f
  <2> QED
    BY <1>1, <2>3, <2>4, RestartRecord DEF Timers
<1>2. CASE p.type = "cmd"
  <2>1. p.port \in Ports
    BY <1>2 DEF ToHub
  <2> QED
    BY <1>2, <2>1 DEF Handle, Relay, HubRecord, Levels
<1> QED
  BY <1>1, <1>2 DEF ToHub

LEMMA ChecksumBit == ASSUME NEW v PROVE Checksum(v) \in Levels
<1>1. IsFiniteSet(Ports)
  BY HubConstants, FS_Interval DEF Ports
<1>2. IsFiniteSet({p \in Ports : v[p] = 1})
  BY <1>1, FS_Subset
<1>3. Cardinality({p \in Ports : v[p] = 1}) \in Nat
  BY <1>2, FS_CardinalityType
<1> QED
  BY <1>3 DEF Checksum, Levels

LEMMA RediscoverRecord ==
  ASSUME NEW h \in HubRecord
  PROVE  /\ Rediscover(h) \in HubRecord /\ Rediscover(h).ackPort = h.ackPort
         /\ Rediscover(h).state \in {h.state, "DISCOVERY"}
<1>1. [h EXCEPT !.state = "DISCOVERY"] \in HubRecord
  BY DEF HubRecord
<1>2. "rediscover" \in Timers
  BY DEF Timers
<1>3. [h EXCEPT !.state = "DISCOVERY", !.age["rediscover"] = 0] \in HubRecord
  BY <1>1, <1>2, RestartRecord
<1> QED
  BY <1>3 DEF Rediscover, HubRecord

LEMMA DiscoverRecord ==
  ASSUME NEW h \in HubRecord, h.state = "DISCOVERY"
  PROVE  /\ Discover(h)[1] \in HubRecord /\ Discover(h)[1].ackPort = h.ackPort
         /\ Discover(h)[1].state = "DISCOVERY"
         /\ Discover(h)[2] \in Seq(FromHub)
         /\ \A i \in DOMAIN Discover(h)[2] : Discover(h)[2][i].type # "ack"
<1> DEFINE b == [h EXCEPT !.server = Broadcast]
           calling == [h EXCEPT !.server = Broadcast, !.age["discover"] = 0]
<1>1. b \in HubRecord /\ b.ackPort = h.ackPort /\ b.state = h.state /\ b.server = Broadcast
  BY DEF HubRecord
<1>2. "discover" \in Timers /\ calling = [b EXCEPT !.age["discover"] = 0]
  BY DEF Timers
<1>3. Discover(h) = IF Due(h, "discover") THEN <<calling, <<Request(calling)>>>> ELSE <<h, << >>>>
  BY DEF Discover
<1> HIDE DEF b, calling
<1>4. /\ calling \in HubRecord /\ calling.ackPort = h.ackPort /\ calling.state = h.state
      /\ calling.server = Broadcast
  BY <1>1, <1>2, RestartRecord
<1>5. Request(calling) = [type |-> "req", target |-> Broadcast]
  BY <1>4 DEF Request
<1>6. Request(calling) \in FromHub /\ Request(calling).type = "req"
  BY <1>5 DEF FromHub
<1> QED
  BY <1>3, <1>4, <1>6

LEMMA ReadRecord ==
  ASSUME NEW h \in HubRecord
  PROVE  /\ ReadSensors(h) \in HubRecord /\ ReadSensors(h).ackPort = h.ackPort
         /\ ReadSensors(h).state = h.state
<1> DEFINE read == [h EXCEPT !.value = h.pin, !.xor = Checksum(h.pin)]
<1>1. Checksum(h.pin) \in Levels
  BY ChecksumBit
<1>2. read \in HubRecord /\ read.ackPort = h.ackPort /\ read.state = h.state
  BY <1>1 DEF HubRecord
<1>3. [h EXCEPT !.value = h.pin, !.xor = Checksum(h.pin), !.age["read"] = 0]
        = [read EXCEPT !.age["read"] = 0]
  OBVIOUS
<1> HIDE DEF read
<1> QED
  BY <1>2, <1>3, RestartRecord DEF ReadSensors, Timers

LEMMA KeepaliveRecord ==
  ASSUME NEW h \in HubRecord
  PROVE  /\ Keepalive(h) \in HubRecord /\ Keepalive(h).ackPort = h.ackPort
         /\ Keepalive(h).state = h.state
BY RestartRecord DEF Keepalive, Timers

LEMMA DataPackets ==
  ASSUME NEW h \in HubRecord
  PROVE  Data(h) \in Seq(FromHub) /\ \A i \in DOMAIN Data(h) : Data(h)[i].type # "ack"
<1> DEFINE n == ((NPorts - 1) \div PerPacket) + 1
           chunk(i) == {p \in Ports : (p - 1) \div PerPacket = i - 1}
           packet(i) == [type |-> "data", target |-> h.server,
                         values |-> [p \in chunk(i) |-> h.value[p]]]
<1>1. n \in Nat
  BY HubConstants
<1>2. \A i \in 1..n : packet(i) \in FromHub /\ packet(i).type = "data"
  <2> SUFFICES ASSUME NEW i \in 1..n
               PROVE  packet(i) \in FromHub
    OBVIOUS
  <2>1. chunk(i) \in SUBSET Ports
    OBVIOUS
  <2> HIDE DEF chunk
  <2>2. [p \in chunk(i) |-> h.value[p]] \in [chunk(i) -> Levels]
    BY <2>1 DEF HubRecord
  <2>3. h.server \in {Broadcast, Gateway}
    BY DEF HubRecord
  <2> QED
    BY <2>1, <2>2, <2>3 DEF FromHub, Payloads
<1>3. Data(h) = [i \in 1..n |-> packet(i)]
  BY DEF Data
<1> HIDE DEF n, packet
<1>4. Data(h) \in Seq(FromHub)
  BY <1>1, <1>2, <1>3, IsASeq
<1> QED
  BY <1>1, <1>2, <1>3, <1>4

(* An acknowledgement names the relay of the pending one.                   *)
LEMMA AnswerRecord ==
  ASSUME NEW h \in HubRecord
  PROVE  /\ Answer(h)[1] \in HubRecord /\ Answer(h)[1].state = h.state
         /\ Answer(h)[1].ackPort \in {h.ackPort, None}
         /\ Answer(h)[2] \in Seq(FromHub)
         /\ \A i \in DOMAIN Answer(h)[2] :
              h.ackPort # None /\ DOMAIN Answer(h)[2][i].values = {h.ackPort}
<1>1. CASE h.ackPort = None
  BY <1>1 DEF Answer
<1>2. CASE h.ackPort # None
  <2> DEFINE p    == h.ackPort
             read == [h EXCEPT !.value[p] = h.pin[p], !.ackPort = None]
  <2>1. p \in Ports
    BY <1>2 DEF HubRecord
  <2>2. /\ read \in HubRecord /\ read.state = h.state /\ read.ackPort = None
        /\ read.server \in {Broadcast, Gateway} /\ read.value \in [Ports -> Levels]
    BY <2>1 DEF HubRecord
  <2>3. Answer(h) = <<read, <<Ack(read, p)>>>>
    BY <1>2 DEF Answer
  <2> HIDE DEF read
  <2> DEFINE levels == [q \in {p} |-> read.value[q]]
  <2>4. levels \in [{p} -> Levels] /\ {p} \in SUBSET Ports /\ DOMAIN levels = {p}
    BY <2>1, <2>2
  <2>5. Ack(read, p) = [type |-> "ack", target |-> read.server, values |-> levels]
    BY DEF Ack
  <2> HIDE DEF levels
  <2>6. Ack(read, p) \in FromHub /\ DOMAIN Ack(read, p).values = {p}
    BY <2>2, <2>4, <2>5 DEF FromHub, Payloads
  <2> QED
    BY <1>2, <2>2, <2>3, <2>6
<1> QED
  BY <1>1, <1>2

LEMMA ServeRecord ==
  ASSUME NEW h \in HubRecord
  PROVE  /\ Serve(h)[1] \in HubRecord /\ Serve(h)[1].state = h.state
         /\ Serve(h)[1].ackPort \in {h.ackPort, None}
         /\ Serve(h)[2] \in Seq(FromHub)
         /\ \A i \in DOMAIN Serve(h)[2] : Serve(h)[2][i].type = "ack" =>
              h.ackPort # None /\ DOMAIN Serve(h)[2][i].values = {h.ackPort}
<1> DEFINE now    == ReadSensors(h)
           answer == Answer(Keepalive(now))
           report == Report(h, now)
<1>1. now \in HubRecord /\ now.ackPort = h.ackPort /\ now.state = h.state
  BY ReadRecord
<1> HIDE DEF now
<1>2. /\ Keepalive(now) \in HubRecord /\ Keepalive(now).ackPort = h.ackPort
      /\ Keepalive(now).state = h.state
  BY <1>1, KeepaliveRecord
<1>3. /\ answer[1] \in HubRecord /\ answer[1].state = h.state
      /\ answer[1].ackPort \in {h.ackPort, None} /\ answer[2] \in Seq(FromHub)
      /\ \A i \in DOMAIN answer[2] :
           h.ackPort # None /\ DOMAIN answer[2][i].values = {h.ackPort}
  BY <1>2, AnswerRecord
<1> HIDE DEF answer
<1>4. report \in Seq(FromHub) /\ \A i \in DOMAIN report : report[i].type # "ack"
  <2> DEFINE a == IF Due(now, "keepalive") THEN Data(now) ELSE << >>
             b == IF now.xor # h.xor THEN Data(now) ELSE << >>
  <2>1. a \in Seq(FromHub) /\ \A i \in DOMAIN a : a[i].type # "ack"
    BY <1>1, DataPackets
  <2>2. b \in Seq(FromHub) /\ \A i \in DOMAIN b : b[i].type # "ack"
    BY <1>1, DataPackets
  <2>3. report = a \o b
    BY DEF Report
  <2> HIDE DEF a, b, report
  <2> QED
    BY <2>1, <2>2, <2>3, ConcatProperties, LenProperties
<1> HIDE DEF report
<1>5. Serve(h) = <<answer[1], report \o answer[2]>>
  BY DEF Serve, now, answer, report
<1> DEFINE s == report \o answer[2]
<1>6. /\ s \in Seq(FromHub)
      /\ \A i \in DOMAIN s : \/ i \in DOMAIN report /\ s[i] = report[i]
                             \/ \E k \in DOMAIN answer[2] : s[i] = answer[2][k]
  BY <1>3, <1>4, ConcatProperties, LenProperties
<1>7. \A i \in DOMAIN s : s[i].type = "ack" =>
        h.ackPort # None /\ DOMAIN s[i].values = {h.ackPort}
  BY <1>3, <1>4, <1>6
<1>8. Serve(h)[1] = answer[1] /\ Serve(h)[2] = s
  BY <1>5
<1> HIDE DEF s
<1> QED
  BY <1>3, <1>6, <1>7, <1>8

(* A turn never connects a hub; it acknowledges what was pending.           *)
LEMMA TurnRecord ==
  ASSUME NEW h \in HubRecord
  PROVE  /\ Turn(h)[1] \in HubRecord
         /\ Turn(h)[1].state = "CONNECTED" => h.state = "CONNECTED"
         /\ Turn(h)[1].ackPort \in {h.ackPort, None}
         /\ Turn(h)[2] \in Seq(FromHub)
         /\ \A i \in DOMAIN Turn(h)[2] : Turn(h)[2][i].type = "ack" =>
              h.ackPort # None /\ DOMAIN Turn(h)[2][i].values = {h.ackPort}
<1> DEFINE now == Rediscover(h)
<1>1. now \in HubRecord /\ now.ackPort = h.ackPort /\ now.state \in {h.state, "DISCOVERY"}
  BY RediscoverRecord
<1>2. Turn(h) = IF now.state = "DISCOVERY" THEN Discover(now) ELSE Serve(now)
  BY DEF Turn
<1> HIDE DEF now
<1>3. CASE now.state = "DISCOVERY"
  BY <1>1, <1>2, <1>3, DiscoverRecord
<1>4. CASE now.state # "DISCOVERY"
  BY <1>1, <1>2, <1>4, ServeRecord
<1> QED
  BY <1>3, <1>4

-----------------------------------------------------------------------------
(* Queues and lists: where their elements come from.                        *)
LEMMA ReceiveElements ==
  ASSUME NEW S, NEW fifo \in Seq(S), NEW packets \in Seq(S)
  PROVE  /\ Receive(fifo, packets) \in Seq(S) /\ Len(Receive(fifo, packets)) <= FifoDepth
         /\ \A i \in DOMAIN Receive(fifo, packets) :
              \/ i \in DOMAIN fifo /\ Receive(fifo, packets)[i] = fifo[i]
              \/ \E k \in DOMAIN packets : Receive(fifo, packets)[i] = packets[k]
<1> DEFINE all == fifo \o packets
           some == Receive(fifo, packets)
<1>1. /\ all \in Seq(S) /\ Len(all) \in Nat /\ FifoDepth \in Nat /\ DOMAIN all = 1..Len(all)
      /\ \A i \in DOMAIN all : \/ i \in DOMAIN fifo /\ all[i] = fifo[i]
                               \/ \E k \in DOMAIN packets : all[i] = packets[k]
  BY LinkConstants, ConcatProperties, LenProperties
<1>2. some = IF Len(all) <= FifoDepth THEN all ELSE SubSeq(all, 1, FifoDepth)
  BY DEF Receive
<1> HIDE DEF all, some
<1>3. CASE Len(all) <= FifoDepth
  BY <1>1, <1>2, <1>3 DEF some
<1>4. CASE ~ (Len(all) <= FifoDepth)
  <2>1. some = SubSeq(all, 1, FifoDepth)
    BY <1>2, <1>4
  <2>2. /\ some \in Seq(S) /\ Len(some) = FifoDepth /\ DOMAIN some = 1..FifoDepth
        /\ \A i \in 1..FifoDepth : some[i] = all[i]
    BY <1>1, <1>4, <2>1, SubSeqProperties
  <2>3. \A i \in DOMAIN some : i \in DOMAIN all /\ some[i] = all[i]
    BY <1>1, <1>4, <2>2
  <2> QED
    BY <1>1, <2>2, <2>3 DEF some
<1> QED
  BY <1>3, <1>4

LEMMA HeadTail ==
  ASSUME NEW S, NEW q \in Seq(S), q # << >>
  PROVE  /\ Head(q) \in S /\ Tail(q) \in Seq(S) /\ Head(q) = q[1] /\ 1 \in DOMAIN q
         /\ Len(Tail(q)) = Len(q) - 1
         /\ \A i \in DOMAIN Tail(q) : i + 1 \in DOMAIN q /\ Tail(q)[i] = q[i + 1]
BY HeadTailProperties, SMT

LEMMA AppendElements ==
  ASSUME NEW S, NEW q \in Seq(S), NEW e \in S
  PROVE  /\ Append(q, e) \in Seq(S)
         /\ \A i \in DOMAIN Append(q, e) :
              \/ i \in DOMAIN q /\ Append(q, e)[i] = q[i]
              \/ Append(q, e)[i] = e
BY AppendProperties, SMT

(* What RemoveTask takes out has the key; the others are still there.       *)
LEMMA Removed ==
  ASSUME NEW T, NEW q \in Seq(T), NEW key
  PROVE  LET rest == RemoveTask(q, key)
         IN  /\ rest \in Seq(T)
             /\ \A i \in DOMAIN rest : \E j \in DOMAIN q : rest[i] = q[j]
             /\ \A j \in DOMAIN q : q[j].key = key \/ \E i \in DOMAIN rest : rest[i] = q[j]
<1> DEFINE rest == RemoveTask(q, key)
<1> HIDE DEF rest
<1>1. CASE rest = q
  BY <1>1 DEF rest
<1>2. ASSUME NEW k \in DOMAIN q, q[k].key = key,
             rest \in Seq(T), Len(rest) = Len(q) - 1,
             \A i \in DOMAIN rest : rest[i] = q[IF i < k THEN i ELSE i + 1]
      PROVE  /\ \A i \in DOMAIN rest : \E j \in DOMAIN q : rest[i] = q[j]
             /\ \A j \in DOMAIN q : q[j].key = key \/ \E i \in DOMAIN rest : rest[i] = q[j]
  <2>1. DOMAIN rest = 1..(Len(q) - 1) /\ DOMAIN q = 1..Len(q) /\ Len(q) \in Nat
    BY <1>2, LenProperties
  <2>2. ASSUME NEW i \in DOMAIN rest PROVE \E j \in DOMAIN q : rest[i] = q[j]
    <3>1. (IF i < k THEN i ELSE i + 1) \in DOMAIN q
      BY <2>1
    <3> QED
      BY <1>2, <3>1
  <2>3. ASSUME NEW j \in DOMAIN q, j # k PROVE \E i \in DOMAIN rest : rest[i] = q[j]
    <3>1. CASE j < k
      <4>1. j \in DOMAIN rest
        BY <2>1, <3>1
      <4> QED
        BY <1>2, <3>1, <4>1
    <3>2. CASE j > k
      <4>1. j - 1 \in DOMAIN rest /\ ~ (j - 1 < k) /\ (j - 1) + 1 = j
        BY <2>1, <3>2
      <4> QED
        BY <1>2, <4>1
    <3> QED
      BY <2>1, <2>3, <3>1, <3>2
  <2> QED
    BY <1>2, <2>2, <2>3
<1> QED
  BY <1>1, <1>2, RemoveTaskEffect DEF rest

-----------------------------------------------------------------------------
(* Types.                                                                   *)
Task    == [key : Sensors \cup {None}, body : Bodies]
Radioed == [from : Hubs, packet : FromHub]

Types ==
  /\ queue \in Seq(Message) /\ tasks \in Seq(Task) /\ clients \subseteq Hubs
  /\ rx \in Seq(Radioed) /\ Len(rx) <= FifoDepth
  /\ hub \in [Hubs -> HubRecord] /\ phase \in [Hubs -> {"listen", "loop"}]
  /\ inbox \in [Hubs -> Seq(ToHub)] /\ \A h \in Hubs : Len(inbox[h]) <= FifoDepth
  /\ told \in [Sensors -> Levels \cup {None}] /\ issued \subseteq Commands
  /\ strays \in 0..MaxStray /\ crashes \in 0..MaxFaults /\ resets \in 0..MaxFaults

(* A request's packet goes to its hub and names its relay.                  *)
LEMMA PacketFor ==
  ASSUME NEW b \in Bodies
  PROVE  /\ PacketOf(b) \in ToHub /\ PacketOf(b).body = b /\ Target(b) \in Hubs
         /\ PacketOf(b).type = "addr" => b \in Hubs /\ Target(b) = b
         /\ PacketOf(b).type = "cmd" =>
              b \in Commands /\ SensorOf(b) = <<Target(b), PacketOf(b).port>>
<1>1. CASE b \in Hubs
  BY <1>1 DEF PacketOf, Target, ToHub
<1>2. CASE b \notin Hubs
  <2>1. b \in Commands /\ CommandFor[b] \in [hub : Hubs, port : Ports, data : {0, 1}]
    BY <1>2, LinkConstants DEF Bodies
  <2> QED
    BY <1>2, <2>1 DEF PacketOf, Target, ToHub, SensorOf
<1> QED
  BY <1>1, <1>2

LEMMA InitLink == Init => Types
<1> SUFFICES ASSUME Init PROVE Types
  OBVIOUS
<1>1. MaxStray \in Nat /\ MaxFaults \in Nat /\ FifoDepth \in Nat
  BY LinkConstants
<1> QED
  BY <1>1, BootRecord DEF Init, Types, Sensors

(* The steps, each with where the contents of the queues come from.         *)
LEMMA SensorActionStep ==
  ASSUME Types, NEW c \in Commands, SensorAction(c)
  PROVE  /\ Types'
         /\ \A i \in DOMAIN queue' :
              \/ \E j \in DOMAIN queue : queue'[i] = queue[j]
              \/ queue'[i] = [body |-> c, ack |-> TRUE, key |-> SensorOf(c)]
<1> DEFINE m == [body |-> c, ack |-> TRUE, key |-> SensorOf(c)]
<1>1. SensorOf(c) \in Sensors
  BY LinkConstants DEF SensorOf, Sensors
<1>2. m \in Message /\ queue \in Seq(Message) /\ queue' = Append(queue, m)
  BY <1>1 DEF Message, Bodies, Types, SensorAction
<1> HIDE DEF m
<1>3. /\ queue' \in Seq(Message)
      /\ \A i \in DOMAIN queue' : (i \in DOMAIN queue /\ queue'[i] = queue[i]) \/ queue'[i] = m
  BY <1>2, AppendElements
<1>4. Types'
  BY <1>3 DEF SensorAction, Types
<1> QED
  BY <1>3, <1>4 DEF m

LEMMA TransmitStep ==
  ASSUME Types, NEW heard \in BOOLEAN, Transmit(heard)
  PROVE  /\ Types' /\ queue # << >> /\ 1 \in DOMAIN queue /\ Target(queue[1].body) \in Hubs
         /\ \A i \in DOMAIN queue' : \E j \in DOMAIN queue : queue'[i] = queue[j]
         /\ \A i \in DOMAIN tasks' :
              \/ \E j \in DOMAIN tasks : tasks'[i] = tasks[j]
              \/ queue[1].ack /\ tasks'[i] = [key |-> queue[1].key, body |-> queue[1].body]
         /\ \A g \in Hubs : \A i \in DOMAIN inbox'[g] :
              \/ \E j \in DOMAIN inbox[g] : inbox'[g][i] = inbox[g][j]
              \/ g = Target(queue[1].body) /\ inbox'[g][i] = PacketOf(queue[1].body)
<1> DEFINE msg == queue[1]
           h   == Target(msg.body)
           t   == [key |-> msg.key, body |-> msg.body]
<1>1. queue \in Seq(Message) /\ queue # << >> /\ queue' = Tail(queue) /\ tasks \in Seq(Task)
  BY DEF Types, Transmit
<1>2. /\ 1 \in DOMAIN queue /\ msg \in Message /\ msg = Head(queue) /\ queue' \in Seq(Message)
      /\ \A i \in DOMAIN queue' : \E j \in DOMAIN queue : queue'[i] = queue[j]
  BY <1>1, HeadTail
<1>3. msg.body \in Bodies /\ msg.key \in Sensors \cup {None}
  BY <1>2 DEF Message
<1>4. h \in Hubs /\ PacketOf(msg.body) \in ToHub
  BY <1>3, PacketFor
<1>5. t \in Task
  BY <1>3 DEF Task
<1>6. /\ inbox' = IF heard THEN [inbox EXCEPT ![h] = Receive(@, <<PacketOf(msg.body)>>)] ELSE inbox
      /\ tasks' = IF msg.ack THEN Append(tasks, t) ELSE tasks
  BY <1>2 DEF Transmit, AddTask
<1> HIDE DEF t
<1>7. /\ tasks' \in Seq(Task)
      /\ \A i \in DOMAIN tasks' :
           (\E j \in DOMAIN tasks : tasks'[i] = tasks[j]) \/ (msg.ack /\ tasks'[i] = t)
  BY <1>1, <1>5, <1>6, AppendElements
<1> DEFINE one == <<PacketOf(msg.body)>>
           new == Receive(inbox[h], one)
<1>8. inbox \in [Hubs -> Seq(ToHub)] /\ inbox[h] \in Seq(ToHub) /\ \A g \in Hubs : Len(inbox[g]) <= FifoDepth
  BY <1>4 DEF Types
<1>9. one \in Seq(ToHub) /\ \A k \in DOMAIN one : one[k] = PacketOf(msg.body)
  BY <1>4
<1> HIDE DEF one, h, msg
<1>10. /\ new \in Seq(ToHub) /\ Len(new) <= FifoDepth
       /\ \A i \in DOMAIN new : \/ \E j \in DOMAIN inbox[h] : new[i] = inbox[h][j]
                                \/ new[i] = PacketOf(msg.body)
  BY <1>8, <1>9, ReceiveElements
<1>11. inbox' = IF heard THEN [inbox EXCEPT ![h] = new] ELSE inbox
  BY <1>6 DEF one
<1> HIDE DEF new
<1>12. /\ inbox' \in [Hubs -> Seq(ToHub)] /\ \A g \in Hubs : Len(inbox'[g]) <= FifoDepth
       /\ \A g \in Hubs : inbox'[g] = inbox[g] \/ (g = h /\ inbox'[g] = new)
  BY <1>4, <1>8, <1>10, <1>11
<1>13. \A g \in Hubs : \A i \in DOMAIN inbox'[g] :
         \/ \E j \in DOMAIN inbox[g] : inbox'[g][i] = inbox[g][j]
         \/ g = h /\ inbox'[g][i] = PacketOf(msg.body)
  BY <1>10, <1>12
<1>14. rx' \in Seq(Radioed) /\ Len(rx') <= FifoDepth
  BY LinkConstants DEF Transmit
<1>15. Types'
  BY <1>2, <1>7, <1>12, <1>14 DEF Transmit, Types, history
<1> QED
  BY <1>1, <1>2, <1>4, <1>7, <1>13, <1>15 DEF msg, h, t

LEMMA ResendStep ==
  ASSUME Types, Resend
  PROVE  /\ Types'
         /\ \A i \in DOMAIN queue' :
              i \in DOMAIN tasks /\ queue'[i].body = tasks[i].body /\ ~ queue'[i].ack
<1>1. tasks \in Seq(Task) /\ DOMAIN tasks = 1..Len(tasks) /\ Len(tasks) \in Nat
  BY DEF Types
<1> DEFINE m(i) == [body |-> tasks[i].body, ack |-> FALSE, key |-> None]
<1>2. queue' = [i \in 1..Len(tasks) |-> m(i)]
  BY <1>1 DEF Resend
<1>3. \A i \in 1..Len(tasks) : m(i) \in Message
  <2> SUFFICES ASSUME NEW i \in 1..Len(tasks) PROVE m(i) \in Message
    OBVIOUS
  <2>1. tasks[i] \in Task
    BY <1>1
  <2> QED
    BY <2>1 DEF Task, Message
<1>4. \A i \in 1..Len(tasks) : m(i).body = tasks[i].body /\ ~ m(i).ack
  OBVIOUS
<1> HIDE DEF m
<1>5. queue' \in Seq(Message) /\ DOMAIN queue' = DOMAIN tasks
  BY <1>1, <1>2, <1>3, IsASeq
<1>6. Types'
  BY <1>5 DEF Resend, Types, history
<1> QED
  BY <1>1, <1>2, <1>4, <1>5, <1>6

LEMMA ReceiveRequestStep ==
  ASSUME Types, NEW h \in Hubs, ReceiveRequest(h)
  PROVE  /\ queue' \in Seq(Message) /\ strays' \in 0..MaxStray
         /\ clients' = clients \cup {h} /\ UNCHANGED <<tasks, told, settled>>
         /\ \A i \in DOMAIN queue' :
              (\E j \in DOMAIN queue : queue'[i] = queue[j]) \/ queue'[i].body = h
<1>1. queue \in Seq(Message) /\ strays \in 0..MaxStray /\ MaxStray \in Nat
  BY LinkConstants DEF Types
<1>2. ASSUME NEW ack \in BOOLEAN, NEW key \in Sensors \cup {None},
             queue' = Append(queue, [body |-> h, ack |-> ack, key |-> key])
      PROVE  /\ queue' \in Seq(Message)
             /\ \A i \in DOMAIN queue' :
                  (\E j \in DOMAIN queue : queue'[i] = queue[j]) \/ queue'[i].body = h
  <2> DEFINE m == [body |-> h, ack |-> ack, key |-> key]
  <2>1. m \in Message /\ m.body = h
    BY DEF Message, Bodies
  <2>2. queue' = Append(queue, m)
    BY <1>2
  <2> HIDE DEF m
  <2> QED
    BY <1>1, <2>1, <2>2, AppendElements
<1>3. CASE queue' = Append(queue, [body |-> h, ack |-> FALSE, key |-> None]) /\ UNCHANGED strays
  BY <1>1, <1>2, <1>3 DEF ReceiveRequest
<1>4. CASE /\ strays < MaxStray /\ strays' = strays + 1
           /\ \E key \in Sensors \cup {None} :
                queue' = Append(queue, [body |-> h, ack |-> TRUE, key |-> key])
  <2>1. strays' \in 0..MaxStray
    BY <1>1, <1>4
  <2> QED
    BY <1>2, <1>4, <2>1 DEF ReceiveRequest
<1> QED
  BY <1>3, <1>4 DEF ReceiveRequest

LEMMA ReceiveDataStep ==
  ASSUME Types, NEW h \in Hubs, NEW p \in FromHub, p.type # "req", ReceiveData(h, p)
  PROVE  /\ tasks' \in Seq(Task) /\ told' \in [Sensors -> Levels \cup {None}]
         /\ UNCHANGED <<queue, clients, strays>>
         /\ \A i \in DOMAIN tasks' : \E j \in DOMAIN tasks : tasks'[i] = tasks[j]
         /\ \A j \in DOMAIN tasks :
              \/ \E i \in DOMAIN tasks' : tasks'[i] = tasks[j]
              \/ p.type = "ack" /\ \E q \in DOMAIN p.values : tasks[j].key = <<h, q>>
<1>1. tasks \in Seq(Task) /\ told \in [Sensors -> Levels \cup {None}]
  BY DEF Types
<1>2. told' \in [Sensors -> Levels \cup {None}]
  <2>1. \A q \in DOMAIN p.values : p.values[q] \in Levels
    <3>1. p.values \in Payloads
      BY DEF FromHub
    <3> QED
      BY <3>1 DEF Payloads
  <2>2. told' = IF h \in clients
                THEN [s \in Sensors |-> IF s[1] = h /\ s[2] \in DOMAIN p.values
                                        THEN p.values[s[2]] ELSE told[s]]
                ELSE told
    BY DEF ReceiveData
  <2> QED
    BY <1>1, <2>1, <2>2
<1>3. CASE UNCHANGED tasks
  BY <1>1, <1>2, <1>3 DEF ReceiveData
<1>4. ASSUME p.type = "ack", NEW q \in DOMAIN p.values, tasks' = RemoveTask(tasks, <<h, q>>)
      PROVE  /\ tasks' \in Seq(Task)
             /\ \A i \in DOMAIN tasks' : \E j \in DOMAIN tasks : tasks'[i] = tasks[j]
             /\ \A j \in DOMAIN tasks :
                  \/ \E i \in DOMAIN tasks' : tasks'[i] = tasks[j]
                  \/ p.type = "ack" /\ \E r \in DOMAIN p.values : tasks[j].key = <<h, r>>
  <2> DEFINE key == <<h, q>>
  <2> HIDE DEF key
  <2>1. tasks' = RemoveTask(tasks, key)
    BY <1>4 DEF key
  <2>2. /\ tasks' \in Seq(Task)
        /\ \A i \in DOMAIN tasks' : \E j \in DOMAIN tasks : tasks'[i] = tasks[j]
        /\ \A j \in DOMAIN tasks : tasks[j].key = key \/ \E i \in DOMAIN tasks' : tasks'[i] = tasks[j]
    BY <1>1, <2>1, Removed
  <2> QED
    BY <1>4, <2>2 DEF key
<1> QED
  BY <1>2, <1>3, <1>4 DEF ReceiveData

LEMMA GatewayReceiveStep ==
  ASSUME Types, GatewayReceive
  PROVE  /\ Types' /\ rx # << >> /\ 1 \in DOMAIN rx /\ rx[1] \in Radioed
         /\ \A i \in DOMAIN rx' : \E j \in DOMAIN rx : rx'[i] = rx[j]
         /\ IF rx[1].packet.type = "req" THEN ReceiveRequest(rx[1].from)
            ELSE ReceiveData(rx[1].from, rx[1].packet)
<1> DEFINE h == rx[1].from
           p == rx[1].packet
<1>1. rx \in Seq(Radioed) /\ rx # << >> /\ rx' = Tail(rx) /\ Len(rx) <= FifoDepth /\ FifoDepth \in Nat
  BY LinkConstants DEF Types, GatewayReceive
<1>2. /\ 1 \in DOMAIN rx /\ rx[1] = Head(rx) /\ rx[1] \in Radioed /\ rx' \in Seq(Radioed)
      /\ Len(rx') = Len(rx) - 1 /\ Len(rx) \in Nat
      /\ \A i \in DOMAIN rx' : \E j \in DOMAIN rx : rx'[i] = rx[j]
  BY <1>1, HeadTail, LenProperties
<1>3. h \in Hubs /\ p \in FromHub /\ Len(rx') <= FifoDepth
  BY <1>1, <1>2 DEF Radioed
<1>4. IF p.type = "req" THEN ReceiveRequest(h) ELSE ReceiveData(h, p)
  BY <1>2 DEF GatewayReceive
<1>5. CASE p.type = "req"
  <2>1. /\ queue' \in Seq(Message) /\ strays' \in 0..MaxStray
        /\ clients' = clients \cup {h} /\ UNCHANGED <<tasks, told, settled>>
    BY <1>3, <1>4, <1>5, ReceiveRequestStep
  <2>2. Types'
    BY <1>2, <1>3, <2>1 DEF GatewayReceive, Types
  <2> QED
    BY <1>1, <1>2, <1>4, <2>2
<1>6. CASE p.type # "req"
  <2>1. /\ tasks' \in Seq(Task) /\ told' \in [Sensors -> Levels \cup {None}]
        /\ UNCHANGED <<queue, clients, strays>>
    BY <1>3, <1>4, <1>6, ReceiveDataStep
  <2>2. Types'
    BY <1>2, <1>3, <2>1 DEF GatewayReceive, Types
  <2> QED
    BY <1>1, <1>2, <1>4, <2>2
<1> QED
  BY <1>5, <1>6

LEMMA CrashStep ==
  ASSUME Types, Crash
  PROVE  Types'
<1>1. crashes' \in 0..MaxFaults
  BY LinkConstants DEF Crash, Types
<1> QED
  BY <1>1, LinkConstants DEF Crash, Types, history

(* A hub that was switched off has nothing pending.                         *)
LEMMA ResetStep ==
  ASSUME Types, NEW h \in Hubs, Reset(h)
  PROVE  /\ Types'
         /\ \A g \in Hubs : DOMAIN inbox'[g] = {} \/ inbox'[g] = inbox[g]
         /\ \A g \in Hubs :
              \/ hub'[g] = hub[g]
              \/ hub'[g].ackPort = None /\ hub'[g].state = "DISCOVERY"
<1>1. resets' \in 0..MaxFaults
  BY LinkConstants DEF Reset, Types
<1>2. /\ hub' \in [Hubs -> HubRecord] /\ phase' \in [Hubs -> {"listen", "loop"}]
      /\ hub'[h] = Boot /\ \A g \in Hubs \ {h} : hub'[g] = hub[g]
  BY BootRecord DEF Reset, Types
<1>3. /\ inbox' \in [Hubs -> Seq(ToHub)] /\ inbox'[h] = << >>
      /\ \A g \in Hubs \ {h} : inbox'[g] = inbox[g]
  BY DEF Reset, Types
<1>4. \A g \in Hubs : Len(inbox'[g]) <= FifoDepth
  <2>1. Len(<< >>) <= FifoDepth /\ \A g \in Hubs : Len(inbox[g]) <= FifoDepth
    BY LinkConstants DEF Types
  <2> QED
    BY <1>3, <2>1, Zenon
<1>5. Types'
  BY <1>1, <1>2, <1>3, <1>4 DEF Reset, Types, gateway, history
<1>6. Boot.ackPort = None /\ Boot.state = "DISCOVERY"
  BY DEF Boot
<1> QED
  BY <1>2, <1>3, <1>5, <1>6

(* A hub looks at its radio: with a packet there it handles the first.      *)
LEMMA HubListenStep ==
  ASSUME Types, NEW h \in Hubs, NEW waited \in BOOLEAN, HubListen(h, waited)
  PROVE  /\ Types'
         /\ \A g \in Hubs : \A i \in DOMAIN inbox'[g] :
              \E j \in DOMAIN inbox[g] : inbox'[g][i] = inbox[g][j]
         /\ \A g \in Hubs \ {h} : hub'[g] = hub[g]
         /\ \/ /\ hub'[h].ackPort = hub[h].ackPort /\ hub'[h].state = hub[h].state
               /\ executed' = executed
            \/ /\ 1 \in DOMAIN inbox[h] /\ inbox[h][1] \in ToHub
               /\ hub'[h].state = "CONNECTED" =>
                    inbox[h][1].type = "addr" \/ hub[h].state = "CONNECTED"
               /\ hub'[h].ackPort = IF inbox[h][1].type = "cmd" THEN inbox[h][1].port
                                    ELSE hub[h].ackPort
               /\ executed' = executed \cup ({inbox[h][1].body} \cap Commands)
<1> DEFINE now == IF waited THEN Elapse(hub[h]) ELSE hub[h]
<1>1. /\ hub \in [Hubs -> HubRecord] /\ hub[h] \in HubRecord /\ phase' \in [Hubs -> {"listen", "loop"}]
      /\ inbox \in [Hubs -> Seq(ToHub)] /\ inbox[h] \in Seq(ToHub)
      /\ \A g \in Hubs : Len(inbox[g]) <= FifoDepth /\ Len(inbox[g]) \in Nat
      /\ FifoDepth \in Nat
  BY LinkConstants DEF Types, HubListen
<1>2. now \in HubRecord /\ now.state = hub[h].state /\ now.ackPort = hub[h].ackPort
  BY <1>1, ElapseRecord
<1>3. CASE inbox[h] = << >>
  <2>1. hub' = [hub EXCEPT ![h] = now] /\ UNCHANGED <<inbox, executed>>
    BY <1>3 DEF HubListen
  <2> HIDE DEF now
  <2>2. hub' \in [Hubs -> HubRecord] /\ hub'[h] = now /\ \A g \in Hubs \ {h} : hub'[g] = hub[g]
    BY <1>1, <1>2, <2>1
  <2>3. Types'
    BY <1>1, <2>1, <2>2 DEF HubListen, Types, gateway
  <2> QED
    BY <1>2, <2>1, <2>2, <2>3
<1>4. CASE inbox[h] # << >>
  <2> DEFINE p == inbox[h][1]
             rest == Tail(inbox[h])
  <2>1. /\ 1 \in DOMAIN inbox[h] /\ p \in ToHub /\ p = Head(inbox[h]) /\ rest \in Seq(ToHub)
        /\ Len(rest) = Len(inbox[h]) - 1
        /\ \A i \in DOMAIN rest : \E j \in DOMAIN inbox[h] : rest[i] = inbox[h][j]
    BY <1>1, <1>4, HeadTail
  <2>2. /\ hub' = [hub EXCEPT ![h] = Handle(now, p)] /\ inbox' = [inbox EXCEPT ![h] = rest]
        /\ executed' = executed \cup ({p.body} \cap Commands)
    BY <1>4, <2>1 DEF HubListen
  <2> HIDE DEF now, rest
  <2>3. /\ Handle(now, p) \in HubRecord
        /\ Handle(now, p).state = "CONNECTED" => p.type = "addr" \/ now.state = "CONNECTED"
        /\ Handle(now, p).ackPort = IF p.type = "cmd" THEN p.port ELSE now.ackPort
    BY <1>2, <2>1, HandleRecord
  <2>4. /\ hub' \in [Hubs -> HubRecord] /\ hub'[h] = Handle(now, p)
        /\ \A g \in Hubs \ {h} : hub'[g] = hub[g]
    BY <1>1, <2>2, <2>3
  <2>5. /\ inbox' \in [Hubs -> Seq(ToHub)] /\ inbox'[h] = rest
        /\ \A g \in Hubs \ {h} : inbox'[g] = inbox[g]
    BY <1>1, <2>1, <2>2
  <2>6. \A g \in Hubs : Len(inbox'[g]) <= FifoDepth
    <3>1. Len(rest) <= FifoDepth
      BY <1>1, <2>1
    <3> QED
      BY <1>1, <2>5, <3>1, Zenon
  <2>7. \A g \in Hubs : \A i \in DOMAIN inbox'[g] :
          \E j \in DOMAIN inbox[g] : inbox'[g][i] = inbox[g][j]
    BY <2>1, <2>5
  <2>8. Types'
    BY <1>1, <2>4, <2>5, <2>6 DEF HubListen, Types, gateway
  <2> QED
    BY <1>2, <2>1, <2>2, <2>3, <2>4, <2>7, <2>8
<1> QED
  BY <1>3, <1>4

(* A hub's turn: what the gateway hears of it is what the hub sends.        *)
LEMMA HubLoopStep ==
  ASSUME Types, NEW h \in Hubs, NEW heard \in Hearings, HubLoop(h, heard)
  PROVE  /\ Types'
         /\ \A g \in Hubs : \A i \in DOMAIN inbox'[g] :
              \E j \in DOMAIN inbox[g] : inbox'[g][i] = inbox[g][j]
         /\ \A g \in Hubs \ {h} : hub'[g] = hub[g]
         /\ hub'[h].state = "CONNECTED" => hub[h].state = "CONNECTED"
         /\ hub'[h].ackPort \in {hub[h].ackPort, None}
         /\ \A i \in DOMAIN rx' :
              \/ \E j \in DOMAIN rx : rx'[i] = rx[j]
              \/ /\ rx'[i].from = h
                 /\ rx'[i].packet.type = "ack" =>
                      /\ hub[h].ackPort # None
                      /\ DOMAIN rx'[i].packet.values = {hub[h].ackPort}
<1> DEFINE sends == Turn(hub[h])[2]
           onAir == [k \in DOMAIN heard |-> [from |-> h, packet |-> sends[heard[k]]]]
<1>1. /\ hub \in [Hubs -> HubRecord] /\ hub[h] \in HubRecord /\ phase' \in [Hubs -> {"listen", "loop"}]
      /\ inbox \in [Hubs -> Seq(ToHub)] /\ \A g \in Hubs : Len(inbox[g]) <= FifoDepth
      /\ rx \in Seq(Radioed) /\ FifoDepth \in Nat
  BY LinkConstants DEF Types, HubLoop
<1>2. /\ Turn(hub[h])[1] \in HubRecord
      /\ Turn(hub[h])[1].state = "CONNECTED" => hub[h].state = "CONNECTED"
      /\ Turn(hub[h])[1].ackPort \in {hub[h].ackPort, None}
      /\ sends \in Seq(FromHub)
      /\ \A i \in DOMAIN sends : sends[i].type = "ack" =>
           hub[h].ackPort # None /\ DOMAIN sends[i].values = {hub[h].ackPort}
  BY <1>1, TurnRecord
<1>3. /\ hub' = [hub EXCEPT ![h] = Turn(hub[h])[1]] /\ rx' = Receive(rx, onAir)
      /\ inbox' = IF sends = << >> THEN inbox ELSE [inbox EXCEPT ![h] = << >>]
      /\ \A k \in DOMAIN heard : heard[k] \in DOMAIN sends
  BY DEF HubLoop
<1>4. PICK n \in Nat : DOMAIN heard = 1..n
  <2>1. MaxSends \in Nat
    BY HubConstants DEF MaxSends
  <2> QED
    BY <2>1 DEF Hearings
<1> HIDE DEF sends
<1>5. /\ onAir \in Seq(Radioed)
      /\ \A k \in DOMAIN onAir :
           /\ onAir[k].from = h
           /\ onAir[k].packet.type = "ack" =>
                hub[h].ackPort # None /\ DOMAIN onAir[k].packet.values = {hub[h].ackPort}
  <2> DEFINE r(k) == [from |-> h, packet |-> sends[heard[k]]]
  <2>1. \A k \in 1..n : r(k) \in Radioed
    BY <1>2, <1>3, <1>4 DEF Radioed
  <2>2. \A k \in 1..n : r(k).from = h /\ r(k).packet = sends[heard[k]]
    OBVIOUS
  <2>3. onAir = [k \in 1..n |-> r(k)]
    BY <1>4
  <2> HIDE DEF r, onAir
  <2>4. onAir \in Seq(Radioed) /\ DOMAIN onAir = 1..n
    BY <1>4, <2>1, <2>3, IsASeq
  <2> QED
    BY <1>2, <1>3, <1>4, <2>2, <2>3, <2>4
<1> HIDE DEF onAir
<1>6. /\ rx' \in Seq(Radioed) /\ Len(rx') <= FifoDepth
      /\ \A i \in DOMAIN rx' : (\E j \in DOMAIN rx : rx'[i] = rx[j]) \/ \E k \in DOMAIN onAir : rx'[i] = onAir[k]
  BY <1>1, <1>3, <1>5, ReceiveElements
<1>7. /\ inbox' \in [Hubs -> Seq(ToHub)] /\ \A g \in Hubs : Len(inbox'[g]) <= FifoDepth
      /\ \A g \in Hubs : inbox'[g] = inbox[g] \/ inbox'[g] = << >>
  BY <1>1, <1>3
<1>8. /\ hub' \in [Hubs -> HubRecord] /\ hub'[h] = Turn(hub[h])[1]
      /\ \A g \in Hubs \ {h} : hub'[g] = hub[g]
  BY <1>1, <1>2, <1>3
<1>9. Types'
  BY <1>1, <1>6, <1>7, <1>8 DEF HubLoop, Types, gateway, history
<1>10. \A g \in Hubs : \A i \in DOMAIN inbox'[g] :
         \E j \in DOMAIN inbox[g] : inbox'[g][i] = inbox[g][j]
  BY <1>7
<1>11. \A i \in DOMAIN rx' :
         \/ \E j \in DOMAIN rx : rx'[i] = rx[j]
         \/ /\ rx'[i].from = h
            /\ rx'[i].packet.type = "ack" =>
                 hub[h].ackPort # None /\ DOMAIN rx'[i].packet.values = {hub[h].ackPort}
  BY <1>5, <1>6
<1> QED
  BY <1>2, <1>8, <1>9, <1>10, <1>11

LEMMA StepLink ==
  ASSUME Types, [Next]_vars
  PROVE  Types'
<1>1. CASE UNCHANGED vars
  BY <1>1 DEF vars, Types
<1> QED
  BY <1>1, SensorActionStep, TransmitStep, ResendStep, GatewayReceiveStep, CrashStep,
     ResetStep, HubListenStep, HubLoopStep DEF Next

-----------------------------------------------------------------------------
(* Whatever is under way was asked for.                                     *)
Issued ==
  /\ settled \subseteq issued /\ executed \subseteq issued
  /\ \A i \in DOMAIN queue : queue[i].body \in issued \cup Hubs
  /\ \A i \in DOMAIN tasks : tasks[i].body \in issued \cup Hubs
  /\ \A h \in Hubs : \A i \in DOMAIN inbox[h] : inbox[h][i].body \in issued \cup Hubs

LEMMA StepIssued ==
  ASSUME Types, Issued, [Next]_vars
  PROVE  Issued'
<1> USE DEF gateway, history
<1>1. ASSUME NEW c \in Commands, SensorAction(c) PROVE Issued'
  <2>1. issued' = issued \cup {c} /\ UNCHANGED <<tasks, inbox, settled, executed>>
    BY <1>1 DEF SensorAction
  <2>2. \A i \in DOMAIN queue' : queue'[i].body \in issued' \cup Hubs
    BY <1>1, <2>1, SensorActionStep DEF Issued
  <2> QED
    BY <2>1, <2>2 DEF Issued
<1>2. ASSUME NEW heard \in BOOLEAN, Transmit(heard) PROVE Issued'
  <2>1. UNCHANGED <<issued, settled, executed>>
    BY <1>2 DEF Transmit
  <2>2. queue[1].body \in issued \cup Hubs /\ 1 \in DOMAIN queue /\ queue[1] \in Message
    BY <1>2, TransmitStep DEF Issued, Types
  <2>3. PacketOf(queue[1].body).body = queue[1].body
    BY <2>2, PacketFor DEF Message
  <2>4. \A i \in DOMAIN queue' : queue'[i].body \in issued' \cup Hubs
    BY <1>2, <2>1, TransmitStep DEF Issued
  <2>5. \A i \in DOMAIN tasks' : tasks'[i].body \in issued' \cup Hubs
    BY <1>2, <2>1, <2>2, TransmitStep DEF Issued
  <2>6. \A h \in Hubs : \A i \in DOMAIN inbox'[h] : inbox'[h][i].body \in issued' \cup Hubs
    BY <1>2, <2>1, <2>2, <2>3, TransmitStep DEF Issued
  <2> QED
    BY <2>1, <2>4, <2>5, <2>6 DEF Issued
<1>3. ASSUME Resend PROVE Issued'
  <2>1. UNCHANGED <<tasks, inbox, issued, settled, executed>>
    BY <1>3 DEF Resend
  <2>2. \A i \in DOMAIN queue' : queue'[i].body \in issued' \cup Hubs
    BY <1>3, <2>1, ResendStep DEF Issued
  <2> QED
    BY <2>1, <2>2 DEF Issued
<1>4. ASSUME GatewayReceive PROVE Issued'
  <2> DEFINE h == rx[1].from
             p == rx[1].packet
  <2>1. /\ h \in Hubs /\ p \in FromHub /\ UNCHANGED <<inbox, issued, executed>>
        /\ IF p.type = "req" THEN ReceiveRequest(h) ELSE ReceiveData(h, p)
    BY <1>4, GatewayReceiveStep DEF GatewayReceive, Radioed
  <2> HIDE DEF h, p
  <2>2. CASE p.type = "req"
    <3>1. UNCHANGED <<tasks, settled>>
      BY <2>1, <2>2, ReceiveRequestStep
    <3>2. \A i \in DOMAIN queue' : queue'[i].body \in issued' \cup Hubs
      BY <2>1, <2>2, ReceiveRequestStep DEF Issued
    <3> QED
      BY <2>1, <3>1, <3>2 DEF Issued
  <2>3. CASE p.type # "req"
    <3>1. UNCHANGED queue /\ \A i \in DOMAIN tasks' : \E j \in DOMAIN tasks : tasks'[i] = tasks[j]
      BY <2>1, <2>3, ReceiveDataStep
    <3>2. settled' = settled \cup
            {c \in Commands : /\ \E i \in DOMAIN tasks : tasks[i].body = c
                              /\ ~ \E i \in DOMAIN tasks' : tasks'[i].body = c}
      BY <2>1, <2>3 DEF ReceiveData
    <3>3. settled' \subseteq issued'
      BY <2>1, <3>2, LinkConstants DEF Issued
    <3>4. \A i \in DOMAIN tasks' : tasks'[i].body \in issued' \cup Hubs
      BY <2>1, <3>1 DEF Issued
    <3> QED
      BY <2>1, <3>1, <3>3, <3>4 DEF Issued
  <2> QED
    BY <2>2, <2>3
<1>5. ASSUME Crash PROVE Issued'
  BY <1>5 DEF Crash, Issued
<1>6. ASSUME NEW h \in Hubs, NEW waited \in BOOLEAN, HubListen(h, waited) PROVE Issued'
  <2>1. UNCHANGED <<queue, tasks, issued, settled>>
    BY <1>6 DEF HubListen
  <2>2. \A g \in Hubs : \A i \in DOMAIN inbox'[g] : inbox'[g][i].body \in issued' \cup Hubs
    BY <1>6, <2>1, HubListenStep DEF Issued
  <2>3. \/ executed' = executed
        \/ /\ 1 \in DOMAIN inbox[h] /\ inbox[h][1].body \in issued \cup Hubs
           /\ executed' = executed \cup ({inbox[h][1].body} \cap Commands)
    BY <1>6, HubListenStep DEF Issued
  <2>4. executed' \subseteq issued'
    BY <2>1, <2>3, LinkConstants DEF Issued
  <2> QED
    BY <2>1, <2>2, <2>4 DEF Issued
<1>7. ASSUME NEW h \in Hubs, NEW heard \in Hearings, HubLoop(h, heard) PROVE Issued'
  <2>1. UNCHANGED <<queue, tasks, issued, settled, executed>>
    BY <1>7 DEF HubLoop
  <2>2. \A g \in Hubs : \A i \in DOMAIN inbox'[g] : inbox'[g][i].body \in issued' \cup Hubs
    BY <1>7, <2>1, HubLoopStep DEF Issued
  <2> QED
    BY <2>1, <2>2 DEF Issued
<1>8. ASSUME NEW h \in Hubs, Reset(h) PROVE Issued'
  <2>1. UNCHANGED <<queue, tasks, issued, executed, settled>>
    BY <1>8 DEF Reset
  <2> QED
    BY <1>8, <2>1, ResetStep DEF Issued
<1>9. CASE UNCHANGED vars
  BY <1>9 DEF vars, Issued
<1> QED
  BY <1>1, <1>2, <1>3, <1>4, <1>5, <1>6, <1>7, <1>8, <1>9 DEF Next

LEMMA AlwaysTyped == Spec => [](Types /\ Issued)
<1>1. Init => Issued
  BY DEF Init, Issued
<1> QED
  BY <1>1, InitLink, StepLink, StepIssued, PTL DEF Spec

(* The daemon, its hubs and the FIFOs are well typed, and nothing is carried*)
(* out or settled that was not asked for.                                   *)
THEOREM LinkTypes == Spec => []TypeOK
<1>1. Types /\ Issued => TypeOK
  <2> SUFFICES ASSUME Types, Issued PROVE TypeOK
    OBVIOUS
  <2>1. ASSUME NEW h \in Hubs
        PROVE  hub[h].server \in {Broadcast, Gateway} /\ hub[h].pin \in [Ports -> Levels]
    <3>1. hub[h] \in HubRecord
      BY DEF Types
    <3> QED
      BY <3>1 DEF HubRecord
  <2>2. \A i \in DOMAIN rx : rx[i].from \in Hubs
    <3>1. \A i \in DOMAIN rx : rx[i] \in Radioed
      BY DEF Types
    <3> QED
      BY <3>1 DEF Radioed
  <2> QED
    BY <2>1, <2>2 DEF TypeOK, Types, Issued, Task
<1> QED
  BY <1>1, AlwaysTyped, PTL

-----------------------------------------------------------------------------
(* What lets a hub think it is connected is on its way only to a client.    *)
Clients ==
  crashes = 0 =>
    /\ \A i \in DOMAIN queue : queue[i].body \in Hubs => queue[i].body \in clients
    /\ \A i \in DOMAIN tasks : tasks[i].body \in Hubs => tasks[i].body \in clients
    /\ \A h \in Hubs : \A i \in DOMAIN inbox[h] : inbox[h][i].type = "addr" => h \in clients
    /\ \A h \in Hubs : hub[h].state = "CONNECTED" => h \in clients

LEMMA StepClients ==
  ASSUME Types, Clients, [Next]_vars
  PROVE  Clients'
<1> USE DEF gateway, history
<1>0. \A i \in DOMAIN tasks : tasks[i] \in Task
  BY DEF Types
<1>1. ASSUME NEW c \in Commands, SensorAction(c) PROVE Clients'
  <2>1. UNCHANGED <<tasks, clients, inbox, hub, crashes>>
    BY <1>1 DEF SensorAction
  <2>2. crashes = 0 => \A i \in DOMAIN queue' : queue'[i].body \in Hubs => queue'[i].body \in clients
    BY <1>1, SensorActionStep, LinkConstants DEF Clients
  <2> QED
    BY <2>1, <2>2 DEF Clients
<1>2. ASSUME NEW heard \in BOOLEAN, Transmit(heard) PROVE Clients'
  <2>1. UNCHANGED <<clients, hub, crashes>>
    BY <1>2 DEF Transmit
  <2>2. 1 \in DOMAIN queue /\ queue[1] \in Message
    BY <1>2, TransmitStep DEF Types
  <2>3. PacketOf(queue[1].body).type = "addr" =>
          queue[1].body \in Hubs /\ Target(queue[1].body) = queue[1].body
    BY <2>2, PacketFor DEF Message
  <2>4. crashes = 0 => \A i \in DOMAIN queue' : queue'[i].body \in Hubs => queue'[i].body \in clients
    BY <1>2, TransmitStep DEF Clients
  <2>5. crashes = 0 => \A i \in DOMAIN tasks' : tasks'[i].body \in Hubs => tasks'[i].body \in clients
    BY <1>2, <2>2, TransmitStep DEF Clients
  <2>6. crashes = 0 =>
          \A h \in Hubs : \A i \in DOMAIN inbox'[h] : inbox'[h][i].type = "addr" => h \in clients
    BY <1>2, <2>2, <2>3, TransmitStep DEF Clients
  <2> QED
    BY <2>1, <2>4, <2>5, <2>6 DEF Clients
<1>3. ASSUME Resend PROVE Clients'
  <2>1. UNCHANGED <<tasks, clients, inbox, hub, crashes>>
    BY <1>3 DEF Resend
  <2>2. crashes = 0 => \A i \in DOMAIN queue' : queue'[i].body \in Hubs => queue'[i].body \in clients
    BY <1>3, ResendStep DEF Clients
  <2> QED
    BY <2>1, <2>2 DEF Clients
<1>4. ASSUME GatewayReceive PROVE Clients'
  <2> DEFINE h == rx[1].from
             p == rx[1].packet
  <2>1. /\ h \in Hubs /\ p \in FromHub /\ UNCHANGED <<inbox, hub, crashes>>
        /\ IF p.type = "req" THEN ReceiveRequest(h) ELSE ReceiveData(h, p)
    BY <1>4, GatewayReceiveStep DEF GatewayReceive, Radioed
  <2> HIDE DEF h, p
  <2>2. CASE p.type = "req"
    <3>1. UNCHANGED tasks /\ clients' = clients \cup {h}
      BY <2>1, <2>2, ReceiveRequestStep
    <3>2. crashes = 0 => \A i \in DOMAIN queue' : queue'[i].body \in Hubs => queue'[i].body \in clients'
      BY <2>1, <2>2, <3>1, ReceiveRequestStep DEF Clients
    <3> QED
      BY <2>1, <3>1, <3>2 DEF Clients
  <2>3. CASE p.type # "req"
    <3>1. /\ UNCHANGED <<queue, clients>>
          /\ \A i \in DOMAIN tasks' : \E j \in DOMAIN tasks : tasks'[i] = tasks[j]
      BY <2>1, <2>3, ReceiveDataStep
    <3> QED
      BY <2>1, <3>1 DEF Clients
  <2> QED
    BY <2>2, <2>3
<1>5. ASSUME Crash PROVE Clients'
  BY <1>5 DEF Crash, Clients, Types
<1>6. ASSUME NEW h \in Hubs, NEW waited \in BOOLEAN, HubListen(h, waited) PROVE Clients'
  <2>1. UNCHANGED <<queue, tasks, clients, crashes>>
    BY <1>6 DEF HubListen
  <2>2. crashes = 0 =>
          \A g \in Hubs : \A i \in DOMAIN inbox'[g] : inbox'[g][i].type = "addr" => g \in clients
    BY <1>6, HubListenStep DEF Clients
  <2>3. hub'[h].state = "CONNECTED" =>
          \/ hub[h].state = "CONNECTED"
          \/ 1 \in DOMAIN inbox[h] /\ inbox[h][1].type = "addr"
    BY <1>6, HubListenStep
  <2>4. crashes = 0 => \A g \in Hubs : hub'[g].state = "CONNECTED" => g \in clients
    BY <1>6, <2>3, HubListenStep DEF Clients
  <2> QED
    BY <2>1, <2>2, <2>4 DEF Clients
<1>7. ASSUME NEW h \in Hubs, NEW heard \in Hearings, HubLoop(h, heard) PROVE Clients'
  <2>1. UNCHANGED <<queue, tasks, clients, crashes>>
    BY <1>7 DEF HubLoop
  <2>2. crashes = 0 =>
          \A g \in Hubs : \A i \in DOMAIN inbox'[g] : inbox'[g][i].type = "addr" => g \in clients
    BY <1>7, HubLoopStep DEF Clients
  <2>3. crashes = 0 => \A g \in Hubs : hub'[g].state = "CONNECTED" => g \in clients
    BY <1>7, HubLoopStep DEF Clients
  <2> QED
    BY <2>1, <2>2, <2>3 DEF Clients
<1>8. ASSUME NEW h \in Hubs, Reset(h) PROVE Clients'
  <2>1. UNCHANGED <<queue, tasks, clients, crashes>>
    BY <1>8 DEF Reset
  <2> QED
    BY <1>8, <2>1, ResetStep DEF Clients
<1>9. CASE UNCHANGED vars
  BY <1>9 DEF vars, Clients
<1> QED
  BY <1>1, <1>2, <1>3, <1>4, <1>5, <1>6, <1>7, <1>8, <1>9 DEF Next

(* While the daemon lives, a hub that thinks it is connected is its client, *)
(* whatever was lost, flushed or sent again.                                *)
THEOREM AlwaysClient == Spec => []ConnectedIsClient
<1>1. Init => Clients
  BY DEF Init, Clients, Boot
<1>2. Clients => ConnectedIsClient
  BY DEF Clients, ConnectedIsClient
<1> QED
  BY <1>1, <1>2, InitLink, StepLink, StepClients, PTL DEF Spec

-----------------------------------------------------------------------------
(* An acknowledgement of a relay is made when its request is carried out:   *)
(* pending, or on its way to the gateway, it tells that it was.             *)
Done(s) == \A c \in Commands : SensorOf(c) = s => c \in executed

Accounted ==
  /\ \A i \in DOMAIN queue :
       queue[i].ack /\ queue[i].body \in Commands => queue[i].key = SensorOf(queue[i].body)
  /\ \A i \in DOMAIN tasks : tasks[i].body \in Commands => tasks[i].key = SensorOf(tasks[i].body)
  /\ \A h \in Hubs : \A i \in DOMAIN inbox[h] :
       inbox[h][i].type = "cmd" => SensorOf(inbox[h][i].body) = <<h, inbox[h][i].port>>
  /\ \A h \in Hubs : hub[h].ackPort # None => Done(<<h, hub[h].ackPort>>)
  /\ \A i \in DOMAIN rx : rx[i].packet.type = "ack" =>
       \A q \in DOMAIN rx[i].packet.values : Done(<<rx[i].from, q>>)
  /\ settled \subseteq executed

OneEach == \A c, d \in Commands : SensorOf(c) = SensorOf(d) => c = d

(* A command handled is carried out, and with it all there is for the relay.*)
LEMMA ListenAccounted ==
  ASSUME OneEach, Types, Accounted, NEW h \in Hubs, NEW waited \in BOOLEAN, HubListen(h, waited)
  PROVE  Accounted'
<1>1. UNCHANGED <<queue, tasks, rx, issued, settled>>
  BY DEF HubListen, gateway
<1>2. executed \subseteq executed'
  BY DEF HubListen
<1>3. \A g \in Hubs : \A i \in DOMAIN inbox'[g] :
        inbox'[g][i].type = "cmd" => SensorOf(inbox'[g][i].body) = <<g, inbox'[g][i].port>>
  BY HubListenStep DEF Accounted
<1>4. ASSUME NEW g \in Hubs, g # h, hub'[g].ackPort # None, NEW c \in Commands,
             SensorOf(c) = <<g, hub'[g].ackPort>>
      PROVE  c \in executed'
  <2>1. hub'[g] = hub[g]
    BY <1>4, HubListenStep
  <2> QED
    BY <2>1, <1>2, <1>4 DEF Accounted, Done
<1>5. ASSUME hub'[h].ackPort # None, NEW c \in Commands, SensorOf(c) = <<h, hub'[h].ackPort>>
      PROVE  c \in executed'
  <2>1. CASE hub'[h].ackPort = hub[h].ackPort
    BY <2>1, <1>2, <1>5 DEF Accounted, Done
  <2>2. CASE hub'[h].ackPort # hub[h].ackPort
    <3>1. /\ 1 \in DOMAIN inbox[h] /\ inbox[h][1] \in ToHub /\ inbox[h][1].type = "cmd"
          /\ hub'[h].ackPort = inbox[h][1].port
          /\ executed' = executed \cup ({inbox[h][1].body} \cap Commands)
      BY <2>2, HubListenStep
    <3>2. inbox[h][1].body \in Commands
      BY <3>1 DEF ToHub
    <3>3. SensorOf(inbox[h][1].body) = <<h, inbox[h][1].port>>
      BY <3>1 DEF Accounted
    <3>4. c = inbox[h][1].body
      BY <3>1, <3>2, <3>3, <1>5 DEF OneEach
    <3> QED
      BY <3>1, <3>2, <3>4
  <2> QED
    BY <2>1, <2>2
<1>6. \A g \in Hubs : hub'[g].ackPort # None =>
        \A c \in Commands : SensorOf(c) = <<g, hub'[g].ackPort>> => c \in executed'
  BY <1>4, <1>5
<1>7. \A i \in DOMAIN rx : rx[i].packet.type = "ack" =>
        \A q \in DOMAIN rx[i].packet.values :
          \A c \in Commands : SensorOf(c) = <<rx[i].from, q>> => c \in executed'
  BY <1>2 DEF Accounted, Done
<1> QED
  BY <1>1, <1>2, <1>3, <1>6, <1>7 DEF Accounted, Done, SensorOf

(* A turn sends the pending acknowledgement.                                *)
LEMMA LoopAccounted ==
  ASSUME Types, Accounted, NEW h \in Hubs, NEW heard \in Hearings, HubLoop(h, heard)
  PROVE  Accounted'
<1>1. UNCHANGED <<queue, tasks, issued, settled, executed>>
  BY DEF HubLoop, gateway, history
<1>2. \A g \in Hubs : \A i \in DOMAIN inbox'[g] :
        inbox'[g][i].type = "cmd" => SensorOf(inbox'[g][i].body) = <<g, inbox'[g][i].port>>
  BY HubLoopStep DEF Accounted
<1>3. \A g \in Hubs : hub'[g].ackPort # None => Done(<<g, hub'[g].ackPort>>)
  <2> SUFFICES ASSUME NEW g \in Hubs, hub'[g].ackPort # None
               PROVE  Done(<<g, hub'[g].ackPort>>)
    OBVIOUS
  <2>1. CASE g = h
    <3>1. hub'[g].ackPort = hub[g].ackPort
      BY <2>1, HubLoopStep
    <3> QED
      BY <3>1 DEF Accounted
  <2>2. CASE g # h
    <3>1. hub'[g] = hub[g]
      BY <2>2, HubLoopStep
    <3> QED
      BY <3>1 DEF Accounted
  <2> QED
    BY <2>1, <2>2
<1>4. \A i \in DOMAIN rx' : rx'[i].packet.type = "ack" =>
        \A q \in DOMAIN rx'[i].packet.values : Done(<<rx'[i].from, q>>)
  <2> SUFFICES ASSUME NEW i \in DOMAIN rx', rx'[i].packet.type = "ack",
                      NEW q \in DOMAIN rx'[i].packet.values
               PROVE  Done(<<rx'[i].from, q>>)
    OBVIOUS
  <2>1. CASE \E j \in DOMAIN rx : rx'[i] = rx[j]
    BY <2>1 DEF Accounted
  <2>2. CASE ~ \E j \in DOMAIN rx : rx'[i] = rx[j]
    <3>1. /\ rx'[i].from = h /\ hub[h].ackPort # None
          /\ DOMAIN rx'[i].packet.values = {hub[h].ackPort}
      BY <2>2, HubLoopStep
    <3>2. q = hub[h].ackPort /\ Done(<<h, hub[h].ackPort>>)
      BY <3>1 DEF Accounted
    <3> QED
      BY <3>1, <3>2
  <2> QED
    BY <2>1, <2>2
<1> QED
  BY <1>1, <1>2, <1>3, <1>4 DEF Accounted, Done, SensorOf

(* What an acknowledgement takes out of the list was carried out.           *)
LEMMA GatewayAccounted ==
  ASSUME Types, Accounted, GatewayReceive
  PROVE  Accounted'
<1> DEFINE h == rx[1].from
           p == rx[1].packet
<1>1. /\ h \in Hubs /\ p \in FromHub /\ 1 \in DOMAIN rx
      /\ UNCHANGED <<inbox, hub, issued, executed>>
      /\ IF p.type = "req" THEN ReceiveRequest(h) ELSE ReceiveData(h, p)
      /\ \A i \in DOMAIN rx' : \E j \in DOMAIN rx : rx'[i] = rx[j]
  BY GatewayReceiveStep DEF GatewayReceive, Radioed
<1>2. p.type = "ack" => \A q \in DOMAIN p.values : Done(<<h, q>>)
  BY <1>1 DEF Accounted
<1> HIDE DEF h, p
<1>3. \A i \in DOMAIN rx' : rx'[i].packet.type = "ack" =>
        \A q \in DOMAIN rx'[i].packet.values : Done(<<rx'[i].from, q>>)
  BY <1>1 DEF Accounted
<1>4. CASE p.type = "req"
  <2>1. UNCHANGED <<tasks, settled>>
    BY <1>1, <1>4, ReceiveRequestStep
  <2>2. \A i \in DOMAIN queue' : queue'[i].ack /\ queue'[i].body \in Commands =>
          queue'[i].key = SensorOf(queue'[i].body)
    BY <1>1, <1>4, ReceiveRequestStep, LinkConstants DEF Accounted
  <2> QED
    BY <1>1, <1>3, <2>1, <2>2 DEF Accounted, Done, SensorOf
<1>5. CASE p.type # "req"
  <2>1. /\ UNCHANGED queue /\ \A i \in DOMAIN tasks' : \E j \in DOMAIN tasks : tasks'[i] = tasks[j]
        /\ \A j \in DOMAIN tasks :
             \/ \E i \in DOMAIN tasks' : tasks'[i] = tasks[j]
             \/ p.type = "ack" /\ \E q \in DOMAIN p.values : tasks[j].key = <<h, q>>
    BY <1>1, <1>5, ReceiveDataStep
  <2>2. settled' = settled \cup
          {c \in Commands : /\ \E i \in DOMAIN tasks : tasks[i].body = c
                            /\ ~ \E i \in DOMAIN tasks' : tasks'[i].body = c}
    BY <1>1, <1>5 DEF ReceiveData
  <2>3. ASSUME NEW c \in Commands, NEW j \in DOMAIN tasks, tasks[j].body = c,
               ~ \E i \in DOMAIN tasks' : tasks'[i].body = c
        PROVE  c \in executed
    <3>1. PICK q \in DOMAIN p.values : p.type = "ack" /\ tasks[j].key = <<h, q>>
      BY <2>1, <2>3
    <3>2. SensorOf(c) = <<h, q>>
      BY <3>1, <2>3 DEF Accounted
    <3> QED
      BY <3>1, <3>2, <1>2 DEF Done
  <2>4. settled' \subseteq executed
    BY <2>2, <2>3 DEF Accounted
  <2>5. \A i \in DOMAIN tasks' : tasks'[i].body \in Commands => tasks'[i].key = SensorOf(tasks'[i].body)
    BY <2>1 DEF Accounted
  <2> QED
    BY <1>1, <1>3, <2>1, <2>4, <2>5 DEF Accounted, Done, SensorOf
<1> QED
  BY <1>4, <1>5

LEMMA StepAccounted ==
  ASSUME OneEach, Types, Accounted, [Next]_vars
  PROVE  Accounted'
<1> USE DEF gateway, history
<1>1. ASSUME NEW c \in Commands, SensorAction(c) PROVE Accounted'
  <2>1. UNCHANGED <<tasks, rx, inbox, hub, settled, executed>>
    BY <1>1 DEF SensorAction
  <2>2. \A i \in DOMAIN queue' : queue'[i].ack /\ queue'[i].body \in Commands =>
          queue'[i].key = SensorOf(queue'[i].body)
    BY <1>1, SensorActionStep DEF Accounted
  <2> QED
    BY <2>1, <2>2 DEF Accounted, Done, SensorOf
<1>2. ASSUME NEW heard \in BOOLEAN, Transmit(heard) PROVE Accounted'
  <2>1. UNCHANGED <<hub, settled, executed>> /\ rx' = << >>
    BY <1>2 DEF Transmit
  <2>2. 1 \in DOMAIN queue /\ queue[1] \in Message
    BY <1>2, TransmitStep DEF Types
  <2>3. PacketOf(queue[1].body).type = "cmd" =>
          /\ PacketOf(queue[1].body).body = queue[1].body
          /\ SensorOf(queue[1].body) = <<Target(queue[1].body), PacketOf(queue[1].body).port>>
    BY <2>2, PacketFor DEF Message
  <2>4. \A i \in DOMAIN queue' : queue'[i].ack /\ queue'[i].body \in Commands =>
          queue'[i].key = SensorOf(queue'[i].body)
    BY <1>2, TransmitStep DEF Accounted
  <2>5. \A i \in DOMAIN tasks' : tasks'[i].body \in Commands => tasks'[i].key = SensorOf(tasks'[i].body)
    BY <1>2, <2>2, TransmitStep DEF Accounted
  <2>6. \A h \in Hubs : \A i \in DOMAIN inbox'[h] :
          inbox'[h][i].type = "cmd" => SensorOf(inbox'[h][i].body) = <<h, inbox'[h][i].port>>
    BY <1>2, <2>3, TransmitStep DEF Accounted
  <2> QED
    BY <2>1, <2>4, <2>5, <2>6 DEF Accounted, Done, SensorOf
<1>3. ASSUME Resend PROVE Accounted'
  <2>1. UNCHANGED <<tasks, rx, inbox, hub, settled, executed>>
    BY <1>3 DEF Resend
  <2>2. \A i \in DOMAIN queue' : ~ queue'[i].ack
    BY <1>3, ResendStep
  <2> QED
    BY <2>1, <2>2 DEF Accounted, Done, SensorOf
<1>4. ASSUME Crash PROVE Accounted'
  <2>1. queue' = << >> /\ tasks' = << >> /\ rx' = << >> /\ UNCHANGED <<inbox, hub, settled, executed>>
    BY <1>4 DEF Crash
  <2> QED
    BY <2>1 DEF Accounted, Done, SensorOf
<1>5. ASSUME NEW h \in Hubs, Reset(h) PROVE Accounted'
  <2>1. UNCHANGED <<queue, tasks, rx, settled, executed>>
    BY <1>5 DEF Reset
  <2>2. \A g \in Hubs : \A i \in DOMAIN inbox'[g] :
          inbox'[g][i].type = "cmd" => SensorOf(inbox'[g][i].body) = <<g, inbox'[g][i].port>>
    BY <1>5, ResetStep DEF Accounted
  <2>3. \A g \in Hubs : hub'[g].ackPort # None => Done(<<g, hub'[g].ackPort>>)
    BY <1>5, ResetStep DEF Accounted
  <2> QED
    BY <2>1, <2>2, <2>3 DEF Accounted, Done, SensorOf
<1>6. CASE UNCHANGED vars
  BY <1>6 DEF vars, Accounted, Done, SensorOf
<1> QED
  BY <1>1, <1>2, <1>3, <1>4, <1>5, <1>6, GatewayAccounted, ListenAccounted, LoopAccounted DEF Next

(* With one request for each relay, no request is settled before a hub has  *)
(* carried it out: not by a late answer, a resend, a stray task, a loss or a*)
(* death of the daemon, a hub switched off.                                 *)
THEOREM SettledWhenExecuted ==
  ASSUME \A c, d \in Commands : SensorOf(c) = SensorOf(d) => c = d
  PROVE  Spec => []SettledExecuted
<1>1. Init => Accounted
  BY DEF Init, Accounted, Boot
<1>2. Accounted => SettledExecuted
  BY DEF Accounted, SettledExecuted
<1>3. OneEach
  BY DEF OneEach
<1>4. Types /\ Accounted /\ [Next]_vars => Accounted'
  BY <1>3, StepAccounted
<1> QED
  BY <1>1, <1>2, <1>4, InitLink, StepLink, PTL DEF Spec

-----------------------------------------------------------------------------
(* A request is in one place: in the queue with its flag, or in the resend  *)
(* list, at one position; and not at all once it is settled.                *)
Waits(i, c)  == queue[i].body = c /\ queue[i].ack
Tracks(i, c) == tasks[i].body = c

Once ==
  \A c \in Commands :
    /\ \A i, j \in DOMAIN queue : Waits(i, c) /\ Waits(j, c) => i = j
    /\ \A i, j \in DOMAIN tasks : Tracks(i, c) /\ Tracks(j, c) => i = j
    /\ \A i \in DOMAIN queue, j \in DOMAIN tasks : ~ (Waits(i, c) /\ Tracks(j, c))
    /\ c \in settled => ~ Held(c)

(* RemoveTask takes out one task at most, and moves none past another: where *)
(* a task was before the k-th was taken out.                                *)
Before(k, i) == IF i < k THEN i ELSE i + 1

LEMMA RemovedPositions ==
  ASSUME NEW T, NEW q \in Seq(T), NEW key, NEW rest, rest = RemoveTask(q, key)
  PROVE  \/ rest = q
         \/ \E k \in DOMAIN q :
              /\ rest \in Seq(T)
              /\ \A i \in DOMAIN rest : Before(k, i) \in DOMAIN q /\ Before(k, i) # k
              /\ \A i \in DOMAIN rest : rest[i] = q[Before(k, i)]
              /\ \A i, j \in DOMAIN rest : Before(k, i) = Before(k, j) => i = j
              /\ \A j \in DOMAIN q : j # k => \E i \in DOMAIN rest : rest[i] = q[j]
<1>1. CASE rest = q
  BY <1>1
<1>2. ASSUME NEW k \in DOMAIN q,
             rest \in Seq(T), Len(rest) = Len(q) - 1,
             \A i \in DOMAIN rest : rest[i] = q[IF i < k THEN i ELSE i + 1]
      PROVE  /\ \A i \in DOMAIN rest : Before(k, i) \in DOMAIN q /\ Before(k, i) # k
             /\ \A i \in DOMAIN rest : rest[i] = q[Before(k, i)]
             /\ \A i, j \in DOMAIN rest : Before(k, i) = Before(k, j) => i = j
             /\ \A j \in DOMAIN q : j # k => \E i \in DOMAIN rest : rest[i] = q[j]
  <2>1. DOMAIN rest = 1..(Len(q) - 1) /\ DOMAIN q = 1..Len(q) /\ Len(q) \in Nat
    BY <1>2, LenProperties
  <2>2. ASSUME NEW j \in DOMAIN q, j # k PROVE \E i \in DOMAIN rest : rest[i] = q[j]
    <3>1. CASE j < k
      <4>1. j \in DOMAIN rest
        BY <2>1, <3>1
      <4> QED
        BY <1>2, <3>1, <4>1
    <3>2. CASE j > k
      <4>1. j - 1 \in DOMAIN rest /\ ~ (j - 1 < k) /\ (j - 1) + 1 = j
        BY <2>1, <3>2
      <4> QED
        BY <1>2, <4>1
    <3> QED
      BY <2>1, <2>2, <3>1, <3>2
  <2>3. \A i \in DOMAIN rest : Before(k, i) \in DOMAIN q /\ Before(k, i) # k
    BY <2>1 DEF Before
  <2>4. \A i, j \in DOMAIN rest : Before(k, i) = Before(k, j) => i = j
    BY <2>1 DEF Before
  <2>5. \A i \in DOMAIN rest : rest[i] = q[Before(k, i)]
    BY <1>2 DEF Before
  <2> QED
    BY <2>2, <2>3, <2>4, <2>5
<1> QED
  BY <1>1, <1>2, RemoveTaskEffect

(* What is in hand is issued.                                               *)
LEMMA HeldIssued ==
  ASSUME Issued, NEW c \in Commands, Held(c)
  PROVE  c \in issued
<1>1. c \in issued \cup Hubs
  BY DEF Issued, Held
<1> QED
  BY <1>1, LinkConstants

(* A message more behind the queue: what it holds in hand, held once.       *)
LEMMA QueuedOnce ==
  ASSUME Types, Once, UNCHANGED <<tasks, settled>>, NEW m \in Message, queue' = Append(queue, m),
         m.ack /\ m.body \in Commands => ~ Held(m.body) /\ m.body \notin settled
  PROVE  /\ Once'
         /\ \A d \in Commands : Held(d)' <=> Held(d) \/ (m.ack /\ m.body = d)
<1> DEFINE n == Len(queue) + 1
<1>1. queue \in Seq(Message)
  BY DEF Types
<1>2. /\ DOMAIN queue' = DOMAIN queue \cup {n} /\ n \notin DOMAIN queue /\ queue'[n] = m
      /\ \A i \in DOMAIN queue : queue'[i] = queue[i]
  BY <1>1, AppendProperties, LenProperties
<1> HIDE DEF n
<1>3. \A d \in Commands : Held(d)' <=> Held(d) \/ (m.ack /\ m.body = d)
  BY <1>2 DEF Held
<1>4. ASSUME NEW d \in Commands, NEW i \in DOMAIN queue', NEW j \in DOMAIN queue',
             Waits(i, d)', Waits(j, d)'
      PROVE  i = j
  BY <1>2, <1>4 DEF Once, Waits, Held
<1>5. ASSUME NEW d \in Commands, NEW i \in DOMAIN queue', NEW j \in DOMAIN tasks',
             Waits(i, d)', Tracks(j, d)'
      PROVE  FALSE
  BY <1>2, <1>5 DEF Once, Waits, Tracks, Held
<1>6. \A d \in Commands : \A i, j \in DOMAIN tasks' : Tracks(i, d)' /\ Tracks(j, d)' => i = j
  BY DEF Once, Tracks
<1>7. \A d \in Commands : d \in settled' => ~ Held(d)'
  BY <1>3 DEF Once
<1> QED
  BY <1>3, <1>4, <1>5, <1>6, <1>7 DEF Once

(* A request is taken.                                                      *)
LEMMA SensorActionOnce ==
  ASSUME Types, Issued, Once, NEW c \in Commands, SensorAction(c)
  PROVE  /\ Once' /\ Progress(c) = "new"
         /\ \A d \in Commands : Progress(d)' = IF d = c THEN "pending" ELSE Progress(d)
<1> DEFINE m == [body |-> c, ack |-> TRUE, key |-> SensorOf(c)]
<1>1. SensorOf(c) \in Sensors
  BY LinkConstants DEF SensorOf, Sensors
<1>2. m \in Message /\ m.body = c /\ m.ack
  BY <1>1 DEF Message, Bodies
<1>3. /\ queue' = Append(queue, m) /\ UNCHANGED <<tasks, settled>>
      /\ c \notin issued /\ issued' = issued \cup {c}
  BY DEF SensorAction
<1> HIDE DEF m
<1>4. ~ Held(c) /\ c \notin settled
  BY <1>3, HeldIssued DEF Issued
<1>5. Once' /\ \A d \in Commands : Held(d)' <=> Held(d) \/ d = c
  BY <1>2, <1>3, <1>4, QueuedOnce
<1> QED
  BY <1>3, <1>5 DEF Progress

(* A message is put on the air: a request goes from the queue to the list.  *)
LEMMA TransmitOnce ==
  ASSUME Types, Once, NEW heard \in BOOLEAN, Transmit(heard)
  PROVE  Once' /\ \A d \in Commands : Held(d)' <=> Held(d)
<1> DEFINE m == queue[1]
           t == [key |-> m.key, body |-> m.body]
           n == Len(tasks) + 1
<1>0. queue \in Seq(Message) /\ tasks \in Seq(Task) /\ queue # << >>
  BY DEF Types, Transmit
<1>1. /\ queue' = Tail(queue) /\ m \in Message /\ UNCHANGED settled
      /\ tasks' = IF m.ack THEN Append(tasks, t) ELSE tasks
  BY <1>0, HeadTail DEF Transmit, AddTask, history
<1>2. /\ 1 \in DOMAIN queue /\ DOMAIN queue \subseteq Nat
      /\ \A i \in DOMAIN queue' : i \in Nat /\ i + 1 \in DOMAIN queue /\ i + 1 # 1 /\ queue'[i] = queue[i + 1]
      /\ \A i \in DOMAIN queue \ {1} : i - 1 \in DOMAIN queue' /\ queue'[i - 1] = queue[i]
  <2>1. Len(queue') = Len(queue) - 1 /\ \A i \in DOMAIN queue' : queue'[i] = queue[i + 1]
    BY <1>0, <1>1, HeadTail
  <2>2. DOMAIN queue' = 1..Len(queue') /\ DOMAIN queue = 1..Len(queue) /\ Len(queue) \in Nat
    BY <1>0, <1>1, LenProperties, HeadTail
  <2>3. 1 \in DOMAIN queue
    BY <1>0, HeadTail
  <2> QED
    BY <2>1, <2>2, <2>3
<1>3. t \in Task /\ t.body = m.body
  BY <1>1 DEF Message, Task
<1>4. /\ ~ m.ack => tasks' = tasks
      /\ m.ack => /\ DOMAIN tasks' = DOMAIN tasks \cup {n} /\ n \notin DOMAIN tasks
                  /\ tasks'[n].body = m.body
                  /\ \A i \in DOMAIN tasks : tasks'[i] = tasks[i]
  BY <1>0, <1>1, <1>3, AppendProperties, LenProperties
<1> HIDE DEF t, n
<1>5. ASSUME NEW d \in Commands PROVE Held(d)' <=> Held(d)
  <2>1. ASSUME Held(d)' PROVE Held(d)
    BY <1>2, <1>4, <2>1 DEF Held
  <2>2. ASSUME NEW i \in DOMAIN queue, queue[i].body = d, queue[i].ack PROVE Held(d)'
    <3>1. CASE i = 1
      BY <1>4, <2>2, <3>1 DEF Held
    <3>2. CASE i # 1
      BY <1>2, <2>2, <3>2 DEF Held
    <3> QED
      BY <3>1, <3>2
  <2>3. ASSUME NEW i \in DOMAIN tasks, tasks[i].body = d PROVE Held(d)'
    BY <1>4, <2>3 DEF Held
  <2> QED
    BY <2>1, <2>2, <2>3 DEF Held
<1>6. ASSUME NEW d \in Commands, NEW i \in DOMAIN queue', NEW j \in DOMAIN queue',
             Waits(i, d)', Waits(j, d)'
      PROVE  i = j
  <2>1. Waits(i + 1, d) /\ Waits(j + 1, d)
    BY <1>2, <1>6 DEF Waits
  <2>2. i + 1 = j + 1
    BY <1>2, <2>1 DEF Once
  <2> QED
    BY <1>2, <2>2
<1>7. ASSUME NEW d \in Commands, NEW i \in DOMAIN queue', NEW j \in DOMAIN tasks',
             Waits(i, d)', Tracks(j, d)'
      PROVE  FALSE
  <2>1. i + 1 \in DOMAIN queue /\ i + 1 # 1 /\ Waits(i + 1, d)
    BY <1>2, <1>7 DEF Waits
  <2>2. CASE j \in DOMAIN tasks
    BY <1>4, <1>7, <2>1, <2>2 DEF Once, Tracks
  <2>3. CASE j \notin DOMAIN tasks
    <3>1. Waits(1, d)
      BY <1>4, <1>7, <2>3 DEF Waits, Tracks
    <3> QED
      BY <1>2, <2>1, <3>1 DEF Once
  <2> QED
    BY <2>2, <2>3
<1>8. ASSUME NEW d \in Commands, NEW i \in DOMAIN tasks', NEW j \in DOMAIN tasks',
             Tracks(i, d)', Tracks(j, d)'
      PROVE  i = j
  <2>1. CASE i \in DOMAIN tasks /\ j \in DOMAIN tasks
    BY <1>4, <1>8, <2>1 DEF Once, Tracks
  <2>2. ASSUME NEW k \in DOMAIN tasks, Tracks(k, d), m.ack, m.body = d PROVE FALSE
    BY <1>2, <2>2 DEF Once, Waits
  <2>3. CASE ~ (i \in DOMAIN tasks /\ j \in DOMAIN tasks)
    <3>1. m.ack /\ m.body = d
      BY <1>4, <1>8, <2>3 DEF Tracks
    <3>2. i \notin DOMAIN tasks /\ j \notin DOMAIN tasks
      BY <1>4, <1>8, <2>2, <2>3, <3>1 DEF Tracks
    <3> QED
      BY <1>4, <3>1, <3>2
  <2> QED
    BY <2>1, <2>3
<1>9. \A d \in Commands : d \in settled' => ~ Held(d)'
  BY <1>1, <1>5 DEF Once
<1> QED
  BY <1>5, <1>6, <1>7, <1>8, <1>9 DEF Once

(* A pass of the executor asks for no acknowledgement.                      *)
LEMMA ResendOnceEach ==
  ASSUME Types, Once, Resend
  PROVE  Once' /\ \A d \in Commands : Held(d)' <=> Held(d)
<1>1. /\ queue = << >> /\ \A i \in DOMAIN queue' : ~ queue'[i].ack
      /\ UNCHANGED <<tasks, settled>>
  BY ResendStep DEF Resend, history
<1>2. \A d \in Commands : Held(d)' <=> Held(d)
  BY <1>1 DEF Held
<1> QED
  BY <1>1, <1>2 DEF Once, Waits, Tracks

(* An acknowledgement settles the request of the task it takes out, if it   *)
(* is the task of one; a request that waits to be sent is in no task.       *)
LEMMA AcknowledgedOnce ==
  ASSUME Types, Once, NEW h \in Hubs, NEW p \in FromHub, p.type # "req", ReceiveData(h, p)
  PROVE  /\ Once'
         /\ \/ UNCHANGED settled /\ \A d \in Commands : Held(d)' <=> Held(d)
            \/ \E c \in Commands :
                 /\ Held(c) /\ c \notin settled /\ settled' = settled \cup {c}
                 /\ \A d \in Commands : Held(d)' <=> Held(d) /\ d # c
<1>1. /\ tasks \in Seq(Task) /\ UNCHANGED queue
      /\ settled' = settled \cup
           {c \in Commands : /\ \E i \in DOMAIN tasks : tasks[i].body = c
                             /\ ~ \E i \in DOMAIN tasks' : tasks'[i].body = c}
      /\ UNCHANGED tasks \/ \E q \in DOMAIN p.values : tasks' = RemoveTask(tasks, <<h, q>>)
  BY DEF Types, ReceiveData
<1>2. CASE UNCHANGED tasks
  <2>1. UNCHANGED settled
    BY <1>1, <1>2
  <2>2. \A d \in Commands : Held(d)' <=> Held(d)
    BY <1>1, <1>2 DEF Held
  <2> QED
    BY <1>1, <1>2, <2>1, <2>2 DEF Once, Waits, Tracks
<1>3. ASSUME NEW k \in DOMAIN tasks,
             \A i \in DOMAIN tasks' : Before(k, i) \in DOMAIN tasks /\ Before(k, i) # k,
             \A i \in DOMAIN tasks' : tasks'[i] = tasks[Before(k, i)],
             \A i, j \in DOMAIN tasks' : Before(k, i) = Before(k, j) => i = j,
             \A j \in DOMAIN tasks : j # k => \E i \in DOMAIN tasks' : tasks'[i] = tasks[j]
      PROVE  /\ Once'
             /\ \/ UNCHANGED settled /\ \A d \in Commands : Held(d)' <=> Held(d)
                \/ \E c \in Commands :
                     /\ Held(c) /\ c \notin settled /\ settled' = settled \cup {c}
                     /\ \A d \in Commands : Held(d)' <=> Held(d) /\ d # c
  <2>0. PICK c : c = tasks[k].body
    OBVIOUS
  <2>2. \A d \in Commands : d # c => ((\E i \in DOMAIN tasks' : tasks'[i].body = d)
                                        <=> \E i \in DOMAIN tasks : tasks[i].body = d)
    BY <1>3, <2>0
  <2>3. c \in Commands => ~ \E i \in DOMAIN tasks' : tasks'[i].body = c
    BY <1>3, <2>0 DEF Once, Tracks
  <2>4. c \in Commands => Held(c) /\ c \notin settled /\ ~ Held(c)'
    BY <1>1, <2>0, <2>3 DEF Once, Held, Waits, Tracks
  <2>5. \A d \in Commands : Held(d)' <=> Held(d) /\ d # c
    BY <1>1, <2>2, <2>4 DEF Held
  <2>6. c \in Commands => settled' = settled \cup {c}
    BY <1>1, <2>0, <2>2, <2>3
  <2>7. c \notin Commands => settled' = settled
    BY <1>1, <2>0, <2>2
  <2>8. \A d \in Commands : d \in settled' => ~ Held(d)'
    BY <2>5, <2>6, <2>7 DEF Once
  <2>9. ASSUME NEW d \in Commands, NEW i \in DOMAIN tasks', NEW j \in DOMAIN tasks',
               Tracks(i, d)', Tracks(j, d)'
        PROVE  i = j
    <3>1. Before(k, i) \in DOMAIN tasks /\ Tracks(Before(k, i), d) /\ Before(k, j) \in DOMAIN tasks /\ Tracks(Before(k, j), d)
      BY <1>3, <2>9 DEF Tracks
    <3> QED
      BY <1>3, <2>9, <3>1 DEF Once
  <2>10. ASSUME NEW d \in Commands, NEW i \in DOMAIN queue', NEW j \in DOMAIN tasks',
                Waits(i, d)', Tracks(j, d)'
         PROVE  FALSE
    <3>1. Before(k, j) \in DOMAIN tasks /\ Tracks(Before(k, j), d)
      BY <1>3, <2>10 DEF Tracks
    <3> QED
      BY <1>1, <2>10, <3>1 DEF Once, Waits
  <2>11. \A d \in Commands : \A i, j \in DOMAIN queue' : Waits(i, d)' /\ Waits(j, d)' => i = j
    BY <1>1 DEF Once, Waits
  <2>12. Once'
    BY <2>8, <2>9, <2>10, <2>11 DEF Once
  <2> QED
    BY <2>4, <2>5, <2>6, <2>7, <2>12
<1>4. ASSUME NEW q \in DOMAIN p.values, tasks' = RemoveTask(tasks, <<h, q>>), tasks' # tasks
      PROVE  \E k \in DOMAIN tasks :
               /\ \A i \in DOMAIN tasks' : Before(k, i) \in DOMAIN tasks /\ Before(k, i) # k
               /\ \A i \in DOMAIN tasks' : tasks'[i] = tasks[Before(k, i)]
               /\ \A i, j \in DOMAIN tasks' : Before(k, i) = Before(k, j) => i = j
               /\ \A j \in DOMAIN tasks : j # k => \E i \in DOMAIN tasks' : tasks'[i] = tasks[j]
  <2> DEFINE key == <<h, q>>
  <2> HIDE DEF key
  <2>1. tasks' = RemoveTask(tasks, key)
    BY <1>4 DEF key
  <2>2. \/ tasks' = tasks
        \/ \E k \in DOMAIN tasks :
             /\ tasks' \in Seq(Task)
             /\ \A i \in DOMAIN tasks' : Before(k, i) \in DOMAIN tasks /\ Before(k, i) # k
             /\ \A i \in DOMAIN tasks' : tasks'[i] = tasks[Before(k, i)]
             /\ \A i, j \in DOMAIN tasks' : Before(k, i) = Before(k, j) => i = j
             /\ \A j \in DOMAIN tasks : j # k => \E i \in DOMAIN tasks' : tasks'[i] = tasks[j]
    BY <1>1, <2>1, RemovedPositions
  <2> QED
    BY <1>4, <2>2
<1> QED
  BY <1>1, <1>2, <1>3, <1>4

LEMMA GatewayReceiveOnce ==
  ASSUME Types, Once, GatewayReceive
  PROVE  /\ Once'
         /\ \/ UNCHANGED settled /\ \A d \in Commands : Held(d)' <=> Held(d)
            \/ \E c \in Commands :
                 /\ Held(c) /\ c \notin settled /\ settled' = settled \cup {c}
                 /\ \A d \in Commands : Held(d)' <=> Held(d) /\ d # c
<1> DEFINE h == rx[1].from
           p == rx[1].packet
<1>1. /\ h \in Hubs /\ p \in FromHub
      /\ IF p.type = "req" THEN ReceiveRequest(h) ELSE ReceiveData(h, p)
  BY GatewayReceiveStep DEF Radioed
<1> HIDE DEF h, p
<1>2. CASE p.type # "req"
  BY <1>1, <1>2, AcknowledgedOnce
<1>3. CASE p.type = "req"
  <2>1. PICK ack \in BOOLEAN, key \in Sensors \cup {None} :
          queue' = Append(queue, [body |-> h, ack |-> ack, key |-> key])
    BY <1>1, <1>3 DEF ReceiveRequest
  <2>2. UNCHANGED <<tasks, settled>>
    BY <1>1, <1>3 DEF ReceiveRequest
  <2> DEFINE m == [body |-> h, ack |-> ack, key |-> key]
  <2>3. m \in Message /\ m.body \notin Commands /\ queue' = Append(queue, m)
    BY <1>1, <2>1, LinkConstants DEF Message, Bodies
  <2> HIDE DEF m
  <2>4. Once' /\ \A d \in Commands : Held(d)' <=> Held(d)
    BY <2>2, <2>3, QueuedOnce
  <2> QED
    BY <2>2, <2>4
<1> QED
  BY <1>2, <1>3

(* Each step of the gateway and its hubs is one of the channel, or none.    *)
LEMMA StepChannel ==
  ASSUME OneEach, Types, Issued, Once, Accounted, [Next]_vars
  PROVE  Once' /\ [Channel!Next]_<<[c \in Commands |-> Progress(c)], executed, crashes>>
<1> USE DEF gateway, history
<1> DEFINE Same == UNCHANGED <<[c \in Commands |-> Progress(c)], executed, crashes>>
<1>0. executed \subseteq issued /\ settled \subseteq issued /\ issued \subseteq Commands
      /\ Issued' /\ Accounted'
  BY StepIssued, StepAccounted DEF Issued, Types
<1>1. ASSUME \A d \in Commands : Held(d)' <=> Held(d), UNCHANGED <<issued, settled, executed, crashes>>
      PROVE  Same
  BY <1>1 DEF Progress
<1>2. ASSUME NEW c \in Commands, SensorAction(c) PROVE Once' /\ Channel!Next
  <2>1. /\ Once' /\ Progress(c) = "new"
        /\ \A d \in Commands : Progress(d)' = IF d = c THEN "pending" ELSE Progress(d)
    BY <1>2, SensorActionOnce
  <2>2. UNCHANGED <<executed, crashes>>
    BY <1>2 DEF SensorAction
  <2>3. Channel!Take(c)
    BY <2>1, <2>2 DEF Channel!Take
  <2> QED
    BY <2>1, <2>3 DEF Channel!Next
<1>3. ASSUME NEW heard \in BOOLEAN, Transmit(heard) PROVE Once' /\ Same
  <2>1. UNCHANGED <<issued, settled, executed, crashes>>
    BY <1>3 DEF Transmit
  <2> QED
    BY <1>1, <1>3, <2>1, TransmitOnce
<1>4. ASSUME Resend PROVE Once' /\ Same
  <2>1. UNCHANGED <<issued, settled, executed, crashes>>
    BY <1>4 DEF Resend
  <2> QED
    BY <1>1, <1>4, <2>1, ResendOnceEach
<1>5. ASSUME GatewayReceive PROVE Once' /\ (Same \/ Channel!Next)
  <2>1. UNCHANGED <<issued, executed, crashes>>
    BY <1>5 DEF GatewayReceive
  <2>2. UNCHANGED settled /\ (\A d \in Commands : Held(d)' <=> Held(d)) => Same
    BY <1>1, <2>1
  <2>3. ASSUME NEW c \in Commands, Held(c), c \notin settled, settled' = settled \cup {c},
               \A d \in Commands : Held(d)' <=> Held(d) /\ d # c
        PROVE  Channel!Settle(c)
    <3>1. c \in executed
      BY <1>0, <2>1, <2>3 DEF Accounted
    <3>2. Progress(c) = "pending"
      BY <2>3, HeldIssued DEF Progress
    <3>3. \A d \in Commands : Progress(d)' = IF d = c THEN "settled" ELSE Progress(d)
      BY <2>1, <2>3, HeldIssued DEF Progress
    <3> QED
      BY <2>1, <3>1, <3>2, <3>3 DEF Channel!Settle
  <2> QED
    BY <1>5, <2>2, <2>3, GatewayReceiveOnce DEF Channel!Next
<1>6. ASSUME Crash PROVE Once' /\ Channel!Next
  <2>1. /\ queue' = << >> /\ tasks' = << >> /\ crashes' = crashes + 1
        /\ UNCHANGED <<issued, settled, executed>>
    BY <1>6 DEF Crash
  <2>2. \A d \in Commands : ~ Held(d)'
    BY <2>1 DEF Held
  <2>3. Once'
    BY <2>1, <2>2 DEF Once
  <2>4. \A d \in Commands : Held(d) => d \notin settled
    BY DEF Once
  <2>5. \A d \in Commands : Progress(d)' = IF Progress(d) = "pending" THEN "lost" ELSE Progress(d)
    BY <2>1, <2>2, <2>4 DEF Progress
  <2>6. Channel!Die
    BY <2>1, <2>5 DEF Channel!Die
  <2> QED
    BY <2>3, <2>6 DEF Channel!Next
<1>7. ASSUME UNCHANGED <<queue, tasks, issued, settled, crashes>>
      PROVE  Once' /\ [c \in Commands |-> Progress(c)]' = [c \in Commands |-> Progress(c)]
  <2>1. \A d \in Commands : Held(d)' <=> Held(d)
    BY <1>7 DEF Held
  <2> QED
    BY <1>7, <2>1 DEF Once, Waits, Tracks, Progress
<1>8. ASSUME NEW h \in Hubs, NEW waited \in BOOLEAN, HubListen(h, waited)
      PROVE  Once' /\ (Same \/ Channel!Next)
  <2>1. UNCHANGED <<queue, tasks, issued, settled, crashes>>
    BY <1>8 DEF HubListen
  <2>2. CASE executed' = executed
    BY <1>7, <2>1, <2>2
  <2>3. ASSUME NEW c, executed' = executed \cup ({c} \cap Commands), executed' # executed
        PROVE  Channel!CarryOut(c) /\ c \in Commands
    <3>1. c \in Commands /\ executed' = executed \cup {c}
      BY <2>3
    <3>2. c \in issued
      BY <1>0, <2>1, <3>1 DEF Issued
    <3>3. [d \in Commands |-> Progress(d)][c] # "new"
      BY <3>1, <3>2 DEF Progress
    <3> QED
      BY <1>7, <2>1, <3>1, <3>3 DEF Channel!CarryOut
  <2> QED
    BY <1>7, <1>8, <2>1, <2>2, <2>3, HubListenStep DEF Channel!Next
<1>9. ASSUME NEW h \in Hubs, Reset(h) \/ \E heard \in Hearings : HubLoop(h, heard)
      PROVE  Once' /\ Same
  <2>1. UNCHANGED <<queue, tasks, issued, settled, executed, crashes>>
    BY <1>9 DEF Reset, HubLoop
  <2> QED
    BY <1>7, <2>1
<1>10. CASE UNCHANGED vars
  BY <1>7, <1>10 DEF vars
<1> QED
  BY <1>2, <1>3, <1>4, <1>5, <1>6, <1>8, <1>9, <1>10 DEF Next

(* With one request for each relay, the gateway, the radio and the hubs     *)
(* together are a channel of requests: each is pending until its hub has    *)
(* carried it out and the gateway knows, whatever is lost, sent again,      *)
(* answered late or switched off, and only the daemon's death loses any.    *)
THEOREM ImplementsChannel ==
  ASSUME \A c, d \in Commands : SensorOf(c) = SensorOf(d) => c = d
  PROVE  Spec => ChannelSpec
<1>1. Init => /\ Types /\ Issued /\ Once /\ Accounted /\ Channel!Init
  <2>1. Init => Issued /\ Once /\ Accounted
    BY DEF Init, Issued, Once, Waits, Tracks, Held, Accounted, Boot
  <2>2. Init => Channel!Init
    BY DEF Init, Channel!Init, Progress
  <2> QED
    BY <2>1, <2>2, InitLink
<1>2. OneEach
  BY DEF OneEach
<1>3. Types /\ Issued /\ Once /\ Accounted /\ [Next]_vars
        => Types' /\ Issued' /\ Once' /\ Accounted'
  BY <1>2, StepLink, StepIssued, StepAccounted, StepChannel
<1>4. Types /\ Issued /\ Once /\ Accounted /\ [Next]_vars
        => [Channel!Next]_<<[c \in Commands |-> Progress(c)], executed, crashes>>
  BY <1>2, StepChannel
<1> QED
  BY <1>1, <1>3, <1>4, PTL DEF Spec, ChannelSpec, Channel!Spec

================================================================================
