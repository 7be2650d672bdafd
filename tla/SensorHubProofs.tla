---------------------------- MODULE SensorHubProofs ----------------------------
(***************************************************************************)
(* A hub's invariants, for every number of relays and gateways and every    *)
(* choice of the intervals: proved operator by operator of HubLogic.        *)
(***************************************************************************)
EXTENDS SensorHub, SequenceTheorems, FiniteSetTheorems, WellFoundedInduction, TLAPS

(* The hub's share of TypeOK, with the fact Addressed rests on: a connected *)
(* hub has a gateway's address.                                             *)
Fit(h) ==
  /\ h \in HubType /\ \A t \in Timers : h.age[t] <= Interval(t)
  /\ h.state = "CONNECTED" => h.server \in Gateways

(* Packets for a gateway, with levels for some of the ports.                *)
Payloads == UNION {[P -> Levels] : P \in SUBSET Ports}
ToGateway == [type : {"data", "ack"}, target : Gateways, values : Payloads]

LEMMA IntervalsPositive == \A t \in Timers : Interval(t) \in Nat \ {0}
BY HubConstants DEF Timers, Interval

LEMMA BootFit == Fit(Boot)
BY IntervalsPositive DEF Fit, Boot, HubType, AllLow, Levels

LEMMA ElapseFit ==
  ASSUME NEW h, Fit(h)
  PROVE  Fit(Elapse(h)) /\ Elapse(h).pin = h.pin
BY IntervalsPositive DEF Fit, Elapse, HubType

(* A timer is restarted.                                                    *)
LEMMA RestartFit ==
  ASSUME NEW h, Fit(h), NEW t \in Timers
  PROVE  Fit([h EXCEPT !.age[t] = 0])
BY IntervalsPositive DEF Fit, HubType

LEMMA HandleFit ==
  ASSUME NEW h, Fit(h), NEW p \in Packets
  PROVE  Fit(Handle(h, p))
<1>1. CASE p.type = "addr"
  <2>1. p.addr \in Gateways
    BY <1>1 DEF Packets
  <2>2. Fit(Elapse(h))
    BY ElapseFit
  <2>3. Fit(Connect(h, p.addr))
    <3> DEFINE e == Elapse(h)
               f == [e EXCEPT !.server = p.addr, !.state = "CONNECTED"]
    <3>1. Connect(h, p.addr) = [f EXCEPT !.age["rediscover"] = 0]
      BY DEF Connect
    <3> HIDE DEF e
    <3>2. Fit(f)
      BY <2>1, <2>2 DEF e, Fit, HubType
    <3>3. "rediscover" \in Timers
      BY DEF Timers
    <3> HIDE DEF f
    <3> QED
      BY <3>1, <3>2, <3>3, RestartFit
  <2> QED
    BY <1>1, <2>3 DEF Handle
<1>2. CASE p.type = "chk"
  BY <1>2, RestartFit DEF Handle, Timers
<1>3. CASE p.type = "cmd"
  <2>1. p.port \in Ports
    BY <1>3 DEF Packets
  <2>2. Fit(Relay(h, p.port, p.data))
    BY <2>1 DEF Relay, Fit, HubType, Levels
  <2> QED
    BY <1>3, <2>2 DEF Handle
<1> QED
  BY <1>1, <1>2, <1>3 DEF Packets

-----------------------------------------------------------------------------
(* The parts of a turn.                                                     *)
LEMMA ChecksumBit == ASSUME NEW v, NPorts \in Nat PROVE Checksum(v) \in Levels
<1>1. Cardinality({p \in Ports : v[p] = 1}) \in Nat
  <2>1. IsFiniteSet(Ports)
    BY FS_Interval DEF Ports
  <2>2. IsFiniteSet({p \in Ports : v[p] = 1})
    BY <2>1, FS_Subset
  <2> QED
    BY <2>2, FS_CardinalityType
<1> QED
  BY <1>1 DEF Checksum, Levels

LEMMA RediscoverFit ==
  ASSUME NEW h, Fit(h)
  PROVE  Fit(Rediscover(h)) /\ Rediscover(h).pin = h.pin
<1>1. Fit([h EXCEPT !.state = "DISCOVERY"])
  BY DEF Fit, HubType
<1>2. "rediscover" \in Timers
  BY DEF Timers
<1>3. Fit([h EXCEPT !.state = "DISCOVERY", !.age["rediscover"] = 0])
  BY <1>1, <1>2, RestartFit
<1> QED
  BY <1>3 DEF Rediscover, Fit, HubType

(* A calling hub sends one request, on the broadcast address.               *)
LEMMA DiscoverFit ==
  ASSUME NEW h, Fit(h), h.state = "DISCOVERY"
  PROVE  /\ Fit(Discover(h)[1]) /\ Discover(h)[1].pin = h.pin
         /\ Discover(h)[1].state = "DISCOVERY"
         /\ \/ Discover(h)[2] = << >>
            \/ Discover(h)[2] = <<[type |-> "req", target |-> Broadcast]>>
<1>1. Fit([h EXCEPT !.server = Broadcast])
  BY DEF Fit, HubType
<1>2. "discover" \in Timers
  BY DEF Timers
<1> DEFINE calling == [h EXCEPT !.server = Broadcast, !.age["discover"] = 0]
<1>3. Fit(calling)
  BY <1>1, <1>2, RestartFit
<1>4. Request(calling) = [type |-> "req", target |-> Broadcast] /\ calling.pin = h.pin
      /\ calling.state = h.state
  BY DEF Request, Fit, HubType
<1>5. Discover(h) = IF Due(h, "discover") THEN <<calling, <<Request(calling)>>>> ELSE <<h, << >>>>
  BY DEF Discover
<1> HIDE DEF calling
<1> QED
  BY <1>3, <1>4, <1>5

LEMMA ReadFit ==
  ASSUME NEW h, Fit(h)
  PROVE  /\ Fit(ReadSensors(h))
         /\ ReadSensors(h).pin = h.pin /\ ReadSensors(h).state = h.state
<1> DEFINE read == [h EXCEPT !.value = h.pin, !.xor = Checksum(h.pin)]
<1>1. Fit(read) /\ read.pin = h.pin /\ read.state = h.state /\ h.age = read.age
  <2>1. Checksum(h.pin) \in Levels
    BY HubConstants, ChecksumBit
  <2> QED
    BY <2>1 DEF Fit, HubType
<1>2. "read" \in Timers
  BY DEF Timers
<1>3. [h EXCEPT !.value = h.pin, !.xor = Checksum(h.pin), !.age["read"] = 0]
        = [read EXCEPT !.age["read"] = 0]
  OBVIOUS
<1> HIDE DEF read
<1>4. [read EXCEPT !.age["read"] = 0].pin = h.pin /\ [read EXCEPT !.age["read"] = 0].state = h.state
  BY <1>1 DEF Fit, HubType
<1> QED
  BY <1>1, <1>2, <1>3, <1>4, RestartFit DEF ReadSensors

LEMMA KeepaliveFit ==
  ASSUME NEW h, Fit(h)
  PROVE  Fit(Keepalive(h)) /\ Keepalive(h).pin = h.pin /\ Keepalive(h).state = h.state
<1>1. "keepalive" \in Timers
  BY DEF Timers
<1> QED
  BY <1>1, RestartFit DEF Keepalive, Fit, HubType

(* The data packets of a connected hub go to its gateway.                   *)
LEMMA DataAddressed ==
  ASSUME NEW h, Fit(h), h.state = "CONNECTED"
  PROVE  Data(h) \in Seq(ToGateway)
<1> DEFINE n == ((NPorts - 1) \div PerPacket) + 1
           chunk(i) == {p \in Ports : (p - 1) \div PerPacket = i - 1}
           packet(i) == [type |-> "data", target |-> h.server,
                         values |-> [p \in chunk(i) |-> h.value[p]]]
<1>1. n \in Nat
  BY HubConstants
<1>2. \A i \in 1..n : packet(i) \in ToGateway
  <2> SUFFICES ASSUME NEW i \in 1..n
               PROVE  packet(i) \in ToGateway
    OBVIOUS
  <2>1. chunk(i) \in SUBSET Ports
    OBVIOUS
  <2> HIDE DEF chunk
  <2>2. [p \in chunk(i) |-> h.value[p]] \in [chunk(i) -> Levels]
    BY <2>1 DEF Fit, HubType
  <2>3. h.server \in Gateways
    BY DEF Fit
  <2> QED
    BY <2>1, <2>2, <2>3 DEF ToGateway, Payloads
<1>3. Data(h) = [i \in 1..n |-> packet(i)]
  BY DEF Data
<1> HIDE DEF n, packet
<1> QED
  BY <1>1, <1>2, <1>3, IsASeq

(* An acknowledgement goes to the gateway and tells the relay's level.      *)
LEMMA AnswerFit ==
  ASSUME NEW h, Fit(h), h.state = "CONNECTED"
  PROVE  /\ Fit(Answer(h)[1]) /\ Answer(h)[1].pin = h.pin
         /\ Answer(h)[2] \in Seq(ToGateway)
         /\ \A i \in DOMAIN Answer(h)[2] : \A p \in DOMAIN Answer(h)[2][i].values :
              Answer(h)[2][i].values[p] = h.pin[p]
<1>1. CASE h.ackPort = None
  BY <1>1 DEF Answer
<1>2. CASE h.ackPort # None
  <2> DEFINE p    == h.ackPort
             read == [h EXCEPT !.value[p] = h.pin[p], !.ackPort = None]
  <2>1. p \in Ports
    BY <1>2 DEF Fit, HubType
  <2>2. Fit(read) /\ read.pin = h.pin /\ read.value[p] = h.pin[p] /\ read.server = h.server
    BY <2>1 DEF Fit, HubType
  <2>3. Answer(h) = <<read, <<Ack(read, p)>>>>
    BY <1>2 DEF Answer
  <2> HIDE DEF read
  <2>4. Ack(read, p) = [type |-> "ack", target |-> h.server, values |-> [q \in {p} |-> h.pin[q]]]
    BY <2>2 DEF Ack
  <2>5. h.server \in Gateways /\ h.pin \in [Ports -> Levels]
    BY DEF Fit, HubType
  <2>6. [q \in {p} |-> h.pin[q]] \in [{p} -> Levels] /\ {p} \in SUBSET Ports
    BY <2>1, <2>5
  <2>7. Ack(read, p) \in ToGateway
    BY <2>4, <2>5, <2>6 DEF ToGateway, Payloads
  <2>8. \A q \in DOMAIN Ack(read, p).values : Ack(read, p).values[q] = h.pin[q]
    BY <2>4
  <2> QED
    BY <2>2, <2>3, <2>7, <2>8
<1> QED
  BY <1>1, <1>2

(* A turn of a connected hub: the data packets, then an acknowledgement.    *)
LEMMA ServeFit ==
  ASSUME NEW h, Fit(h), h.state = "CONNECTED"
  PROVE  /\ Fit(Serve(h)[1]) /\ Serve(h)[1].pin = h.pin
         /\ Serve(h)[2] \in Seq(ToGateway)
         /\ \A i \in DOMAIN Serve(h)[2] : Serve(h)[2][i].type = "ack" =>
              \A p \in DOMAIN Serve(h)[2][i].values : Serve(h)[2][i].values[p] = h.pin[p]
<1> DEFINE now    == ReadSensors(h)
           kept   == Keepalive(now)
           answer == Answer(kept)
           told   == Report(h, now)
<1>1. Fit(now) /\ now.pin = h.pin /\ now.state = "CONNECTED"
  BY ReadFit
<1> HIDE DEF now
<1>2. Fit(kept) /\ kept.pin = h.pin /\ kept.state = "CONNECTED"
  BY <1>1, KeepaliveFit
<1> HIDE DEF kept
<1>3. /\ Fit(answer[1]) /\ answer[1].pin = h.pin /\ answer[2] \in Seq(ToGateway)
      /\ \A i \in DOMAIN answer[2] : \A p \in DOMAIN answer[2][i].values :
           answer[2][i].values[p] = h.pin[p]
  BY <1>2, AnswerFit
<1> HIDE DEF answer
<1>4. told \in Seq(ToGateway) /\ \A i \in DOMAIN told : told[i].type = "data"
  <2>1. Data(now) \in Seq(ToGateway) /\ \A i \in DOMAIN Data(now) : Data(now)[i].type = "data"
    BY <1>1, DataAddressed DEF Data
  <2> DEFINE a == IF Due(now, "keepalive") THEN Data(now) ELSE << >>
             b == IF now.xor # h.xor THEN Data(now) ELSE << >>
  <2>2. a \in Seq(ToGateway) /\ \A i \in DOMAIN a : a[i].type = "data"
    BY <2>1
  <2>3. b \in Seq(ToGateway) /\ \A i \in DOMAIN b : b[i].type = "data"
    BY <2>1
  <2>4. told = a \o b
    BY DEF Report
  <2> HIDE DEF a, b, told
  <2> QED
    BY <2>2, <2>3, <2>4, ConcatProperties, LenProperties
<1> HIDE DEF told
<1>5. Serve(h) = <<answer[1], told \o answer[2]>>
  BY DEF Serve, now, kept, answer, told
<1>6. ASSUME NEW i \in DOMAIN (told \o answer[2]), (told \o answer[2])[i].type = "ack"
      PROVE  \A p \in DOMAIN (told \o answer[2])[i].values :
               (told \o answer[2])[i].values[p] = h.pin[p]
  <2>1. /\ Len(told) \in Nat /\ Len(answer[2]) \in Nat
        /\ DOMAIN told = 1..Len(told) /\ DOMAIN answer[2] = 1..Len(answer[2])
        /\ i \in 1..(Len(told) + Len(answer[2]))
        /\ (told \o answer[2])[i] = IF i <= Len(told) THEN told[i] ELSE answer[2][i - Len(told)]
    BY <1>3, <1>4, ConcatProperties, LenProperties
  <2>2. ~ (i <= Len(told))
    BY <1>4, <1>6, <2>1
  <2>3. i - Len(told) \in DOMAIN answer[2] /\ (told \o answer[2])[i] = answer[2][i - Len(told)]
    BY <2>1, <2>2
  <2> QED
    BY <1>3, <2>3
<1> QED
  BY <1>3, <1>4, <1>5, <1>6, ConcatProperties

(* What a turn leaves of the hub and puts on the air.                       *)
LEMMA TurnFit ==
  ASSUME NEW h, Fit(h)
  PROVE  /\ Fit(Turn(h)[1]) /\ Turn(h)[1].pin = h.pin
         /\ \/ Turn(h)[2] = << >>
            \/ Turn(h)[2] = <<[type |-> "req", target |-> Broadcast]>>
            \/ Turn(h)[2] \in Seq(ToGateway)
         /\ \A i \in DOMAIN Turn(h)[2] : Turn(h)[2][i].type = "ack" =>
              \A p \in DOMAIN Turn(h)[2][i].values : Turn(h)[2][i].values[p] = h.pin[p]
<1> DEFINE now == Rediscover(h)
<1>1. Fit(now) /\ now.pin = h.pin
  BY RediscoverFit
<1>2. Turn(h) = IF now.state = "DISCOVERY" THEN Discover(now) ELSE Serve(now)
  BY DEF Turn
<1>3. now.state \in {"DISCOVERY", "CONNECTED"}
  BY <1>1 DEF Fit, HubType
<1> HIDE DEF now
<1>4. CASE now.state = "DISCOVERY"
  <2>1. /\ Fit(Discover(now)[1]) /\ Discover(now)[1].pin = now.pin
        /\ \/ Discover(now)[2] = << >>
           \/ Discover(now)[2] = <<[type |-> "req", target |-> Broadcast]>>
    BY <1>1, <1>4, DiscoverFit
  <2>2. \A i \in DOMAIN Discover(now)[2] : Discover(now)[2][i].type # "ack"
    BY <2>1
  <2> QED
    BY <1>1, <1>2, <1>4, <2>1, <2>2
<1>5. CASE now.state = "CONNECTED"
  BY <1>1, <1>2, <1>5, ServeFit
<1> QED
  BY <1>3, <1>4, <1>5

(* The hub is fit, and what it has just sent is addressed to those it is    *)
(* meant for and tells the relays' levels.                                  *)
HubInv ==
  /\ Fit(hub)
  /\ Addressed
  /\ AnswersCurrent

LEMMA HubInvKept == HubInv /\ [Next]_vars => HubInv'
<1> SUFFICES ASSUME HubInv, [Next]_vars
             PROVE  HubInv'
  OBVIOUS
<1>1. ASSUME NEW p \in Packets \cup {None}, NEW waited \in BOOLEAN, Listen(p, waited)
      PROVE  HubInv'
  <2> DEFINE now == IF waited THEN Elapse(hub) ELSE hub
  <2>1. Fit(now)
    BY ElapseFit DEF HubInv
  <2> HIDE DEF now
  <2>2. hub' = (IF p = None THEN now ELSE Handle(now, p)) /\ sent' = << >>
    BY <1>1 DEF Listen, now
  <2>3. Fit(hub')
    BY <2>1, <2>2, HandleFit
  <2> QED
    BY <2>2, <2>3 DEF HubInv, Addressed, AnswersCurrent, Fit
<1>2. CASE Loop
  <2>1. /\ Fit(hub') /\ hub'.pin = hub.pin
        /\ \/ sent' = << >>
           \/ sent' = <<[type |-> "req", target |-> Broadcast]>>
           \/ sent' \in Seq(ToGateway)
        /\ \A i \in DOMAIN sent' : sent'[i].type = "ack" =>
             \A p \in DOMAIN sent'[i].values : sent'[i].values[p] = hub.pin[p]
    BY <1>2, TurnFit DEF Loop, HubInv
  <2>2. Addressed'
    <3>1. CASE sent' \in Seq(ToGateway)
      <4>1. \A i \in DOMAIN sent' : sent'[i] \in ToGateway
        BY <3>1
      <4> QED
        BY <4>1 DEF Addressed, ToGateway
    <3> QED
      BY <2>1, <3>1 DEF Addressed
  <2>3. AnswersCurrent'
    BY <2>1 DEF AnswersCurrent
  <2> QED
    BY <2>1, <2>2, <2>3 DEF HubInv, Fit
<1>3. CASE UNCHANGED vars
  BY <1>3 DEF vars, HubInv, Fit, Addressed, AnswersCurrent
<1> QED
  BY <1>1, <1>2, <1>3 DEF Next

LEMMA HubInvHolds == Spec => []HubInv
<1>1. Init => HubInv
  BY BootFit DEF Init, HubInv, Addressed, AnswersCurrent
<1> QED
  BY <1>1, HubInvKept, PTL DEF Spec

(* Data and acknowledgements always go to a gateway, requests always to the *)
(* broadcast address, through any sequence of registrations, timeouts and   *)
(* rediscoveries.                                                           *)
THEOREM AlwaysAddressed == Spec => []Addressed
<1>1. HubInv => Addressed
  BY DEF HubInv
<1> QED
  BY <1>1, HubInvHolds, PTL

(* An acknowledgement tells the level of the relay, however long the hub    *)
(* was without a gateway between the command and the answer.                *)
THEOREM AlwaysCurrent == Spec => []AnswersCurrent
<1>1. HubInv => AnswersCurrent
  BY DEF HubInv
<1> QED
  BY <1>1, HubInvHolds, PTL

-----------------------------------------------------------------------------
(* A non-empty set of indices has a greatest one.                           *)
LEMMA GreatestIndex ==
  ASSUME NEW n \in Nat, NEW S \in SUBSET (1..n), S # {}
  PROVE  \E m \in S : \A i \in S : i <= m
<1> DEFINE R == OpToRel(<, Nat)
           B == {n - i : i \in S}
<1>1. \A x, y \in Nat : <<y, x>> \in R <=> y < x
  BY SMT DEF OpToRel
<1>2. IsWellFoundedOn(R, Nat)
  BY NatLessThanWellFounded
<1>3. B \subseteq Nat /\ B # {}
  <2>1. \A i \in S : n - i \in Nat
    OBVIOUS
  <2>2. PICK i \in S : TRUE
    OBVIOUS
  <2> QED
    BY <2>1, <2>2, Zenon
<1> HIDE DEF R, B
<1>4. PICK x \in B : \A y \in B : ~ (<<y, x>> \in R)
  BY <1>2, <1>3, WFMin, Zenon
<1>5. \A y \in B : ~ (y < x)
  BY <1>1, <1>3, <1>4
<1>6. PICK m \in S : x = n - m
  BY DEF B
<1>7. \A i \in S : n - i \in B
  BY DEF B
<1> QED
  BY <1>5, <1>6, <1>7

(* What a gateway is told of a port is a level.                             *)
LEMMA ToldTyped ==
  ASSUME NEW known \in [Ports -> Levels \cup {None}], NEW packets \in Seq(ToGateway)
  PROVE  Told(known, packets) \in [Ports -> Levels \cup {None}]
<1> SUFFICES ASSUME NEW p \in Ports
             PROVE  Told(known, packets)[p] \in Levels \cup {None}
  BY DEF Told
<1> DEFINE S == {i \in DOMAIN packets : Tells(packets[i], p)}
           last(m) == m \in DOMAIN packets /\ Tells(packets[m], p)
                      /\ \A j \in DOMAIN packets : Tells(packets[j], p) => j <= m
<1>1. CASE S = {}
  BY <1>1 DEF Told
<1>2. CASE S # {}
  <2>1. Len(packets) \in Nat /\ S \in SUBSET (1..Len(packets))
    BY LenProperties
  <2>2. \E m \in S : \A i \in S : i <= m
    BY <1>2, <2>1, GreatestIndex
  <2>3. \E m \in DOMAIN packets : last(m)
    BY <2>2
  <2> DEFINE k == CHOOSE m \in DOMAIN packets :
                    Tells(packets[m], p) /\ \A j \in DOMAIN packets : Tells(packets[j], p) => j <= m
  <2>4. k \in DOMAIN packets /\ Tells(packets[k], p)
    BY <2>3
  <2>5. Told(known, packets)[p] = packets[k].values[p]
    BY <1>2 DEF Told
  <2> HIDE DEF k
  <2>6. packets[k] \in ToGateway
    BY <2>4
  <2>7. packets[k].values[p] \in Levels
    BY <2>4, <2>6 DEF Tells, ToGateway, Payloads
  <2> QED
    BY <2>5, <2>7
<1> QED
  BY <1>1, <1>2

(* A request tells nothing.                                                 *)
LEMMA RequestTellsNothing ==
  ASSUME NEW known \in [Ports -> Levels \cup {None}], NEW packets,
         packets = << >> \/ packets = <<[type |-> "req", target |-> Broadcast]>>
  PROVE  Told(known, packets) \in [Ports -> Levels \cup {None}]
<1>1. \A i \in DOMAIN packets : \A p : ~ Tells(packets[i], p)
  BY DEF Tells
<1> QED
  BY <1>1 DEF Told

(* The state of the hub and its histories are always well typed.            *)
THEOREM HubTypeCorrect == Spec => []TypeOK
<1>1. Init => TypeOK
  BY BootFit DEF Init, TypeOK, Fit
<1>2. TypeOK /\ HubInv /\ HubInv' /\ [Next]_vars => TypeOK'
  <2> SUFFICES ASSUME TypeOK, HubInv, HubInv', [Next]_vars
               PROVE  TypeOK'
    OBVIOUS
  <2>1. ASSUME NEW p \in Packets \cup {None}, NEW waited \in BOOLEAN, Listen(p, waited)
        PROVE  TypeOK'
    <3>1. stale' \in Nat
      BY <2>1 DEF Listen, TypeOK, Seconds
    <3> QED
      BY <2>1, <3>1 DEF Listen, TypeOK, HubInv, Fit
  <2>2. CASE Loop
    <3>1. reported' = Told(reported, sent') /\ reported \in [Ports -> Levels \cup {None}]
      BY <2>2 DEF Loop, TypeOK
    <3>2. \/ sent' = << >>
          \/ sent' = <<[type |-> "req", target |-> Broadcast]>>
          \/ sent' \in Seq(ToGateway)
      BY <2>2, TurnFit DEF Loop, HubInv
    <3>3. reported' \in [Ports -> Levels \cup {None}]
      BY <3>1, <3>2, ToldTyped, RequestTellsNothing
    <3>4. stale' \in Nat /\ phase' = "listen"
      BY <2>2 DEF Loop, TypeOK
    <3> QED
      BY <3>3, <3>4 DEF TypeOK, HubInv, Fit
  <2>3. CASE UNCHANGED vars
    BY <2>3 DEF vars, TypeOK
  <2> QED
    BY <2>1, <2>2, <2>3 DEF Next
<1> QED
  BY <1>1, <1>2, HubInvHolds, PTL DEF Spec

-----------------------------------------------------------------------------
(* What a gateway is told in a turn.  The last packet that tells of a port  *)
(* counts; if those from some packet on agree, they tell what it knows.     *)
LEMMA LastTold ==
  ASSUME NEW known, NEW packets \in Seq(ToGateway), NEW p \in Ports,
         NEW k \in DOMAIN packets, Tells(packets[k], p),
         \A j \in DOMAIN packets :
           Tells(packets[j], p) /\ k <= j => packets[j].values[p] = packets[k].values[p]
  PROVE  Told(known, packets)[p] = packets[k].values[p]
<1> DEFINE S == {j \in DOMAIN packets : Tells(packets[j], p)}
           m == CHOOSE i \in DOMAIN packets :
                  Tells(packets[i], p) /\ \A j \in DOMAIN packets : Tells(packets[j], p) => j <= i
<1>1. Len(packets) \in Nat /\ DOMAIN packets = 1..Len(packets) /\ S \in SUBSET (1..Len(packets)) /\ k \in S
  BY LenProperties
<1>2. \E i \in S : \A j \in S : j <= i
  <2> HIDE DEF S
  <2> QED
    BY <1>1, GreatestIndex
<1>3. m \in DOMAIN packets /\ Tells(packets[m], p) /\ \A j \in DOMAIN packets : Tells(packets[j], p) => j <= m
  BY <1>2
<1>4. Told(known, packets)[p] = packets[m].values[p]
  BY DEF Told
<1> HIDE DEF m
<1> QED
  BY <1>3, <1>4

LEMMA NotTold ==
  ASSUME NEW known, NEW packets, NEW p \in Ports, \A j \in DOMAIN packets : ~ Tells(packets[j], p)
  PROVE  Told(known, packets)[p] = known[p]
BY DEF Told

(* Every port has its place in a packet.                                    *)
LEMMA ChunkOf ==
  ASSUME NEW p \in Ports
  PROVE  (p - 1) \div PerPacket \in 0..((NPorts - 1) \div PerPacket)
<1>1. p - 1 \in Nat /\ NPorts - 1 \in Nat /\ p - 1 <= NPorts - 1 /\ PerPacket \in Nat \ {0}
  BY HubConstants DEF Ports
<1> QED
  BY <1>1, SMTT(30)

(* A report tells of every port the level last read.                        *)
LEMMA DataTells ==
  ASSUME NEW h
  PROVE  /\ \A i \in DOMAIN Data(h) : \A p : Tells(Data(h)[i], p) =>
              p \in Ports /\ Data(h)[i].values[p] = h.value[p]
         /\ \A p \in Ports : \E i \in DOMAIN Data(h) : Tells(Data(h)[i], p)
<1> DEFINE n == ((NPorts - 1) \div PerPacket) + 1
           chunk(i) == {p \in Ports : (p - 1) \div PerPacket = i - 1}
           packet(i) == [type |-> "data", target |-> h.server,
                         values |-> [p \in chunk(i) |-> h.value[p]]]
<1>1. Data(h) = [i \in 1..n |-> packet(i)]
  BY DEF Data
<1>2. \A i \in 1..n : \A p : Tells(packet(i), p) <=> p \in chunk(i)
  BY DEF Tells
<1>3. \A i \in 1..n : \A p \in chunk(i) : packet(i).values[p] = h.value[p]
  OBVIOUS
<1>4. \A p \in Ports : \E i \in 1..n : p \in chunk(i)
  <2> SUFFICES ASSUME NEW p \in Ports PROVE \E i \in 1..n : p \in chunk(i)
    OBVIOUS
  <2> DEFINE q == (p - 1) \div PerPacket
             l == (NPorts - 1) \div PerPacket
  <2>1. q \in 0..l /\ l \in Nat
    BY ChunkOf, HubConstants
  <2>2. n = l + 1 /\ (p \in chunk(q + 1) <=> q = (q + 1) - 1)
    OBVIOUS
  <2> HIDE DEF q, l, n, chunk
  <2> QED
    BY <2>1, <2>2
<1>5. \A i : \A p \in chunk(i) : p \in Ports
  OBVIOUS
<1> HIDE DEF n, chunk, packet
<1> QED
  BY <1>1, <1>2, <1>3, <1>4, <1>5

(* The turn of a connected hub whose copy of the levels is right, or is     *)
(* about to be read, but for the relay whose answer is pending: each level  *)
(* it tells is right; it tells that of the answer, and all if it is time.   *)
LEMMA ServeTells ==
  ASSUME NEW h, Fit(h), h.state = "CONNECTED", NEW known,
         Due(h, "read") \/ \A p \in Ports : p # h.ackPort => h.value[p] = h.pin[p]
  PROVE  /\ \A p \in Ports : Told(known, Serve(h)[2])[p] \in {h.pin[p], known[p]}
         /\ h.ackPort # None => Told(known, Serve(h)[2])[h.ackPort] = h.pin[h.ackPort]
         /\ Due(h, "keepalive") => \A p \in Ports : Told(known, Serve(h)[2])[p] = h.pin[p]
         /\ Serve(h)[1].value = h.pin /\ Serve(h)[1].ackPort = None
         /\ Serve(h)[1].pin = h.pin /\ Serve(h)[1].state = "CONNECTED"
         /\ ~ Due(h, "keepalive") => Serve(h)[1].age["keepalive"] = h.age["keepalive"]
<1> DEFINE now    == ReadSensors(h)
           kept   == Keepalive(now)
           answer == Answer(kept)
           told   == Report(h, now)
           s      == told \o answer[2]
<1>1. /\ Fit(now) /\ now.pin = h.pin /\ now.ackPort = h.ackPort /\ now.state = "CONNECTED"
      /\ now.age["keepalive"] = h.age["keepalive"]
      /\ \A p \in Ports : p # h.ackPort => now.value[p] = h.pin[p]
  <2>1. Fit(now) /\ now.pin = h.pin /\ now.state = "CONNECTED"
    BY ReadFit
  <2>2. now.ackPort = h.ackPort /\ now.age["keepalive"] = h.age["keepalive"]
    BY DEF ReadSensors, Fit, HubType, Timers
  <2>3. Due(h, "read") => now.value = h.pin
    BY DEF ReadSensors, Fit, HubType
  <2>4. ~ Due(h, "read") => now.value = h.value
    BY DEF ReadSensors
  <2> HIDE DEF now
  <2> QED
    BY <2>1, <2>2, <2>3, <2>4
<1>2. Due(now, "keepalive") <=> Due(h, "keepalive")
  BY <1>1 DEF Due
<1> HIDE DEF now
<1>3. /\ Fit(kept) /\ kept.pin = h.pin /\ kept.state = "CONNECTED" /\ kept.ackPort = h.ackPort
      /\ kept.value = now.value
      /\ ~ Due(h, "keepalive") => kept.age["keepalive"] = h.age["keepalive"]
  BY <1>1, <1>2, KeepaliveFit DEF Keepalive, Fit, HubType
<1> HIDE DEF kept
<1>4. Serve(h) = <<answer[1], s>>
  BY DEF Serve, now, kept, answer, told
<1>5. /\ answer[1].value = h.pin /\ answer[1].ackPort = None
      /\ answer[1].pin = h.pin /\ answer[1].state = "CONNECTED"
      /\ answer[1].age = kept.age
      /\ answer[2] \in Seq(ToGateway)
      /\ h.ackPort = None => answer[2] = << >>
      /\ h.ackPort # None =>
           /\ Len(answer[2]) = 1 /\ answer[2][1].type = "ack"
           /\ DOMAIN answer[2][1].values = {h.ackPort}
           /\ answer[2][1].values[h.ackPort] = h.pin[h.ackPort]
  <2>1. answer[2] \in Seq(ToGateway)
    BY <1>3, AnswerFit
  <2>2. kept.value \in [Ports -> Levels] /\ h.pin \in [Ports -> Levels]
    BY <1>3 DEF Fit, HubType
  <2>3. CASE h.ackPort = None
    <3>1. None \notin Ports
      BY HubConstants DEF Ports
    <3>2. kept.value = h.pin
      <4>1. \A p \in Ports : kept.value[p] = h.pin[p]
        BY <1>1, <1>3, <2>3, <3>1
      <4> QED
        BY <2>2, <4>1
    <3>3. answer = <<kept, << >>>>
      BY <1>3, <2>3 DEF Answer
    <3> HIDE DEF answer
    <3> QED
      BY <1>3, <2>3, <3>2, <3>3, <2>1
  <2>4. CASE h.ackPort # None
    <3> DEFINE p    == h.ackPort
               read == [kept EXCEPT !.value[p] = kept.pin[p], !.ackPort = None]
    <3>1. p \in Ports
      BY <1>3, <2>4 DEF Fit, HubType
    <3>2. /\ read.pin = h.pin /\ read.ackPort = None /\ read.state = "CONNECTED"
          /\ read.age = kept.age /\ read.value = [kept.value EXCEPT ![p] = h.pin[p]]
      BY <1>3 DEF Fit, HubType
    <3>3. read.value = h.pin
      <4>1. read.value \in [Ports -> Levels] /\ \A q \in Ports : read.value[q] = h.pin[q]
        <5> HIDE DEF read
        <5> QED
          BY <1>1, <1>3, <2>2, <3>1, <3>2
      <4> QED
        BY <2>2, <4>1
    <3>4. answer = <<read, <<Ack(read, p)>>>>
      BY <1>3, <2>4 DEF Answer
    <3> HIDE DEF read, answer
    <3>5. /\ Ack(read, p).type = "ack" /\ DOMAIN Ack(read, p).values = {p}
          /\ Ack(read, p).values[p] = h.pin[p]
      BY <3>3 DEF Ack
    <3> QED
      BY <2>1, <2>4, <3>2, <3>3, <3>4, <3>5
  <2> QED
    BY <2>3, <2>4
<1> HIDE DEF answer
<1>6. /\ told \in Seq(ToGateway)
      /\ \A i \in DOMAIN told : \A p : Tells(told[i], p) =>
           p \in Ports /\ told[i].values[p] = now.value[p]
      /\ Due(h, "keepalive") => \A p \in Ports : \E i \in DOMAIN told : Tells(told[i], p)
  <2> DEFINE a == IF Due(now, "keepalive") THEN Data(now) ELSE << >>
             b == IF now.xor # h.xor THEN Data(now) ELSE << >>
  <2>1. /\ Data(now) \in Seq(ToGateway)
        /\ \A i \in DOMAIN Data(now) : \A p : Tells(Data(now)[i], p) =>
             p \in Ports /\ Data(now)[i].values[p] = now.value[p]
        /\ \A p \in Ports : \E i \in DOMAIN Data(now) : Tells(Data(now)[i], p)
    BY <1>1, DataAddressed, DataTells
  <2>2. /\ a \in Seq(ToGateway)
        /\ \A i \in DOMAIN a : \A p : Tells(a[i], p) => p \in Ports /\ a[i].values[p] = now.value[p]
        /\ Due(h, "keepalive") => \A p \in Ports : \E i \in DOMAIN a : Tells(a[i], p)
    BY <1>2, <2>1
  <2>3. /\ b \in Seq(ToGateway)
        /\ \A i \in DOMAIN b : \A p : Tells(b[i], p) => p \in Ports /\ b[i].values[p] = now.value[p]
    BY <2>1
  <2>4. told = a \o b
    BY DEF Report
  <2> HIDE DEF a, b, told
  <2>5. /\ Len(a) \in Nat /\ Len(b) \in Nat /\ DOMAIN a = 1..Len(a) /\ DOMAIN b = 1..Len(b)
        /\ told \in Seq(ToGateway) /\ DOMAIN told = 1..(Len(a) + Len(b))
        /\ \A i \in 1..(Len(a) + Len(b)) : told[i] = IF i <= Len(a) THEN a[i] ELSE b[i - Len(a)]
    BY <2>2, <2>3, <2>4, ConcatProperties, LenProperties
  <2>6. \A i \in DOMAIN told : \/ i \in DOMAIN a /\ told[i] = a[i]
                               \/ i - Len(a) \in DOMAIN b /\ told[i] = b[i - Len(a)]
    BY <2>5
  <2>7. \A i \in DOMAIN a : i \in DOMAIN told /\ told[i] = a[i]
    BY <2>5
  <2>8. ASSUME NEW i \in DOMAIN told, NEW p, Tells(told[i], p)
        PROVE  p \in Ports /\ told[i].values[p] = now.value[p]
    BY <2>2, <2>3, <2>6, <2>8
  <2> QED
    BY <2>2, <2>5, <2>7, <2>8
<1> HIDE DEF told
<1>7. /\ Len(told) \in Nat /\ Len(answer[2]) \in Nat /\ s \in Seq(ToGateway)
      /\ DOMAIN told = 1..Len(told) /\ DOMAIN answer[2] = 1..Len(answer[2])
      /\ DOMAIN s = 1..(Len(told) + Len(answer[2]))
      /\ \A i \in 1..(Len(told) + Len(answer[2])) :
           s[i] = IF i <= Len(told) THEN told[i] ELSE answer[2][i - Len(told)]
  BY <1>5, <1>6, ConcatProperties, LenProperties
<1> HIDE DEF s
<1>8. ASSUME NEW p \in Ports, p = h.ackPort PROVE Told(known, s)[p] = h.pin[p]
  <2>1. h.ackPort # None
    BY <1>8, HubConstants DEF Ports
  <2> DEFINE k == Len(told) + 1
  <2>2. k \in DOMAIN s /\ s[k] = answer[2][1] /\ \A j \in DOMAIN s : k <= j => s[j] = s[k]
    BY <1>5, <1>7, <2>1
  <2>3. Tells(s[k], p) /\ s[k].values[p] = h.pin[p]
    BY <1>5, <1>8, <2>1, <2>2 DEF Tells
  <2>4. /\ s \in Seq(ToGateway) /\ k \in DOMAIN s /\ Tells(s[k], p)
        /\ \A j \in DOMAIN s : Tells(s[j], p) /\ k <= j => s[j].values[p] = s[k].values[p]
    BY <1>7, <2>2, <2>3
  <2> HIDE DEF k
  <2>5. Told(known, s)[p] = s[k].values[p]
    BY <1>8, <2>4, LastTold
  <2> QED
    BY <2>3, <2>5
<1>9. ASSUME NEW p \in Ports, p # h.ackPort, NEW j \in DOMAIN s, Tells(s[j], p)
      PROVE  s[j].values[p] = h.pin[p]
  <2>1. CASE j <= Len(told)
    <3>1. j \in DOMAIN told /\ s[j] = told[j]
      BY <1>7, <2>1
    <3> QED
      BY <1>1, <1>6, <1>9, <3>1
  <2>2. CASE ~ (j <= Len(told))
    <3>1. j - Len(told) \in DOMAIN answer[2] /\ s[j] = answer[2][j - Len(told)]
      BY <1>7, <2>2
    <3>2. h.ackPort # None /\ j - Len(told) = 1
      BY <1>5, <1>7, <3>1
    <3> QED
      BY <1>5, <1>9, <3>1, <3>2 DEF Tells
  <2> QED
    BY <2>1, <2>2
<1>10. ASSUME NEW p \in Ports, p # h.ackPort, \E j \in DOMAIN s : Tells(s[j], p)
       PROVE  Told(known, s)[p] = h.pin[p]
  <2>1. \A j \in DOMAIN s : Tells(s[j], p) => s[j].values[p] = h.pin[p]
    BY <1>9, <1>10
  <2>2. PICK k \in DOMAIN s : Tells(s[k], p)
    BY <1>10
  <2>3. s[k].values[p] = h.pin[p]
    BY <2>1, <2>2
  <2>4. /\ s \in Seq(ToGateway) /\ k \in DOMAIN s /\ Tells(s[k], p)
        /\ \A j \in DOMAIN s : Tells(s[j], p) /\ k <= j => s[j].values[p] = s[k].values[p]
    BY <1>7, <2>1, <2>2, <2>3
  <2>5. Told(known, s)[p] = s[k].values[p]
    BY <1>10, <2>4, LastTold
  <2> QED
    BY <2>3, <2>5
<1>11. ASSUME NEW p \in Ports PROVE Told(known, s)[p] \in {h.pin[p], known[p]}
  <2>1. CASE \E j \in DOMAIN s : Tells(s[j], p)
    BY <1>8, <1>10, <2>1
  <2>2. CASE ~ \E j \in DOMAIN s : Tells(s[j], p)
    BY <2>2, NotTold
  <2> QED
    BY <2>1, <2>2
<1>12. ASSUME Due(h, "keepalive"), NEW p \in Ports PROVE Told(known, s)[p] = h.pin[p]
  <2>1. PICK i \in DOMAIN told : Tells(told[i], p)
    BY <1>6, <1>12
  <2>2. i \in DOMAIN s /\ Tells(s[i], p)
    BY <1>7, <2>1
  <2>3. CASE p = h.ackPort
    BY <1>8, <2>3
  <2>4. CASE p # h.ackPort
    BY <1>10, <2>2, <2>4
  <2> QED
    BY <2>3, <2>4
<1>13. h.ackPort # None => h.ackPort \in Ports
  BY DEF Fit, HubType
<1> QED
  BY <1>3, <1>4, <1>5, <1>8, <1>11, <1>12, <1>13

-----------------------------------------------------------------------------
(* No level stays unreported.  A connected hub that has not told all has    *)
(* waited less than its keepalive timer, since connecting made that a second*)
(* older; between turns its copy of the levels is right and no answer is    *)
(* pending, in the middle of one the copy is right or about to be read.     *)
Older  == stale + 1 <= hub.age["keepalive"]
Others == \A p \in Ports : p # hub.ackPort => reported[p] = hub.pin[p]

Prompt ==
  /\ stale \in Nat /\ stale <= KeepaliveEvery /\ (~ Connected => stale = 0)
  /\ Connected /\ phase = "listen" =>
       /\ hub.value = hub.pin /\ hub.ackPort = None
       /\ \/ Known /\ stale = 0
          \/ Older /\ hub.age["keepalive"] < KeepaliveEvery
  /\ Connected /\ phase = "loop" =>
       /\ \/ Due(hub, "read")
          \/ \A p \in Ports : p # hub.ackPort => hub.value[p] = hub.pin[p]
       /\ \/ Others /\ stale = 0
          \/ Due(hub, "keepalive") \/ Older

LEMMA ElapseEffect ==
  ASSUME NEW h, Fit(h)
  PROVE  LET e == Elapse(h)
         IN  /\ Fit(e) /\ e.state = h.state /\ e.pin = h.pin /\ e.value = h.value
             /\ e.ackPort = h.ackPort
             /\ \A t \in Timers :
                  /\ h.age[t] \in Nat /\ h.age[t] <= e.age[t]
                  /\ Due(e, t) \/ e.age[t] = h.age[t] + 1
<1>1. Fit(Elapse(h))
  BY ElapseFit
<1>2. \A t \in Timers : h.age[t] \in Nat /\ h.age[t] <= Interval(t) /\ Interval(t) \in Nat \ {0}
  BY IntervalsPositive DEF Fit, HubType
<1>3. /\ Elapse(h).state = h.state /\ Elapse(h).pin = h.pin /\ Elapse(h).value = h.value
      /\ Elapse(h).ackPort = h.ackPort
      /\ \A t \in Timers :
           Elapse(h).age[t] = IF h.age[t] < Interval(t) THEN h.age[t] + 1 ELSE h.age[t]
  BY DEF Elapse, Fit, HubType
<1> QED
  BY <1>1, <1>2, <1>3 DEF Due

LEMMA RestartEffect ==
  ASSUME NEW h, Fit(h), NEW u \in Timers
  PROVE  LET g == [h EXCEPT !.age[u] = 0]
         IN  /\ g.state = h.state /\ g.pin = h.pin /\ g.value = h.value
             /\ g.ackPort = h.ackPort
             /\ \A t \in Timers : t # u => g.age[t] = h.age[t]
BY DEF Fit, HubType

LEMMA ServerEffect ==
  ASSUME NEW h, Fit(h), NEW a \in Gateways
  PROVE  LET g == [h EXCEPT !.server = a, !.state = "CONNECTED"]
         IN  /\ Fit(g) /\ g.state = "CONNECTED" /\ g.pin = h.pin /\ g.value = h.value
             /\ g.ackPort = h.ackPort /\ g.age = h.age
BY DEF Fit, HubType

(* A packet makes the timers no younger but the one of rediscovery, and an  *)
(* address makes them a second older.                                       *)
LEMMA HandleEffect ==
  ASSUME NEW h, Fit(h), NEW p \in Packets, NEW t \in {"read", "keepalive"}
  PROVE  LET g == Handle(h, p)
         IN  /\ Fit(g) /\ g.value = h.value
             /\ p.type = "addr" => /\ g.state = "CONNECTED" /\ g.pin = h.pin /\ g.ackPort = h.ackPort
                                   /\ h.age[t] <= g.age[t]
                                   /\ Due(g, t) \/ g.age[t] = h.age[t] + 1
             /\ p.type # "addr" => g.state = h.state /\ g.age[t] = h.age[t]
             /\ p.type = "chk" => g.pin = h.pin /\ g.ackPort = h.ackPort
             /\ p.type = "cmd" => /\ g.ackPort = p.port /\ p.port \in Ports
                                  /\ \A q \in Ports : q # p.port => g.pin[q] = h.pin[q]
<1>1. Fit(Handle(h, p))
  BY HandleFit
<1>2. t \in Timers /\ t # "rediscover"
  BY DEF Timers
<1>3. CASE p.type = "addr"
  <2> DEFINE e == Elapse(h)
             f == [e EXCEPT !.server = p.addr, !.state = "CONNECTED"]
             g == [f EXCEPT !.age["rediscover"] = 0]
  <2>1. /\ e.state = h.state /\ e.pin = h.pin /\ e.value = h.value /\ e.ackPort = h.ackPort
        /\ Fit(e) /\ h.age[t] <= e.age[t] /\ (Due(e, t) \/ e.age[t] = h.age[t] + 1)
    BY <1>2, ElapseEffect
  <2>2. Handle(h, p) = g
    BY <1>3 DEF Handle, Connect
  <2>3. p.addr \in Gateways /\ "rediscover" \in Timers
    BY <1>3 DEF Packets, Timers
  <2> HIDE DEF e
  <2>4. /\ Fit(f) /\ f.state = "CONNECTED" /\ f.pin = e.pin /\ f.value = e.value
        /\ f.ackPort = e.ackPort /\ f.age = e.age
    BY <2>1, <2>3, ServerEffect
  <2> HIDE DEF f
  <2>5. /\ g.state = f.state /\ g.pin = f.pin /\ g.value = f.value
        /\ g.ackPort = f.ackPort /\ g.age[t] = f.age[t]
    BY <1>2, <2>3, <2>4, RestartEffect
  <2> HIDE DEF g
  <2>6. /\ g.state = "CONNECTED" /\ g.pin = h.pin /\ g.value = h.value
        /\ g.ackPort = h.ackPort /\ g.age[t] = e.age[t]
    BY <2>1, <2>4, <2>5
  <2>7. h.age[t] <= g.age[t] /\ (Due(g, t) \/ g.age[t] = h.age[t] + 1)
    BY <2>1, <2>6 DEF Due
  <2> QED
    BY <1>1, <1>3, <2>2, <2>6, <2>7
<1>4. CASE p.type = "chk"
  BY <1>1, <1>2, <1>4 DEF Handle, Fit, HubType
<1>5. CASE p.type = "cmd"
  <2>1. p.port \in Ports
    BY <1>5 DEF Packets
  <2> QED
    BY <1>1, <1>5, <2>1 DEF Handle, Relay, Fit, HubType
<1> QED
  BY <1>3, <1>4, <1>5 DEF Packets

(* A poll: the seconds that pass are the keepalive timer's too.             *)
LEMMA PromptListen ==
  ASSUME ReadEvery = 1, HubInv, Prompt, NEW p \in Packets \cup {None}, NEW waited \in BOOLEAN,
         Listen(p, waited)
  PROVE  Prompt'
<1> DEFINE now == IF waited THEN Elapse(hub) ELSE hub
           K == "keepalive"
<1>1. /\ phase = "listen" /\ phase' = "loop" /\ UNCHANGED reported
      /\ hub' = IF p = None THEN now ELSE Handle(now, p)
      /\ stale' = IF Connected /\ ~ Known /\ stale <= KeepaliveEvery
                  THEN stale + Seconds(p, waited) ELSE stale
  BY DEF Listen
<1>2. /\ Interval("read") = 1 /\ Interval(K) = KeepaliveEvery /\ KeepaliveEvery \in Nat \ {0}
      /\ "read" \in Timers /\ K \in Timers
  BY HubConstants DEF Interval, Timers
<1>3. /\ Fit(now) /\ now.state = hub.state /\ now.pin = hub.pin /\ now.value = hub.value
      /\ now.ackPort = hub.ackPort /\ hub.age[K] \in Nat /\ now.age["read"] \in Nat
      /\ now.age[K] \in Nat
      /\ hub.age[K] <= now.age[K] /\ now.age[K] <= KeepaliveEvery
      /\ \/ Due(now, K)
         \/ now.age[K] = hub.age[K] + (IF waited THEN 1 ELSE 0)
  <2>1. Fit(hub) /\ Fit(now)
    BY ElapseFit DEF HubInv
  <2>2. \A t \in Timers : hub.age[t] \in Nat /\ now.age[t] \in Nat /\ now.age[t] <= Interval(t)
    BY <2>1 DEF Fit, HubType
  <2>3. CASE waited
    BY <1>2, <2>1, <2>2, <2>3, ElapseEffect
  <2>4. CASE ~ waited
    BY <1>2, <2>1, <2>2, <2>4
  <2> QED
    BY <2>3, <2>4
<1> HIDE DEF now
<1>4. /\ Fit(hub') /\ hub'.value = hub.value
      /\ hub'.state = "CONNECTED" => hub.state = "CONNECTED" \/ (p # None /\ p.type = "addr")
      /\ hub.state = "CONNECTED" => hub'.state = "CONNECTED"
      /\ \A q \in Ports : q # hub'.ackPort => hub'.pin[q] = hub.pin[q]
      /\ hub'.ackPort = hub.ackPort => \A q \in Ports : q # hub.ackPort => hub'.pin[q] = hub.pin[q]
      /\ p # None /\ p.type = "addr" => Due(hub', "read") \/ hub'.age["read"] = now.age["read"] + 1
      /\ hub.age[K] <= hub'.age[K] /\ hub'.age[K] \in Nat
      /\ Due(hub', K) \/ hub'.age[K] = hub.age[K] + Seconds(p, waited)
  <2>1. CASE p = None
    <3>1. hub' = now
      BY <1>1, <2>1
    <3>2. Seconds(p, waited) = IF waited THEN 1 ELSE 0
      BY <2>1 DEF Seconds
    <3> QED
      BY <1>3, <2>1, <3>1, <3>2
  <2>2. CASE p # None
    <3>1. p \in Packets /\ hub' = Handle(now, p)
      BY <1>1, <2>2
    <3>2. /\ Fit(hub') /\ hub'.value = now.value
          /\ p.type = "addr" =>
               /\ hub'.state = "CONNECTED" /\ hub'.pin = now.pin /\ hub'.ackPort = now.ackPort
               /\ now.age[K] <= hub'.age[K]
               /\ Due(hub', K) \/ hub'.age[K] = now.age[K] + 1
               /\ Due(hub', "read") \/ hub'.age["read"] = now.age["read"] + 1
          /\ p.type # "addr" => hub'.state = now.state /\ hub'.age[K] = now.age[K]
          /\ p.type = "chk" => hub'.pin = now.pin /\ hub'.ackPort = now.ackPort
          /\ p.type = "cmd" => /\ hub'.ackPort = p.port
                               /\ \A q \in Ports : q # p.port => hub'.pin[q] = now.pin[q]
      BY <1>3, <3>1, HandleEffect
    <3>3. p.type \in {"addr", "chk", "cmd"}
      BY <3>1 DEF Packets
    <3>4. hub'.age[K] \in Nat
      BY <1>2, <3>2 DEF Fit, HubType
    <3>5. Seconds(p, waited) = (IF waited THEN 1 ELSE 0) + (IF p.type = "addr" THEN 1 ELSE 0)
      BY <2>2 DEF Seconds
    <3>6. Due(now, K) /\ now.age[K] <= hub'.age[K] => Due(hub', K)
      BY <1>2, <1>3, <3>4 DEF Due
    <3>7. hub.age[K] <= hub'.age[K]
      BY <1>3, <3>2, <3>4
    <3>8. Due(hub', K) \/ hub'.age[K] = hub.age[K] + Seconds(p, waited)
      <4>1. CASE p.type = "addr"
        BY <1>3, <3>2, <3>4, <3>5, <3>6, <4>1
      <4>2. CASE p.type # "addr"
        BY <1>3, <3>2, <3>4, <3>5, <3>6, <4>2
      <4> QED
        BY <4>1, <4>2
    <3>9. \A q \in Ports : q # hub'.ackPort => hub'.pin[q] = hub.pin[q]
      BY <1>3, <3>2, <3>3
    <3> QED
      BY <1>3, <2>2, <3>2, <3>3, <3>4, <3>7, <3>8, <3>9
  <2> QED
    BY <2>1, <2>2
<1>5. Seconds(p, waited) \in 0..2 /\ (p # None /\ p.type = "addr" => Seconds(p, waited) >= 1)
  BY DEF Seconds
<1>6. CASE hub.state # "CONNECTED"
  <2>1. stale = 0 /\ stale' = 0
    BY <1>1, <1>6 DEF Prompt, Connected
  <2>2. hub'.state = "CONNECTED" => Due(hub', "read")
    BY <1>2, <1>3, <1>4, <1>6 DEF Due
  <2>3. hub'.state = "CONNECTED" => Due(hub', K) \/ stale' + 1 <= hub'.age[K]
    BY <1>3, <1>4, <1>5, <1>6, <2>1
  <2> QED
    BY <1>1, <1>2, <2>1, <2>2, <2>3 DEF Prompt, Connected, Older
<1>7. CASE hub.state = "CONNECTED"
  <2>1. /\ hub.value = hub.pin /\ hub.ackPort = None /\ stale \in Nat /\ stale <= KeepaliveEvery
        /\ \/ Known /\ stale = 0
           \/ stale + 1 <= hub.age[K] /\ hub.age[K] < KeepaliveEvery
    BY <1>1, <1>7 DEF Prompt, Connected, Older
  <2>2. \A q \in Ports : q # hub'.ackPort => hub'.value[q] = hub'.pin[q]
    BY <1>4, <2>1
  <2>3. CASE Known
    <3>1. stale' = stale
      BY <1>1, <2>3
    <3>2. Others'
      BY <1>1, <1>4, <2>3 DEF Others, Known
    <3>3. stale = 0 \/ stale' + 1 <= hub'.age[K]
      BY <1>3, <1>4, <2>1, <3>1
    <3> QED
      BY <1>1, <1>4, <1>7, <2>1, <2>2, <3>1, <3>2, <3>3 DEF Prompt, Connected, Older
  <2>4. CASE ~ Known
    <3>1. stale' = stale + Seconds(p, waited) /\ stale + 1 <= hub.age[K] /\ hub.age[K] < KeepaliveEvery
      BY <1>1, <1>7, <2>1, <2>4 DEF Connected
    <3>2. stale' \in Nat /\ stale' <= KeepaliveEvery
      BY <1>2, <1>3, <1>5, <2>1, <3>1
    <3>3. Due(hub', K) \/ stale' + 1 <= hub'.age[K]
      BY <1>3, <1>4, <1>5, <2>1, <3>1
    <3> QED
      BY <1>1, <1>4, <1>7, <2>2, <3>2, <3>3 DEF Prompt, Connected, Older
  <2> QED
    BY <2>3, <2>4
<1> QED
  BY <1>6, <1>7

(* A turn: with the keepalive all is told; without it, what was unknown but *)
(* for the answered relay is as old as before.                              *)
LEMMA PromptLoop ==
  ASSUME HubInv, Prompt, Loop
  PROVE  Prompt'
<1> DEFINE now == Rediscover(hub)
           K == "keepalive"
<1>1. /\ phase = "loop" /\ phase' = "listen"
      /\ hub' = Turn(hub)[1] /\ reported' = Told(reported, Turn(hub)[2])
      /\ stale' = IF Known' \/ ~ Connected' THEN 0 ELSE stale
      /\ stale \in Nat /\ stale <= KeepaliveEvery /\ KeepaliveEvery \in Nat
  BY HubConstants DEF Loop, Prompt
<1>2. Turn(hub) = IF now.state = "DISCOVERY" THEN Discover(now) ELSE Serve(now)
  BY DEF Turn
<1>3. Fit(hub) /\ Fit(now) /\ (now.state # "DISCOVERY" => now = hub)
  <2>1. Fit(hub) /\ Fit(now)
    BY RediscoverFit DEF HubInv
  <2>2. now.state # "DISCOVERY" => now = hub
    BY <2>1 DEF Rediscover, Fit, HubType
  <2> QED
    BY <2>1, <2>2
<1> HIDE DEF now
<1>4. CASE now.state = "DISCOVERY"
  <2>1. hub'.state = "DISCOVERY"
    BY <1>1, <1>2, <1>3, <1>4, DiscoverFit
  <2> QED
    BY <1>1, <2>1 DEF Prompt, Connected
<1>5. CASE now.state # "DISCOVERY"
  <2>1. hub.state = "CONNECTED" /\ Turn(hub) = Serve(hub)
    BY <1>2, <1>3, <1>5 DEF Fit, HubType
  <2>2. /\ Due(hub, "read") \/ \A q \in Ports : q # hub.ackPort => hub.value[q] = hub.pin[q]
        /\ \/ Others /\ stale = 0
           \/ Due(hub, K) \/ Older
    BY <1>1, <2>1 DEF Prompt, Connected
  <2>3. /\ \A q \in Ports : reported'[q] \in {hub.pin[q], reported[q]}
        /\ hub.ackPort # None => reported'[hub.ackPort] = hub.pin[hub.ackPort]
        /\ Due(hub, K) => \A q \in Ports : reported'[q] = hub.pin[q]
        /\ hub'.value = hub.pin /\ hub'.ackPort = None
        /\ hub'.pin = hub.pin /\ hub'.state = "CONNECTED"
        /\ ~ Due(hub, K) => hub'.age[K] = hub.age[K]
    <3>1. Fit(hub) /\ (Due(hub, "read") \/ \A q \in Ports : q # hub.ackPort => hub.value[q] = hub.pin[q])
      BY <1>3, <2>2
    <3>2. /\ \A q \in Ports : Told(reported, Serve(hub)[2])[q] \in {hub.pin[q], reported[q]}
          /\ hub.ackPort # None => Told(reported, Serve(hub)[2])[hub.ackPort] = hub.pin[hub.ackPort]
          /\ Due(hub, K) => \A q \in Ports : Told(reported, Serve(hub)[2])[q] = hub.pin[q]
          /\ Serve(hub)[1].value = hub.pin /\ Serve(hub)[1].ackPort = None
          /\ Serve(hub)[1].pin = hub.pin /\ Serve(hub)[1].state = "CONNECTED"
          /\ ~ Due(hub, K) => Serve(hub)[1].age[K] = hub.age[K]
      BY <2>1, <3>1, ServeTells
    <3> QED
      BY <1>1, <2>1, <3>2
  <2>4. (\A q \in Ports : reported'[q] = hub.pin[q]) => Known'
    <3>1. reported' = [q \in Ports |-> reported'[q]]
      BY <1>1 DEF Told
    <3>2. hub.pin \in [Ports -> Levels]
      BY <1>3 DEF Fit, HubType
    <3> QED
      BY <2>3, <3>1, <3>2 DEF Known
  <2>5. CASE Known'
    <3>1. stale' = 0
      BY <1>1, <2>5
    <3> QED
      BY <1>1, <2>3, <2>5, <3>1 DEF Prompt, Connected
  <2>6. CASE ~ Known'
    <3>1. ~ Due(hub, K) /\ ~ Others
      <4>1. ~ Due(hub, K)
        BY <2>3, <2>4, <2>6
      <4>2. ~ Others
        <5>1. SUFFICES ASSUME Others PROVE FALSE
          OBVIOUS
        <5>2. \A q \in Ports : reported'[q] = hub.pin[q]
          BY <2>3, <5>1, HubConstants DEF Others, Ports
        <5> QED
          BY <2>4, <2>6, <5>2
      <4> QED
        BY <4>1, <4>2
    <3>2. stale' = stale /\ stale + 1 <= hub.age[K] /\ hub'.age[K] = hub.age[K]
      BY <1>1, <2>2, <2>3, <2>6, <3>1 DEF Older, Connected
    <3>3. hub.age[K] < KeepaliveEvery
      <4>1. hub.age[K] \in Nat /\ Interval(K) = KeepaliveEvery
        BY <1>3 DEF Fit, HubType, Timers, Interval
      <4> QED
        BY <1>1, <3>1, <4>1 DEF Due
    <3> QED
      BY <1>1, <2>3, <3>2, <3>3 DEF Prompt, Connected, Older
  <2> QED
    BY <2>5, <2>6
<1> QED
  BY <1>4, <1>5

(* With sensors read every second, as they are, the keepalive bounds how    *)
(* long a gateway can be wrong about a connected hub: for every number of   *)
(* relays and every keepalive interval.                                     *)
THEOREM AlwaysReportedInTime ==
  ASSUME ReadEvery = 1
  PROVE  Spec => []ReportedInTime
<1>1. Init => Prompt
  BY HubConstants DEF Init, Prompt, Connected, Boot
<1>2. HubInv /\ Prompt /\ [Next]_vars => Prompt'
  <2> SUFFICES ASSUME HubInv, Prompt, [Next]_vars PROVE Prompt'
    OBVIOUS
  <2>1. CASE UNCHANGED vars
    BY <2>1 DEF vars, Prompt, Connected, Known, Older, Others, Due
  <2> QED
    BY <2>1, PromptListen, PromptLoop DEF Next
<1>3. Prompt => ReportedInTime
  BY DEF Prompt, ReportedInTime
<1> QED
  BY <1>1, <1>2, <1>3, HubInvHolds, PTL DEF Spec
================================================================================
