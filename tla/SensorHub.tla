------------------------------- MODULE SensorHub -------------------------------
(***************************************************************************)
(* One relay hub and the packets that may reach it.  A turn of the loop is  *)
(* two steps: Listen polls the radio and handles at most one packet, Loop   *)
(* does the rest of loop ().  The loop turns many times a second, so at     *)
(* most a second passes between two turns.                                  *)
(***************************************************************************)
EXTENDS HubLogic

CONSTANTS
  Gateways    \* addresses a CONNECT_ADDR may carry

ASSUME GatewayConstants == Broadcast \notin Gateways /\ Gateways # {}

VARIABLES
  hub,        \* device_context
  phase,      \* "listen" or "loop": where in loop ()
  sent,       \* the packets the last step sent, in order
  reported,   \* history: the level last sent to a gateway, port by port
  stale       \* history: seconds CONNECTED with a level no gateway was told

vars == <<hub, phase, sent, reported, stale>>

(* What nrf24l01_receiver_handler tells apart.  Levels other than 1 are low.*)
(* No gateway of this repository sends a check.                             *)
Packets ==
  [type : {"addr"}, addr : Gateways]
  \cup [type : {"cmd"}, port : Ports, data : {0, 1, 2}]
  \cup [type : {"chk"}]

Init ==
  /\ hub = Boot /\ phase = "listen" /\ sent = << >>
  /\ reported = [p \in Ports |-> None] /\ stale = 0

Connected == hub.state = "CONNECTED"
Known     == reported = hub.pin

(* The seconds a poll takes: the wait, and the delay (1000) of connecting.  *)
Seconds(p, waited) ==
  (IF waited THEN 1 ELSE 0) + (IF p # None /\ p.type = "addr" THEN 1 ELSE 0)

(* listenForIncoming, with what the handler does to the packet.             *)
Listen(p, waited) ==
  LET now == IF waited THEN Elapse(hub) ELSE hub
  IN
  /\ phase = "listen" /\ phase' = "loop"
  /\ hub' = IF p = None THEN now ELSE Handle(now, p)
  /\ sent' = << >> /\ UNCHANGED reported
  /\ stale' = IF Connected /\ ~ Known /\ stale <= KeepaliveEvery
              THEN stale + Seconds(p, waited) ELSE stale

Tells(packet, p) == packet.type # "req" /\ p \in DOMAIN packet.values

(* What a gateway that hears the packets of a turn knows after them.        *)
Told(known, packets) ==
  [p \in Ports |->
     IF \E i \in DOMAIN packets : Tells(packets[i], p)
     THEN packets[CHOOSE i \in DOMAIN packets :
            /\ Tells(packets[i], p)
            /\ \A j \in DOMAIN packets : Tells(packets[j], p) => j <= i].values[p]
     ELSE known[p]]

Loop ==
  /\ phase = "loop" /\ phase' = "listen"
  /\ hub' = Turn(hub)[1] /\ sent' = Turn(hub)[2]
  /\ reported' = Told(reported, sent')
  /\ stale' = IF Known' \/ ~ Connected' THEN 0 ELSE stale

Next ==
  \/ \E p \in Packets \cup {None}, waited \in BOOLEAN : Listen(p, waited)
  \/ Loop

Spec == Init /\ [][Next]_vars

(* The loop turns, and time passes while it does.  No packet need arrive.   *)
TimePasses == \E p \in Packets \cup {None} : Listen(p, TRUE)
FairSpec   == Spec /\ WF_vars(Loop) /\ SF_vars(TimePasses)

-----------------------------------------------------------------------------
HubType ==
  [state : {"DISCOVERY", "CONNECTED"}, server : Gateways \cup {Broadcast},
   pin : [Ports -> Levels], value : [Ports -> Levels], xor : Levels,
   ackPort : Ports \cup {None}, age : [Timers -> Nat]]

TypeOK ==
  /\ hub \in HubType /\ \A t \in Timers : hub.age[t] <= Interval(t)
  /\ phase \in {"listen", "loop"}
  /\ reported \in [Ports -> Levels \cup {None}]
  /\ stale \in Nat

(* Sensor data and acknowledgements go to a gateway, never on the broadcast *)
(* address, and the requests for one only there: the server address follows *)
(* the state through rediscovery, registrations and delayed answers.        *)
Addressed ==
  \A i \in DOMAIN sent :
    IF sent[i].type = "req" THEN sent[i].target = Broadcast ELSE sent[i].target \in Gateways

(* While a hub stays connected every level was told a gateway, at the latest*)
(* one keepalive interval after the change: the keepalive makes up for the  *)
(* changes the checksum misses.                                             *)
ReportedInTime == stale <= KeepaliveEvery

(* An acknowledgement tells the level the relay has when it is sent, also   *)
(* when it answers a command carried out before the hub was connected.      *)
AnswersCurrent ==
  \A i \in DOMAIN sent : sent[i].type = "ack" =>
    \A p \in DOMAIN sent[i].values : sent[i].values[p] = hub.pin[p]

(* A hub does not stay with a silent gateway: it calls for one again, unless*)
(* it is told an address or checked in the meantime.                        *)
NoSilentGateway == Connected ~> ~ Connected \/ hub.age["rediscover"] = 0

Requesting == \E i \in DOMAIN sent : sent[i].type = "req"

(* A hub without a gateway calls for one until it is answered.              *)
KeepsCalling == ~ Connected ~> Requesting \/ Connected

Acknowledged(p) == \E i \in DOMAIN sent : sent[i].type = "ack" /\ p \in DOMAIN sent[i].values

(* Where requests are answered, a command carried out is acknowledged in the*)
(* end, by a packet of its relay, however often the hub leaves CONNECTED in *)
(* between; only a command for another relay may take its place.            *)
LastCommandAnswered ==
  (~ Connected ~> Connected) =>
    \A p \in Ports : hub.ackPort = p ~> Acknowledged(p) \/ hub.ackPort \in Ports \ {p}
================================================================================
