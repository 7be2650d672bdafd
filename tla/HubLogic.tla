------------------------------- MODULE HubLogic --------------------------------
(***************************************************************************)
(* The program of a relay hub (led_hub): what its packet handler and one    *)
(* turn of its main loop do to the device context.  A hub is a record:      *)
(*   state    DISCOVERY or CONNECTED                                        *)
(*   server   where it sends: the broadcast address or a gateway's          *)
(*   pin      the level of each relay's output                              *)
(*   value    the level last read into the mapping, port by port            *)
(*   xor      xor_sensors_value, the checksum of the values last reported   *)
(*   ackPort  res_ack_port while is_res_ack is YES, otherwise None          *)
(*   age      seconds since each of the four timestamps was set, counted up *)
(*            to the interval it is compared with                           *)
(* is_sync is set and cleared in one turn of the loop and needs no field.   *)
(***************************************************************************)
EXTENDS Integers, Sequences, FiniteSets

CONSTANTS
  NPorts,     \* MAPPING_SIZE: relays, at the addresses 1..NPorts
  PerPacket,  \* sensors that fit a packet: 15 bytes, 6 for each
  Broadcast,  \* FA:FA:FA:FA:FA
  None,       \* no address, port or packet
  RediscoverAfter, DiscoverEvery, ReadEvery, KeepaliveEvery  \* seconds

ASSUME HubConstants ==
  /\ NPorts \in Nat \ {0} /\ PerPacket \in Nat \ {0}
  /\ None \notin 1..NPorts
  /\ \A n \in {RediscoverAfter, DiscoverEvery, ReadEvery, KeepaliveEvery} : n \in Nat \ {0}

Ports  == 1..NPorts
Levels == {0, 1}
Timers == {"rediscover", "discover", "read", "keepalive"}

Interval(t) ==
  CASE t = "rediscover" -> RediscoverAfter
    [] t = "discover"   -> DiscoverEvery
    [] t = "read"       -> ReadEvery
    [] t = "keepalive"  -> KeepaliveEvery

AllLow == [p \in Ports |-> 0]

Boot == [state |-> "DISCOVERY", server |-> Broadcast, pin |-> AllLow, value |-> AllLow,
         xor |-> 0, ackPort |-> None, age |-> [t \in Timers |-> 0]]

(* A second passes.  An age of n seconds is n seconds and the milliseconds  *)
(* the loop takes in them: it has reached its interval when the code's      *)
(* millis () - stamp is greater than it.                                    *)
Elapse(hub) ==
  [hub EXCEPT !.age = [t \in Timers |-> IF @[t] < Interval(t) THEN @[t] + 1 ELSE @[t]]]

Due(hub, t) == hub.age[t] >= Interval(t)

-----------------------------------------------------------------------------
(* nrf24l01_receiver_handler                                                *)
Connect(hub, addr) ==
  [Elapse(hub) EXCEPT !.server = addr, !.state = "CONNECTED", !.age["rediscover"] = 0]

(* Mutant: the level is the byte of the command.                            *)
RelayByte(hub, port, data) == [hub EXCEPT !.pin[port] = data, !.ackPort = port]

Relay(hub, port, data) ==
  [hub EXCEPT !.pin[port] = IF data = 1 THEN 1 ELSE 0, !.ackPort = port]

Handle(hub, p) ==
  CASE p.type = "addr" -> Connect(hub, p.addr)
    [] p.type = "chk"  -> [hub EXCEPT !.age["rediscover"] = 0]
    [] p.type = "cmd"  -> Relay(hub, p.port, p.data)

-----------------------------------------------------------------------------
(* The packets a hub sends.  A data packet carries PerPacket sensors.       *)
Request(hub) == [type |-> "req", target |-> hub.server]

Data(hub) ==
  LET chunk(i) == {p \in Ports : (p - 1) \div PerPacket = i - 1}
  IN  [i \in 1 .. ((NPorts - 1) \div PerPacket) + 1 |->
        [type |-> "data", target |-> hub.server, values |-> [p \in chunk(i) |-> hub.value[p]]]]

Ack(hub, port) ==
  [type |-> "ack", target |-> hub.server, values |-> [p \in {port} |-> hub.value[p]]]

(* check_sensors_change: 1 xor the values, which are levels.                *)
Checksum(value) == (1 + Cardinality({p \in Ports : value[p] = 1})) % 2

(* The turn's parts, in the order of the loop; each returns the hub and the *)
(* packets sent.                                                            *)
(* Mutant: the timer is only restarted.                                     *)
RediscoverNever(hub) ==
  IF Due(hub, "rediscover") /\ hub.state = "DISCOVERY"
  THEN [hub EXCEPT !.age["rediscover"] = 0] ELSE hub

(* Mutant: the answer owed is given up with the gateway.                    *)
RediscoverForgets(hub) ==
  IF Due(hub, "rediscover")
  THEN [hub EXCEPT !.state = "DISCOVERY", !.age["rediscover"] = 0, !.ackPort = None]
  ELSE hub

Rediscover(hub) ==
  IF Due(hub, "rediscover")
  THEN [hub EXCEPT !.state = "DISCOVERY", !.age["rediscover"] = 0]
  ELSE hub

(* Mutants: the request goes to the last gateway; a hub that has called     *)
(* waits for the answer.                                                    *)
DiscoverAtServer(hub) ==
  LET calling == [hub EXCEPT !.age["discover"] = 0]
  IN  IF Due(hub, "discover") THEN <<calling, <<Request(calling)>>>> ELSE <<hub, << >>>>
DiscoverOnce(hub) ==
  LET calling == [hub EXCEPT !.server = Broadcast]
  IN  IF hub.server # Broadcast THEN <<calling, <<Request(calling)>>>> ELSE <<hub, << >>>>

Discover(hub) ==
  LET calling == [hub EXCEPT !.server = Broadcast, !.age["discover"] = 0]
  IN  IF Due(hub, "discover") THEN <<calling, <<Request(calling)>>>> ELSE <<hub, << >>>>

ReadSensors(hub) ==
  IF Due(hub, "read")
  THEN [hub EXCEPT !.value = hub.pin, !.xor = Checksum(hub.pin), !.age["read"] = 0]
  ELSE hub

(* The mapping and checksum before and after the read tell whether is_sync  *)
(* was set.                                                                 *)
(* Mutant: changes only.                                                    *)
ReportChanges(before, hub) == IF hub.xor # before.xor THEN Data(hub) ELSE << >>

Report(before, hub) ==
  (IF Due(hub, "keepalive") THEN Data(hub) ELSE << >>)
  \o (IF hub.xor # before.xor THEN Data(hub) ELSE << >>)

Keepalive(hub) == IF Due(hub, "keepalive") THEN [hub EXCEPT !.age["keepalive"] = 0] ELSE hub

(* Mutant: the answer tells the level of the last read.                     *)
AnswerLastRead(hub) ==
  LET p == hub.ackPort
  IN  IF p # None THEN <<[hub EXCEPT !.ackPort = None], <<Ack(hub, p)>>>> ELSE <<hub, << >>>>

Answer(hub) ==
  LET p    == hub.ackPort
      read == [hub EXCEPT !.value[p] = hub.pin[p], !.ackPort = None]
  IN  IF p # None THEN <<read, <<Ack(read, p)>>>> ELSE <<hub, << >>>>

Serve(hub) ==
  LET now    == ReadSensors(hub)
      answer == Answer(Keepalive(now))
  IN  <<answer[1], Report(hub, now) \o answer[2]>>

(* loop () after listenForIncoming.                                         *)
Turn(hub) ==
  LET now == Rediscover(hub)
  IN  IF now.state = "DISCOVERY" THEN Discover(now) ELSE Serve(now)
================================================================================
