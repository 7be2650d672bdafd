------------------------------ MODULE WiseUpLink ------------------------------
(***************************************************************************)
(* The gateway daemon and its hubs over the radio.  The hubs run HubLogic;  *)
(* the gateway's threads take whole steps here (NrfDaemon has them one lock *)
(* and one system call at a time), so that what is new is the air between   *)
(* them: packets get lost, every sendPacket flushes the sender's own        *)
(* receive FIFO, and the daemon may die and start again with nothing.       *)
(***************************************************************************)
EXTENDS HubLogic, ActionTasks

CONSTANTS
  Hubs,       \* sensor hubs
  Gateway,    \* local_address of the daemon
  Commands,   \* SENSOR-ACTION requests, each published once
  CommandFor, \* [hub, port, data] of each request
  QueueCap,   \* connections the outgoing socket holds
  FifoDepth,  \* packets a radio holds
  MaxStray,   \* bound: registrations whose uninitialised flag reads with_ack
  MaxFaults   \* bound: deaths of the daemon and hubs switched off and on together

ASSUME LinkConstants ==
  /\ CommandFor \in [Commands -> [hub : Hubs, port : Ports, data : {0, 1}]]
  /\ Commands \cap Hubs = {} /\ Gateway # Broadcast
  /\ QueueCap \in Nat \ {0} /\ FifoDepth \in Nat \ {0}
  /\ MaxStray \in Nat /\ MaxFaults \in Nat

VARIABLES
  queue,      \* messages for the radio: the daemon's outgoing queue
  tasks,      \* nrfActionTaskMng::m_tasks
  clients,    \* WiseClientHandler::m_clients
  rx,         \* the gateway's receive FIFO, with the sender of each packet
  hub, phase, \* each hub's device_context and place in its loop
  inbox,      \* each hub's receive FIFO
  told,       \* history: the level last published for each sensor
  issued, executed, settled,  \* history: requests taken, carried out, removed
  strays, crashes, resets     \* how often each has happened

gateway == <<queue, tasks, clients, told, strays>>
history == <<issued, executed, settled>>
vars == <<queue, tasks, clients, rx, hub, phase, inbox, told, issued, executed, settled,
          strays, crashes, resets>>

Sensors == Hubs \X Ports
SensorOf(c) == <<CommandFor[c].hub, CommandFor[c].port>>

Init ==
  /\ queue = << >> /\ tasks = << >> /\ clients = {} /\ rx = << >>
  /\ hub = [h \in Hubs |-> Boot] /\ phase = [h \in Hubs |-> "listen"]
  /\ inbox = [h \in Hubs |-> << >>]
  /\ told = [s \in Sensors |-> None]
  /\ issued = {} /\ executed = {} /\ settled = {}
  /\ strays = 0 /\ crashes = 0 /\ resets = 0

(* Mutant: the radio holds whatever comes.                                  *)
ReceiveAll(fifo, packets) == fifo \o packets

(* Of the packets that reach a radio it takes those it has room for.        *)
Receive(fifo, packets) ==
  LET all == fifo \o packets
  IN  IF Len(all) <= FifoDepth THEN all ELSE SubSeq(all, 1, FifoDepth)

-----------------------------------------------------------------------------
(* The gateway.  subCallback: a request becomes an outgoing message.        *)
SensorAction(c) ==
  /\ c \notin issued /\ Len(queue) < QueueCap
  /\ issued' = issued \cup {c}
  /\ queue' = Append(queue, [body |-> c, ack |-> TRUE, key |-> SensorOf(c)])
  /\ UNCHANGED <<tasks, clients, rx, hub, phase, inbox, told, executed, settled, strays, crashes, resets>>

Target(body) == IF body \in Hubs THEN body ELSE CommandFor[body].hub

PacketOf(body) ==
  IF body \in Hubs THEN [type |-> "addr", addr |-> Gateway, body |-> body]
  ELSE [type |-> "cmd", port |-> CommandFor[body].port, data |-> CommandFor[body].data,
        body |-> body]

(* outgoingMessageListener: configure () flushes the gateway's FIFO before  *)
(* and after the packet; what wants an answer enters the resend list.       *)
Transmit(heard) ==
  /\ queue # << >> /\ queue' = Tail(queue)
  /\ LET msg == Head(queue)
         h   == Target(msg.body)
     IN  /\ inbox' = IF heard THEN [inbox EXCEPT ![h] = Receive(@, <<PacketOf(msg.body)>>)] ELSE inbox
         /\ tasks' = IF msg.ack THEN AddTask(tasks, msg.key, msg.body) ELSE tasks
  /\ rx' = << >>
  /\ UNCHANGED <<clients, hub, phase, told, history, strays, crashes, resets>>

(* Mutant: a task is sent once more and forgotten.                          *)
ResendOnce ==
  /\ tasks # << >> /\ queue = << >>
  /\ queue' = [i \in DOMAIN tasks |-> [body |-> tasks[i].body, ack |-> FALSE, key |-> None]]
  /\ tasks' = << >>
  /\ UNCHANGED <<clients, rx, hub, phase, inbox, told, history, strays, crashes, resets>>

(* A pass of nrfActionTaskExecuterWorker, when the previous one has left    *)
(* the queue.                                                               *)
Resend ==
  /\ tasks # << >> /\ queue = << >>
  /\ queue' = [i \in DOMAIN tasks |-> [body |-> tasks[i].body, ack |-> FALSE, key |-> None]]
  /\ UNCHANGED <<tasks, clients, rx, hub, phase, inbox, told, history, strays, crashes, resets>>

(* Mutant: the hub is answered, and not remembered.                         *)
ReceiveRequestUnknown(h) ==
  /\ Len(queue) < QueueCap
  /\ queue' = Append(queue, [body |-> h, ack |-> FALSE, key |-> None])
  /\ UNCHANGED <<tasks, told, settled, clients, strays>>

(* dataHandling.  A request makes its hub a client and queues the gateway's *)
(* address, in a message whose features and sensorAddress are not set.      *)
ReceiveRequest(h) ==
  /\ Len(queue) < QueueCap
  /\ clients' = clients \cup {h}
  /\ \/ /\ queue' = Append(queue, [body |-> h, ack |-> FALSE, key |-> None])
        /\ UNCHANGED strays
     \/ /\ strays < MaxStray /\ strays' = strays + 1
        /\ \E key \in Sensors \cup {None} :
             queue' = Append(queue, [body |-> h, ack |-> TRUE, key |-> key])
  /\ UNCHANGED <<tasks, told, settled>>

(* Data of a client is published, other data dropped.  An acknowledgement   *)
(* takes the first task of its sensor out of the resend list before that.   *)
ReceiveData(h, p) ==
  /\ \/ p.type = "data" /\ UNCHANGED tasks
     \/ p.type = "ack" /\ \E q \in DOMAIN p.values : tasks' = RemoveTask(tasks, <<h, q>>)
  /\ settled' = settled \cup
       {c \in Commands : /\ \E i \in DOMAIN tasks : tasks[i].body = c
                         /\ ~ \E i \in DOMAIN tasks' : tasks'[i].body = c}
  /\ told' = IF h \in clients
             THEN [s \in Sensors |-> IF s[1] = h /\ s[2] \in DOMAIN p.values
                                     THEN p.values[s[2]] ELSE told[s]]
             ELSE told
  /\ UNCHANGED <<queue, clients, strays>>

GatewayReceive ==
  /\ rx # << >> /\ rx' = Tail(rx)
  /\ LET h == Head(rx).from
         p == Head(rx).packet
     IN  IF p.type = "req" THEN ReceiveRequest(h) ELSE ReceiveData(h, p)
  /\ UNCHANGED <<hub, phase, inbox, issued, executed, crashes, resets>>

(* The daemon dies and is started again: nothing it holds survives.         *)
Crash ==
  /\ crashes + resets < MaxFaults /\ crashes' = crashes + 1
  /\ queue' = << >> /\ tasks' = << >> /\ clients' = {} /\ rx' = << >>
  /\ UNCHANGED <<hub, phase, inbox, told, history, strays, resets>>

-----------------------------------------------------------------------------
(* The hubs.  A poll takes a packet from the FIFO, if there is one.         *)
HubListen(h, waited) ==
  LET now == IF waited THEN Elapse(hub[h]) ELSE hub[h]
  IN
  /\ phase[h] = "listen" /\ phase' = [phase EXCEPT ![h] = "loop"]
  /\ IF inbox[h] = << >>
     THEN /\ hub' = [hub EXCEPT ![h] = now]
          /\ UNCHANGED <<inbox, executed>>
     ELSE /\ hub' = [hub EXCEPT ![h] = Handle(now, Head(inbox[h]))]
          /\ inbox' = [inbox EXCEPT ![h] = Tail(@)]
          /\ executed' = executed \cup ({Head(inbox[h]).body} \cap Commands)
  /\ UNCHANGED <<gateway, rx, issued, settled, crashes, resets>>

(* A hub is switched off and on: its relays are low, and its radio and its  *)
(* pending answer are lost.                                                 *)
Reset(h) ==
  /\ crashes + resets < MaxFaults /\ resets' = resets + 1
  /\ hub' = [hub EXCEPT ![h] = Boot] /\ phase' = [phase EXCEPT ![h] = "listen"]
  /\ inbox' = [inbox EXCEPT ![h] = << >>]
  /\ UNCHANGED <<gateway, rx, history, crashes>>

MaxSends == 2 * NPorts + 1

(* Which of the packets of a turn are heard, in their order.                *)
Hearings ==
  {s \in UNION {[1..n -> 1..MaxSends] : n \in 0..MaxSends} :
     \A i \in DOMAIN s \ {1} : s[i - 1] < s[i]}

(* The rest of the loop; every packet sent flushes the hub's FIFO, and the  *)
(* gateway hears some of them.                                              *)
HubLoop(h, heard) ==
  LET sends == Turn(hub[h])[2]
  IN
  /\ phase[h] = "loop" /\ phase' = [phase EXCEPT ![h] = "listen"]
  /\ \A k \in DOMAIN heard : heard[k] \in DOMAIN sends
  /\ hub' = [hub EXCEPT ![h] = Turn(hub[h])[1]]
  /\ inbox' = IF sends = << >> THEN inbox ELSE [inbox EXCEPT ![h] = << >>]
  /\ rx' = Receive(rx, [k \in DOMAIN heard |-> [from |-> h, packet |-> sends[heard[k]]]])
  /\ UNCHANGED <<gateway, history, crashes, resets>>

Next ==
  \/ \E c \in Commands : SensorAction(c)
  \/ \E heard \in BOOLEAN : Transmit(heard)
  \/ Resend \/ GatewayReceive \/ Crash
  \/ \E h \in Hubs : Reset(h)
  \/ \E h \in Hubs, waited \in BOOLEAN : HubListen(h, waited)
  \/ \E h \in Hubs, heard \in Hearings : HubLoop(h, heard)

Spec == Init /\ [][Next]_vars

(* Fair-loss links: what is sent again and again is at some time handled by *)
(* its receiver, neither lost on the air nor flushed.  (The two loops poll  *)
(* every 10 ms and are not in step with what is sent every few seconds.)    *)
Sends(h, t)    == /\ \E i \in DOMAIN Turn(hub[h])[2] : Turn(hub[h])[2][i].type = t
                  /\ \E heard \in Hearings : HubLoop(h, heard)
Hears(h, t)    == GatewayReceive /\ Head(rx).from = h /\ Head(rx).packet.type = t
Transmits(b)   == queue # << >> /\ Head(queue).body = b /\ \E heard \in BOOLEAN : Transmit(heard)
Handles(h, b)  == inbox[h] # << >> /\ Head(inbox[h]).body = b /\ \E w \in BOOLEAN : HubListen(h, w)

FairLoss ==
  /\ \A h \in Hubs, t \in {"req", "data", "ack"} :
       []<><<Sends(h, t)>>_vars => []<><<Hears(h, t)>>_vars
  /\ \A b \in Commands \cup Hubs :
       []<><<Transmits(b)>>_vars => []<><<Handles(Target(b), b)>>_vars

(* The loops turn and time passes in them; the outgoing thread serves its   *)
(* socket, in 100 ms a packet, faster than the hubs call; the executor      *)
(* passes every two seconds.                                                *)
Fairness ==
  /\ \A h \in Hubs : /\ WF_vars(\E heard \in Hearings : HubLoop(h, heard))
                     /\ []<><<HubListen(h, TRUE)>>_vars
  /\ []<>(queue = << >>)
  /\ SF_vars(Resend)
  /\ FairLoss

FairSpec == Spec /\ Fairness

-----------------------------------------------------------------------------
Bodies  == Commands \cup Hubs
Message == [body : Bodies, ack : BOOLEAN, key : Sensors \cup {None}]

TypeOK ==
  /\ queue \in Seq(Message) /\ tasks \in Seq([key : Sensors \cup {None}, body : Bodies])
  /\ clients \subseteq Hubs /\ Len(rx) <= FifoDepth
  /\ \A i \in DOMAIN rx : rx[i].from \in Hubs
  /\ \A h \in Hubs :
       /\ hub[h].server \in {Broadcast, Gateway} /\ hub[h].pin \in [Ports -> Levels]
       /\ phase[h] \in {"listen", "loop"}
       /\ Len(inbox[h]) <= FifoDepth
  /\ told \in [Sensors -> Levels \cup {None}]
  /\ settled \subseteq issued /\ executed \subseteq issued /\ issued \subseteq Commands
  /\ strays \in 0..MaxStray /\ crashes \in 0..MaxFaults /\ resets \in 0..MaxFaults

(* "Check the packet for is_ack and remove from tasks list" (dataHandling): *)
(* a request leaves the list because it has been answered.  Retransmission, *)
(* loss and late answers never settle a request no hub has carried out.     *)
SettledExecuted == settled \subseteq executed

(* As long as the daemon has not died, a hub that thinks it is connected is *)
(* a client of the daemon, so its data is not dropped.                      *)
ConnectedIsClient ==
  crashes = 0 => \A h \in Hubs : hub[h].state = "CONNECTED" => h \in clients

Held(c) == \/ \E i \in DOMAIN queue : queue[i].body = c /\ queue[i].ack
           \/ \E i \in DOMAIN tasks : tasks[i].body = c

(* How far a request has come.  Together with what the hubs have carried out *)
(* this is RequestChannel: a request the gateway took is pending until its   *)
(* hub has carried it out and the answer has settled it, however often it is *)
(* sent, lost and answered; none is dropped, settled one for another or taken*)
(* up again, and only the death of the daemon loses those it has.            *)
Progress(c) ==
  IF c \notin issued THEN "new"
  ELSE IF Held(c) THEN "pending" ELSE IF c \in settled THEN "settled" ELSE "lost"

Channel == INSTANCE RequestChannel WITH
  Requests <- Commands, status <- [c \in Commands |-> Progress(c)],
  done <- executed, deaths <- crashes

ChannelSpec == Channel!Spec

(* Over a radio that loses packets each request taken is answered by its hub*)
(* in the end and settled, whatever stray tasks are in the resend list; only*)
(* the death of the daemon makes it forget one.                             *)
Delivered ==
  \A c \in Commands : c \in issued ~> c \in settled \/ (crashes > 0 /\ ~ Held(c))

(* A daemon that has forgotten its hubs knows them again.                   *)
Readmitted == \A h \in Hubs : <>[](h \in clients)

(* What has been published of each relay is in the end its level, whatever  *)
(* was lost and however often the daemon died.                              *)
PublishedInTheEnd == \A h \in Hubs, p \in Ports : <>[](told[<<h, p>>] = hub[h].pin[p])
================================================================================
