------------------------------- MODULE NrfDaemon -------------------------------
(***************************************************************************)
(* wise-nrfd, the gateway daemon between the radio and Redis, once it has   *)
(* started.  Four threads:                                                  *)
(*   main   polls the radio under the network lock and handles a packet     *)
(*          while it still holds that lock;                                 *)
(*   out    accepts messages from the outgoing queue (a UNIX socket),       *)
(*          transmits them under the network lock, and enters those that    *)
(*          want an acknowledgement in the resend list;                     *)
(*   exec   wakes every two seconds, takes the lock of the resend list and, *)
(*          holding it, writes every task to the outgoing queue again;      *)
(*   redis  turns SENSOR-ACTION messages into outgoing commands.            *)
(* The queue is the backlog of the listening socket: connect() blocks when  *)
(* it is full, and accept() takes connections in order.                     *)
(*                                                                          *)
(* A packet is known by what it is for: a request of Commands, or the       *)
(* registration answer to a hub of Hubs.                                    *)
(***************************************************************************)
EXTENDS ActionTasks, Integers

CONSTANTS
  Hubs,       \* sensor hubs (5-byte radio addresses)
  Sensors,    \* sensor addresses: hub address * 256 + port
  Commands,   \* SENSOR-ACTION requests, each published once
  SensorOf,   \* the sensor a request is for
  NoSensor,   \* an address no sensor has
  None,       \* no packet, message or request in hand
  QueueCap,   \* connections the socket holds before connect() blocks
  MaxStray,   \* bound: registrations whose uninitialised flag reads with_ack
  Paced       \* TRUE: what a pass or a hub adds is sent before it adds more

ASSUME ConstantsAssumption ==
  /\ SensorOf \in [Commands -> Sensors]
  /\ NoSensor \notin Sensors
  /\ Commands \cap Hubs = {}
  /\ QueueCap \in Nat \ {0}
  /\ MaxStray \in Nat
  /\ Paced \in BOOLEAN

VARIABLES
  pc,         \* where each thread is
  netLock,    \* WiseRFComm::m_lock: its holder, or "free"
  taskLock,   \* nrfActionTaskMng::m_lock: its holder, or "free"
  pending,    \* connections waiting in /tmp/wiseup/nrf_outgoing_queue
  outMsg,     \* the message outgoingMessageListener has read
  rx,         \* the packet main handles
  tasks,      \* nrfActionTaskMng::m_tasks
  next,       \* the iterator of the executor's pass
  redisCmd,   \* the request subCallback is sending
  clients,    \* WiseClientHandler::m_clients, each with status DISCOVERY
  strays,     \* registrations so far whose flag read with_ack
  issued,     \* history: requests taken from Redis
  sent,       \* history: packets transmitted at least once
  settled     \* history: requests an acknowledgement removed

locks   == <<netLock, taskLock>>
history == <<issued, sent, settled>>
vars == <<pc, netLock, taskLock, pending, outMsg, rx, tasks, next, redisCmd,
          clients, strays, issued, sent, settled>>

Threads == {"main", "out", "exec", "redis"}
MainLabels  == {"idle", "polling", "removing", "checking", "connecting"}
OutLabels   == {"idle", "sending", "transmitting", "adding"}
ExecLabels  == {"idle", "resending"}
RedisLabels == {"idle", "connecting"}
Bodies  == Commands \cup Hubs
Keys    == Sensors \cup {NoSensor}

(* nrf24l01_msg_t: packet, features.with_ack, sensorAddress.                *)
Message == [body : Bodies, ack : BOOLEAN, key : Keys]
Task    == [key : Keys, body : Bodies]
(* A packet from a hub: a connect request, sensor data, or unauthenticated  *)
(* sensor data; the sensor it acknowledges, NoSensor when is_ack is clear.  *)
Packet  == [type : {"req", "info", "noauth"}, hub : Hubs, key : Keys]
IsAck(p) == p.key # NoSensor

ASSUME NoneAssumption == None \notin Message \cup Packet \cup Commands

At(t, label)       == pc[t] = label
Goto(t, from, to)  == At(t, from) /\ pc' = [pc EXCEPT ![t] = to]

(* The thread is inside listenForIncoming, under the network lock.          *)
MainListening == pc["main"] # "idle"

Init ==
  /\ pc = [t \in Threads |-> "idle"]
  /\ netLock = "free" /\ taskLock = "free"
  /\ pending = << >> /\ tasks = << >> /\ next = 1
  /\ outMsg = None /\ rx = None /\ redisCmd = None
  /\ clients = {} /\ strays = 0
  /\ issued = {} /\ sent = {} /\ settled = {}

-----------------------------------------------------------------------------
(* Mutants: a connect() that gives the message up when another one waits,   *)
(* and a backlog without limit.                                             *)
EnqueueOrDrop(msg)    == pending' = IF pending = << >> THEN <<msg>> ELSE pending
EnqueueUnbounded(msg) == pending' = Append(pending, msg)

(* setClient and sendMsg: connect() blocks while the backlog is full; the   *)
(* message is written right after.  That setClient fails is left out.       *)
Enqueue(msg) ==
  /\ Len(pending) < QueueCap
  /\ pending' = Append(pending, msg)

(* --- main: listenForIncoming, dataHandling ------------------------------ *)
MainLock ==
  /\ Goto("main", "idle", "polling")
  /\ netLock = "free" /\ netLock' = "main"
  /\ UNCHANGED <<taskLock, pending, outMsg, rx, tasks, next, redisCmd, clients, strays, history>>

MainNoData ==
  /\ Goto("main", "polling", "idle")
  /\ netLock' = "free"
  /\ UNCHANGED <<taskLock, pending, outMsg, rx, tasks, next, redisCmd, clients, strays, history>>

(* The radio hands over packet p; an acknowledgement is looked up first.    *)
MainReceive(p) ==
  /\ Goto("main", "polling", IF IsAck(p) THEN "removing" ELSE "checking")
  /\ rx' = p
  /\ UNCHANGED <<locks, pending, outMsg, tasks, next, redisCmd, clients, strays, history>>

(* apiRemoveTask (getSensorAddress (packet)).                               *)
MainRemoveTask ==
  /\ Goto("main", "removing", "checking")
  /\ taskLock = "free"
  /\ tasks' = RemoveTask(tasks, rx.key)
  /\ settled' = settled \cup
       {c \in Commands : /\ \E i \in DOMAIN tasks : tasks[i].body = c
                         /\ ~ \E i \in DOMAIN tasks' : tasks'[i].body = c}
  /\ UNCHANGED <<locks, pending, outMsg, rx, next, redisCmd, clients, strays, issued, sent>>

(* registrationCheck: a connect request is always DISCOVERY, since nothing  *)
(* ever stores another status in a client; unauthenticated data enters the  *)
(* hub as a client; other data of an unknown hub is dropped.                *)
MainRegister ==
  /\ Goto("main", "checking", "connecting")
  /\ rx.type = "req"
  /\ clients' = clients \cup {rx.hub}
  /\ UNCHANGED <<locks, pending, outMsg, rx, tasks, next, redisCmd, strays, history>>

(* Mutant: the data handler returns without giving the network lock back.   *)
MainUpdateKeepsLock ==
  /\ Goto("main", "checking", "idle")
  /\ rx.type # "req"
  /\ rx' = None
  /\ UNCHANGED <<locks, pending, outMsg, tasks, next, redisCmd, clients, strays, history>>

MainUpdate ==
  /\ Goto("main", "checking", "idle")
  /\ rx.type # "req"
  /\ netLock' = "free"
  /\ clients' = IF rx.type = "noauth" THEN clients \cup {rx.hub} ELSE clients
  /\ rx' = None
  /\ UNCHANGED <<taskLock, pending, outMsg, tasks, next, redisCmd, strays, history>>

(* sendRegistration leaves features and sensorAddress of its message        *)
(* uninitialised: with_ack and the key are whatever the stack held.         *)
MainSendRegistration ==
  /\ Goto("main", "connecting", "idle")
  /\ netLock' = "free"
  /\ \E ack \in BOOLEAN, key \in Keys :
       /\ ack => strays < MaxStray
       /\ strays' = strays + (IF ack THEN 1 ELSE 0)
       /\ Enqueue([body |-> rx.hub, ack |-> ack, key |-> key])
  /\ rx' = None
  /\ UNCHANGED <<taskLock, outMsg, tasks, next, redisCmd, clients, history>>

(* --- out: outgoingMessageListener --------------------------------------- *)
OutAccept ==
  /\ Goto("out", "idle", "sending")
  /\ pending # << >>
  /\ outMsg' = Head(pending) /\ pending' = Tail(pending)
  /\ UNCHANGED <<locks, rx, tasks, next, redisCmd, clients, strays, history>>

OutLock ==
  /\ Goto("out", "sending", "transmitting")
  /\ netLock = "free" /\ netLock' = "out"
  /\ UNCHANGED <<taskLock, pending, outMsg, rx, tasks, next, redisCmd, clients, strays, history>>

OutTransmit ==
  /\ Goto("out", "transmitting", IF outMsg.ack THEN "adding" ELSE "idle")
  /\ netLock' = "free"
  /\ sent' = sent \cup {outMsg.body}
  /\ outMsg' = IF outMsg.ack THEN outMsg ELSE None
  /\ UNCHANGED <<taskLock, pending, rx, tasks, next, redisCmd, clients, strays, issued, settled>>

(* Mutant: apiAddTask without the lock of the resend list.                  *)
OutAddTaskUnlocked ==
  /\ Goto("out", "adding", "idle")
  /\ tasks' = AddTask(tasks, outMsg.key, outMsg.body)
  /\ outMsg' = None
  /\ UNCHANGED <<locks, pending, rx, next, redisCmd, clients, strays, history>>

OutAddTask ==
  /\ Goto("out", "adding", "idle")
  /\ taskLock = "free"
  /\ tasks' = AddTask(tasks, outMsg.key, outMsg.body)
  /\ outMsg' = None
  /\ UNCHANGED <<locks, pending, rx, next, redisCmd, clients, strays, history>>

(* --- exec: nrfActionTaskExecuterWorker ---------------------------------- *)
(* The test of a task's age never fails: its stamp is cut to 16 bits while  *)
(* the clock counts microseconds since 1970.  So a pass resends every task. *)
ExecLock ==
  /\ Goto("exec", "idle", "resending")
  /\ taskLock = "free" /\ taskLock' = "exec"
  /\ Paced => pending = << >> /\ outMsg = None
  /\ UNCHANGED <<netLock, pending, outMsg, rx, tasks, next, redisCmd, clients, strays, history>>

(* Mutant: the copy of a task asks for an acknowledgement of its own.       *)
ExecResendWithAck ==
  /\ At("exec", "resending") /\ next <= Len(tasks)
  /\ Enqueue([body |-> tasks[next].body, ack |-> TRUE, key |-> tasks[next].key])
  /\ next' = next + 1
  /\ UNCHANGED <<pc, locks, outMsg, rx, tasks, redisCmd, clients, strays, history>>

ExecResend ==
  /\ At("exec", "resending") /\ next <= Len(tasks)
  /\ Enqueue([body |-> tasks[next].body, ack |-> FALSE, key |-> NoSensor])
  /\ next' = next + 1
  /\ UNCHANGED <<pc, locks, outMsg, rx, tasks, redisCmd, clients, strays, history>>

ExecUnlock ==
  /\ Goto("exec", "resending", "idle") /\ next > Len(tasks)
  /\ taskLock' = "free" /\ next' = 1
  /\ UNCHANGED <<netLock, pending, outMsg, rx, tasks, redisCmd, clients, strays, history>>

(* --- redis: subCallback, sendSensorCommand ------------------------------ *)
RedisReceive(c) ==
  /\ Goto("redis", "idle", "connecting")
  /\ c \notin issued
  /\ issued' = issued \cup {c} /\ redisCmd' = c
  /\ UNCHANGED <<locks, pending, outMsg, rx, tasks, next, clients, strays, sent, settled>>

RedisSendCommand ==
  /\ Goto("redis", "connecting", "idle")
  /\ Enqueue([body |-> redisCmd, ack |-> TRUE, key |-> SensorOf[redisCmd]])
  /\ redisCmd' = None
  /\ UNCHANGED <<locks, outMsg, rx, tasks, next, clients, strays, history>>

-----------------------------------------------------------------------------
(* What hubs send: an acknowledgement follows a command that was put on the *)
(* air; a hub repeats its connect request only after five seconds, by when  *)
(* (Paced) the answer to the previous one has left the queue.               *)
Answering(h) ==
  \/ \E i \in DOMAIN pending : pending[i].body = h
  \/ outMsg # None /\ outMsg.body = h

CanArrive(p) ==
  /\ IsAck(p) => /\ p.type = "info"
                 /\ \E c \in sent \cap Commands : SensorOf[c] = p.key
  /\ p.type = "req" /\ Paced => ~ Answering(p.hub)

Main  == \/ MainLock \/ MainNoData \/ MainRemoveTask \/ MainRegister \/ MainUpdate
         \/ MainSendRegistration
         \/ \E p \in Packet : CanArrive(p) /\ MainReceive(p)
Out   == OutAccept \/ OutLock \/ OutTransmit \/ OutAddTask
Exec  == ExecLock \/ ExecResend \/ ExecUnlock
Redis == RedisSendCommand \/ \E c \in Commands : RedisReceive(c)

Next == Main \/ Out \/ Exec \/ Redis

Spec == Init /\ [][Next]_vars

(* Each thread runs.  Main sleeps 10 ms and the executor 2 s after giving   *)
(* up their lock, so a thread that waits for a lock, or for a place in the  *)
(* queue, is let in in the end: strong fairness for the next step of each.  *)
Fairness ==
  SF_vars(Main) /\ SF_vars(Out) /\ SF_vars(Exec) /\ SF_vars(RedisSendCommand)

FairSpec == Spec /\ Fairness

-----------------------------------------------------------------------------
TypeOK ==
  /\ pc \in [Threads -> MainLabels \cup OutLabels \cup ExecLabels \cup RedisLabels]
  /\ pc["main"] \in MainLabels /\ pc["out"] \in OutLabels
  /\ pc["exec"] \in ExecLabels /\ pc["redis"] \in RedisLabels
  /\ netLock \in {"free", "main", "out"} /\ taskLock \in {"free", "exec"}
  /\ pending \in Seq(Message) /\ Len(pending) <= QueueCap
  /\ tasks \in Seq(Task) /\ next \in Nat \ {0}
  /\ outMsg \in Message \cup {None} /\ rx \in Packet \cup {None}
  /\ redisCmd \in Commands \cup {None}
  /\ clients \subseteq Hubs /\ strays \in 0..MaxStray
  /\ issued \subseteq Commands /\ sent \subseteq Bodies /\ settled \subseteq Commands

(* Where a request is: with the Redis thread, queued, in the hand of the    *)
(* outgoing thread, or in the resend list.  Copies the executor queued do   *)
(* not count: they carry with_ack = NO.                                     *)
WithRedis(c)  == redisCmd = c
QueuedAt(c)   == {i \in DOMAIN pending : pending[i].body = c /\ pending[i].ack}
InHand(c)     == outMsg # None /\ outMsg.body = c /\ outMsg.ack
TasksOf(c)    == {i \in DOMAIN tasks : tasks[i].body = c}

(* No request taken from Redis is forgotten, whatever the threads do: until *)
(* an acknowledgement settles it, some thread or list still holds it.       *)
NoCommandLost ==
  \A c \in issued \ settled :
    WithRedis(c) \/ QueuedAt(c) # {} \/ InHand(c) \/ TasksOf(c) # {}

(* A request is held in one place only, and once it is settled in none:     *)
(* resending does not breed tasks (the copies are sent with with_ack = NO). *)
HeldOnce ==
  \A c \in Commands :
    /\ \A i, j \in QueuedAt(c) : i = j
    /\ \A i, j \in TasksOf(c) : i = j
    /\ WithRedis(c)        => QueuedAt(c) = {} /\ ~ InHand(c) /\ TasksOf(c) = {}
    /\ QueuedAt(c) # {}    => ~ InHand(c) /\ TasksOf(c) = {}
    /\ InHand(c)           => TasksOf(c) = {}
    /\ c \in settled       => ~ WithRedis(c) /\ QueuedAt(c) = {} /\ ~ InHand(c) /\ TasksOf(c) = {}

(* Each lock is held exactly by the thread that works under it.             *)
LockDiscipline ==
  /\ netLock = "main"  <=> MainListening
  /\ netLock = "out"   <=> At("out", "transmitting")
  /\ taskLock = "exec" <=> At("exec", "resending")

(* While the executor walks the resend list no other thread adds or erases  *)
(* a task: its vector iterator stays valid for the whole pass.              *)
PassSeesStableTasks == [][At("exec", "resending") => tasks' = tasks]_vars

(* Every request taken from Redis is transmitted.                           *)
CommandTransmitted == \A c \in Commands : c \in issued ~> c \in sent

Transmitting(body) == At("out", "transmitting") /\ outMsg.body = body

(* A request without acknowledgement is transmitted again and again.        *)
Retransmitted == \A c \in Commands : TasksOf(c) # {} ~> Transmitting(c) \/ c \in settled

(* A hub whose connect request is being handled is sent the address of the  *)
(* gateway.                                                                 *)
RegistrationSent ==
  \A h \in Hubs : At("main", "connecting") /\ rx.hub = h ~> Transmitting(h)

(* The ledger of the requests, read off the state of the threads.           *)
Stage(c) ==
  IF c \in settled          THEN "settled"
  ELSE IF TasksOf(c) # {}   THEN "tracked"
  ELSE IF c \in sent        THEN "sent"
  ELSE IF c \in issued      THEN "accepted"
  ELSE "new"

Ledger == INSTANCE CommandLedger WITH status <- [c \in Commands |-> Stage(c)]

(* The daemon implements the ledger of requests.                            *)
LedgerSpec == Ledger!Spec
================================================================================
