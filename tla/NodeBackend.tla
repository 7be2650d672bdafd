------------------------------ MODULE NodeBackend ------------------------------
(***************************************************************************)
(* The node backend: RedisAdapter turns SENSOR-INFO messages into NEW and   *)
(* OLD events, main.js turns these into SQLite statements.  Node runs one   *)
(* callback at a time; between a GET and its reply any other callback may   *)
(* run.  Redis serves the commands of the connection in order and answers   *)
(* in order; SQLite runs the statements in order (serialize).               *)
(***************************************************************************)
EXTENDS Naturals, Sequences, FiniteSets

CONSTANTS
  Sensors, Values,
  None,         \* no key, no row
  Initial,      \* the level of each sensor at first
  InFlight,     \* bound: SENSOR-INFO messages of the process in work at once
  MaxWrites,    \* bound: a message comes when at most so many statements wait
  MaxChanges,   \* bound: changes of a sensor's level
  MaxDeaths     \* bound: deaths of the process

ASSUME BackendConstants ==
  /\ None \notin Values \cup Sensors /\ Initial \in [Sensors -> Values]
  /\ InFlight \in Nat \ {0} /\ MaxWrites \in Nat /\ MaxChanges \in Nat /\ MaxDeaths \in Nat

VARIABLES
  level,      \* what the gateway daemon publishes of each sensor
  alive,      \* the process runs
  inbox,      \* SENSOR-INFO messages the subscriber has not handled
  commands,   \* sent on the client connection, not yet served by Redis
  replies,    \* answers to GET the process has not handled
  store,      \* the Redis keys: the last message of each sensor
  writes,     \* SQLite statements scheduled
  info, data, \* the sensors in sensor_info, the values in sensor_data
  handled,    \* history: value of the last message handled since the start
  changes, deaths

process == <<inbox, commands, replies, writes, handled>>
database == <<info, data>>
world == <<level, changes>>
vars == <<world, alive, process, store, database, deaths>>

Nothing == [s \in Sensors |-> None]

Flush == [op |-> "flush"]

Init ==
  /\ level = Initial /\ alive = TRUE
  /\ inbox = << >> /\ commands = <<Flush>> /\ replies = << >> /\ writes = << >>
  /\ store = Nothing /\ info = {} /\ data = Nothing /\ handled = Nothing
  /\ changes = 0 /\ deaths = 0

-----------------------------------------------------------------------------
(* Outside: the level changes; the daemon publishes it, at the change and as*)
(* a keepalive.  A message nobody is subscribed to is gone.                 *)
Change(s) ==
  /\ changes < MaxChanges /\ changes' = changes + 1
  /\ \E v \in Values \ {level[s]} : level' = [level EXCEPT ![s] = v]
  /\ UNCHANGED <<alive, process, store, database, deaths>>

Gets   == Cardinality({i \in DOMAIN commands : commands[i].op = "get"})
InWork == Len(inbox) + Gets + Len(replies)

Publish(s) ==
  /\ InWork < InFlight /\ Len(writes) <= MaxWrites
  /\ inbox' = IF alive THEN Append(inbox, [id |-> s, value |-> level[s]]) ELSE inbox
  /\ UNCHANGED <<world, alive, commands, replies, writes, handled, store, database, deaths>>

(* Redis.  A GET is answered with what is stored when it is served.         *)
ServeCommand ==
  /\ commands # << >> /\ commands' = Tail(commands)
  /\ LET c == Head(commands)
     IN  /\ replies' = IF c.op = "get"
                       THEN Append(replies,
                              [id |-> c.id, value |-> c.value, found |-> store[c.id]])
                       ELSE replies
         /\ store' = CASE c.op = "flush" -> Nothing
                       [] c.op = "set"   -> [store EXCEPT ![c.id] = c.value]
                       [] c.op = "get"   -> store
  /\ UNCHANGED <<world, alive, inbox, writes, handled, database, deaths>>

(* SQLite.  An INSERT of a key that is there fails: an error event without  *)
(* a listener, which the process survives because config.json has uncaught  *)
(* exceptions caught.  An UPDATE of a key that is not there changes nothing;*)
(* nothing reads sensor_data_history.                                       *)
RunStatement ==
  /\ writes # << >> /\ writes' = Tail(writes)
  /\ LET w == Head(writes)
     IN  /\ info' = IF w.op = "create" THEN info \cup {w.id} ELSE info
         /\ data' = IF \/ w.op = "insert" /\ data[w.id] = None
                       \/ w.op = "update" /\ data[w.id] # None
                    THEN [data EXCEPT ![w.id] = w.value] ELSE data
  /\ UNCHANGED <<world, alive, inbox, commands, replies, handled, store, deaths>>

-----------------------------------------------------------------------------
(* Mutant: the id is taken from the text of the message.                    *)
OnMessageUnparsed ==
  /\ inbox # << >> /\ inbox' = Tail(inbox)
  /\ commands' = Append(commands, [op |-> "get", id |-> None, value |-> Head(inbox).value])
  /\ UNCHANGED <<world, alive, replies, writes, handled, store, database, deaths>>

(* The process.  On a message: ask Redis what was stored for the sensor.    *)
OnMessage ==
  /\ inbox # << >> /\ inbox' = Tail(inbox)
  /\ commands' = Append(commands,
       [op |-> "get", id |-> Head(inbox).id, value |-> Head(inbox).value])
  /\ UNCHANGED <<world, alive, replies, writes, handled, store, database, deaths>>

(* The handler of the sensor channel in main.js, as the statements it runs. *)
Statements(ops, r) == [i \in DOMAIN ops |-> [op |-> ops[i], id |-> r.id, value |-> r.value]]

OldEvent == <<"update", "archive">>
NewEvent == <<"create", "insert", "update", "archive", "update", "archive">>

(* Mutant: only a new sensor is stored.                                     *)
OnReplyStoreNew ==
  /\ replies # << >> /\ replies' = Tail(replies)
  /\ LET r == Head(replies)
     IN  /\ writes' = writes \o Statements(IF r.found = None THEN NewEvent
                                           ELSE IF r.found # r.value THEN OldEvent ELSE << >>, r)
         /\ commands' = IF r.found = None
                        THEN Append(commands, [op |-> "set", id |-> r.id, value |-> r.value])
                        ELSE commands
         /\ handled' = [handled EXCEPT ![r.id] = r.value]
  /\ UNCHANGED <<world, alive, inbox, store, database, deaths>>

(* The callback of GET: no event when the value is the stored one; in every *)
(* case the message is stored.                                              *)
OnReply ==
  /\ replies # << >> /\ replies' = Tail(replies)
  /\ LET r == Head(replies)
     IN  /\ writes' = writes \o Statements(IF r.found = None THEN NewEvent
                                           ELSE IF r.found # r.value THEN OldEvent ELSE << >>, r)
         /\ commands' = Append(commands, [op |-> "set", id |-> r.id, value |-> r.value])
         /\ handled' = [handled EXCEPT ![r.id] = r.value]
  /\ UNCHANGED <<world, alive, inbox, store, database, deaths>>

(* The process dies with what it has in hand, and is started again: it      *)
(* clears Redis before anything else.                                       *)
Die ==
  /\ alive /\ deaths < MaxDeaths /\ deaths' = deaths + 1
  /\ alive' = FALSE
  /\ inbox' = << >> /\ commands' = << >> /\ replies' = << >> /\ writes' = << >>
  /\ handled' = Nothing
  /\ UNCHANGED <<world, store, database>>

(* Mutant: Redis is left as it is.                                          *)
StartUnflushed ==
  /\ ~ alive /\ alive' = TRUE
  /\ UNCHANGED <<world, process, store, database, deaths>>

Start ==
  /\ ~ alive /\ alive' = TRUE /\ commands' = <<Flush>>
  /\ UNCHANGED <<world, inbox, replies, writes, handled, store, database, deaths>>

Next ==
  \/ \E s \in Sensors : Change(s) \/ Publish(s)
  \/ ServeCommand \/ RunStatement \/ OnMessage \/ OnReply \/ Die \/ Start

Spec == Init /\ [][Next]_vars

(* Redis, SQLite and the event loop go on, a process that died is started   *)
(* again, and a hub's keepalive comes every few seconds.                    *)
FairSpec ==
  /\ Spec
  /\ WF_vars(ServeCommand) /\ WF_vars(RunStatement) /\ WF_vars(OnMessage) /\ WF_vars(OnReply)
  /\ WF_vars(Start) /\ \A s \in Sensors : SF_vars(Publish(s))

-----------------------------------------------------------------------------
Message == [id : Sensors, value : Values]

TypeOK ==
  /\ level \in [Sensors -> Values] /\ alive \in BOOLEAN
  /\ inbox \in Seq(Message)
  /\ \A i \in DOMAIN commands :
       commands[i] = Flush \/ commands[i] \in [op : {"get", "set"}, id : Sensors, value : Values]
  /\ replies \in Seq([id : Sensors, value : Values, found : Values \cup {None}])
  /\ writes \in Seq([op : {"create", "insert", "update", "archive"}, id : Sensors, value : Values])
  /\ store \in [Sensors -> Values \cup {None}] /\ info \subseteq Sensors
  /\ data \in [Sensors -> Values \cup {None}] /\ handled \in [Sensors -> Values \cup {None}]
  /\ changes \in 0..MaxChanges /\ deaths \in 0..MaxDeaths

Pending(op, s) == \E i \in DOMAIN writes : writes[i].op = op /\ writes[i].id = s
Flushing       == \E i \in DOMAIN commands : commands[i].op = "flush"

(* A sensor the process finds in Redis is never announced as NEW again, so  *)
(* it must have its rows or get them: otherwise every later UPDATE is lost. *)
(* A process that dies between storing a sensor and inserting its rows      *)
(* relies on the flush at the next start.                                   *)
CachedHasRows ==
  alive /\ ~ Flushing =>
    \A s \in Sensors : store[s] # None =>
      /\ s \in info \/ Pending("create", s)
      /\ data[s] # None \/ Pending("insert", s)

Quiet == alive /\ InWork = 0 /\ commands = << >> /\ writes = << >>

(* However the GETs of several messages overlap, Redis ends with the last.  *)
CacheCurrent == Quiet => \A s \in Sensors : handled[s] # None => store[s] = handled[s]

(* "Check if sensor data was changed" (RedisAdapter): once it has worked off*)
(* its messages, the database has the value of the last one.                *)
DatabaseCurrent == Quiet => \A s \in Sensors : handled[s] # None => data[s] = handled[s]

(* When the levels stay as they are the database has them in the end, also  *)
(* those published while the process was down or lost with it.              *)
DatabaseCatchesUp == \A s \in Sensors : <>[](data[s] = level[s])
================================================================================
