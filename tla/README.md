# WiseUp in TLA+

Specifications, model-checking configurations and machine-checked proofs for WiseUp,
a home-automation system: Arduino relay hubs, a gateway daemon on a Raspberry Pi,
Redis, a node backend with SQLite, and a Cordova front end. Paths below are relative
to the repository (`src/...`).

```
 relay hub (led_hub.ino)                      x N
      |  nRF24L01, RFComm packets: lossy, one packet a time, FIFO flushed at each send
 wise-nrfd    main | outgoingMessageListener | nrfActionTaskExecuterWorker | Redis subscriber
      |                 UNIX socket /tmp/wiseup/nrf_outgoing_queue between them
      |  Redis: SENSOR-INFO (to the backend), SENSOR-ACTION (to the daemon)
 node backend  redis_adapter.js, sqlite_adapter.js, main.js
      |  REST, server-sent events
 Cordova front end
```

## 1. Inventory

### Gateway daemon, `wise-nrfd`
*Sources:* `src/linux/src/wise-nrfd.cxx`, `wise_client_handler.cxx`,
`nrfTaskMng.cxx`, `wise_ipc.cxx`, and their headers.

*State:* the network lock (`WiseRFComm::m_lock`), the resend list `m_tasks` and its
lock (`nrfActionTaskMng`), the map of clients, the connections waiting on the UNIX
socket, and what each of four threads has in hand.

*Operations:*
- *main* polls the radio under the network lock (`listenForIncoming`) and, still
  under it, handles the packet (`dataHandling`): an acknowledgement removes a task,
  a connect request is answered (`registrationCheck`, `sendRegistration`), data of a
  known client is published;
- *outgoingMessageListener* accepts a connection, transmits the message under the
  network lock and adds a task when the message asks for an acknowledgement;
- *nrfActionTaskExecuterWorker*, every two seconds, writes every task to the socket
  again, holding the lock of the list;
- the *Redis subscriber* turns a SENSOR-ACTION message into an outgoing message.

*Hard:* two locks and a bounded queue between threads that wait on one another; a
task is added by one thread after it is sent by the radio and removed by another; an
iterator over a vector that others change; a message with uninitialised fields.

*Correct when:* no request is lost or duplicated inside the daemon, the locks
exclude, the executor's iteration is undisturbed, every request is transmitted and
transmitted again until it is acknowledged, every registration is answered.

### Relay hub firmware, `led_hub`
*Sources:* `src/embedded/arduino/sensor-hubs/led_hub/led_hub.ino`,
`libraries/WiseUp/sensors/nrf24l01_receiver_handler.h`, `device_methods.h`.

*State:* DISCOVERY or CONNECTED, the server address, the levels of the relays and
the copy last read, the xor checksum last reported, one slot for a pending
acknowledgement, four timestamps.

*Operations:* the packet handler (address, check, command) and `loop ()`: go back to
DISCOVERY after 120 s, send a connect request every 5 s while there, and when
connected read the sensors every second, send data when the checksum changed or 20 s
have passed, and send the pending acknowledgement.

*Hard:* long sequences of packets and timers; one slot for many answers; an address
overwritten during rediscovery and needed after it; a checksum that cannot see some
changes.

*Correct when:* sensor data and answers always go to a gateway; answers tell the
truth; no change stays unreported longer than a keepalive interval; a hub never
stays with a silent gateway; a command carried out is acknowledged.

### Radio link
*Sources:* `src/linux/src/modules/nrf24l01/nrf24l01.cxx`, `wise_rfcomm.hpp`,
`libraries/nRFModule/nRFModule.cpp`, `wise_rfcomm.h`.

*State:* the chip's STATUS bits, mode and two FIFOs (three packets each way), the
driver's `m_ptx` and receive buffer.

*Operations:* poll (`dataReady`, `getData`, the handler) and `sendPacket`
(`configure`, which flushes the receive FIFO, `send`, `dataSending`, `configure`
again), both under one lock, and what the chip does by itself between any two
accesses.

*Hard:* loss on the air, to a full FIFO and to a flush; a status bit left set by
what is no longer there, or cleared for what came since.

*Correct when:* `send` ends with its own packet and no other, the radio goes back to
receiving, every packet the chip took is handled, in its order, or was flushed, and reads of an
empty FIFO are no more than the flushes explain.

### Node backend
*Sources:* `src/node-backend/main.js`, `redis_adapter.js`, `sqlite_adapter.js`.

*State:* the Redis keys (last message of each sensor), four SQLite tables, the
callbacks, commands and statements under way, the listeners of the event streams.

*Operations:* clear Redis at the start; on SENSOR-INFO ask Redis for the stored
message, emit NEW, OLD or nothing, store the message; NEW and OLD become INSERTs and
UPDATEs; the REST routes read the tables and publish SENSOR-ACTION; the event
streams ask Redis for an initial value and then forward the events of a sensor.

*Hard:* the stored value is read asynchronously and used later; the process may die
between Redis and SQLite; messages published meanwhile are gone; an initial value
may come after a newer event, and for a connection that is closed.

*Correct when:* Redis and SQLite end with the last message handled; a sensor that
counts as known has its rows; the database recovers from a death.

### Cordova front end
*Sources:* `src/cordova/www/js/` (`index.js`, the controllers, services and
factories; `angular/` is third-party).

*State:* the list of sensors with the value shown for each, and an EventSource for
each sensor of each list ever shown.

*Operations:* a visit of the page fetches the list, shows it and opens the streams;
an event assigns a value; a click asks for the opposite level.

*Hard:* lists, events, answers and reconnections come in any order; streams outlive
the list they were opened for and write by index.

*Correct when:* once all is delivered the page shows the last value of each sensor
at that sensor.

### The rest
The other hub sketches, the GPIO and SPI wrappers, the display, the Mongo adapter
and prototypes, the daemon parts no build file names, the PHP site, vendored
libraries, hardware designs. None of these is modelled; section 8 says why.

### Interactions
| From | To | By | Modelled in |
|---|---|---|---|
| hub | daemon | radio: request, data, acknowledgement | `WiseUpLink` |
| daemon | hub | radio: gateway address, relay command | `WiseUpLink` |
| driver | chip | SPI: registers and FIFOs | `Nrf24` |
| main, exec, redis | out | connections on the UNIX socket | `NrfDaemon` |
| out, main, exec | resend list | shared vector and its lock | `NrfDaemon` |
| daemon | backend | Redis SENSOR-INFO | environment of `NodeBackend` |
| backend | daemon | Redis SENSOR-ACTION | environment of `NrfDaemon`, `WiseUpLink`; `LiveView` |
| redis_adapter | main.js, SQLite | NEW and OLD events, statements | `NodeBackend` |
| backend | browser | list, server-sent events, answers | `LiveView` |
| browser | backend | GET of the list, the streams, the toggle | `LiveView` |

The hazards, line by line, with the properties aimed at them, are listed in
`PROJECT.json`; those no property covers say why.

## 2. Modules

| Module | Models | Used by |
|---|---|---|
| `ActionTasks` | the resend list: `apiAddTask`, `apiRemoveTask` | `NrfDaemon`, `WiseUpLink` |
| `NrfDaemon` | the four threads, one lock or system call a step | |
| `CommandLedger` | abstract: a request advances new, accepted, sent, tracked, settled | refined by `NrfDaemon` |
| `HubLogic` | the hub's packet handler and one turn of its loop, as operators on its context | `SensorHub`, `WiseUpLink` |
| `SensorHub` | one hub, any packet at any time, time | |
| `WiseUpLink` | the daemon and its hubs over the air, with loss, flushes, deaths of the daemon and hubs that lose power | |
| `RequestChannel` | abstract: a request is pending until carried out and settled, or lost with the daemon | implemented by `WiseUpLink` |
| `Nrf24` | the radio driver on the chip's registers and FIFOs, one access a step | |
| `NodeBackend` | messages, Redis commands and answers, SQLite statements, deaths | `LiveView` |
| `LiveView` | the backend with a browser: lists, event streams, toggles, failing connections | implements `NodeBackend` |
| `MC...` | constants for TLC | the runs |
| `...Proofs` | theorems | |

A definition whose comment begins with *Mutant* is not part of a specification: it
is a plausible bug (a missing lock, a lost reset, an unlimited queue), kept to show
that a property notices it.

### NrfDaemon
`pc` gives where each thread is; a step is what a thread does between two points at
which another can matter: take a lock, accept or connect, change the list. `pending`
is the socket's backlog: `connect()` blocks when it is full (`QueueCap`). main's
whole handler, including `connect()` in `sendRegistration`, runs under the network
lock, as `listenForIncoming` does. `ExecResend` sends every task on every pass: the
code's test of a task's age compares a difference of microseconds since 1970 and a
16-bit stamp, so it never fails. `MainSendRegistration` chooses `with_ack` and the
sensor address freely, since `sendRegistration` never sets them; `MaxStray` bounds
how often the flag reads as set. `WiseIPC` is modelled where it waits, not where it
fails: when `setClient()` returns an error the code drops the message
(`wise_client_handler.cxx:197` and `:248`, `nrfTaskMng.cxx:41`), as it would if the
outgoing thread had not bound its socket. What a hub may send (`CanArrive`) is an
acknowledgement of a command that was on the air, or any request or data.

### HubLogic, SensorHub
A timestamp is kept as its age, which stops at the interval it is compared with;
nothing else is ever asked of it. `Handle` is the packet handler, `Turn` the rest of
`loop ()` with the packets it sends, in order. `Listen` handles at most one packet,
`Loop` does a turn. At most a second passes between turns, as the code's loop turns
many times a second; connecting takes another (`delay (1000)`). Levels are 0 or 1; a
command may carry another byte, which counts as low, as in the code. `Packets` has
commands for relays there are: `nrf24l01_receiver_handler.h:34` uses the port as an
index unchecked, and what is behind the array is not described here.

### WiseUpLink
The hubs run the same `HubLogic`. The daemon's threads take whole steps, because
their interleaving is `NrfDaemon`'s subject. New here is the air. `Transmit(heard)`
chooses whether a packet arrives; `HubLoop(h, heard)` which of the packets of a turn
do, as the increasing sequence of their indices. `Receive` drops what a full FIFO
cannot hold, a `Transmit` empties the gateway's FIFO and each packet of a hub the
hub's. `Crash` empties everything the daemon holds and starts it again; `Reset(h)`
switches a hub off and on, with its relays low, no gateway and nothing in its radio.

`ChannelSpec` says that all of it implements `RequestChannel`: `Progress` gives how far
each request has come, from what the daemon holds. It is more than `SettledExecuted`: a
request that is pending stays so until it is settled, its hub has carried it out then,
one answer settles one request, a settled or lost one is never pending again, and only a
death of the daemon loses any.

### Nrf24
Between the lock of `WiseRFComm`, which one thread at a time holds, and the chip.
`pc` is where the thread with the lock is; each access to the chip is a step and
`Arrive` and `Transmit`, the chip's own, come between any two. Packets are numbered.
A read of an empty FIFO gives what the buffer held before, or nothing with the magic
number. The history variables count flushes that threw packets away and reads that
found nothing.

### NodeBackend
`OnMessage` is the subscriber's callback up to its GET, `OnReply` the callback of
the GET: it emits the event (as the statements `main.js` schedules for it) and
appends the SET. `ServeCommand` is Redis, `RunStatement` SQLite, each in order. An
INSERT of a key that is there fails without effect. `sqlite_adapter.js` runs it without
a callback, so the failure is an `error` event nobody listens to, which would end the
process; it goes on because `config.json` has console-debug catch uncaught exceptions
(`uncaughtExceptionCatch`). The models assume that setting. `Die` loses everything the process has in hand; `Start` sends the
flush `RedisAdapter` sends first.

### LiveView
Extends `NodeBackend`: each of its actions is one of the backend's with what the
browser sees of it, or one of the browser. The GET of a new listener waits on the
same Redis connection as those of the messages; in `commands` and `replies` it has
value None. A stream is a record of the sensor, the index its list gave it, whether
it is connected and what is on its way (`pipe`); a failed connection loses the pipe
and tries again, as EventSource does. `behind` is a history variable: the streams
that were not told the last value, because it was no event of the sensor or because
an initial value came after an event; `untold` is another: the connections that have
not been told a last value since they were made. `Obey` stands for the whole command path.

`ServesAsAlone` says that `LiveView` implements `NodeBackend`: what listeners and
lists put between the backend's own commands, answers and statements is taken out by
`OwnCommands`, `OwnReplies` and `OwnWrites`, and each step is then one of `NodeBackend`
or none. An order the gateway carries out is a change of a level there, so the history
variable `obeyed` counts those that changed one, to keep within the bound on changes.
`Subsequence` and `Rank` say what `SelectSeq` says, by positions instead of by
recursion, so that a prover can reason about them.

## 3. Runs

Passing runs. State counts are TLC's distinct states.

| Run | Checks | Instance | States |
|---|---|---|---|
| `daemon_safety` | `TypeOK NoCommandLost HeldOnce LockDiscipline PassSeesStableTasks LedgerSpec` | one hub, two requests for one sensor, backlog 2, one stray | 256,718 |
| `daemon_drains` | `CommandTransmitted Retransmitted RegistrationSent` | the same, backlog 3, paced | 81,977 |
| `hub` | `TypeOK Addressed ReportedInTime AnswersCurrent NoSilentGateway KeepsCalling LastCommandAnswered` | three relays (so a report takes two packets), two gateways | 36,998 |
| `link_safety` | `TypeOK SettledExecuted ConnectedIsClient ChannelSpec` | a hub with two relays, a request each, FIFOs of 2, one death or reset | 786,700 |
| `link_delivers` | `Delivered Readmitted PublishedInTheEnd` | one relay, one request, FIFOs of 1, one stray task, a backlog of 1, one death or reset | 67,434 |
| `radio` | `RadioTypeOK PhantomsAccounted SendsSettled HandledInOrder NothingOverlooked SendReturns` | a FIFO of 3, five arrivals, three sends | 78,328 |
| `backend_safety` | `TypeOK CachedHasRows CacheCurrent` | two sensors, two messages at once, two changes, one death | 322,277 |
| `view` | `ViewTypeOK SettledShown ConnectionTold DatabaseCurrent ServesAsAlone ViewCatchesUp DatabaseCatchesUp` | one sensor, one message at a time, two visits, one click, one change, one death or failed connection | 638,802 |

What they show:
- *daemon_safety.* Under every interleaving a request is held in exactly one place
  until an acknowledgement settles it; resends do not breed tasks; the executor's
  iterator is never invalidated; and the daemon implements `CommandLedger`. Deadlock
  is not checked here because the daemon really can stop, see `daemon_stalls`.
- *daemon_drains.* As long as the backlog has room for one pass of the executor
  beside one registration, nobody waits forever.
- *hub.* Section 1's properties of a hub. `ReportedInTime` is the one that makes the
  weak checksum acceptable: whatever the checksum misses, a keepalive tells.
- *link_safety.* With one request for a relay, loss, retransmission, late answers and
  a hub that starts anew never settle a request before the hub has carried it out, nor
  drop one or take it up again: the daemon, the air and the hub implement
  `RequestChannel`.
- *link_delivers.* Over fair-loss links every request the daemon has not died with
  is settled; hubs a restarted daemon has forgotten come back, and what is published
  of them becomes their level, also when they lost power in between.
- *radio.* What `dataReady` does with RX_DR is safe: a bit left set costs at most one
  empty read for each flush, and a packet that came while the bit was cleared is found
  in the FIFO. Packets are handled in their order, and one again only by such an
  empty read. What is left in the chip by an earlier transmission never ends
  or replaces a later one.
- *backend_safety.* A process may die between Redis and SQLite without leaving a
  sensor that counts as known and has no row, because Redis is flushed at the start;
  and Redis ends with the last message.
- *view.* When messages are spaced the database follows, and so does the page, in
  whatever order lists, events, initial values and reconnections come. The property
  names the exceptions the code has: a value that was no event of its sensor, an
  initial value that came after an event, and a switch whose request was answered
  last and shows undefined. Of these three hazards the run says nothing: streams in
  `behind` are excepted, an entry may always show undefined, and with one click a switch
  that shows undefined is not clicked. Each connection is told the last value, also when
  the GETs of several wait at once and some of them fail (`ConnectionTold`). With one
  sensor TLC sees two streams for one entry; that a stream is told its own sensor's value
  when there are several is what the theorems say. The browser never disturbs the backend: beside one it still
  implements `NodeBackend`.

Runs that find a violation: each is a disagreement between the code and what a
comment or message in it says, quoted in `PROJECT.json`.

| Run | Property | What happens |
|---|---|---|
| `daemon_stalls` | `RegistrationSent` | With more to resend than the backlog holds, main blocks in `connect()` under the network lock; the thread that would empty the backlog waits for that lock. Everything stops. |
| `link_same_relay` | `SettledExecuted` | Two requests for one relay: an answer names the relay, so the answer to one may settle the other, which no hub has carried out. |
| `backend_overlap` | `DatabaseCurrent` | Two messages of one sensor are both compared with the value before them; a change and its reversal leave the change in the database. |
| `view_misplaced` | `EventsShownAtOwn` | A sensor whose rows were completed after a death of the process moves the others in the list; the streams of the earlier visit write to the old indices. |

Others are visible in the models and have no run. Two commands carried out in
DISCOVERY get one answer: there is one slot (`Relay`). Two relays that change between
two reads leave the xor as it was (`Checksum`; the next keepalive tells). A connected
hub broadcasts again every two minutes, although `wise_client_handler.cxx:131-132`
says it stops (`Rediscover`; it is also what gets it away from a silent gateway).
`main.js:17` archives the first value of a sensor twice (`NewEvent`).

## 4. Bounds, and why they are enough

- *Hubs, sensors, requests.* Hubs and sensors touch the same locks and lists but not
  one another's entries, so one hub with two requests shows the interference there
  is: between requests for one relay (`daemon_*`, `link_same_relay`) and for two
  (`link_safety`). Two registrations at a time cannot be handled by one main thread.
  The proved properties hold for any number.
- *QueueCap.* The kernel holds one more than `listen(fd, 5)`. What matters is
  whether a pass of the executor fits: 2 is too small for two tasks and a
  registration, 3 is enough. In the link it bounds only what enters from outside (2,
  and 1 in `link_delivers`): a pass of the executor is one step there.
- *MaxStray* 1: one registration that enters the resend list is enough to take the
  place of a task or to resend itself for good.
- *Paced* TRUE means that hubs (5 s) and executor (2 s) add only when what they
  added before has left. Without it the backlog can always be full, and the liveness
  runs would show only the stall.
- *Intervals.* 4, 2, 1, 3 s (rediscover, discover, read, keepalive) for the code's
  120, 5, 1, 20 s: the same order, so that reads come between keepalives and a
  keepalive before the rediscovery. The link uses 2, 1, 1, 1: what matters there is
  the order of packets.
- *Relays.* Three with two to a packet make a report of two packets. *Gateways* 2: a
  hub may be answered by another gateway than before.
- *FifoDepth.* The chip holds 3; 2 holds an acknowledgement and another packet, 1 is
  the harshest for liveness. *Depth* 3, *MaxArrivals* 5, *MaxSends* 3 (`Nrf24`): the
  FIFO fills, is flushed and is filled in part again, and a send follows one that was
  given up and one that was not.
- *InFlight* 2: a message is compared with the value before the previous one; 1 in
  `view`, where the database is to be right. *MaxWrites* bounds the statements that
  wait while messages still come; *MaxChanges* 2 is a change and its reversal.
- *MaxDeaths* 1 (`NodeBackend`), *MaxFaults* 1 (`WiseUpLink`: deaths of the daemon
  and resets of hubs together; `LiveView`: deaths of the process and failed
  connections together): a fault at each point of a message's way.
- *MaxVisits* 2: a list replaces another while its streams live. *MaxClicks* 1: the
  level and the page change by it. `view_misplaced` has two sensors, as it takes two
  for an index to be another's; with one, `view` still has two streams for an entry.

## 5. Fairness

- *NrfDaemon.* Strong fairness for the next step of each thread, and for a Redis
  request that waits for a place. main sleeps 10 ms and the executor two seconds
  after giving up their lock, so a thread waiting for it gets in. No request or
  packet need arrive.
- *SensorHub.* The loop turns (weak fairness) and time passes in it (strong
  fairness). No packet need arrive; where an answer is needed the property says so
  (`LastCommandAnswered`).
- *WiseUpLink.* The loops turn, the outgoing thread empties its queue between passes
  (100 ms a packet against a pass every two seconds; `Resend` therefore waits for an
  empty queue, where `nrfTaskMng.cxx` looks at the clock alone), the executor passes, and
  `FairLoss`: of packets of a kind sent again and again some is handled. This is the
  usual assumption of retransmission; the two loops poll every 10 ms and are not in
  step with senders of seconds, so neither the air nor the flushes hit every packet.
  Nothing is assumed of any single packet.
- *Nrf24.* `RadioFairSpec`: a poll or a send that has begun goes on, polls are made
  (main's loop), and a transmission ends, acknowledged or given up, which the chip's
  retry counter bounds. Nothing need arrive and nothing need be sent.
- *NodeBackend, LiveView.* Redis, SQLite and the event loop go on; a dead process is
  started again (by hand or a supervisor: nothing in the repository does it);
  keepalives are published again and again. `ViewFairSpec` adds that connections
  carry what they hold, EventSource connects again (the standard says it does), and
  the gateway carries out what it is asked (`link_delivers`). Nobody need visit the
  page or click.

## 6. Theorems

| Module | Theorem | Says |
|---|---|---|
| `ActionTasksProofs` | `RemoveTaskEffect` | `apiRemoveTask` erases exactly the first task with the key, keeps the order of the others, and leaves a list without one alone |
| `NrfDaemonProofs` | `TypeCorrect`, `LocksHeld`, `PassUndisturbed` | `TypeOK`, `LockDiscipline`, `PassSeesStableTasks` |
| `NrfDaemonLedgerProofs` | `HeldOnlyOnce`, `NothingLost`, `ImplementsLedger` | `HeldOnce`, `NoCommandLost`, `LedgerSpec` |
| `SensorHubProofs` | `HubTypeCorrect`, `AlwaysAddressed`, `AlwaysCurrent` | `TypeOK`, `Addressed`, `AnswersCurrent` |
| `SensorHubProofs` | `AlwaysReportedInTime` | `ReportedInTime`, if sensors are read every second |
| `WiseUpLinkProofs` | `LinkTypes`, `AlwaysClient` | `TypeOK`, `ConnectedIsClient` |
| `WiseUpLinkProofs` | `SettledWhenExecuted`, `ImplementsChannel` | `SettledExecuted` and `ChannelSpec`, if no two requests are for one relay |
| `Nrf24Proofs` | `RadioTypes`, `PhantomsBounded`, `EachSendSettled` | `RadioTypeOK`, `PhantomsAccounted`, `SendsSettled` |
| `Nrf24Proofs` | `AlwaysInOrder` | `HandledInOrder` |
| `Nrf24Proofs` | `NoPacketVanishes` | what the chip took waits, is being handled, was handled or was flushed: the safety half of `NothingOverlooked` |
| `NodeBackendProofs` | `BackendTypes`, `AlwaysCachedHasRows` | `TypeOK`, `CachedHasRows` |
| `NodeBackendProofs` | `AlwaysCacheCurrent` | `CacheCurrent` |
| `NodeBackendProofs` | `PacedDatabaseCurrent` | `DatabaseCurrent`, if one message is in work at a time |
| `LiveViewProofs` | `ViewIsTyped`, `EachConnectionTold` | `ViewTypeOK`, `ConnectionTold` |
| `LiveViewProofs` | `InitialsAlwaysMatch` | the callback of a listener's GET writes to a stream of the sensor asked for, or to none: a statement about several sensors, which no run has |
| `LiveViewProofs` | `OneSensorSettles` | `SettledShown`, if there is one sensor |
| `LiveViewProofs` | `OwnEventsSettle` | `SettledShown` in each behaviour with `EventsShownAtOwn` |
| `LiveViewProofs` | `SteadyEventsShownAtOwn`, `SteadySettledShown` | `EventsShownAtOwn` and `SettledShown` while the process does not die |
| `LiveViewProofs` | `BackendServesAsAlone` | `ServesAsAlone` |
| `LiveViewProofs` | `ViewCachedHasRows` | `CachedHasRows`, with a browser |
| `LiveViewProofs` | `ViewDatabaseCurrent` | `DatabaseCurrent`, with a browser, if one message is in work at a time |

They hold for every value of the constants that satisfies the named assumptions of
the component modules (`ConstantsAssumption`, `NoneAssumption`, `HubConstants`,
`GatewayConstants`, `LinkConstants`, `RadioConstants`, `BackendConstants`,
`ViewConstants`): types of the constants, and that special values (no message, the
broadcast address) are not ordinary ones. Where the table gives a premise of a theorem's
own, a run shows that it is needed: `link_same_relay` that the requests are for different
relays, `backend_overlap` that one message is in work, `view_misplaced` that there is one
sensor or the process does not die. Sensors read every second are how the sketch is
built (`CONNECTED_MODE_READ_SENSORS_INTERVAL`). No theorem assumes fairness, and the
bounds are constants like the others.

The arguments:
- *Types and locks of the daemon.* `TypeOK` alone is not inductive: a step uses the
  message a thread has in hand. The invariant adds `InHandShape` (a thread at a
  label that uses a message has one). `LockDiscipline` is then preserved action by
  action, and `PassUndisturbed` follows because the two actions that change the list
  need its lock, which the executor holds.
- *The ledger.* `NoCommandLost` and `HeldOnce` are not inductive apart: that a
  request enters the resend list in one place needs that it was in the hand of the
  outgoing thread and nowhere else. `Custody` says a request is issued exactly when
  it is held somewhere or settled, is held in one place, and has been transmitted
  exactly when it is past the radio (to be added, in the list, or settled); copies
  in the queue are of requests already transmitted. Each action moves it along this
  chain or not at all, and the step of `CommandLedger` can be read off. Lemmas on
  `Append`, `Tail` and `RemoveTask` carry positions from a list to the next.
- *The hub.* `Addressed` needs that a connected hub has a gateway's address (`Fit`);
  a discovering one sets the broadcast address before it sends. `Fit` is carried
  through each stage of `Turn` by a lemma of its own.
- *No change unreported.* `Prompt` relates the time a level has been unreported to
  the age of the keepalive timer: a connected hub whose gateway does not know all has
  waited less than that timer is old, since connecting makes it a second older while
  nothing counts yet. Between turns the hub's copy of its relays is right; within a
  turn it is right or about to be read, which is where the interval of a second is
  used. `ServeTells` says what a turn's packets tell: with a keepalive everything,
  otherwise the truth of each relay they mention, the answered one included.
- *The link.* `Types` is `TypeOK` with the shape of every packet and task. `Clients`
  says that every registration answer, in the queue, the resend list or a hub's
  radio, is for a client, so that only clients connect. For `SettledExecuted` the
  invariant `Accounted` follows the chain backwards: tasks carry the key of their
  request, a command waiting in a hub's radio is for a relay of that hub, and every
  answer owed, or on its way, is of a relay whose requests have all been carried out.
  A hub that loses power owes nothing, so `Reset` keeps it.
- *The channel.* Beside `Accounted` it takes `Once`: a request is at one position of the
  queue with its flag, or at one of the resend list, and nowhere once settled. Otherwise
  the acknowledgement that takes a task out would leave a copy, and the request would be
  pending and settled at once. `RemovedPositions` (from `RemoveTaskEffect`) says what
  happens to the other tasks.
- *The radio.* `Accounted` says that a read is only begun with a packet or RX_DR,
  and that RX_DR over an empty FIFO is paid for by a flush not yet used up.
  `Transmitting` says that transmitting mode, `m_ptx` and the wait of `dataSending` go
  together, that no bit of an earlier packet is set when the next is loaded, and that
  the FIFO then holds that packet alone.
- *The order of packets.* `Ordered` says that all that wait came after the packet in
  the driver's buffer and those handled, and that what was flushed is nowhere else;
  `Followed` that the buffer, between two reads, holds the last packet handled, so
  that an empty read can repeat no other; `Counted` charges each repetition to an
  empty read, ahead of time while it is being handled, and `Accounted` charges those
  to flushes; `Placed` that every packet is in one of the four places.
- *The backend's rows.* A sensor found in Redis has its rows; but the reply that finds
  it, or the SET that stores it, may still be under way. `Backed` says it of each:
  every stored value, every SET not served and every value found in a reply is of a
  sensor that has its rows or whose statements are scheduled; and a flush not served
  is ahead of every other command, with no SET behind it and no reply, so that what
  the previous process left is never found.
- *The backend's values.* `Cached` says that the last SET of a sensor under way is of
  its last message, or there is none and Redis has that value: it holds however GETs
  overlap. With one message in work, `Single` says where that message is, so that the
  value a reply found is the last one handled; `Written` then says that the last
  value is in the database or the last statement scheduled for it writes it, also
  when an INSERT fails on a row an earlier process left.
- *Initial values.* Which callback belongs to which GET is a matter of position: the
  answers to listeners wait in `replies`, their GETs in `commands`, and `asked` holds the
  streams in the order of both. `Matched` gives the callback of the GET of rank n, and
  each action moves ranks by one at most; the lemmas on `Rank` and `Subsequence` (what
  `Append`, `Tail` and joining do to them) carry the rest. A failed connection leaves 0
  in place of its stream, as the callback keeps a response that is closed. `Waiting`
  rests on it: a connection that has not been told the last value waits for the answer
  to its own GET, which by `InitialsRight` (below) brings it, or it missed a value.
- *The page.* The invariant `ViewCurrent` follows the last value of a sensor to the page.
  `InitialsRight`: the GET of a stream that has been told nothing and missed nothing since
  it connected finds the last value handled, or has found it (`Finds` looks at what is
  ahead of it, down to the flush). `LastTold`: what such a stream holds ends with that
  value. `Sourced`: each entry has a stream of its own sensor. `Shown`: an entry that
  shows something else has a stream that will still bring the value, or one that missed
  it. Once settled, only the last case is left, which the property excepts. `Deliver`
  preserves `Shown` only when the entry is the sensor's own; hence the premise.
- *Entries and rows.* `InOrder`: while the process lives the INSERT into `sensor_data` is
  scheduled right behind the one of the row, so every row but the newest has a value, no
  list is read between the two, and every list, page and stream has the index of the row.
- *A backend with a browser is a backend.* Each action of `LiveView` is one of
  `NodeBackend` on what `Own...` leaves, or none of it; `Counted` bounds the orders
  carried out by the clicks. The theorems of the backend are then instantiated with the
  same substitution as the refinement and carried back, since nothing quiet in `LiveView`
  has anything of the backend's own under way.

## 7. Only model-checked

- Liveness (in `hub`, `daemon_drains`, `link_delivers`, `radio`, `view`): outside the
  prover's reach.
- `SettledShown` of several sensors across a death of the process is not claimed:
  `view_misplaced` shows what goes wrong.
- What a recursive definition or a fold computes for every input needs an induction
  the provers cannot use; the list operators proved about are therefore stated by
  positions.

## 8. Not modelled, and why

- *The start of the daemon.* Its threads start before main has created the objects
  they use; a thread that follows a pointer not yet set has no behaviour to describe.
- *The byte layout of packets*, and so a packet with a malformed size; channel, rate
  and address set-up and the beacon mode of the radio.
- *A socket that cannot be connected to* (`setClient()` failing): the message is
  dropped without a trace, so no property of delivery would hold, and nothing else.
- *The limit of connections to a host* in a browser, which is the browser's.
- *The favourite flag and name of a sensor*, the rules in `sqlite_adapter.js` no route
  uses, the side menu and presentation of the front end. *The history table* is
  written and never read.
- *Hubs without authentication* and *the other hub sketches.* Prototypes with loops of
  their own on the same library: a noise filter, no acknowledgement, 433 MHz.
  `led_hub` is the one with the whole protocol.
- *GPIO and SPI* wrap files and a device, straight-line code called in one order.
- *The PHP site.* An earlier front end on stored procedures that are not in the
  repository. Its own scripts poll a page every 20 seconds and keep no state; the
  rest of its JavaScript, which is most of the JavaScript in the repository, is
  third-party.
- *Display, Mongo adapter, prototypes, unbuilt daemon parts*: not started, not loaded
  or not built. *Vendored libraries and hardware designs*: not this program.

## 9. What could follow

The models cover the path from the relay to the page and back. Further work, in the
order of what it would add:

1. The composition of `NodeBackend` with `WiseUpLink`, so that `Obey` is the link
   itself: the state spaces multiply, and the interface between them (one published
   message, one action) is already what each takes from its environment.
2. An abstract register per sensor that the backend implements with one message in
   work: the invariants of section 6 are the refinement's.
3. The variants of the hub, for the resending that never ends without an
   acknowledgement (`tl_led_hub`).

## 10. Running

```
tlc -workers 2 -config NrfDaemonSafety.cfg MCNrfDaemon
tlapm NrfDaemonLedgerProofs.tla
```
