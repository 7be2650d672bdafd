------------------------------- MODULE LiveView -------------------------------
(***************************************************************************)
(* The node backend with one browser: the list of sensors the application   *)
(* fetches, the EventSource it opens for each of them, and the toggles.     *)
(* Values travel from RedisAdapter's events over one connection a sensor;   *)
(* a connection keeps order, connections among each other do not.           *)
(* On the connection to Redis the GET of a new listener waits among those   *)
(* of the messages; here it is the one with value None.                     *)
(***************************************************************************)
EXTENDS NodeBackend

CONSTANTS
  Undefined,   \* what an entry shows when its value was assigned undefined
  NaN,         \* what parseInt makes of that
  Opposite,    \* of a level
  MaxVisits,   \* bound: visits of the sensors page
  MaxClicks,   \* bound: clicks on a switch
  MaxFaults    \* bound: deaths of the process and failed connections together

ASSUME ViewConstants ==
  /\ {Undefined, NaN} \cap (Values \cup {None}) = {} /\ Undefined # NaN
  /\ Opposite \in [Values -> Values]
  /\ MaxVisits \in Nat /\ MaxClicks \in Nat /\ MaxFaults \in Nat

VARIABLES
  rows,      \* the sensors in the order of their rows in sensor_info
  listings,  \* answers to GET /api/sensors on their way
  page,      \* sensorsService.sensors
  streams,   \* the EventSources, in the order they were created
  asked,     \* the streams whose initial GET is not answered; 0: one closed since
  requests,  \* GET /api/sensors/:id/:action on their way
  orders,    \* actions published that the gateway and its hubs have not done
  answers,   \* answers to those requests on their way
  behind,    \* history: streams that were not told the last value handled
  untold,    \* history: streams told no last value since they connected
  obeyed,    \* history: orders that changed a level
  visits, clicks, drops

(* The n-th of a set of positions of a sequence is the one of rank n.  What  *)
(* stands at a set of positions, in their order.                             *)
Rank(P, i) == Cardinality({j \in P : j <= i})

Subsequence(q, P) ==
  [n \in 1..Cardinality(P) |-> q[CHOOSE i \in P : Rank(P, i) = n]]

(* The GETs of new listeners that Redis has not served, the answers to such  *)
(* GETs not handled, and the statements that list the sensors.               *)
InitialGets    == {i \in DOMAIN commands : commands[i].op = "get" /\ commands[i].value = None}
InitialReplies == {i \in DOMAIN replies : replies[i].value = None}
Selects        == {i \in DOMAIN writes : writes[i].op = "select"}

live    == <<streams, asked, behind, untold>>
toggles == <<requests, orders, answers, clicks>>
backend == <<world, alive, process, store, database, deaths>>
viewVars == <<backend, rows, listings, page, live, toggles, obeyed, visits, drops>>

ViewInit ==
  /\ Init /\ rows = << >> /\ listings = {} /\ page = << >>
  /\ streams = << >> /\ asked = << >> /\ behind = {} /\ untold = {}
  /\ requests = {} /\ orders = << >> /\ answers = {}
  /\ visits = 0 /\ clicks = 0 /\ drops = 0 /\ obeyed = 0

-----------------------------------------------------------------------------
(* What goes on in NodeBackend without the browser.                         *)
Unseen ==
  /\ (\E s \in Sensors : Change(s) \/ Publish(s)) \/ ServeCommand \/ OnMessage \/ Start
  /\ UNCHANGED <<rows, listings, page, live, toggles, obeyed, visits, drops>>

Listeners(s) == {k \in DOMAIN streams : streams[k].open /\ streams[k].id = s}

(* self.emit: the value is written to every response that listens.          *)
Emitted(s, v) ==
  [k \in DOMAIN streams |->
     IF k \in Listeners(s)
     THEN [streams[k] EXCEPT !.pipe = Append(@, v), !.spoke = TRUE] ELSE streams[k]]

(* Only a value that differs from the stored one is an event of the sensor; *)
(* a NEW sensor is announced on the channel of all sensors alone.           *)
MessageReply ==
  /\ replies # << >> /\ Head(replies).value # None /\ OnReply
  /\ LET r == Head(replies)
         L == Listeners(r.id)
     IN  IF r.found \notin {None, r.value}
         THEN /\ streams' = Emitted(r.id, r.value)
              /\ behind' = behind \ L /\ untold' = untold \ L
         ELSE /\ UNCHANGED <<streams, untold>>
              /\ behind' = IF r.value # handled[r.id] THEN behind \cup L ELSE behind
  /\ UNCHANGED <<rows, listings, page, asked, toggles, obeyed, visits, drops>>

(* Mutant: what Redis answers is written as it is.                          *)
ListenerReplyUnchecked ==
  /\ replies # << >> /\ Head(replies).value = None
  /\ replies' = Tail(replies) /\ asked' = Tail(asked)
  /\ LET k == Head(asked)
     IN  streams' = IF k # 0 THEN [streams EXCEPT ![k].pipe = Append(@, Head(replies).found)]
                    ELSE streams
  /\ UNCHANGED <<world, alive, inbox, commands, writes, handled, store, database, deaths,
                 behind, untold, rows, listings, page, toggles, obeyed, visits, drops>>

(* Mutant: the callback stores what it found, as that of a message does.    *)
ListenerReplyStores ==
  /\ replies # << >> /\ Head(replies).value = None
  /\ replies' = Tail(replies) /\ asked' = Tail(asked)
  /\ LET k == Head(asked)
         r == Head(replies)
     IN  IF k # 0 /\ r.found # None
         THEN /\ streams' = [streams EXCEPT ![k].pipe = Append(@, r.found)]
              /\ commands' = Append(commands, [op |-> "set", id |-> r.id, value |-> r.found])
              /\ behind' = IF streams[k].spoke THEN behind \cup {k} ELSE behind
         ELSE UNCHANGED <<streams, commands, behind>>
  /\ UNCHANGED <<world, alive, inbox, writes, handled, store, database, deaths,
                 untold, rows, listings, page, toggles, obeyed, visits, drops>>

(* The callback of GetSensorValue: the initial value, if Redis has one.     *)
ListenerReply ==
  /\ replies # << >> /\ Head(replies).value = None
  /\ replies' = Tail(replies) /\ asked' = Tail(asked)
  /\ LET k == Head(asked)
         v == Head(replies).found
     IN  IF k # 0 /\ v # None
         THEN /\ streams' = [streams EXCEPT ![k].pipe = Append(@, v)]
              /\ behind' = IF streams[k].spoke THEN behind \cup {k} ELSE behind
              /\ untold' = IF v = handled[streams[k].id] THEN untold \ {k} ELSE untold
         ELSE UNCHANGED <<streams, behind, untold>>
  /\ UNCHANGED <<world, alive, inbox, commands, writes, handled, store, database, deaths,
                 rows, listings, page, toggles, obeyed, visits, drops>>

(* Mutant: no initial value.                                                *)
ConnectOnly(k) ==
  /\ alive /\ ~ streams[k].open
  /\ streams' = [streams EXCEPT ![k].open = TRUE, ![k].spoke = FALSE]
  /\ behind' = behind \ {k} /\ untold' = untold \cup {k}
  /\ UNCHANGED <<backend, asked, rows, listings, page, toggles, obeyed, visits, drops>>

(* Mutant: the response is kept where all requests share it, as msgid is.   *)
ConnectShared(k) ==
  /\ alive /\ ~ streams[k].open
  /\ streams' = [streams EXCEPT ![k].open = TRUE, ![k].spoke = FALSE]
  /\ commands' = Append(commands, [op |-> "get", id |-> streams[k].id, value |-> None])
  /\ asked' = [i \in 1..(Len(asked) + 1) |-> k]
  /\ behind' = behind \ {k} /\ untold' = untold \cup {k}
  /\ UNCHANGED <<world, alive, inbox, replies, writes, handled, store, database, deaths,
                 rows, listings, page, toggles, obeyed, visits, drops>>

(* The route /sse/sensor/:id: ask for the initial value, then listen.       *)
Connect(k) ==
  /\ alive /\ ~ streams[k].open
  /\ streams' = [streams EXCEPT ![k].open = TRUE, ![k].spoke = FALSE]
  /\ commands' = Append(commands, [op |-> "get", id |-> streams[k].id, value |-> None])
  /\ asked' = Append(asked, k) /\ behind' = behind \ {k} /\ untold' = untold \cup {k}
  /\ UNCHANGED <<world, alive, inbox, replies, writes, handled, store, database, deaths,
                 rows, listings, page, toggles, obeyed, visits, drops>>

Closed(st) == [st EXCEPT !.open = FALSE, !.pipe = << >>]

(* A connection fails: the listener is removed; the EventSource will try    *)
(* again.  The answer to its GET goes to a response that is closed.         *)
Drop(k) ==
  /\ streams[k].open /\ deaths + drops < MaxFaults /\ drops' = drops + 1
  /\ streams' = [streams EXCEPT ![k] = Closed(@)]
  /\ asked' = [i \in DOMAIN asked |-> IF asked[i] = k THEN 0 ELSE asked[i]]
  /\ untold' = untold \ {k}
  /\ UNCHANGED <<backend, behind, rows, listings, page, toggles, obeyed, visits>>

(* The process dies, and every connection with it.                          *)
Perish ==
  /\ Die /\ deaths + drops < MaxFaults
  /\ streams' = [k \in DOMAIN streams |-> Closed(streams[k])]
  /\ asked' = << >> /\ requests' = {} /\ untold' = {}
  /\ UNCHANGED <<behind, rows, listings, page, orders, answers, clicks, obeyed, visits, drops>>

(* SQLite: a row of sensor_info is inserted behind the others.              *)
Statement ==
  /\ RunStatement /\ Head(writes).op # "select"
  /\ rows' = IF Head(writes).op = "create" /\ Head(writes).id \notin info
             THEN Append(rows, Head(writes).id) ELSE rows
  /\ UNCHANGED <<listings, page, live, toggles, obeyed, visits, drops>>

(* GetAllSensors: the join with sensor_data, read in the order of           *)
(* sensor_info; a sensor without a value is left out.                       *)
Joined ==
  LET both == Subsequence(rows, {i \in DOMAIN rows : data[rows[i]] # None})
  IN  [i \in DOMAIN both |-> [id |-> both[i], value |-> data[both[i]]]]

GetAllSensors ==
  /\ RunStatement /\ Head(writes).op = "select"
  /\ listings' = listings \cup {[visit |-> Head(writes).value, sensors |-> Joined]}
  /\ UNCHANGED <<rows, page, live, toggles, obeyed, visits, drops>>

-----------------------------------------------------------------------------
(* The application.  Each visit of the page makes a controller, which asks  *)
(* for all sensors; without a server it fails and nothing happens.          *)
Visit ==
  /\ alive /\ visits < MaxVisits /\ visits' = visits + 1
  /\ writes' = Append(writes, [op |-> "select", id |-> None, value |-> visits'])
  /\ UNCHANGED <<world, alive, inbox, commands, replies, handled, store, database, deaths,
                 rows, listings, page, live, toggles, obeyed, drops>>

Source(i, s) == [idx |-> i, id |-> s, open |-> FALSE, spoke |-> FALSE, pipe |-> << >>]

(* The list arrives: it replaces the one shown, and an EventSource is opened*)
(* for each entry.  Those of earlier visits are not closed.                 *)
Show(l) ==
  /\ listings' = listings \ {l} /\ page' = l.sensors
  /\ streams' = streams \o [i \in DOMAIN l.sensors |-> Source(i, l.sensors[i].id)]
  /\ UNCHANGED <<backend, rows, asked, behind, untold, toggles, obeyed, visits, drops>>

(* onmessage: the value is assigned to the entry with the index of the      *)
(* stream; where there is none the callback throws.                         *)
Deliver(k) ==
  /\ streams[k].pipe # << >>
  /\ streams' = [streams EXCEPT ![k].pipe = Tail(@)]
  /\ page' = [i \in DOMAIN page |-> IF i = streams[k].idx
                THEN [page[i] EXCEPT !.value = Head(streams[k].pipe)] ELSE page[i]]
  /\ UNCHANGED <<backend, rows, listings, asked, behind, untold, toggles, obeyed, visits, drops>>

Toggled(v) == IF v = Undefined THEN NaN ELSE Opposite[v]

Click(i) ==
  /\ clicks < MaxClicks /\ clicks' = clicks + 1
  /\ requests' = requests \cup
       {[n |-> clicks', id |-> page[i].id, action |-> Toggled(page[i].value)]}
  /\ UNCHANGED <<backend, rows, listings, page, live, orders, answers, obeyed, visits, drops>>

(* The route /api/sensors/:id/:action publishes the action and answers with *)
(* the id; the gateway cannot parse NaN and drops it.                       *)
Act(r) ==
  /\ alive /\ requests' = requests \ {r}
  /\ orders' = IF r.action = NaN THEN orders
               ELSE Append(orders, [id |-> r.id, level |-> r.action])
  /\ answers' = answers \cup {[n |-> r.n, id |-> r.id]}
  /\ UNCHANGED <<backend, rows, listings, page, live, clicks, obeyed, visits, drops>>

(* The gateway and the hub.                                                 *)
Obey ==
  /\ orders # << >> /\ orders' = Tail(orders)
  /\ LET o == Head(orders)
     IN  /\ level' = [level EXCEPT ![o.id] = o.level]
         /\ obeyed' = IF level[o.id] # o.level THEN obeyed + 1 ELSE obeyed
  /\ UNCHANGED <<changes, alive, process, store, database, deaths,
                 rows, listings, page, live, requests, answers, clicks, visits, drops>>

(* setValue with an answer that has no value.                               *)
Answered(a) ==
  /\ answers' = answers \ {a}
  /\ page' = [i \in DOMAIN page |-> IF page[i].id = a.id
                THEN [page[i] EXCEPT !.value = Undefined] ELSE page[i]]
  /\ UNCHANGED <<backend, rows, listings, live, requests, orders, clicks, obeyed, visits, drops>>

ViewNext ==
  \/ Unseen \/ MessageReply \/ ListenerReply \/ Perish \/ Statement \/ GetAllSensors \/ Visit
  \/ \E k \in DOMAIN streams : Connect(k) \/ Drop(k) \/ Deliver(k)
  \/ \E l \in listings : Show(l)
  \/ \E i \in DOMAIN page : Click(i)
  \/ \E r \in requests : Act(r)
  \/ \E a \in answers : Answered(a)
  \/ Obey

ViewSpec == ViewInit /\ [][ViewNext]_viewVars

(* As FairSpec; besides, connections carry what they hold, an EventSource   *)
(* that lost its connection tries again, and the gateway does what is asked.*)
ViewFairSpec ==
  /\ ViewSpec
  /\ WF_viewVars(ServeCommand /\ Unseen) /\ WF_viewVars(OnMessage /\ Unseen)
  /\ WF_viewVars(Start /\ Unseen) /\ \A s \in Sensors : SF_viewVars(Publish(s) /\ Unseen)
  /\ WF_viewVars(MessageReply) /\ WF_viewVars(ListenerReply)
  /\ WF_viewVars(Statement) /\ WF_viewVars(GetAllSensors)
  /\ WF_viewVars(\E k \in DOMAIN streams : Connect(k))
  /\ WF_viewVars(\E k \in DOMAIN streams : Deliver(k))
  /\ WF_viewVars(\E l \in listings : Show(l)) /\ WF_viewVars(\E r \in requests : Act(r))
  /\ WF_viewVars(\E a \in answers : Answered(a)) /\ WF_viewVars(Obey)

-----------------------------------------------------------------------------
Stream == [idx : Nat, id : Sensors, open : BOOLEAN, spoke : BOOLEAN, pipe : Seq(Values)]
Entry  == [id : Sensors, value : Values \cup {Undefined}]

ViewTypeOK ==
  /\ rows \in Seq(Sensors) /\ page \in Seq(Entry) /\ streams \in Seq(Stream)
  /\ asked \in Seq(0..Len(streams)) /\ behind \cup untold \subseteq DOMAIN streams
  /\ \A l \in listings : l.sensors \in Seq([id : Sensors, value : Values])
  /\ \A r \in requests : r.id \in Sensors /\ r.action \in Values \cup {NaN}
  /\ orders \in Seq([id : Sensors, level : Values])

(* Redis answers in order: each GET of a listener that is under way has its *)
(* callback, the first unanswered one the first, and the callback writes to *)
(* a stream of the sensor that was asked for, or to one closed since.       *)
InitialsMatch ==
  LET waiting == Subsequence(replies, InitialReplies) \o Subsequence(commands, InitialGets)
  IN  /\ Len(asked) = Len(waiting)
      /\ \A i \in DOMAIN asked : asked[i] # 0 => streams[asked[i]].id = waiting[i].id

(* The commands, answers and statements without those of listeners and       *)
(* listings.                                                                 *)
OwnCommands == Subsequence(commands, DOMAIN commands \ InitialGets)
OwnReplies  == Subsequence(replies, DOMAIN replies \ InitialReplies)
OwnWrites   == Subsequence(writes, DOMAIN writes \ Selects)

Alone == INSTANCE NodeBackend WITH
  changes <- changes + obeyed, MaxChanges <- MaxChanges + MaxClicks,
  commands <- OwnCommands, replies <- OwnReplies, writes <- OwnWrites

(* What the process does for the browser leaves the rest of it as it is: of  *)
(* its own commands, answers and statements each step is one of NodeBackend  *)
(* or none.  An order that the gateway carries out is a change of a level.   *)
ServesAsAlone == Alone!Spec

(* "sid X received sse" (sensorsController): the entry at the index of a    *)
(* stream is the sensor the stream is of, whatever lists were shown since.  *)
EventsShownAtOwn ==
  \A k \in DOMAIN streams :
    streams[k].idx \in DOMAIN page => page[streams[k].idx].id = streams[k].id

Settled ==
  /\ Quiet /\ asked = << >> /\ listings = {} /\ answers = {}
  /\ \A k \in DOMAIN streams : streams[k].open /\ streams[k].pipe = << >>

StreamsOf(s) == {k \in DOMAIN streams : streams[k].id = s}
Told(s)      == StreamsOf(s) \cap behind = {}

(* Once all is delivered the page shows the last value of each sensor,      *)
(* however the events, the initial values, the lists and the reconnections  *)
(* came: except a sensor whose new value was no event of its own (it was    *)
(* NEW, or compared with a value out of date), one whose initial value came *)
(* after an event, and a switch whose request was answered last.            *)
SettledShown ==
  Settled => \A i \in DOMAIN page :
    LET s == page[i].id
    IN  handled[s] # None /\ Told(s) => page[i].value \in {handled[s], Undefined}

(* "initial sse value from redis" (main.js): once all is delivered each      *)
(* connection to a sensor whose value is known was told the last one, as an *)
(* event or by the callback of its own GET, whichever connections, failures *)
(* and messages came between.  (Except one that was not told a NEW sensor.) *)
ConnectionTold ==
  Settled => \A k \in untold \ behind : handled[streams[k].id] = None

(* When the levels stay as they are a page that was told them shows them.   *)
ViewCatchesUp ==
  <>[](\A i \in DOMAIN page :
         Told(page[i].id) => page[i].value \in {level[page[i].id], Undefined})
================================================================================
