--------------------------- MODULE NodeBackendProofs ---------------------------
(***************************************************************************)
(* The backend's types, that what it finds in Redis has its rows, and what  *)
(* Redis and SQLite end with: Redis with the last message handled, for any  *)
(* overlap of messages; SQLite too, when a message comes only after the one *)
(* before it was answered.                                                  *)
(***************************************************************************)
EXTENDS NodeBackend, SequenceTheorems, FiniteSetTheorems, TLAPS

(* What the model holds in queues, as sequences of these.                   *)
Command   == {Flush} \cup [op : {"get", "set"}, id : Sensors, value : Values]
Reply     == [id : Sensors, value : Values, found : Values \cup {None}]
Write == [op : {"create", "insert", "update", "archive"}, id : Sensors, value : Values]

Types ==
  /\ level \in [Sensors -> Values] /\ alive \in BOOLEAN
  /\ inbox \in Seq(Message) /\ commands \in Seq(Command)
  /\ replies \in Seq(Reply) /\ writes \in Seq(Write)
  /\ store \in [Sensors -> Values \cup {None}] /\ info \subseteq Sensors
  /\ data \in [Sensors -> Values \cup {None}] /\ handled \in [Sensors -> Values \cup {None}]
  /\ changes \in 0..MaxChanges /\ deaths \in 0..MaxDeaths

(* The head and the tail of a sequence, and where the elements of a tail and*)
(* of an extended sequence come from.                                       *)
LEMMA HeadTail ==
  ASSUME NEW S, NEW q \in Seq(S), q # << >>
  PROVE  /\ Head(q) \in S /\ Tail(q) \in Seq(S) /\ Head(q) = q[1] /\ 1 \in DOMAIN q
         /\ \A i \in DOMAIN Tail(q) : i + 1 \in DOMAIN q /\ Tail(q)[i] = q[i + 1]
         /\ \A i \in DOMAIN q : i # 1 => i - 1 \in DOMAIN Tail(q) /\ Tail(q)[i - 1] = q[i]
BY HeadTailProperties, SMT

LEMMA AppendElements ==
  ASSUME NEW S, NEW q \in Seq(S), NEW e \in S
  PROVE  /\ Append(q, e) \in Seq(S)
         /\ \A i \in DOMAIN Append(q, e) :
              \/ i \in DOMAIN q /\ Append(q, e)[i] = q[i]
              \/ i = Len(q) + 1 /\ Append(q, e)[i] = e
         /\ \A i \in DOMAIN q : i \in DOMAIN Append(q, e) /\ Append(q, e)[i] = q[i]
BY AppendProperties, SMT

(* The statements of an event, for a message of a sensor.                   *)
LEMMA EventStatements ==
  ASSUME NEW r \in Reply
  PROVE  /\ Statements(NewEvent, r) \in Seq(Write) /\ Statements(OldEvent, r) \in Seq(Write)
         /\ \E i \in DOMAIN Statements(NewEvent, r) :
              /\ Statements(NewEvent, r)[i].op = "create" /\ Statements(NewEvent, r)[i].id = r.id
         /\ \E i \in DOMAIN Statements(NewEvent, r) :
              /\ Statements(NewEvent, r)[i].op = "insert" /\ Statements(NewEvent, r)[i].id = r.id
<1>1. OldEvent = <<"update", "archive">>
  BY DEF OldEvent
<1>2. NewEvent = <<"create", "insert", "update", "archive", "update", "archive">>
  BY DEF NewEvent
<1>3. /\ DOMAIN Statements(OldEvent, r) = 1..2 /\ DOMAIN Statements(NewEvent, r) = 1..6
      /\ Len(Statements(OldEvent, r)) = 2 /\ Len(Statements(NewEvent, r)) = 6
  BY <1>1, <1>2 DEF Statements
<1>4. \A i \in 1..2 : Statements(OldEvent, r)[i] = [op |-> OldEvent[i], id |-> r.id, value |-> r.value]
  BY <1>1 DEF Statements
<1>5. \A i \in 1..6 : Statements(NewEvent, r)[i] = [op |-> NewEvent[i], id |-> r.id, value |-> r.value]
  BY <1>2 DEF Statements
<1>6. \A i \in 1..2 : OldEvent[i] \in {"update", "archive"}
  BY <1>1
<1>7. \A i \in 1..6 : NewEvent[i] \in {"create", "insert", "update", "archive"}
  BY <1>2
<1>8. r.id \in Sensors /\ r.value \in Values
  BY DEF Reply
<1>9. NewEvent[1] = "create" /\ NewEvent[2] = "insert"
  BY <1>2
<1>10. Statements(OldEvent, r) \in Seq(Write)
  BY <1>1, <1>4, <1>6, <1>8 DEF Statements, Write
<1>11. Statements(NewEvent, r) \in Seq(Write)
  BY <1>2, <1>5, <1>7, <1>8 DEF Statements, Write
<1>12. \E i \in DOMAIN Statements(NewEvent, r) :
         /\ Statements(NewEvent, r)[i].op = "create" /\ Statements(NewEvent, r)[i].id = r.id
  <2>1. 1 \in DOMAIN Statements(NewEvent, r)
    BY <1>3
  <2> QED
    BY <2>1, <1>5, <1>9
<1>13. \E i \in DOMAIN Statements(NewEvent, r) :
         /\ Statements(NewEvent, r)[i].op = "insert" /\ Statements(NewEvent, r)[i].id = r.id
  <2>1. 2 \in DOMAIN Statements(NewEvent, r)
    BY <1>3
  <2> QED
    BY <2>1, <1>5, <1>9
<1> QED
  BY <1>10, <1>11, <1>12, <1>13

-----------------------------------------------------------------------------
(* Types.                                                                   *)
LEMMA InitTypes == Init => Types
<1> SUFFICES ASSUME Init PROVE Types
  OBVIOUS
<1>1. commands \in Seq(Command)
  BY DEF Init, Command
<1>2. inbox \in Seq(Message) /\ replies \in Seq(Reply) /\ writes \in Seq(Write)
  BY DEF Init
<1> QED
  BY <1>1, <1>2, BackendConstants DEF Init, Types, Nothing

LEMMA StepTypes ==
  ASSUME Types, [Next]_vars
  PROVE  Types'
<1> USE DEF Types, world, process, database
<1>1. ASSUME NEW s \in Sensors, Change(s) PROVE Types'
  BY <1>1, BackendConstants DEF Change
<1>2. ASSUME NEW s \in Sensors, Publish(s) PROVE Types'
  <2>1. [id |-> s, value |-> level[s]] \in Message
    BY DEF Message
  <2> QED
    BY <1>2, <2>1, AppendElements DEF Publish
<1>3. ASSUME ServeCommand PROVE Types'
  <2> DEFINE c == Head(commands)
  <2>1. c \in Command /\ commands' \in Seq(Command)
    BY <1>3, HeadTail DEF ServeCommand
  <2>2. CASE c.op = "get"
    <3>1. c.id \in Sensors /\ c.value \in Values
      BY <2>1, <2>2 DEF Command, Flush
    <3>2. [id |-> c.id, value |-> c.value, found |-> store[c.id]] \in Reply
      BY <3>1 DEF Reply
    <3>3. replies' \in Seq(Reply)
      BY <1>3, <2>2, <3>2, AppendElements DEF ServeCommand
    <3> QED
      BY <1>3, <2>1, <2>2, <3>3 DEF ServeCommand
  <2>3. CASE c.op = "set"
    <3>1. c.id \in Sensors /\ c.value \in Values
      BY <2>1, <2>3 DEF Command, Flush
    <3> QED
      BY <1>3, <2>1, <2>3, <3>1 DEF ServeCommand
  <2>4. CASE c.op = "flush"
    BY <1>3, <2>1, <2>4 DEF ServeCommand, Nothing
  <2> QED
    BY <2>1, <2>2, <2>3, <2>4 DEF Command, Flush
<1>4. ASSUME RunStatement PROVE Types'
  <2>1. Head(writes) \in Write /\ writes' \in Seq(Write)
    BY <1>4, HeadTail DEF RunStatement
  <2>2. info' \subseteq Sensors /\ data' \in [Sensors -> Values \cup {None}]
    BY <1>4, <2>1 DEF RunStatement, Write
  <2> QED
    BY <1>4, <2>1, <2>2 DEF RunStatement
<1>5. ASSUME OnMessage PROVE Types'
  <2>1. Head(inbox) \in Message /\ inbox' \in Seq(Message)
    BY <1>5, HeadTail DEF OnMessage
  <2>2. [op |-> "get", id |-> Head(inbox).id, value |-> Head(inbox).value] \in Command
    BY <2>1 DEF Message, Command
  <2> QED
    BY <1>5, <2>1, <2>2, AppendElements DEF OnMessage
<1>6. ASSUME OnReply PROVE Types'
  <2> DEFINE r == Head(replies)
  <2>1. r \in Reply /\ replies' \in Seq(Reply)
    BY <1>6, HeadTail DEF OnReply
  <2>2. [op |-> "set", id |-> r.id, value |-> r.value] \in Command
    BY <2>1 DEF Reply, Command
  <2>3. commands' \in Seq(Command)
    BY <1>6, <2>2, AppendElements DEF OnReply
  <2>4. writes' \in Seq(Write)
    <3> DEFINE e == Statements(IF r.found = None THEN NewEvent
                               ELSE IF r.found # r.value THEN OldEvent ELSE << >>, r)
    <3>1. Statements(<< >>, r) \in Seq(Write)
      BY DEF Statements
    <3>2. e \in Seq(Write)
      <4>1. CASE r.found = None
        BY <4>1, <2>1, EventStatements
      <4>2. CASE r.found # None /\ r.found # r.value
        BY <4>2, <2>1, EventStatements
      <4>3. CASE r.found # None /\ r.found = r.value
        BY <4>3, <3>1
      <4> QED
        BY <4>1, <4>2, <4>3
    <3>3. writes' = writes \o e
      BY <1>6 DEF OnReply
    <3> HIDE DEF e
    <3> QED
      BY <3>2, <3>3, ConcatProperties
  <2>5. handled' \in [Sensors -> Values \cup {None}]
    BY <1>6, <2>1 DEF OnReply, Reply
  <2>6. UNCHANGED <<level, changes, alive, inbox, store, info, data, deaths>>
    BY <1>6 DEF OnReply
  <2> QED
    BY <2>1, <2>3, <2>4, <2>5, <2>6
<1>7. ASSUME Die PROVE Types'
  <2>0. alive' \in BOOLEAN
    BY <1>7 DEF Die
  <2>1. deaths' \in 0..MaxDeaths
    <3>1. deaths \in 0..MaxDeaths /\ deaths < MaxDeaths /\ deaths' = deaths + 1 /\ MaxDeaths \in Nat
      BY <1>7, BackendConstants DEF Die
    <3> QED
      BY <3>1
  <2>2. handled' \in [Sensors -> Values \cup {None}]
    BY <1>7 DEF Die, Nothing
  <2>3. inbox' \in Seq(Message) /\ commands' \in Seq(Command) /\ replies' \in Seq(Reply)
    BY <1>7 DEF Die
  <2>4. writes' \in Seq(Write) /\ UNCHANGED <<level, changes, store, info, data>>
    BY <1>7 DEF Die
  <2> QED
    BY <2>0, <2>1, <2>2, <2>3, <2>4
<1>8. ASSUME Start PROVE Types'
  BY <1>8 DEF Start, Command
<1>9. CASE UNCHANGED vars
  BY <1>9 DEF vars
<1> QED
  BY <1>1, <1>2, <1>3, <1>4, <1>5, <1>6, <1>7, <1>8, <1>9 DEF Next

(* The state is well typed: whatever GET answers, the statements and        *)
(* commands made from it have a sensor and a value.                         *)
THEOREM BackendTypes == Spec => []TypeOK
<1>1. Types => TypeOK
  BY DEF Types, TypeOK, Command, Reply, Write
<1>2. Spec => []Types
  BY InitTypes, StepTypes, PTL DEF Spec
<1> QED
  BY <1>1, <1>2, PTL

-----------------------------------------------------------------------------
(* What Redis holds has rows.  The fact travels with a message: the callback*)
(* that stores it has scheduled its rows or seen an earlier one stored, so  *)
(* every SET on its way and every value found is of a sensor with rows.     *)
HasRows(s) ==
  /\ s \in info \/ Pending("create", s)
  /\ data[s] # None \/ Pending("insert", s)

Backed ==
  /\ \A i \in DOMAIN commands : commands[i].op = "set" => HasRows(commands[i].id)
  /\ \A i \in DOMAIN replies : replies[i].found # None => HasRows(replies[i].id)
  /\ alive /\ ~ Flushing => \A s \in Sensors : store[s] # None => HasRows(s)
  /\ \A i \in DOMAIN commands : commands[i].op = "flush" => i = 1
  /\ Flushing => replies = << >> /\ \A i \in DOMAIN commands : commands[i].op # "set"
  /\ ~ alive => inbox = << >> /\ commands = << >> /\ replies = << >> /\ writes = << >>

LEMMA RowsKept ==
  ASSUME NEW s \in Sensors, HasRows(s), UNCHANGED <<info, data>>,
         \A i \in DOMAIN writes : i \in DOMAIN writes' /\ writes'[i] = writes[i]
  PROVE  HasRows(s)'
BY DEF HasRows, Pending

(* SQLite keeps a sensor's rows, or makes the pending ones.                 *)
LEMMA RowsMade ==
  ASSUME Types, RunStatement, NEW s \in Sensors, HasRows(s)
  PROVE  HasRows(s)'
<1> DEFINE w == Head(writes)
<1>1. w \in Write /\ w = writes[1]
  BY HeadTail DEF Types, RunStatement
<1>2. \A i \in DOMAIN writes : i # 1 => i - 1 \in DOMAIN writes' /\ writes'[i - 1] = writes[i]
  BY HeadTail DEF Types, RunStatement
<1>3. s \in info' \/ Pending("create", s)'
  <2>1. CASE s \in info
    BY <2>1 DEF RunStatement
  <2>2. CASE Pending("create", s)
    <3> PICK i \in DOMAIN writes : writes[i].op = "create" /\ writes[i].id = s
      BY <2>2 DEF Pending
    <3>1. CASE i = 1
      BY <3>1, <1>1 DEF RunStatement
    <3>2. CASE i # 1
      BY <3>2, <1>2 DEF Pending
    <3> QED
      BY <3>1, <3>2
  <2> QED
    BY <2>1, <2>2 DEF HasRows
<1>4. data'[s] # None \/ Pending("insert", s)'
  <2>0. \A v \in Values : v # None
    BY BackendConstants
  <2>1. CASE data[s] # None
    BY <2>0, <2>1, <1>1 DEF RunStatement, Types, Write
  <2>2. CASE Pending("insert", s) /\ data[s] = None
    <3> PICK i \in DOMAIN writes : writes[i].op = "insert" /\ writes[i].id = s
      BY <2>2 DEF Pending
    <3>1. CASE i = 1
      BY <3>1, <2>0, <2>2, <1>1 DEF RunStatement, Types, Write
    <3>2. CASE i # 1
      BY <3>2, <1>2 DEF Pending
    <3> QED
      BY <3>1, <3>2
  <2> QED
    BY <2>1, <2>2 DEF HasRows
<1> QED
  BY <1>3, <1>4 DEF HasRows

LEMMA InitBacked == Init => Backed
<1> SUFFICES ASSUME Init PROVE Backed
  OBVIOUS
<1>1. commands = <<Flush>> /\ Len(commands) = 1 /\ commands[1].op = "flush" /\ DOMAIN commands = 1..1
  BY DEF Init, Flush
<1>2. Flushing
  BY <1>1 DEF Flushing
<1>3. replies = << >> /\ alive
  BY DEF Init
<1> QED
  BY <1>1, <1>2, <1>3 DEF Backed

(* Redis: what a SET stores and what a GET finds is of a sensor with rows.  *)
LEMMA ServeBacked ==
  ASSUME Types, Backed, ServeCommand
  PROVE  Backed'
<1> DEFINE c == Head(commands)
<1>0. commands \in Seq(Command) /\ replies \in Seq(Reply) /\ commands # << >>
  BY DEF Types, ServeCommand
<1>1. c \in Command /\ c = commands[1] /\ 1 \in DOMAIN commands
  BY <1>0, HeadTail
<1>2. \A i \in DOMAIN commands' : i + 1 \in DOMAIN commands /\ commands'[i] = commands[i + 1] /\ i \in Nat \ {0}
  BY <1>0, HeadTail DEF ServeCommand
<1>3. \A s \in Sensors : HasRows(s) => HasRows(s)'
  BY DEF ServeCommand, HasRows, Pending, process, database
<1>4. ~ Flushing'
  BY <1>2 DEF Flushing, Backed
<1>5. ASSUME NEW i \in DOMAIN commands', commands'[i].op = "set"
      PROVE  HasRows(commands[i].id)'
  <2>1. commands[i + 1] \in Command /\ commands[i + 1].op = "set"
    BY <1>0, <1>2, <1>5
  <2>2. commands[i + 1].id \in Sensors /\ HasRows(commands[i + 1].id)
    BY <2>1, <1>2 DEF Backed, Command, Flush
  <2> QED
    BY <2>2, <1>2, <1>3, <1>5 DEF ServeCommand, HasRows, Pending, process, database
<1>6. alive
  BY <1>0 DEF Backed
<1>7. c.op # "flush" => ~ Flushing
  BY <1>1 DEF Flushing, Backed
<1>8. \A s \in Sensors : store'[s] # None => HasRows(s)
  <2>1. CASE c.op = "flush"
    BY <2>1 DEF ServeCommand, Nothing
  <2>2. CASE c.op = "set"
    <3>1. c.id \in Sensors /\ HasRows(c.id)
      BY <2>2, <1>1 DEF Backed, Command, Flush
    <3> QED
      BY <2>2, <3>1, <1>6, <1>7 DEF ServeCommand, Backed, Types
  <2>3. CASE c.op = "get"
    BY <2>3, <1>6, <1>7 DEF ServeCommand, Backed
  <2> QED
    BY <2>1, <2>2, <2>3, <1>1 DEF Command, Flush
<1>9. ASSUME NEW i \in DOMAIN replies', replies'[i].found # None
      PROVE  HasRows(replies[i].id)'
  <2>1. \A j \in DOMAIN replies : replies[j] \in Reply
    BY <1>0
  <2>2. \A j \in DOMAIN replies :
          replies[j].found # None => replies[j].id \in Sensors /\ HasRows(replies[j].id)
    BY <2>1 DEF Reply, Backed
  <2>3. replies'[i].id \in Sensors /\ HasRows(replies'[i].id)
    <3>1. CASE c.op = "get"
      <4> DEFINE r == [id |-> c.id, value |-> c.value, found |-> store[c.id]]
      <4>1. c.id \in Sensors /\ c.value \in Values
        BY <3>1, <1>1 DEF Command, Flush
      <4>2. r \in Reply /\ replies' = Append(replies, r)
        BY <3>1, <4>1 DEF ServeCommand, Types, Reply
      <4>3. r.found # None => HasRows(r.id)
        BY <3>1, <4>1, <1>6, <1>7 DEF Backed
      <4>4. r.id \in Sensors
        BY <4>1
      <4> HIDE DEF r
      <4> QED
        BY <4>2, <4>3, <4>4, <2>2, <1>0, <1>9, AppendElements
    <3>2. CASE c.op # "get"
      BY <3>2, <2>2, <1>9 DEF ServeCommand
    <3> QED
      BY <3>1, <3>2
  <2> QED
    BY <2>3 DEF ServeCommand, HasRows, Pending, process, database
<1>10. \A i \in DOMAIN commands' : commands'[i].op # "flush"
  BY <1>4 DEF Flushing
<1>11. alive'
  BY <1>6 DEF ServeCommand
<1>12. \A s \in Sensors : store'[s] # None => HasRows(s)'
  BY <1>3, <1>8
<1> QED
  BY <1>4, <1>5, <1>9, <1>10, <1>11, <1>12 DEF Backed

(* The callback schedules the rows of a sensor it announces before it stores*)
(* the message.                                                             *)
LEMMA ReplyBacked ==
  ASSUME Types, Backed, OnReply
  PROVE  Backed'
<1> DEFINE r == Head(replies)
           e == Statements(IF r.found = None THEN NewEvent
                           ELSE IF r.found # r.value THEN OldEvent ELSE << >>, r)
           set == [op |-> "set", id |-> r.id, value |-> r.value]
<1>0. /\ commands \in Seq(Command) /\ replies \in Seq(Reply) /\ replies # << >>
      /\ writes \in Seq(Write)
  BY DEF Types, OnReply
<1>1. r \in Reply /\ r = replies[1] /\ 1 \in DOMAIN replies
  BY <1>0, HeadTail
<1>2. r.id \in Sensors /\ set \in Command /\ set.op = "set" /\ set.id = r.id
  BY <1>1 DEF Reply, Command
<1>3. ~ Flushing /\ alive
  BY <1>0 DEF Backed
<1>4. e \in Seq(Write)
  <2>1. Statements(<< >>, r) \in Seq(Write)
    BY DEF Statements
  <2>2. CASE r.found = None
    BY <2>2, <1>1, EventStatements
  <2>3. CASE r.found # None /\ r.found # r.value
    BY <2>3, <1>1, EventStatements
  <2>4. CASE r.found # None /\ r.found = r.value
    BY <2>4, <2>1
  <2> QED
    BY <2>2, <2>3, <2>4
<1>5. writes' = writes \o e
  BY DEF OnReply
<1>6. commands' = Append(commands, set)
  BY DEF OnReply
<1>7. \A i \in DOMAIN writes : i \in DOMAIN writes' /\ writes'[i] = writes[i]
  <2> HIDE DEF e
  <2> QED
    BY <1>0, <1>4, <1>5, ConcatProperties
<1>8. \A i \in DOMAIN e : i + Len(writes) \in DOMAIN writes' /\ writes'[i + Len(writes)] = e[i]
  <2> HIDE DEF e
  <2> QED
    BY <1>0, <1>4, <1>5, ConcatProperties
<1>9. \A s \in Sensors : HasRows(s) => HasRows(s)'
  BY <1>7, RowsKept DEF OnReply, database
<1>10. ASSUME NEW s \in Sensors, s = r.id PROVE HasRows(s)'
  <2>1. CASE r.found = None
    <3>1. \E i \in DOMAIN e : e[i].op = "create" /\ e[i].id = s
      BY <2>1, <1>1, <1>10, EventStatements
    <3>2. \E i \in DOMAIN e : e[i].op = "insert" /\ e[i].id = s
      BY <2>1, <1>1, <1>10, EventStatements
    <3> HIDE DEF e
    <3>3. \E i \in DOMAIN writes' : writes'[i].op = "create" /\ writes'[i].id = s
      BY <3>1, <1>8
    <3>4. \E i \in DOMAIN writes' : writes'[i].op = "insert" /\ writes'[i].id = s
      BY <3>2, <1>8
    <3> QED
      BY <3>3, <3>4 DEF HasRows, Pending
  <2>2. CASE r.found # None
    BY <2>2, <1>1, <1>9, <1>10 DEF Backed
  <2> QED
    BY <2>1, <2>2
<1>11. ASSUME NEW i \in DOMAIN commands', commands'[i].op = "set", NEW s \in Sensors,
              s = commands'[i].id
       PROVE  HasRows(s)'
  <2>1. CASE i \in DOMAIN commands /\ commands'[i] = commands[i]
    BY <2>1, <1>9, <1>11 DEF Backed
  <2>2. CASE commands'[i] = set
    BY <2>2, <1>2, <1>10, <1>11
  <2> HIDE DEF set
  <2> QED
    BY <2>1, <2>2, <1>0, <1>2, <1>6, AppendElements
<1>12. \A i \in DOMAIN commands' : commands'[i] \in Command
  <2> HIDE DEF set
  <2> QED
    BY <1>0, <1>2, <1>6, AppendElements
<1>13. \A i \in DOMAIN commands' : commands'[i].op = "set" => HasRows(commands[i].id)'
  <2> SUFFICES ASSUME NEW i \in DOMAIN commands', commands'[i].op = "set"
               PROVE  HasRows(commands[i].id)'
    OBVIOUS
  <2>1. commands'[i].id \in Sensors
    BY <1>12 DEF Command, Flush
  <2> QED
    BY <2>1, <1>11 DEF HasRows, Pending
<1>14. \A i \in DOMAIN replies' : replies'[i].found # None => HasRows(replies[i].id)'
  <2> SUFFICES ASSUME NEW i \in DOMAIN replies', replies'[i].found # None
               PROVE  HasRows(replies[i].id)'
    OBVIOUS
  <2>1. i + 1 \in DOMAIN replies /\ replies'[i] = replies[i + 1]
    BY <1>0, HeadTail DEF OnReply
  <2>2. replies[i + 1] \in Reply
    BY <2>1, <1>0
  <2>3. replies'[i].id \in Sensors /\ HasRows(replies'[i].id)
    BY <2>1, <2>2 DEF Backed, Reply
  <2>4. PICK s \in Sensors : s = replies'[i].id
    BY <2>3
  <2>5. HasRows(s)'
    BY <2>3, <2>4, <1>9
  <2> QED
    BY <2>4, <2>5 DEF HasRows, Pending
<1>15. \A i \in DOMAIN commands' : commands'[i].op # "flush"
  <2> SUFFICES ASSUME NEW i \in DOMAIN commands' PROVE commands'[i].op # "flush"
    OBVIOUS
  <2>1. CASE i \in DOMAIN commands /\ commands'[i] = commands[i]
    BY <2>1, <1>3 DEF Flushing
  <2>2. CASE commands'[i] = set
    BY <2>2
  <2> HIDE DEF set
  <2> QED
    BY <2>1, <2>2, <1>0, <1>2, <1>6, AppendElements
<1>16. ~ Flushing' /\ alive'
  BY <1>3, <1>15 DEF Flushing, OnReply
<1>17. \A s \in Sensors : store'[s] # None => HasRows(s)'
  BY <1>3, <1>9 DEF Backed, OnReply
<1> QED
  BY <1>13, <1>14, <1>15, <1>16, <1>17 DEF Backed

LEMMA StepBacked ==
  ASSUME Types, Backed, [Next]_vars
  PROVE  Backed'
<1> USE DEF process, database, world
<1>1. ASSUME NEW s \in Sensors, Change(s) PROVE Backed'
  BY <1>1 DEF Change, Backed, HasRows, Pending, Flushing
<1>2. ASSUME NEW s \in Sensors, Publish(s) PROVE Backed'
  BY <1>2 DEF Publish, Backed, HasRows, Pending, Flushing
<1>3. ASSUME ServeCommand PROVE Backed'
  BY <1>3, ServeBacked
<1>4. ASSUME RunStatement PROVE Backed'
  <2>1. \A s \in Sensors : HasRows(s) => HasRows(s)'
    BY <1>4, RowsMade
  <2>2. UNCHANGED <<alive, inbox, commands, replies, store>>
    BY <1>4 DEF RunStatement
  <2>3. \A i \in DOMAIN commands : commands[i].op = "set" => commands[i].id \in Sensors
    <3>1. \A i \in DOMAIN commands : commands[i] \in Command
      BY DEF Types
    <3> QED
      BY <3>1 DEF Command, Flush
  <2>4. \A i \in DOMAIN replies : replies[i].id \in Sensors
    <3>1. \A i \in DOMAIN replies : replies[i] \in Reply
      BY DEF Types
    <3> QED
      BY <3>1 DEF Reply
  <2>5. ASSUME NEW i \in DOMAIN commands', commands'[i].op = "set"
        PROVE  HasRows(commands[i].id)'
    <3>1. commands[i].id \in Sensors /\ HasRows(commands[i].id)
      BY <2>2, <2>3, <2>5 DEF Backed
    <3>2. PICK s \in Sensors : s = commands[i].id /\ HasRows(s)
      BY <3>1
    <3>3. HasRows(s)'
      BY <2>1, <3>2
    <3> QED
      BY <2>2, <3>2, <3>3 DEF HasRows, Pending
  <2>6. ASSUME NEW i \in DOMAIN replies', replies'[i].found # None
        PROVE  HasRows(replies[i].id)'
    <3>1. replies[i].id \in Sensors /\ HasRows(replies[i].id)
      BY <2>2, <2>4, <2>6 DEF Backed
    <3>2. PICK s \in Sensors : s = replies[i].id /\ HasRows(s)
      BY <3>1
    <3>3. HasRows(s)'
      BY <2>1, <3>2
    <3> QED
      BY <2>2, <3>2, <3>3 DEF HasRows, Pending
  <2>7. Flushing' = Flushing
    BY <2>2 DEF Flushing
  <2>8. alive
    BY <1>4 DEF Backed, RunStatement
  <2> QED
    BY <2>1, <2>2, <2>5, <2>6, <2>7, <2>8 DEF Backed
<1>5. ASSUME OnMessage PROVE Backed'
  <2> DEFINE get == [op |-> "get", id |-> Head(inbox).id, value |-> Head(inbox).value]
  <2>1. Head(inbox) \in Message
    BY <1>5, HeadTail DEF OnMessage, Types
  <2>2. get \in Command /\ get.op = "get"
    BY <2>1 DEF Message, Command
  <2>3. commands \in Seq(Command) /\ commands' = Append(commands, get)
    BY <1>5 DEF OnMessage, Types
  <2> HIDE DEF get
  <2>4. \A i \in DOMAIN commands' : commands'[i].op # "get" => i \in DOMAIN commands /\ commands'[i] = commands[i]
    BY <2>2, <2>3, AppendElements
  <2>5. \A i \in DOMAIN commands : i \in DOMAIN commands' /\ commands'[i] = commands[i]
    BY <2>2, <2>3, AppendElements
  <2>6. Flushing' = Flushing
    BY <2>4, <2>5 DEF Flushing
  <2>7. UNCHANGED <<alive, replies, writes, store, info, data>> /\ alive
    BY <1>5 DEF OnMessage, Backed
  <2>8. ASSUME NEW i \in DOMAIN commands', commands'[i].op = "set"
        PROVE  HasRows(commands[i].id)'
    <3>1. commands'[i] = commands[i] /\ HasRows(commands[i].id)
      BY <2>4, <2>8 DEF Backed
    <3> QED
      BY <3>1, <2>7 DEF HasRows, Pending
  <2>9. ASSUME NEW i \in DOMAIN replies', replies'[i].found # None
        PROVE  HasRows(replies[i].id)'
    BY <2>7, <2>9 DEF Backed, HasRows, Pending
  <2>10. \A s \in Sensors : HasRows(s) => HasRows(s)'
    BY <2>7 DEF HasRows, Pending
  <2> QED
    BY <2>4, <2>6, <2>7, <2>8, <2>9, <2>10 DEF Backed
<1>6. ASSUME OnReply PROVE Backed'
  BY <1>6, ReplyBacked
<1>7. ASSUME Die PROVE Backed'
  BY <1>7 DEF Die, Backed, Flushing
<1>8. ASSUME Start PROVE Backed'
  <2>1. commands' = <<Flush>> /\ Len(commands') = 1 /\ commands'[1].op = "flush" /\ DOMAIN commands' = 1..1
    BY <1>8 DEF Start, Flush
  <2>2. Flushing'
    BY <2>1 DEF Flushing
  <2>3. replies' = << >> /\ alive'
    BY <1>8 DEF Start, Backed
  <2> QED
    BY <2>1, <2>2, <2>3 DEF Backed
<1>9. CASE UNCHANGED vars
  BY <1>9 DEF vars, Backed, HasRows, Pending, Flushing
<1> QED
  BY <1>1, <1>2, <1>3, <1>4, <1>5, <1>6, <1>7, <1>8, <1>9 DEF Next

(* A sensor whose value Redis holds has its rows in the database, or the    *)
(* statements that make them are scheduled: also when the process died      *)
(* between storing the one and writing the other.                           *)
THEOREM AlwaysCachedHasRows == Spec => []CachedHasRows
<1>1. Backed => CachedHasRows
  BY DEF Backed, CachedHasRows, HasRows
<1>2. Spec => [](Types /\ Backed)
  BY InitTypes, StepTypes, InitBacked, StepBacked, PTL DEF Spec
<1> QED
  BY <1>1, <1>2, PTL

-----------------------------------------------------------------------------
(* What Redis ends with.  The lemmas hold as well where a GET may come      *)
(* without a value.                                                         *)
Sent == {Flush} \cup [op : {"get", "set"}, id : Sensors, value : Values \cup {None}]
Got  == [id : Sensors, value : Values \cup {None}, found : Values \cup {None}]

CacheTypes ==
  /\ commands \in Seq(Sent) /\ replies \in Seq(Got)
  /\ store \in [Sensors -> Values \cup {None}] /\ handled \in [Sensors -> Values \cup {None}]

(* Redis is cleared before it is sent anything else.                        *)
FlushFirst ==
  /\ \A i \in DOMAIN commands : commands[i].op = "flush" => i = 1
  /\ commands # << >> \/ replies # << >> => alive
  /\ Flushing => replies = << >>

LEMMA CacheParts == Types /\ Backed => CacheTypes /\ FlushFirst
<1> SUFFICES ASSUME Types, Backed PROVE CacheTypes /\ FlushFirst
  OBVIOUS
<1>1. commands \in Seq(Sent)
  BY DEF Types, Command, Sent
<1>2. replies \in Seq(Got)
  <2>1. Reply \subseteq Got
    BY DEF Reply, Got
  <2>2. replies \in Seq(Reply)
    BY DEF Types
  <2> QED
    BY <2>1, <2>2
<1> QED
  BY <1>1, <1>2 DEF Types, Backed, CacheTypes, FlushFirst

SetOf(i, s) == commands[i].op = "set" /\ commands[i].id = s

(* Of the SETs of the sensor under way the last carries its last message.   *)
LastSet(s) ==
  \E i \in DOMAIN commands :
    /\ SetOf(i, s) /\ commands[i].value = handled[s]
    /\ \A j \in DOMAIN commands : j > i => ~ SetOf(j, s)

Unset(s) == \A i \in DOMAIN commands : ~ SetOf(i, s)

Cached ==
  /\ Flushing \/ ~ alive => handled = Nothing
  /\ alive => \A s \in Sensors :
       LastSet(s) \/ (Unset(s) /\ (~ Flushing => store[s] = handled[s]))

(* At first Redis is about to be flushed and no message was handled.        *)
LEMMA InitCached == Init => Cached
<1> SUFFICES ASSUME Init PROVE Cached
  OBVIOUS
<1>1. DOMAIN commands = 1..1 /\ commands[1] = Flush /\ Flush.op = "flush"
  BY DEF Init, Flush
<1>2. Flushing /\ \A s \in Sensors : Unset(s)
  BY <1>1 DEF Flushing, Unset, SetOf
<1> QED
  BY <1>2 DEF Cached, Init

(* Redis serves the commands in order.                                      *)
LEMMA ServeCached ==
  ASSUME CacheTypes, FlushFirst, Cached, ServeCommand
  PROVE  Cached'
<1> DEFINE c == commands[1]
<1>0. commands \in Seq(Sent) /\ commands # << >> /\ commands' = Tail(commands)
  BY DEF CacheTypes, ServeCommand
<1>1. c \in Sent /\ c = Head(commands) /\ 1 \in DOMAIN commands
  BY <1>0, HeadTail
<1>2. \A i \in DOMAIN commands' : i + 1 \in DOMAIN commands /\ commands'[i] = commands[i + 1] /\ i \in Nat \ {0}
  BY <1>0, HeadTail
<1>3. \A i \in DOMAIN commands : i # 1 => i - 1 \in DOMAIN commands' /\ commands'[i - 1] = commands[i]
  BY <1>0, HeadTail
<1>4. alive /\ alive' /\ handled' = handled
  BY <1>0 DEF FlushFirst, ServeCommand
<1>5. ~ Flushing'
  BY <1>2 DEF Flushing, FlushFirst
<1>6. c.op # "flush" => ~ Flushing
  BY <1>1 DEF Flushing, FlushFirst
<1>7. ASSUME NEW s \in Sensors, LastSet(s)
      PROVE  LastSet(s)' \/ (Unset(s)' /\ store'[s] = handled[s])
  <2> PICK i \in DOMAIN commands :
        /\ SetOf(i, s) /\ commands[i].value = handled[s]
        /\ \A j \in DOMAIN commands : j > i => ~ SetOf(j, s)
    BY <1>7 DEF LastSet
  <2>1. CASE i = 1
    <3>1. Unset(s)'
      BY <2>1, <1>0, <1>2 DEF Unset, SetOf
    <3>2. store' = [store EXCEPT ![c.id] = c.value] /\ c.id = s /\ c.value = handled[s]
      BY <2>1, <1>1 DEF ServeCommand, SetOf
    <3>3. store'[s] = handled[s]
      BY <3>2 DEF CacheTypes
    <3> QED
      BY <3>1, <3>3
  <2>2. CASE i # 1
    <3>1. i - 1 \in DOMAIN commands' /\ commands'[i - 1] = commands[i]
      BY <2>2, <1>3
    <3>2. \A j \in DOMAIN commands' : j > i - 1 => j + 1 > i
      BY <1>0, <1>2
    <3>3. \A j \in DOMAIN commands' : j > i - 1 => ~ (commands'[j].op = "set" /\ commands'[j].id = s)
      BY <3>2, <1>2 DEF SetOf
    <3> QED
      BY <3>1, <3>3, <1>4 DEF LastSet, SetOf
  <2> QED
    BY <2>1, <2>2
<1>8. ASSUME NEW s \in Sensors, Unset(s), ~ Flushing => store[s] = handled[s]
      PROVE  Unset(s)' /\ store'[s] = handled[s]
  <2>1. Unset(s)'
    BY <1>8, <1>2 DEF Unset, SetOf
  <2>2. CASE c.op = "flush"
    <3>1. Flushing /\ store' = Nothing
      BY <2>2, <1>1 DEF Flushing, ServeCommand
    <3> QED
      BY <2>1, <3>1 DEF Cached
  <2>3. CASE c.op = "set"
    <3>1. c.id # s /\ c.id \in Sensors
      BY <2>3, <1>1, <1>8 DEF Unset, SetOf, Sent, Flush
    <3>2. store'[s] = store[s]
      BY <2>3, <3>1, <1>1 DEF ServeCommand, CacheTypes
    <3> QED
      BY <2>1, <2>3, <3>2, <1>6, <1>8
  <2>4. CASE c.op = "get"
    BY <2>1, <2>4, <1>1, <1>6, <1>8 DEF ServeCommand
  <2> QED
    BY <2>2, <2>3, <2>4, <1>1 DEF Sent, Flush
<1> QED
  BY <1>4, <1>5, <1>7, <1>8 DEF Cached

(* A command that is no SET of the sensor and no flush goes behind the rest.*)
LEMMA BehindCached ==
  ASSUME CacheTypes, NEW s \in Sensors, NEW c \in Sent, commands' = Append(commands, c),
         c.op # "flush", c.op = "set" => c.id # s, handled'[s] = handled[s], store' = store,
         LastSet(s) \/ (Unset(s) /\ (~ Flushing => store[s] = handled[s]))
  PROVE  LastSet(s)' \/ (Unset(s)' /\ (~ Flushing' => store'[s] = handled'[s]))
<1>0. commands \in Seq(Sent)
  BY DEF CacheTypes
<1>1. \A i \in DOMAIN commands : i \in DOMAIN commands' /\ commands'[i] = commands[i]
  BY <1>0, AppendElements
<1>2. \A i \in DOMAIN commands' : (i \in DOMAIN commands /\ commands'[i] = commands[i]) \/ commands'[i] = c
  BY <1>0, AppendElements
<1>3. Flushing' <=> Flushing
  BY <1>1, <1>2 DEF Flushing
<1>4. CASE LastSet(s)
  BY <1>1, <1>2, <1>4 DEF LastSet, SetOf
<1>5. CASE Unset(s) /\ (~ Flushing => store[s] = handled[s])
  BY <1>2, <1>3, <1>5 DEF Unset, SetOf
<1> QED
  BY <1>4, <1>5

(* The callback puts the SET of the message it handled last behind the rest.*)
LEMMA ReplyCached ==
  ASSUME CacheTypes, FlushFirst, Cached, OnReply
  PROVE  Cached'
<1> DEFINE r == Head(replies)
           set == [op |-> "set", id |-> r.id, value |-> r.value]
<1>0. /\ commands \in Seq(Sent) /\ replies \in Seq(Got) /\ replies # << >>
  BY DEF CacheTypes, OnReply
<1>1. r \in Got
  BY <1>0, HeadTail
<1>2. set \in Sent /\ set.op = "set" /\ set.id = r.id /\ set.value = r.value /\ r.id \in Sensors
  BY <1>1 DEF Got, Sent
<1>3. ~ Flushing /\ alive /\ alive'
  BY <1>0 DEF FlushFirst, OnReply
<1>4. commands' = Append(commands, set) /\ handled' = [handled EXCEPT ![r.id] = r.value] /\ store' = store
  BY DEF OnReply
<1> HIDE DEF set
<1>5. ~ Flushing'
  <2>1. \A i \in DOMAIN commands' : (i \in DOMAIN commands /\ commands'[i] = commands[i]) \/ commands'[i] = set
    BY <1>0, <1>2, <1>4, AppendElements
  <2> QED
    BY <2>1, <1>2, <1>3 DEF Flushing
<1>6. ASSUME NEW s \in Sensors, s # r.id
      PROVE  LastSet(s)' \/ (Unset(s)' /\ store'[s] = handled'[s])
  <2>1. handled'[s] = handled[s]
    BY <1>4, <1>6, <1>2 DEF CacheTypes
  <2>2. LastSet(s) \/ (Unset(s) /\ (~ Flushing => store[s] = handled[s]))
    BY <1>3 DEF Cached
  <2> QED
    BY <2>1, <2>2, <1>2, <1>4, <1>5, <1>6, BehindCached
<1>7. ASSUME NEW s \in Sensors, s = r.id
      PROVE  LastSet(s)'
  <2> DEFINE k == Len(commands) + 1
  <2>1. DOMAIN commands' = 1..k /\ commands'[k] = set /\ k \in Nat \ {0}
    BY <1>0, <1>2, <1>4, AppendProperties, LenProperties
  <2>2. handled'[s] = r.value
    BY <1>2, <1>4, <1>7 DEF CacheTypes
  <2>3. k \in DOMAIN commands' /\ commands'[k].op = "set" /\ commands'[k].id = s /\ commands'[k].value = handled'[s]
    BY <2>1, <2>2, <1>2, <1>7
  <2>4. \A j \in DOMAIN commands' : ~ (j > k)
    BY <2>1
  <2> HIDE DEF k
  <2> QED
    BY <2>3, <2>4 DEF LastSet, SetOf
<1> QED
  BY <1>3, <1>5, <1>6, <1>7 DEF Cached

(* Every step keeps the last SET of a sensor the one of its last message.   *)
LEMMA StepCached ==
  ASSUME Types, Backed, Cached, [Next]_vars
  PROVE  Cached'
<1> USE DEF process, database, world
<1>0. CacheTypes /\ FlushFirst
  BY CacheParts
<1>1. ASSUME UNCHANGED <<alive, commands, store, handled>> PROVE Cached'
  BY <1>1 DEF Cached, LastSet, Unset, SetOf, Flushing
<1>2. ASSUME OnMessage PROVE Cached'
  <2> DEFINE get == [op |-> "get", id |-> Head(inbox).id, value |-> Head(inbox).value]
  <2>1. Head(inbox) \in Message
    BY <1>2, HeadTail DEF OnMessage, Types
  <2>2. get \in Sent /\ get.op = "get"
    BY <2>1 DEF Message, Sent
  <2>3. commands \in Seq(Sent) /\ commands' = Append(commands, get)
    BY <1>0, <1>2 DEF OnMessage, CacheTypes
  <2>4. UNCHANGED <<alive, store, handled>>
    BY <1>2 DEF OnMessage
  <2> HIDE DEF get
  <2>5. Flushing' = Flushing
    <3>1. \A i \in DOMAIN commands : i \in DOMAIN commands' /\ commands'[i] = commands[i]
      BY <2>2, <2>3, AppendElements
    <3>2. \A i \in DOMAIN commands' : (i \in DOMAIN commands /\ commands'[i] = commands[i]) \/ commands'[i] = get
      BY <2>2, <2>3, AppendElements
    <3> QED
      BY <3>1, <3>2, <2>2 DEF Flushing
  <2>6. ASSUME alive, NEW s \in Sensors
        PROVE  LastSet(s)' \/ (Unset(s)' /\ (~ Flushing' => store'[s] = handled'[s]))
    <3>1. LastSet(s) \/ (Unset(s) /\ (~ Flushing => store[s] = handled[s]))
      BY <2>6 DEF Cached
    <3> QED
      BY <3>1, <1>0, <2>2, <2>3, <2>4, BehindCached
  <2> QED
    BY <2>4, <2>5, <2>6 DEF Cached
<1>3. ASSUME Die PROVE Cached'
  BY <1>3 DEF Die, Cached
<1>4. ASSUME Start PROVE Cached'
  <2>1. DOMAIN commands' = 1..1 /\ commands'[1] = Flush /\ Flush.op = "flush"
    BY <1>4 DEF Start, Flush
  <2>2. Flushing' /\ \A s \in Sensors : Unset(s)'
    BY <2>1 DEF Flushing, Unset, SetOf
  <2>3. handled' = Nothing
    BY <1>4 DEF Start, Cached
  <2> QED
    BY <2>2, <2>3 DEF Cached, Nothing
<1>5. ASSUME NEW s \in Sensors, Change(s) \/ Publish(s) PROVE UNCHANGED <<alive, commands, store, handled>>
  BY <1>5 DEF Change, Publish
<1>6. RunStatement => UNCHANGED <<alive, commands, store, handled>>
  BY DEF RunStatement
<1>7. UNCHANGED vars => UNCHANGED <<alive, commands, store, handled>>
  BY DEF vars
<1> QED
  BY <1>1, <1>2, <1>3, <1>4, <1>5, <1>6, <1>7, <1>0, ServeCached, ReplyCached DEF Next

(* However many messages of a sensor overlap, when the process has worked   *)
(* off what it was sent Redis holds the last one.                           *)
THEOREM AlwaysCacheCurrent == Spec => []CacheCurrent
<1>1. Types /\ Cached => CacheCurrent
  <2> SUFFICES ASSUME Types, Cached, Quiet, NEW s \in Sensors
               PROVE  store[s] = handled[s]
    BY DEF CacheCurrent
  <2>1. DOMAIN commands = {} /\ alive
    BY DEF Quiet
  <2> QED
    BY <2>1 DEF Cached, LastSet, Flushing
<1>2. Spec => [](Types /\ Backed /\ Cached)
  BY InitTypes, StepTypes, InitBacked, StepBacked, InitCached, StepCached, PTL DEF Spec
<1> QED
  BY <1>1, <1>2, PTL

-----------------------------------------------------------------------------
(* One message at a time: it waits, or its GET is the last command, or it   *)
(* was answered with what was handled last; and it is the only one.         *)
NoGet == \A i \in DOMAIN commands : commands[i].op # "get"

Single ==
  \/ Len(inbox) \in {0, 1} /\ replies = << >> /\ NoGet
  \/ /\ inbox = << >> /\ replies = << >> /\ commands # << >>
     /\ \A i \in DOMAIN commands : commands[i].op = "get" <=> i = Len(commands)
  \/ /\ inbox = << >> /\ commands = << >> /\ Len(replies) = 1
     /\ replies[1].found = handled[replies[1].id]

(* At first no message is in work.                                          *)
LEMMA InitSingle == Init => Single
<1> SUFFICES ASSUME Init PROVE Single
  OBVIOUS
<1>1. DOMAIN commands = 1..1 /\ commands[1].op = "flush"
  BY DEF Init, Flush
<1> QED
  BY <1>1 DEF Init, Single, NoGet

(* A message is sent when none is in work.                                  *)
LEMMA PublishSingle ==
  ASSUME Types, Single, InFlight = 1, NEW s \in Sensors, Publish(s)
  PROVE  Single'
<1> DEFINE G == {i \in DOMAIN commands : commands[i].op = "get"}
<1>1. G \subseteq 1..Len(commands) /\ Len(commands) \in Nat /\ Len(inbox) \in Nat /\ Len(replies) \in Nat
  BY DEF Types
<1>2. IsFiniteSet(G) /\ Cardinality(G) \in Nat
  <2> HIDE DEF G
  <2>1. IsFiniteSet(1..Len(commands))
    BY <1>1, FS_Interval
  <2>2. IsFiniteSet(G)
    BY <1>1, <2>1, FS_Subset
  <2> QED
    BY <2>2, FS_CardinalityType
<1>3. Cardinality(G) = Gets
  BY DEF Gets
<1> HIDE DEF G
<1>4. Len(inbox) = 0 /\ Cardinality(G) = 0 /\ Len(replies) = 0
  BY <1>1, <1>2, <1>3 DEF Publish, InWork
<1>5. G = {}
  BY <1>2, <1>4, FS_EmptySet
<1>6. NoGet
  BY <1>5 DEF NoGet, G
<1>7. Len(inbox') \in {0, 1}
  BY <1>4 DEF Publish, Types
<1>8. replies' = << >> /\ NoGet'
  BY <1>1, <1>4, <1>6 DEF Publish, NoGet, Types
<1> QED
  BY <1>7, <1>8 DEF Single

(* The GET is served when all commands before it are: what it finds is what *)
(* was handled last.                                                        *)
LEMMA ServeSingle ==
  ASSUME Types, Backed, Cached, Single, ServeCommand
  PROVE  Single'
<1> DEFINE c == commands[1]
<1>0. commands \in Seq(Command) /\ commands # << >> /\ commands' = Tail(commands)
  BY DEF Types, ServeCommand
<1>1. c \in Command /\ c = Head(commands) /\ 1 \in DOMAIN commands
  BY <1>0, HeadTail
<1>2. \A i \in DOMAIN commands' : i + 1 \in DOMAIN commands /\ commands'[i] = commands[i + 1] /\ i \in Nat \ {0}
  BY <1>0, HeadTail
<1>3. alive /\ handled' = handled /\ inbox' = inbox
  BY <1>0 DEF Backed, ServeCommand, Single
<1>4. CASE Len(inbox) \in {0, 1} /\ replies = << >> /\ NoGet
  <2>1. replies' = replies
    BY <1>1, <1>4 DEF ServeCommand, NoGet
  <2>2. NoGet'
    BY <1>2, <1>4 DEF NoGet
  <2> QED
    BY <2>1, <2>2, <1>3, <1>4 DEF Single
<1>5. CASE /\ inbox = << >> /\ replies = << >> /\ commands # << >>
           /\ \A i \in DOMAIN commands : commands[i].op = "get" <=> i = Len(commands)
  <2>1. CASE Len(commands) = 1
    <3>1. c.op = "get" /\ commands' = << >> /\ DOMAIN commands = 1..1
      BY <2>1, <1>0, <1>1, <1>5
    <3>2. c.id \in Sensors /\ c.value \in Values
      BY <3>1, <1>1 DEF Command, Flush
    <3>3. ~ Flushing /\ ~ LastSet(c.id)
      BY <3>1 DEF Flushing, LastSet, SetOf
    <3>4. store[c.id] = handled[c.id]
      BY <3>2, <3>3, <1>3 DEF Cached
    <3>5. replies' = <<[id |-> c.id, value |-> c.value, found |-> store[c.id]]>>
      BY <3>1, <1>1, <1>5 DEF ServeCommand
    <3>6. Len(replies') = 1 /\ replies'[1].found = handled'[replies'[1].id]
      BY <3>4, <3>5, <1>3
    <3> QED
      BY <3>1, <3>6, <1>3, <1>5 DEF Single
  <2>2. CASE Len(commands) # 1
    <3>1. c.op # "get" /\ replies' = replies
      BY <2>2, <1>1, <1>5 DEF ServeCommand
    <3>2. Len(commands') = Len(commands) - 1 /\ commands' # << >>
      <4>1. Len(commands) \in Nat /\ Len(commands) # 0
        BY <1>0, LenProperties
      <4>2. commands' \in Seq(Command) /\ Len(commands') = Len(commands) - 1
        BY <1>0, HeadTailProperties
      <4> QED
        BY <4>1, <4>2, <2>2
    <3>3. Len(commands) \in Nat
      BY <1>0
    <3>4. ASSUME NEW i \in DOMAIN commands' PROVE commands'[i].op = "get" <=> i = Len(commands')
      BY <3>2, <3>3, <3>4, <1>2, <1>5
    <3> QED
      BY <3>1, <3>2, <3>4, <1>3, <1>5 DEF Single
  <2> QED
    BY <2>1, <2>2
<1> QED
  BY <1>0, <1>4, <1>5 DEF Single

(* Every step keeps the one message where it is or moves it on.             *)
LEMMA StepSingle ==
  ASSUME Types, Backed, Cached, Single, InFlight = 1, [Next]_vars
  PROVE  Single'
<1> USE DEF process, database, world
<1>1. ASSUME UNCHANGED <<inbox, commands, replies, handled>> PROVE Single'
  BY <1>1 DEF Single, NoGet
<1>2. ASSUME OnMessage PROVE Single'
  <2> DEFINE get == [op |-> "get", id |-> Head(inbox).id, value |-> Head(inbox).value]
  <2>1. Head(inbox) \in Message
    BY <1>2, HeadTail DEF OnMessage, Types
  <2>2. get \in Command /\ get.op = "get"
    BY <2>1 DEF Message, Command
  <2>3. commands \in Seq(Command) /\ commands' = Append(commands, get)
    BY <1>2 DEF OnMessage, Types
  <2>4. inbox # << >> /\ inbox' = Tail(inbox) /\ replies' = replies /\ inbox \in Seq(Message)
    BY <1>2 DEF OnMessage, Types
  <2>5. Len(inbox) = 1 /\ replies = << >> /\ NoGet
    BY <2>4 DEF Single
  <2> HIDE DEF get
  <2>6. DOMAIN commands' = 1..(Len(commands) + 1) /\ Len(commands') = Len(commands) + 1 /\ Len(commands) \in Nat
    BY <2>2, <2>3, AppendProperties, LenProperties
  <2>7. commands'[Len(commands) + 1] = get /\ \A i \in 1..Len(commands) : commands'[i] = commands[i]
    BY <2>2, <2>3, AppendProperties
  <2>8. \A i \in DOMAIN commands' : commands'[i].op = "get" <=> i = Len(commands')
    <3>1. DOMAIN commands = 1..Len(commands)
      BY <2>3, LenProperties
    <3> QED
      BY <3>1, <2>2, <2>5, <2>6, <2>7 DEF NoGet
  <2>9. inbox' = << >> /\ commands' # << >>
    BY <2>4, <2>5, <2>6, <2>3
  <2> QED
    BY <2>4, <2>5, <2>8, <2>9 DEF Single
<1>3. ASSUME OnReply PROVE Single'
  <2> DEFINE set == [op |-> "set", id |-> Head(replies).id, value |-> Head(replies).value]
  <2>1. commands = << >> /\ Len(replies) = 1 /\ inbox = << >>
    BY <1>3 DEF OnReply, Single
  <2>2. replies' = << >> /\ inbox' = << >> /\ commands' = <<set>>
    BY <1>3, <2>1 DEF OnReply, Types
  <2>3. set.op = "set" /\ DOMAIN commands' = 1..1 /\ commands'[1] = set
    BY <2>2
  <2> HIDE DEF set
  <2>4. NoGet' /\ Len(inbox') = 0
    BY <2>2, <2>3 DEF NoGet
  <2> QED
    BY <2>2, <2>4 DEF Single
<1>4. ASSUME Die PROVE Single'
  BY <1>4 DEF Die, Single, NoGet
<1>5. ASSUME Start PROVE Single'
  <2>1. DOMAIN commands' = 1..1 /\ commands'[1].op = "flush"
    BY <1>5 DEF Start, Flush
  <2>2. NoGet'
    BY <2>1 DEF NoGet
  <2>3. inbox' = << >> /\ replies' = << >>
    BY <1>5 DEF Start, Backed
  <2> QED
    BY <2>2, <2>3 DEF Single
<1>6. ASSUME NEW s \in Sensors, Change(s) PROVE UNCHANGED <<inbox, commands, replies, handled>>
  BY <1>6 DEF Change
<1>7. RunStatement => UNCHANGED <<inbox, commands, replies, handled>>
  BY DEF RunStatement
<1>8. UNCHANGED vars => UNCHANGED <<inbox, commands, replies, handled>>
  BY DEF vars
<1> QED
  BY <1>1, <1>2, <1>3, <1>4, <1>5, <1>6, <1>7, <1>8, PublishSingle, ServeSingle DEF Next

-----------------------------------------------------------------------------
(* The database has the last value handled of a sensor, or an UPDATE with it*)
(* is scheduled behind what inserts the row.                                *)
Touches(i, s) == writes[i].id = s /\ writes[i].op \in {"insert", "update"}
RowBefore(i, s) == \/ data[s] # None
                   \/ \E k \in DOMAIN writes : k < i /\ writes[k].id = s /\ writes[k].op = "insert"

Scheduled(s) ==
  \E i \in DOMAIN writes :
    /\ writes[i].op = "update" /\ writes[i].id = s /\ writes[i].value = handled[s]
    /\ \A j \in DOMAIN writes : j > i => ~ Touches(j, s)
    /\ RowBefore(i, s)

Stored(s) == data[s] = handled[s] /\ \A j \in DOMAIN writes : ~ Touches(j, s)

Written == \A s \in Sensors : handled[s] # None => Scheduled(s) \/ Stored(s)

(* What the event of a message writes.                                      *)
LEMMA EventWrites ==
  ASSUME NEW r \in Reply
  PROVE  /\ \A ops \in {NewEvent, OldEvent, << >>} :
              /\ Statements(ops, r) \in Seq(Write)
              /\ \A i \in DOMAIN Statements(ops, r) : Statements(ops, r)[i].id = r.id
         /\ LET new == Statements(NewEvent, r)
            IN  /\ Len(new) = 6
                /\ new[2].op = "insert" /\ new[5].op = "update" /\ new[6].op = "archive"
                /\ new[5].value = r.value
         /\ LET old == Statements(OldEvent, r)
            IN  /\ Len(old) = 2 /\ old[1].op = "update" /\ old[2].op = "archive"
                /\ old[1].value = r.value
<1>1. Statements(<< >>, r) = << >>
  BY DEF Statements
<1>2. /\ DOMAIN Statements(OldEvent, r) = 1..2 /\ DOMAIN Statements(NewEvent, r) = 1..6
      /\ Len(Statements(OldEvent, r)) = 2 /\ Len(Statements(NewEvent, r)) = 6
  BY DEF Statements, OldEvent, NewEvent
<1>3. \A i \in 1..2 : Statements(OldEvent, r)[i] = [op |-> OldEvent[i], id |-> r.id, value |-> r.value]
  BY DEF Statements, OldEvent
<1>4. \A i \in 1..6 : Statements(NewEvent, r)[i] = [op |-> NewEvent[i], id |-> r.id, value |-> r.value]
  BY DEF Statements, NewEvent
<1>5. OldEvent[1] = "update" /\ OldEvent[2] = "archive"
  BY DEF OldEvent
<1>6. NewEvent[2] = "insert" /\ NewEvent[5] = "update" /\ NewEvent[6] = "archive"
  BY DEF NewEvent
<1>7. ASSUME NEW ops \in {NewEvent, OldEvent, << >>}
      PROVE  /\ Statements(ops, r) \in Seq(Write)
             /\ \A i \in DOMAIN Statements(ops, r) : Statements(ops, r)[i].id = r.id
  <2>1. Statements(ops, r) \in Seq(Write)
    <3>0. << >> \in Seq(Write)
      OBVIOUS
    <3>1. CASE ops = << >>
      BY <3>0, <3>1, <1>1, Zenon
    <3>2. CASE ops = NewEvent
      BY <3>2, EventStatements
    <3>3. CASE ops = OldEvent
      BY <3>3, EventStatements
    <3> QED
      BY <3>1, <3>2, <3>3, <1>7
  <2>2. DOMAIN Statements(ops, r) = DOMAIN ops
    BY DEF Statements
  <2>3. \A i \in DOMAIN ops : Statements(ops, r)[i] = [op |-> ops[i], id |-> r.id, value |-> r.value]
    BY DEF Statements
  <2> QED
    BY <2>1, <2>2, <2>3
<1>8. /\ Statements(NewEvent, r)[2].op = "insert" /\ Statements(NewEvent, r)[5].op = "update"
      /\ Statements(NewEvent, r)[6].op = "archive" /\ Statements(NewEvent, r)[5].value = r.value
  BY <1>4, <1>6
<1>9. /\ Statements(OldEvent, r)[1].op = "update" /\ Statements(OldEvent, r)[2].op = "archive"
      /\ Statements(OldEvent, r)[1].value = r.value
  BY <1>3, <1>5
<1> QED
  BY <1>2, <1>7, <1>8, <1>9

(* Statements about other sensors go behind the rest.                       *)
LEMMA WrittenBehind ==
  ASSUME writes \in Seq(Write), NEW e \in Seq(Write), writes' = writes \o e,
         NEW s \in Sensors, \A i \in DOMAIN e : e[i].id # s,
         handled'[s] = handled[s], data' = data, Scheduled(s) \/ Stored(s)
  PROVE  (Scheduled(s) \/ Stored(s))'
<1>1. \A i \in DOMAIN writes : i \in DOMAIN writes' /\ writes'[i] = writes[i]
  BY ConcatProperties
<1>2. \A i \in DOMAIN writes' : (i \in DOMAIN writes /\ writes'[i] = writes[i]) \/ writes'[i].id # s
  <2> SUFFICES ASSUME NEW i \in DOMAIN writes', i \notin DOMAIN writes
               PROVE  writes'[i].id # s
    BY <1>1
  <2>1. i - Len(writes) \in DOMAIN e /\ writes'[i] = e[i - Len(writes)]
    BY ConcatProperties
  <2> QED
    BY <2>1
<1>3. CASE Stored(s)
  BY <1>2, <1>3 DEF Stored, Touches
<1>4. CASE Scheduled(s)
  <2> PICK i \in DOMAIN writes :
        /\ writes[i].op = "update" /\ writes[i].id = s /\ writes[i].value = handled[s]
        /\ \A j \in DOMAIN writes : j > i => ~ Touches(j, s)
        /\ RowBefore(i, s)
    BY <1>4 DEF Scheduled
  <2>1. RowBefore(i, s)'
    BY <1>1 DEF RowBefore
  <2>2. \A j \in DOMAIN writes' : j > i => ~ Touches(j, s)'
    BY <1>2 DEF Touches
  <2> QED
    BY <2>1, <2>2, <1>1 DEF Scheduled
<1> QED
  BY <1>3, <1>4

(* The event schedules the value of the message last, and a row before it   *)
(* when there was none; without an event the value is the one handled.      *)
LEMMA ReplyWritten ==
  ASSUME Types, Single, Written, OnReply
  PROVE  Written'
<1> DEFINE r == replies[1]
           ops == IF r.found = None THEN NewEvent ELSE IF r.found # r.value THEN OldEvent ELSE << >>
           e == Statements(ops, r)
<1> PICK n \in Nat : n = Len(writes)
  BY DEF Types
<1>0. /\ replies \in Seq(Reply) /\ replies # << >> /\ writes \in Seq(Write)
  BY DEF Types, OnReply
<1>1. r \in Reply /\ r = Head(replies)
  BY <1>0, HeadTail
<1>2. r.id \in Sensors /\ r.value \in Values /\ None \notin Values
  BY <1>1, BackendConstants DEF Reply
<1> PICK t \in Sensors : t = r.id
  BY <1>2
<1>3. r.found = handled[t]
  BY <1>0 DEF Single
<1>4. writes' = writes \o e /\ handled' = [handled EXCEPT ![t] = r.value] /\ data' = data
  BY <1>1 DEF OnReply, database
<1>5. e \in Seq(Write) /\ \A i \in DOMAIN e : e[i].id = t
  BY <1>1, EventWrites
<1>6. handled'[t] = r.value /\ \A s \in Sensors \ {t} : handled'[s] = handled[s]
  BY <1>2, <1>4 DEF Types
<1>7. ASSUME NEW s \in Sensors, s # t, handled'[s] # None
      PROVE  Scheduled(s)' \/ Stored(s)'
  <2>1. Scheduled(s) \/ Stored(s)
    BY <1>6, <1>7 DEF Written
  <2>2. \A i \in DOMAIN e : e[i].id # s
    BY <1>5, <1>7
  <2> HIDE DEF e
  <2> QED
    BY <2>1, <2>2, <1>0, <1>4, <1>5, <1>6, <1>7, WrittenBehind
<1>8. \A i \in DOMAIN writes : i \in DOMAIN writes' /\ writes'[i] = writes[i]
  <2> HIDE DEF e
  <2> QED
    BY <1>0, <1>4, <1>5, ConcatProperties
<1>9. DOMAIN writes' = 1..(n + Len(e)) /\ \A i \in 1..Len(e) : writes'[n + i] = e[i]
  <2> HIDE DEF e
  <2> QED
    BY <1>0, <1>4, <1>5, ConcatProperties, LenProperties
<1>10. CASE r.found = None
  <2>1. e = Statements(NewEvent, r)
    BY <1>10
  <2>2. /\ Len(e) = 6 /\ e[2].op = "insert" /\ e[5].op = "update" /\ e[6].op = "archive"
        /\ e[5].value = r.value
    BY <2>1, <1>1, EventWrites
  <2>3. e[2].id = t /\ e[5].id = t
    <3>1. DOMAIN e = 1..6
      BY <2>2, <1>5, LenProperties
    <3> QED
      BY <3>1, <1>5
  <2> HIDE DEF e
  <2>4. DOMAIN writes' = 1..(n + 6) /\ writes'[n + 2] = e[2] /\ writes'[n + 5] = e[5] /\ writes'[n + 6] = e[6]
    BY <2>2, <1>9
  <2>5. n + 2 \in DOMAIN writes' /\ n + 5 \in DOMAIN writes' /\ n + 2 < n + 5
    BY <2>4, <1>0
  <2>6. RowBefore(n + 5, t)'
    BY <2>2, <2>3, <2>4, <2>5 DEF RowBefore
  <2>7. \A j \in DOMAIN writes' : j > n + 5 => j = n + 6
    BY <2>4, <1>0
  <2>8. \A j \in DOMAIN writes' : j > n + 5 => ~ Touches(j, t)'
    BY <2>2, <2>4, <2>7 DEF Touches
  <2>9. Scheduled(t)'
    BY <2>2, <2>3, <2>4, <2>5, <2>6, <2>8, <1>6 DEF Scheduled, Touches, RowBefore
  <2> QED
    BY <2>9, <1>7 DEF Written, Scheduled, Stored, Touches, RowBefore
<1>11. CASE r.found # None
  <2>0. Scheduled(t) \/ Stored(t)
    BY <1>2, <1>3, <1>11 DEF Written
  <2>1. CASE r.found # r.value
    <3>1. e = Statements(OldEvent, r)
      BY <1>11, <2>1
    <3>2. /\ Len(e) = 2 /\ e[1].op = "update" /\ e[2].op = "archive" /\ e[1].value = r.value
      BY <3>1, <1>1, EventWrites
    <3>3. e[1].id = t
      <4>1. DOMAIN e = 1..2
        BY <3>2, <1>5, LenProperties
      <4> QED
        BY <4>1, <1>5
    <3> HIDE DEF e
    <3>4. DOMAIN writes' = 1..(n + 2) /\ writes'[n + 1] = e[1] /\ writes'[n + 2] = e[2]
      BY <3>2, <1>9
    <3>5. n + 1 \in DOMAIN writes' /\ \A j \in DOMAIN writes' : j > n + 1 => j = n + 2
      BY <3>4, <1>0
    <3>6. \A k \in DOMAIN writes : k < n + 1
      BY <1>0
    <3>7. RowBefore(n + 1, t)'
      <4>1. CASE Stored(t)
        BY <4>1, <1>3, <1>4, <1>11 DEF Stored, RowBefore
      <4>2. CASE Scheduled(t)
        <5>1. data[t] # None \/ \E k \in DOMAIN writes : writes[k].id = t /\ writes[k].op = "insert"
          BY <4>2 DEF Scheduled, RowBefore
        <5> QED
          BY <5>1, <3>6, <1>4, <1>8 DEF RowBefore
      <4> QED
        BY <2>0, <4>1, <4>2
    <3>8. \A j \in DOMAIN writes' : j > n + 1 => ~ Touches(j, t)'
      BY <3>2, <3>4, <3>5 DEF Touches
    <3>9. Scheduled(t)'
      BY <3>2, <3>3, <3>4, <3>5, <3>7, <3>8, <1>6 DEF Scheduled, Touches, RowBefore
    <3> QED
      BY <3>9, <1>7 DEF Written, Scheduled, Stored, Touches, RowBefore
  <2>2. CASE r.found = r.value
    <3>1. e = << >> /\ writes' = writes
      <4>1. e = << >>
        BY <2>2, <1>11 DEF Statements
      <4> QED
        BY <4>1, <1>0, <1>4
    <3>2. handled'[t] = handled[t]
      BY <2>2, <1>3, <1>6
    <3>3. (Scheduled(t) \/ Stored(t))'
      BY <2>0, <3>1, <3>2, <1>4 DEF Scheduled, Stored, Touches, RowBefore
    <3> QED
      BY <3>3, <1>7 DEF Written, Scheduled, Stored, Touches, RowBefore
  <2> QED
    BY <2>1, <2>2
<1> QED
  BY <1>10, <1>11

(* SQLite runs the statements in order.                                     *)
LEMMA RunWritten ==
  ASSUME Types, Written, RunStatement
  PROVE  Written'
<1> DEFINE w == writes[1]
<1>0. writes \in Seq(Write) /\ writes # << >> /\ writes' = Tail(writes) /\ None \notin Values
  BY BackendConstants DEF Types, RunStatement
<1>1. w \in Write /\ w = Head(writes) /\ 1 \in DOMAIN writes
  BY <1>0, HeadTail
<1>2. \A i \in DOMAIN writes' : i + 1 \in DOMAIN writes /\ writes'[i] = writes[i + 1] /\ i \in Nat \ {0}
  BY <1>0, HeadTail
<1>3. \A i \in DOMAIN writes : i \in Nat /\ (i # 1 => i - 1 \in DOMAIN writes' /\ writes'[i - 1] = writes[i])
  BY <1>0, HeadTail
<1>4. w.id \in Sensors /\ w.value \in Values
  BY <1>1 DEF Write
<1>5. data' = IF \/ w.op = "insert" /\ data[w.id] = None
                 \/ w.op = "update" /\ data[w.id] # None
              THEN [data EXCEPT ![w.id] = w.value] ELSE data
  BY <1>1 DEF RunStatement
<1>6. handled' = handled
  BY DEF RunStatement
<1> HIDE DEF w
<1>7. \A s \in Sensors : data[s] # None => data'[s] # None
  BY <1>0, <1>4, <1>5 DEF Types
<1> SUFFICES ASSUME NEW s \in Sensors, handled[s] # None
             PROVE  Scheduled(s)' \/ Stored(s)'
  BY <1>6 DEF Written
<1>8. CASE Stored(s)
  <2>1. ~ Touches(1, s)
    BY <1>1, <1>8 DEF Stored
  <2>2. data'[s] = data[s]
    BY <2>1, <1>4, <1>5 DEF Touches, Types, w
  <2>3. \A j \in DOMAIN writes' : ~ Touches(j, s)'
    BY <1>2, <1>8 DEF Stored, Touches
  <2> QED
    BY <2>2, <2>3, <1>6, <1>8 DEF Stored, Touches
<1>9. CASE Scheduled(s)
  <2> PICK i \in DOMAIN writes :
        /\ writes[i].op = "update" /\ writes[i].id = s /\ writes[i].value = handled[s]
        /\ \A j \in DOMAIN writes : j > i => ~ Touches(j, s)
        /\ RowBefore(i, s)
    BY <1>9 DEF Scheduled
  <2>1. CASE i = 1
    <3>1. data[s] # None
      <4>1. ~ \E k \in DOMAIN writes : k < 1
        BY <1>0
      <4> QED
        BY <2>1, <4>1 DEF RowBefore
    <3>2. data'[s] = handled[s]
      BY <2>1, <3>1, <1>4, <1>5 DEF Types, w
    <3>3. \A j \in DOMAIN writes' : j + 1 > 1
      BY <1>2
    <3>4. \A j \in DOMAIN writes' : ~ Touches(j, s)'
      BY <2>1, <3>3, <1>2 DEF Touches
    <3> QED
      BY <3>2, <3>4, <1>6 DEF Stored, Touches
  <2>2. CASE i # 1
    <3>1. i - 1 \in DOMAIN writes' /\ writes'[i - 1] = writes[i]
      BY <2>2, <1>3
    <3>2. \A j \in DOMAIN writes' : j > i - 1 => j + 1 > i
      BY <1>2, <1>3
    <3>3. \A j \in DOMAIN writes' : j > i - 1 => ~ Touches(j, s)'
      BY <3>2, <1>2 DEF Touches
    <3>4. RowBefore(i - 1, s)'
      <4>1. CASE data[s] # None
        BY <4>1, <1>7 DEF RowBefore
      <4>2. ASSUME NEW k \in DOMAIN writes, k < i, writes[k].id = s, writes[k].op = "insert"
            PROVE  RowBefore(i - 1, s)'
        <5>1. CASE k = 1
          <6>1. data'[s] # None
            <7>1. w.id = s /\ w.op = "insert"
              BY <5>1, <4>2 DEF w
            <7>2. CASE data[s] = None
              BY <7>1, <7>2, <1>0, <1>4, <1>5 DEF Types
            <7> QED
              BY <7>2, <1>7
          <6> QED
            BY <6>1 DEF RowBefore
        <5>2. CASE k # 1
          <6>1. k - 1 \in DOMAIN writes' /\ writes'[k - 1] = writes[k] /\ k - 1 < i - 1
            BY <5>2, <4>2, <1>3
          <6> QED
            BY <6>1, <4>2 DEF RowBefore
        <5> QED
          BY <5>1, <5>2
      <4> QED
        BY <4>1, <4>2 DEF RowBefore
    <3> QED
      BY <3>1, <3>3, <3>4, <1>6 DEF Scheduled, Touches, RowBefore
  <2> QED
    BY <2>1, <2>2
<1> QED
  BY <1>8, <1>9 DEF Written

(* Only an answered GET and a statement run change what is scheduled.       *)
LEMMA StepWritten ==
  ASSUME Types, Single, Written, [Next]_vars
  PROVE  Written'
<1> USE DEF process, database, world
<1>1. ASSUME UNCHANGED <<writes, data, handled>> PROVE Written'
  BY <1>1 DEF Written, Scheduled, Stored, Touches, RowBefore
<1>2. ASSUME Die PROVE Written'
  BY <1>2 DEF Die, Written, Nothing
<1>3. ASSUME NEW s \in Sensors, Change(s) \/ Publish(s) PROVE UNCHANGED <<writes, data, handled>>
  BY <1>3 DEF Change, Publish
<1>4. ServeCommand \/ OnMessage \/ Start => UNCHANGED <<writes, data, handled>>
  BY DEF ServeCommand, OnMessage, Start
<1>5. UNCHANGED vars => UNCHANGED <<writes, data, handled>>
  BY DEF vars
<1> QED
  BY <1>1, <1>2, <1>3, <1>4, <1>5, ReplyWritten, RunWritten DEF Next

(* When messages come one after the other the database ends with the last   *)
(* value of every sensor, whatever was lost or left half done by a death of *)
(* the process before.                                                      *)
THEOREM PacedDatabaseCurrent ==
  ASSUME InFlight = 1
  PROVE  Spec => []DatabaseCurrent
<1>1. Types /\ Written => DatabaseCurrent
  <2> SUFFICES ASSUME Types, Written, Quiet, NEW s \in Sensors, handled[s] # None
               PROVE  data[s] = handled[s]
    BY DEF DatabaseCurrent
  <2>1. DOMAIN writes = {}
    BY DEF Quiet
  <2> QED
    BY <2>1 DEF Written, Scheduled, Stored
<1>2. Init => Written
  BY DEF Init, Written, Nothing
<1>3. Types /\ Backed /\ Cached /\ Single /\ Written /\ [Next]_vars => Single'
  BY StepSingle
<1>4. Spec => [](Types /\ Backed /\ Cached /\ Single /\ Written)
  BY InitTypes, StepTypes, InitBacked, StepBacked, InitCached, StepCached, InitSingle,
     <1>2, <1>3, StepWritten, PTL DEF Spec
<1> QED
  BY <1>1, <1>4, PTL
================================================================================
