------------------------- MODULE NrfDaemonLedgerProofs -------------------------
(***************************************************************************)
(* No request is lost or doubled inside the daemon, and the daemon          *)
(* implements CommandLedger: proved from where each request is held.        *)
(***************************************************************************)
EXTENDS NrfDaemonProofs

Single(S) == \A i, j \in S : i = j

(* A request taken from Redis is somewhere before it is settled; nothing    *)
(* that was not taken is anywhere.                                          *)
Held(c) == WithRedis(c) \/ QueuedAt(c) # {} \/ InHand(c) \/ TasksOf(c) # {}

(* Strengthening of HeldOnce and NoCommandLost: a request is on its way to  *)
(* the radio exactly until its first transmission, copies exist only of     *)
(* transmitted requests, and only requests that were taken are anywhere.    *)
Unsent(c)  == WithRedis(c) \/ QueuedAt(c) # {} \/ (InHand(c) /\ ~ At("out", "adding"))
Custody ==
  /\ HeldOnce
  /\ \A c \in Commands :
       /\ c \in issued <=> Held(c) \/ c \in settled
       /\ c \in sent <=> c \in issued /\ ~ Unsent(c)
  /\ \A i \in DOMAIN pending :
       pending[i].body \in Commands /\ ~ pending[i].ack => pending[i].body \in sent
  /\ outMsg # None /\ outMsg.body \in Commands /\ ~ outMsg.ack => outMsg.body \in sent

-----------------------------------------------------------------------------
(* What enqueuing, accepting, adding and removing do to where c is held.    *)
LEMMA EnqueueQueued ==
  ASSUME pending \in Seq(Message), NEW msg \in Message, Enqueue(msg), NEW c
  PROVE  LET new == msg.body = c /\ msg.ack IN
         /\ QueuedAt(c)' = {} <=> QueuedAt(c) = {} /\ ~ new
         /\ Single(QueuedAt(c)) /\ (new => QueuedAt(c) = {}) => Single(QueuedAt(c)')
<1>1. QueuedAt(c)' = IF msg.body = c /\ msg.ack THEN QueuedAt(c) \cup {Len(pending) + 1}
                     ELSE QueuedAt(c)
  BY DEF Enqueue, QueuedAt
<1> QED
  BY <1>1 DEF Single

LEMMA AcceptQueued ==
  ASSUME pending \in Seq(Message), NoneAssumption, OutAccept, NEW c
  PROVE  /\ InHand(c)' <=> 1 \in QueuedAt(c)
         /\ Single(QueuedAt(c)) => Single(QueuedAt(c)')
         /\ Single(QueuedAt(c)) /\ InHand(c)' => QueuedAt(c)' = {}
         /\ ~ InHand(c)' => (QueuedAt(c)' = {} <=> QueuedAt(c) = {})
         /\ QueuedAt(c) = {} => QueuedAt(c)' = {}
<1>1. /\ pending # << >> /\ outMsg' = pending[1] /\ outMsg' \in Message /\ pending' \in Seq(Message)
      /\ Len(pending') = Len(pending) - 1 /\ Len(pending) \in Nat
      /\ \A i \in 1..Len(pending') : pending'[i] = pending[i+1]
      /\ DOMAIN pending = 1..Len(pending) /\ DOMAIN pending' = 1..Len(pending')
  BY HeadTailProperties, LenProperties DEF OutAccept
<1>2. InHand(c)' <=> 1 \in QueuedAt(c)
  BY <1>1, NoneAssumption, LenProperties, EmptySeq DEF InHand, QueuedAt
<1>3. \A i \in QueuedAt(c)' : i \in Nat /\ i + 1 \in QueuedAt(c) /\ i + 1 # 1
  BY <1>1 DEF QueuedAt
<1>4. \A i \in QueuedAt(c) : i # 1 => i - 1 \in QueuedAt(c)'
  <2> SUFFICES ASSUME NEW i \in QueuedAt(c), i # 1
               PROVE  i - 1 \in QueuedAt(c)'
    OBVIOUS
  <2>1. i \in 1..Len(pending) /\ pending[i].body = c /\ pending[i].ack
    BY <1>1 DEF QueuedAt
  <2>2. i - 1 \in 1..Len(pending') /\ pending'[i-1] = pending[i]
    BY <1>1, <2>1
  <2> QED
    BY <1>1, <2>1, <2>2 DEF QueuedAt
<1> QED
  BY <1>2, <1>3, <1>4 DEF Single

LEMMA AddTaskTasks ==
  ASSUME tasks \in Seq(Task), NEW key \in Keys, NEW body \in Bodies,
         tasks' = AddTask(tasks, key, body), NEW c
  PROVE  /\ TasksOf(c)' = {} <=> TasksOf(c) = {} /\ body # c
         /\ Single(TasksOf(c)) /\ (body = c => TasksOf(c) = {}) => Single(TasksOf(c)')
<1>1. TasksOf(c)' = IF body = c THEN TasksOf(c) \cup {Len(tasks) + 1} ELSE TasksOf(c)
  BY DEF AddTask, TasksOf, Task
<1> QED
  BY <1>1 DEF Single

(* An acknowledgement takes at most one request out of the resend list.     *)
LEMMA RemoveTaskTasks ==
  ASSUME tasks \in Seq(Task), NEW key, tasks' = RemoveTask(tasks, key)
  PROVE  /\ \A c : Single(TasksOf(c)) => Single(TasksOf(c)')
         /\ \A c : TasksOf(c) = {} => TasksOf(c)' = {}
         /\ \E b : \A c : c # b => (TasksOf(c)' = {} <=> TasksOf(c) = {})
<1>1. CASE tasks' = tasks
  BY <1>1 DEF TasksOf
<1>2. ASSUME NEW k \in DOMAIN tasks,
             tasks' \in Seq(Task), Len(tasks') = Len(tasks) - 1,
             \A i \in DOMAIN tasks' : tasks'[i] = tasks[IF i < k THEN i ELSE i + 1]
      PROVE  /\ \A c : Single(TasksOf(c)) => Single(TasksOf(c)')
             /\ \A c : TasksOf(c) = {} => TasksOf(c)' = {}
             /\ \A c : c # tasks[k].body => (TasksOf(c)' = {} <=> TasksOf(c) = {})
  <2>1. /\ Len(tasks) \in Nat /\ k \in 1..Len(tasks)
        /\ DOMAIN tasks = 1..Len(tasks) /\ DOMAIN tasks' = 1..(Len(tasks) - 1)
    BY <1>2, LenProperties
  <2> DEFINE up(i) == IF i < k THEN i ELSE i + 1
  <2>2. ASSUME NEW c, NEW i \in TasksOf(c)'
        PROVE  i \in Nat /\ up(i) \in TasksOf(c)
    <3>1. i \in 1..(Len(tasks) - 1) /\ tasks'[i].body = c
      BY <2>1 DEF TasksOf
    <3>2. up(i) \in 1..Len(tasks) /\ tasks'[i] = tasks[up(i)]
      BY <1>2, <2>1, <3>1
    <3> QED
      BY <2>1, <3>1, <3>2 DEF TasksOf
  <2>3. ASSUME NEW c, c # tasks[k].body, NEW i \in TasksOf(c)
        PROVE  TasksOf(c)' # {}
    <3>1. i \in 1..Len(tasks) /\ tasks[i].body = c /\ i # k
      BY <2>1, <2>3 DEF TasksOf
    <3> DEFINE j == IF i < k THEN i ELSE i - 1
    <3>2. j \in 1..(Len(tasks) - 1) /\ (IF j < k THEN j ELSE j + 1) = i
      BY <2>1, <3>1
    <3>3. tasks'[j] = tasks[i]
      BY <1>2, <2>1, <3>2
    <3> QED
      BY <2>1, <3>1, <3>2, <3>3 DEF TasksOf
  <2>4. \A i, j \in Nat : up(i) = up(j) => i = j
    BY <2>1
  <2> HIDE DEF up
  <2> QED
    BY <2>2, <2>3, <2>4 DEF Single
<1>3. \/ tasks' = tasks
      \/ \E k \in DOMAIN tasks :
           /\ tasks' \in Seq(Task) /\ Len(tasks') = Len(tasks) - 1
           /\ \A i \in DOMAIN tasks' : tasks'[i] = tasks[IF i < k THEN i ELSE i + 1]
  BY RemoveTaskEffect
<1> QED
  BY <1>1, <1>2, <1>3

-----------------------------------------------------------------------------
LEMMA InitCustody == Init => Custody
BY NoneAssumption DEF Init, Custody, HeldOnce, Held, Unsent, WithRedis, QueuedAt, InHand, TasksOf

(* Steps that move no message and no task.                                  *)
LEMMA IdleCustody ==
  ASSUME Custody, UNCHANGED <<pending, outMsg, tasks, redisCmd, history>>,
         pc["out"] = "adding" <=> pc'["out"] = "adding"
  PROVE  Custody'
BY DEF Custody, HeldOnce, Held, Unsent, WithRedis, QueuedAt, InHand, TasksOf, At, history

(* The executor queues copies of requests that are tracked, hence sent.     *)
LEMMA ResendCustody == TypeOK /\ InHandShape /\ Custody /\ ExecResend => Custody'
<1> SUFFICES ASSUME TypeOK, InHandShape, Custody, ExecResend
             PROVE  Custody'
  OBVIOUS
<1> DEFINE msg == [body |-> tasks[next].body, ack |-> FALSE, key |-> NoSensor]
<1>1. msg \in Message /\ next \in DOMAIN tasks /\ tasks[next].body \in Bodies
  <2>1. next \in 1..Len(tasks)
    BY LenProperties DEF ExecResend, TypeOK
  <2>2. next \in DOMAIN tasks /\ tasks[next] \in Task
    BY <2>1, ElementOfSeq, LenProperties DEF TypeOK
  <2> QED
    BY <2>2 DEF Message, Task, Keys
<1>2. Enqueue(msg) /\ UNCHANGED <<pc, outMsg, tasks, redisCmd, history>>
  BY DEF ExecResend
<1>3. ~ msg.ack /\ msg.body = tasks[next].body
  OBVIOUS
<1> HIDE DEF msg
<1>4. ASSUME msg.body \in Commands
      PROVE  msg.body \in sent
  <2>1. TasksOf(msg.body) # {}
    BY <1>1, <1>3 DEF TasksOf
  <2>2. ~ Unsent(msg.body)
    BY <1>4, <2>1 DEF Custody, HeldOnce, Unsent
  <2> QED
    BY <1>4, <2>1, <2>2 DEF Custody, Held
<1>5. ASSUME NEW c
      PROVE  (QueuedAt(c)' = {} <=> QueuedAt(c) = {}) /\ (Single(QueuedAt(c)) => Single(QueuedAt(c)'))
  BY <1>1, <1>2, <1>3, EnqueueQueued DEF TypeOK
<1>6. ASSUME NEW c
      PROVE  /\ WithRedis(c)' <=> WithRedis(c)
             /\ InHand(c)' <=> InHand(c)
             /\ TasksOf(c)' = TasksOf(c)
             /\ c \in issued' <=> c \in issued
             /\ c \in sent' <=> c \in sent
             /\ c \in settled' <=> c \in settled
  BY <1>2 DEF WithRedis, InHand, TasksOf, history
<1>7. HeldOnce'
  BY <1>5, <1>6 DEF Custody, HeldOnce, Single
<1>8. \A c \in Commands : /\ c \in issued' <=> Held(c)' \/ c \in settled'
                          /\ c \in sent' <=> c \in issued' /\ ~ Unsent(c)'
  BY <1>2, <1>5, <1>6 DEF Custody, Held, Unsent, At
<1>9. \A i \in DOMAIN pending' :
        pending'[i].body \in Commands /\ ~ pending'[i].ack => pending'[i].body \in sent'
  BY <1>1, <1>2, <1>4 DEF Custody, Enqueue, TypeOK, history
<1> QED
  BY <1>2, <1>7, <1>8, <1>9 DEF Custody, history

(* A registration is no request, whatever its flag reads.                   *)
LEMMA RegistrationCustody == TypeOK /\ InHandShape /\ Custody /\ MainSendRegistration => Custody'
<1> SUFFICES ASSUME TypeOK, InHandShape, Custody, MainSendRegistration
             PROVE  Custody'
  OBVIOUS
<1>1. PICK msg \in Message : Enqueue(msg) /\ msg.body \in Hubs
  BY DEF MainSendRegistration, InHandShape, Packet, Message, Bodies, Goto, At
<1>2. UNCHANGED <<outMsg, tasks, redisCmd, history>> /\ (pc["out"] = "adding" <=> pc'["out"] = "adding")
  BY DEF MainSendRegistration, Goto, TypeOK, Threads
<1>3. \A c \in Commands : msg.body # c
  BY <1>1, ConstantsAssumption
<1>4. ASSUME NEW c \in Commands
      PROVE  (QueuedAt(c)' = {} <=> QueuedAt(c) = {}) /\ (Single(QueuedAt(c)) => Single(QueuedAt(c)'))
  BY <1>1, <1>3, EnqueueQueued DEF TypeOK
<1>5. ASSUME NEW c
      PROVE  /\ WithRedis(c)' <=> WithRedis(c)
             /\ InHand(c)' <=> InHand(c)
             /\ TasksOf(c)' = TasksOf(c)
  BY <1>2 DEF WithRedis, InHand, TasksOf
<1>6. HeldOnce'
  BY <1>2, <1>4, <1>5 DEF Custody, HeldOnce, Single, history
<1>7. \A c \in Commands : /\ c \in issued' <=> Held(c)' \/ c \in settled'
                          /\ c \in sent' <=> c \in issued' /\ ~ Unsent(c)'
  BY <1>2, <1>4, <1>5 DEF Custody, Held, Unsent, At, history
<1>8. \A i \in DOMAIN pending' :
        pending'[i].body \in Commands /\ ~ pending'[i].ack => pending'[i].body \in sent'
  BY <1>1, <1>2, <1>3 DEF Custody, Enqueue, TypeOK, history
<1> QED
  BY <1>2, <1>6, <1>7, <1>8 DEF Custody, history

(* The Redis thread hands its request to the queue.                         *)
LEMMA SendCommandCustody == TypeOK /\ InHandShape /\ Custody /\ RedisSendCommand => Custody'
<1> SUFFICES ASSUME TypeOK, InHandShape, Custody, RedisSendCommand
             PROVE  Custody'
  OBVIOUS
<1> DEFINE msg == [body |-> redisCmd, ack |-> TRUE, key |-> SensorOf[redisCmd]]
<1>1. redisCmd \in Commands /\ msg \in Message
  BY ConstantsAssumption DEF RedisSendCommand, InHandShape, TypeOK, Message, Bodies, Keys, Goto, At
<1>2. Enqueue(msg) /\ msg.body = redisCmd /\ msg.ack
  BY DEF RedisSendCommand
<1> HIDE DEF msg
<1>3. /\ UNCHANGED <<outMsg, tasks, history>> /\ redisCmd' = None
      /\ pc["out"] = "adding" <=> pc'["out"] = "adding"
  BY DEF RedisSendCommand, Goto, TypeOK, Threads
<1>4. WithRedis(redisCmd) /\ QueuedAt(redisCmd) = {} /\ ~ InHand(redisCmd) /\ TasksOf(redisCmd) = {}
      /\ redisCmd \notin settled
  BY <1>1 DEF Custody, HeldOnce, WithRedis
<1>5. ASSUME NEW c \in Commands
      PROVE  /\ QueuedAt(c)' = {} <=> QueuedAt(c) = {} /\ c # redisCmd
             /\ Single(QueuedAt(c)) => Single(QueuedAt(c)')
             /\ WithRedis(c) <=> c = redisCmd
             /\ ~ WithRedis(c)'
             /\ InHand(c)' <=> InHand(c)
             /\ TasksOf(c)' = TasksOf(c)
  <2>1. /\ QueuedAt(c)' = {} <=> QueuedAt(c) = {} /\ c # redisCmd
        /\ Single(QueuedAt(c)) => Single(QueuedAt(c)')
    BY <1>1, <1>2, <1>4, EnqueueQueued DEF TypeOK
  <2> QED
    BY <1>3, <2>1, NoneAssumption DEF WithRedis, InHand, TasksOf
<1>6. HeldOnce'
  BY <1>3, <1>4, <1>5 DEF Custody, HeldOnce, Single, history
<1>7. \A c \in Commands : /\ c \in issued' <=> Held(c)' \/ c \in settled'
                          /\ c \in sent' <=> c \in issued' /\ ~ Unsent(c)'
  BY <1>3, <1>5 DEF Custody, Held, Unsent, At, history
<1>8. \A i \in DOMAIN pending' :
        pending'[i].body \in Commands /\ ~ pending'[i].ack => pending'[i].body \in sent'
  BY <1>1, <1>2, <1>3 DEF Custody, Enqueue, TypeOK, history
<1> QED
  BY <1>3, <1>6, <1>7, <1>8 DEF Custody, history

(* accept(): the head of the queue moves to the hand of the thread.         *)
LEMMA AcceptCustody == TypeOK /\ InHandShape /\ Custody /\ OutAccept => Custody'
<1> SUFFICES ASSUME TypeOK, InHandShape, Custody, OutAccept
             PROVE  Custody'
  OBVIOUS
<1>1. /\ pending \in Seq(Message) /\ pending # << >> /\ outMsg = None
      /\ outMsg' = Head(pending) /\ pending' = Tail(pending)
      /\ UNCHANGED <<tasks, redisCmd, history>> /\ pc'["out"] = "sending"
  BY DEF OutAccept, TypeOK, InHandShape, Goto, At, Threads
<1>2. ASSUME NEW c
      PROVE  /\ InHand(c)' <=> 1 \in QueuedAt(c)
             /\ Single(QueuedAt(c)) => Single(QueuedAt(c)')
             /\ Single(QueuedAt(c)) /\ InHand(c)' => QueuedAt(c)' = {}
             /\ ~ InHand(c)' => (QueuedAt(c)' = {} <=> QueuedAt(c) = {})
             /\ QueuedAt(c) = {} => QueuedAt(c)' = {}
  BY <1>1, NoneAssumption, AcceptQueued
<1>3. ASSUME NEW c
      PROVE  ~ InHand(c) /\ (WithRedis(c)' <=> WithRedis(c)) /\ TasksOf(c)' = TasksOf(c)
  BY <1>1 DEF InHand, WithRedis, TasksOf
<1>4. ASSUME NEW c \in Commands
      PROVE  Single(QueuedAt(c))
  BY DEF Custody, HeldOnce, Single
<1>5. HeldOnce'
  BY <1>1, <1>2, <1>3, <1>4 DEF Custody, HeldOnce, Single, history
<1>6. \A c \in Commands : /\ c \in issued' <=> Held(c)' \/ c \in settled'
                          /\ c \in sent' <=> c \in issued' /\ ~ Unsent(c)'
  <2> SUFFICES ASSUME NEW c \in Commands
               PROVE  /\ c \in issued' <=> Held(c)' \/ c \in settled'
                      /\ c \in sent' <=> c \in issued' /\ ~ Unsent(c)'
    OBVIOUS
  <2>1. QueuedAt(c)' # {} \/ InHand(c)' <=> QueuedAt(c) # {}
    BY <1>2, <1>4
  <2>2. ~ At("out", "adding")'
    BY <1>1 DEF At
  <2> QED
    BY <1>1, <1>3, <2>1, <2>2 DEF Custody, Held, Unsent, history
<1>7. /\ \A i \in DOMAIN pending' : i + 1 \in DOMAIN pending /\ pending'[i] = pending[i+1]
      /\ outMsg' = pending[1] /\ 1 \in DOMAIN pending
  BY <1>1, HeadTailProperties, LenProperties, EmptySeq
<1>8. /\ \A i \in DOMAIN pending' :
          pending'[i].body \in Commands /\ ~ pending'[i].ack => pending'[i].body \in sent'
      /\ outMsg'.body \in Commands /\ ~ outMsg'.ack => outMsg'.body \in sent'
  BY <1>1, <1>7 DEF Custody, history
<1> QED
  BY <1>5, <1>6, <1>8 DEF Custody

(* After the transmission a request waits to be added to the resend list;   *)
(* a copy or a plain registration is done with.                             *)
LEMMA TransmitCustody == TypeOK /\ InHandShape /\ Custody /\ OutTransmit => Custody'
<1> SUFFICES ASSUME TypeOK, InHandShape, Custody, OutTransmit
             PROVE  Custody'
  OBVIOUS
<1>1. /\ outMsg \in Message /\ outMsg # None /\ pc["out"] = "transmitting"
      /\ outMsg' = IF outMsg.ack THEN outMsg ELSE None
      /\ pc'["out"] = IF outMsg.ack THEN "adding" ELSE "idle"
      /\ sent' = sent \cup {outMsg.body}
      /\ UNCHANGED <<pending, tasks, redisCmd, issued, settled>>
  BY DEF OutTransmit, TypeOK, InHandShape, Goto, At, Threads
<1>2. ASSUME NEW c
      PROVE  /\ InHand(c)' <=> InHand(c)
             /\ WithRedis(c)' <=> WithRedis(c)
             /\ TasksOf(c)' = TasksOf(c) /\ QueuedAt(c)' = QueuedAt(c)
  BY <1>1, NoneAssumption DEF InHand, WithRedis, TasksOf, QueuedAt
<1>3. HeldOnce'
  BY <1>1, <1>2 DEF Custody, HeldOnce
<1>4. ASSUME NEW c \in Commands
      PROVE  /\ c \in issued' <=> Held(c)' \/ c \in settled'
             /\ c \in sent' <=> c \in issued' /\ ~ Unsent(c)'
  <2>1. c \in issued' <=> Held(c)' \/ c \in settled'
    BY <1>1, <1>2 DEF Custody, Held
  <2>2. CASE InHand(c)
    <3>1. /\ ~ WithRedis(c) /\ QueuedAt(c) = {} /\ c \in issued
          /\ outMsg.body = c /\ outMsg.ack
      BY <2>2 DEF Custody, HeldOnce, Held, InHand
    <3> QED
      BY <1>1, <1>2, <2>1, <3>1 DEF Unsent, At
  <2>3. CASE ~ InHand(c)
    <3>1. outMsg.body = c => c \in sent
      BY <1>1, <2>3 DEF Custody, InHand
    <3> QED
      BY <1>1, <1>2, <2>1, <2>3, <3>1 DEF Custody, Unsent
  <2> QED
    BY <2>2, <2>3, <2>1
<1>5. \A i \in DOMAIN pending' :
        pending'[i].body \in Commands /\ ~ pending'[i].ack => pending'[i].body \in sent'
  BY <1>1 DEF Custody
<1>6. outMsg' # None /\ outMsg'.body \in Commands /\ ~ outMsg'.ack => outMsg'.body \in sent'
  BY <1>1
<1> QED
  BY <1>3, <1>4, <1>5, <1>6 DEF Custody

(* The transmitted request enters the resend list.                          *)
LEMMA AddTaskCustody == TypeOK /\ InHandShape /\ Custody /\ OutAddTask => Custody'
<1> SUFFICES ASSUME TypeOK, InHandShape, Custody, OutAddTask
             PROVE  Custody'
  OBVIOUS
<1>1. /\ outMsg \in Message /\ outMsg # None /\ outMsg.ack /\ pc["out"] = "adding"
      /\ outMsg.key \in Keys /\ outMsg.body \in Bodies
      /\ tasks' = AddTask(tasks, outMsg.key, outMsg.body)
      /\ outMsg' = None /\ pc'["out"] = "idle"
      /\ UNCHANGED <<pending, redisCmd, history>>
  BY DEF OutAddTask, TypeOK, InHandShape, Goto, At, Threads, Message
<1>2. ASSUME NEW c \in Commands
      PROVE  /\ TasksOf(c)' = {} <=> TasksOf(c) = {} /\ ~ InHand(c)
             /\ Single(TasksOf(c)) => Single(TasksOf(c)')
             /\ ~ InHand(c)'
             /\ WithRedis(c)' <=> WithRedis(c)
             /\ QueuedAt(c)' = QueuedAt(c)
  <2>1. InHand(c) <=> outMsg.body = c
    BY <1>1 DEF InHand
  <2>2. InHand(c) => TasksOf(c) = {}
    BY DEF Custody, HeldOnce
  <2>3. /\ TasksOf(c)' = {} <=> TasksOf(c) = {} /\ outMsg.body # c
        /\ Single(TasksOf(c)) /\ (outMsg.body = c => TasksOf(c) = {}) => Single(TasksOf(c)')
    BY <1>1, AddTaskTasks DEF TypeOK
  <2>4. ~ InHand(c)' /\ (WithRedis(c)' <=> WithRedis(c)) /\ QueuedAt(c)' = QueuedAt(c)
    BY <1>1 DEF InHand, WithRedis, QueuedAt
  <2> QED
    BY <2>1, <2>2, <2>3, <2>4
<1>3. HeldOnce'
  BY <1>1, <1>2 DEF Custody, HeldOnce, Single, history
<1>4. \A c \in Commands : /\ c \in issued' <=> Held(c)' \/ c \in settled'
                          /\ c \in sent' <=> c \in issued' /\ ~ Unsent(c)'
  BY <1>1, <1>2 DEF Custody, Held, Unsent, At, history
<1>5. \A i \in DOMAIN pending' :
        pending'[i].body \in Commands /\ ~ pending'[i].ack => pending'[i].body \in sent'
  BY <1>1 DEF Custody, history
<1> QED
  BY <1>1, <1>3, <1>4, <1>5 DEF Custody

(* An acknowledgement settles the request whose task it removes.            *)
LEMMA RemoveTaskCustody == TypeOK /\ InHandShape /\ Custody /\ MainRemoveTask => Custody'
<1> SUFFICES ASSUME TypeOK, InHandShape, Custody, MainRemoveTask
             PROVE  Custody'
  OBVIOUS
<1>1. /\ tasks' = RemoveTask(tasks, rx.key)
      /\ UNCHANGED <<pending, outMsg, redisCmd, issued, sent>>
      /\ pc["out"] = "adding" <=> pc'["out"] = "adding"
  BY DEF MainRemoveTask, TypeOK, Goto, Threads
<1>2. \A c \in Commands : c \in settled' <=> c \in settled \/ (TasksOf(c) # {} /\ TasksOf(c)' = {})
  BY DEF MainRemoveTask, TasksOf
<1>3. ASSUME NEW c \in Commands
      PROVE  /\ Single(TasksOf(c)) => Single(TasksOf(c)')
             /\ TasksOf(c) = {} => TasksOf(c)' = {}
             /\ WithRedis(c)' <=> WithRedis(c)
             /\ InHand(c)' <=> InHand(c)
             /\ QueuedAt(c)' = QueuedAt(c)
  <2>1. /\ Single(TasksOf(c)) => Single(TasksOf(c)')
        /\ TasksOf(c) = {} => TasksOf(c)' = {}
    BY <1>1, RemoveTaskTasks DEF TypeOK
  <2> QED
    BY <1>1, <2>1 DEF WithRedis, InHand, QueuedAt
<1>4. HeldOnce'
  BY <1>2, <1>3 DEF Custody, HeldOnce, Single
<1>5. \A c \in Commands : /\ c \in issued' <=> Held(c)' \/ c \in settled'
                          /\ c \in sent' <=> c \in issued' /\ ~ Unsent(c)'
  BY <1>1, <1>2, <1>3 DEF Custody, Held, Unsent, At
<1>6. /\ \A i \in DOMAIN pending' :
           pending'[i].body \in Commands /\ ~ pending'[i].ack => pending'[i].body \in sent'
      /\ outMsg' # None /\ outMsg'.body \in Commands /\ ~ outMsg'.ack => outMsg'.body \in sent'
  BY <1>1 DEF Custody
<1> QED
  BY <1>4, <1>5, <1>6 DEF Custody

(* A new request is with the Redis thread and nowhere else.                 *)
LEMMA ReceiveCustody ==
  TypeOK /\ InHandShape /\ Custody /\ (\E c \in Commands : RedisReceive(c)) => Custody'
<1> SUFFICES ASSUME TypeOK, InHandShape, Custody, NEW d \in Commands, RedisReceive(d)
             PROVE  Custody'
  OBVIOUS
<1>1. /\ d \notin issued /\ issued' = issued \cup {d} /\ redisCmd = None /\ redisCmd' = d
      /\ UNCHANGED <<pending, outMsg, tasks, sent, settled>>
      /\ pc["out"] = "adding" <=> pc'["out"] = "adding"
  BY DEF RedisReceive, TypeOK, InHandShape, Goto, At, Threads
<1>2. ~ Held(d) /\ d \notin settled
  BY <1>1 DEF Custody
<1>3. ASSUME NEW c \in Commands
      PROVE  /\ ~ WithRedis(c)
             /\ WithRedis(c)' <=> c = d
             /\ InHand(c)' <=> InHand(c)
             /\ QueuedAt(c)' = QueuedAt(c) /\ TasksOf(c)' = TasksOf(c)
  BY <1>1, NoneAssumption DEF WithRedis, InHand, QueuedAt, TasksOf
<1>4. HeldOnce'
  BY <1>1, <1>2, <1>3 DEF Custody, HeldOnce, Held
<1>5. \A c \in Commands : /\ c \in issued' <=> Held(c)' \/ c \in settled'
                          /\ c \in sent' <=> c \in issued' /\ ~ Unsent(c)'
  BY <1>1, <1>2, <1>3 DEF Custody, Held, Unsent, At
<1>6. /\ \A i \in DOMAIN pending' :
           pending'[i].body \in Commands /\ ~ pending'[i].ack => pending'[i].body \in sent'
      /\ outMsg' # None /\ outMsg'.body \in Commands /\ ~ outMsg'.ack => outMsg'.body \in sent'
  BY <1>1 DEF Custody
<1> QED
  BY <1>4, <1>5, <1>6 DEF Custody

(* Steps that only move locks and program counters, or handle a packet      *)
(* without touching a message or a task.                                    *)
LEMMA OtherCustody ==
  ASSUME TypeOK, InHandShape, Custody,
         \/ MainLock \/ MainNoData \/ MainRegister \/ MainUpdate
         \/ \E p \in Packet : MainReceive(p)
         \/ OutLock \/ ExecLock \/ ExecUnlock
  PROVE  Custody'
<1>1. UNCHANGED <<pending, outMsg, tasks, redisCmd, history>>
  BY DEF MainLock, MainNoData, MainRegister, MainUpdate, MainReceive, OutLock, ExecLock,
         ExecUnlock, history
<1>2. pc["out"] = "adding" <=> pc'["out"] = "adding"
  BY DEF MainLock, MainNoData, MainRegister, MainUpdate, MainReceive, OutLock, ExecLock,
         ExecUnlock, Goto, At, TypeOK, Threads
<1> QED
  BY <1>1, <1>2, IdleCustody

LEMMA CustodyKept == TypeOK /\ InHandShape /\ Custody /\ [Next]_vars => Custody'
<1> SUFFICES ASSUME TypeOK, InHandShape, Custody, [Next]_vars
             PROVE  Custody'
  OBVIOUS
<1>1. CASE Main
  BY <1>1, OtherCustody, RemoveTaskCustody, RegistrationCustody DEF Main
<1>2. CASE Out
  BY <1>2, OtherCustody, AcceptCustody, TransmitCustody, AddTaskCustody DEF Out
<1>3. CASE Exec
  BY <1>3, OtherCustody, ResendCustody DEF Exec
<1>4. CASE Redis
  BY <1>4, SendCommandCustody, ReceiveCustody DEF Redis
<1>5. CASE UNCHANGED vars
  BY <1>5, IdleCustody DEF vars, history
<1> QED
  BY <1>1, <1>2, <1>3, <1>4, <1>5 DEF Next

(* Custody always holds: where a request is held, and whether it was sent.  *)
THEOREM CustodyHolds == Spec => []Custody
BY InitCustody, CustodyKept, TypeCorrect, PTL DEF Spec

(* A request is never in two places at once, however many tasks there are:  *)
(* the executor's copies do not breed tasks.                                *)
THEOREM HeldOnlyOnce == Spec => []HeldOnce
<1>1. Custody => HeldOnce
  BY DEF Custody
<1> QED
  BY <1>1, CustodyHolds, PTL

(* No request taken from Redis is forgotten before an acknowledgement.      *)
THEOREM NothingLost == Spec => []NoCommandLost
<1>1. TypeOK /\ Custody => NoCommandLost
  BY DEF Custody, NoCommandLost, Held, TypeOK
<1> QED
  BY <1>1, CustodyHolds, TypeCorrect, PTL

-----------------------------------------------------------------------------
(* The daemon implements CommandLedger: each step moves at most one request *)
(* to its next stage.                                                       *)
LEMMA AdvanceOne ==
  ASSUME NEW d \in Commands, NEW from, NEW to, Stage(d) = from, Stage(d)' = to,
         \A c \in Commands \ {d} : Stage(c)' = Stage(c)
  PROVE  Ledger!Advance(d, from, to)
<1> DEFINE stages == [c \in Commands |-> Stage(c)]
<1>1. stages[d] = from
  OBVIOUS
<1>2. stages' = [stages EXCEPT ![d] = to]
  BY Zenon
<1> QED
  BY <1>1, <1>2 DEF Ledger!Advance

LEMMA SameStages ==
  ASSUME \A c \in Commands : Stage(c)' = Stage(c)
  PROVE  UNCHANGED [c \in Commands |-> Stage(c)]
BY Zenon

(* Taking a request from Redis is Accept.                                   *)
LEMMA ReceiveAccepts ==
  ASSUME Custody, NEW d \in Commands, RedisReceive(d)
  PROVE  Ledger!Accept(d)
<1>1. /\ d \notin issued /\ issued' = issued \cup {d}
      /\ UNCHANGED <<tasks, sent, settled>>
  BY DEF RedisReceive
<1>2. d \notin settled /\ d \notin sent /\ TasksOf(d) = {}
  BY <1>1 DEF Custody, Held
<1>3. \A c : TasksOf(c)' = TasksOf(c)
  BY <1>1 DEF TasksOf
<1>4. Stage(d) = "new" /\ Stage(d)' = "accepted"
  BY <1>1, <1>2, <1>3 DEF Stage
<1>5. \A c \in Commands \ {d} : Stage(c)' = Stage(c)
  BY <1>1, <1>3 DEF Stage
<1> QED
  BY <1>4, <1>5, AdvanceOne DEF Ledger!Accept

(* The first transmission of a request is Send; a copy changes nothing.     *)
LEMMA TransmitSends ==
  ASSUME TypeOK, InHandShape, Custody, OutTransmit
  PROVE  Ledger!Next \/ UNCHANGED [c \in Commands |-> Stage(c)]
<1>1. /\ outMsg \in Message /\ outMsg # None /\ pc["out"] = "transmitting"
      /\ sent' = sent \cup {outMsg.body}
      /\ UNCHANGED <<tasks, issued, settled>>
  BY DEF OutTransmit, TypeOK, InHandShape, Goto, At, Threads
<1>2. \A c : TasksOf(c)' = TasksOf(c)
  BY <1>1 DEF TasksOf
<1>3. \A c \in Commands : c # outMsg.body => Stage(c)' = Stage(c)
  BY <1>1, <1>2 DEF Stage
<1>4. CASE outMsg.body \in Commands /\ outMsg.ack
  <2> PICK d \in Commands : d = outMsg.body
    BY <1>4
  <2>1. InHand(d) /\ ~ At("out", "adding")
    BY <1>1, <1>4 DEF InHand, At
  <2>2. d \notin settled /\ d \notin sent /\ TasksOf(d) = {} /\ d \in issued
    BY <1>4, <2>1 DEF Custody, HeldOnce, Held, Unsent
  <2>3. Stage(d) = "accepted" /\ Stage(d)' = "sent"
    BY <1>1, <1>2, <2>2 DEF Stage
  <2> QED
    BY <1>3, <1>4, <2>3, AdvanceOne DEF Ledger!Send, Ledger!Next
<1>5. CASE outMsg.body \in Commands /\ ~ outMsg.ack
  <2>1. outMsg.body \in sent
    BY <1>1, <1>5 DEF Custody
  <2>2. sent' = sent
    BY <1>1, <2>1
  <2> QED
    BY <1>1, <1>2, <2>2, SameStages DEF Stage
<1>6. CASE outMsg.body \notin Commands
  BY <1>3, <1>6, SameStages
<1> QED
  BY <1>4, <1>5, <1>6

(* Entering a transmitted request in the resend list is Track; a stray      *)
(* registration entered there is no request.                                *)
LEMMA AddTaskTracks ==
  ASSUME TypeOK, InHandShape, Custody, OutAddTask
  PROVE  Ledger!Next \/ UNCHANGED [c \in Commands |-> Stage(c)]
<1>1. /\ outMsg \in Message /\ outMsg # None /\ outMsg.ack /\ pc["out"] = "adding"
      /\ outMsg.key \in Keys /\ outMsg.body \in Bodies
      /\ tasks' = AddTask(tasks, outMsg.key, outMsg.body)
      /\ UNCHANGED <<issued, sent, settled>>
  BY DEF OutAddTask, TypeOK, InHandShape, Goto, At, Threads, Message, history
<1>2. \A c \in Commands : TasksOf(c)' = {} <=> TasksOf(c) = {} /\ outMsg.body # c
  BY <1>1, AddTaskTasks DEF TypeOK
<1>3. \A c \in Commands : c # outMsg.body => Stage(c)' = Stage(c)
  BY <1>1, <1>2 DEF Stage
<1>4. CASE outMsg.body \in Commands
  <2> PICK d \in Commands : d = outMsg.body
    BY <1>4
  <2>1. InHand(d)
    BY <1>1, <1>4 DEF InHand
  <2>2. d \notin settled /\ TasksOf(d) = {} /\ d \in issued /\ ~ Unsent(d)
    BY <1>1, <1>4, <2>1 DEF Custody, HeldOnce, Held, Unsent, At
  <2>3. d \in sent
    BY <1>4, <2>2 DEF Custody
  <2>4. Stage(d) = "sent" /\ Stage(d)' = "tracked"
    BY <1>1, <1>2, <1>4, <2>2, <2>3 DEF Stage
  <2> QED
    BY <1>3, <1>4, <2>4, AdvanceOne DEF Ledger!Track, Ledger!Next
<1>5. CASE outMsg.body \notin Commands
  BY <1>3, <1>5, SameStages
<1> QED
  BY <1>4, <1>5

(* An acknowledgement settles one request at most.                          *)
LEMMA RemoveTaskSettles ==
  ASSUME TypeOK, InHandShape, Custody, MainRemoveTask
  PROVE  Ledger!Next \/ UNCHANGED [c \in Commands |-> Stage(c)]
<1>1. tasks' = RemoveTask(tasks, rx.key) /\ UNCHANGED <<issued, sent>>
  BY DEF MainRemoveTask
<1>2. \A c \in Commands : c \in settled' <=> c \in settled \/ (TasksOf(c) # {} /\ TasksOf(c)' = {})
  BY DEF MainRemoveTask, TasksOf
<1>3. /\ \A c : TasksOf(c) = {} => TasksOf(c)' = {}
      /\ \E b : \A c : c # b => (TasksOf(c)' = {} <=> TasksOf(c) = {})
  BY <1>1, RemoveTaskTasks DEF TypeOK
<1>4. PICK b : \A c : c # b => (TasksOf(c)' = {} <=> TasksOf(c) = {})
  BY <1>3
<1>5. \A c \in Commands : c # b => Stage(c)' = Stage(c)
  BY <1>1, <1>2, <1>4 DEF Stage
<1>6. CASE b \in Commands /\ TasksOf(b) # {} /\ TasksOf(b)' = {}
  <2>1. b \notin settled
    BY <1>6 DEF Custody, HeldOnce
  <2>2. Stage(b) = "tracked" /\ Stage(b)' = "settled"
    BY <1>2, <1>6, <2>1 DEF Stage
  <2> QED
    BY <1>5, <1>6, <2>2, AdvanceOne DEF Ledger!Settle, Ledger!Next
<1>7. CASE ~ (b \in Commands /\ TasksOf(b) # {} /\ TasksOf(b)' = {})
  <2>1. b \in Commands => Stage(b)' = Stage(b)
    BY <1>1, <1>2, <1>3, <1>7 DEF Stage
  <2> QED
    BY <1>5, <2>1, SameStages
<1> QED
  BY <1>6, <1>7

(* Every other step leaves the stages as they are.                          *)
LEMMA OtherStutters ==
  ASSUME UNCHANGED <<tasks, issued, sent, settled>>
  PROVE  UNCHANGED [c \in Commands |-> Stage(c)]
<1>1. \A c : TasksOf(c)' = TasksOf(c)
  BY DEF TasksOf
<1>2. \A c \in Commands : Stage(c)' = Stage(c)
  BY <1>1 DEF Stage
<1> QED
  BY <1>2, SameStages

(* The daemon implements the ledger of requests: each request goes from     *)
(* new over accepted, sent and tracked to settled, one stage at a time and  *)
(* never back, whatever the threads, the queue and the radio do.            *)
THEOREM ImplementsLedger == Spec => LedgerSpec
<1>1. Init => Ledger!Init
  <2> SUFFICES ASSUME Init
               PROVE  Ledger!Init
    OBVIOUS
  <2>1. \A c \in Commands : Stage(c) = "new"
    BY DEF Init, Stage, TasksOf
  <2> QED
    BY <2>1 DEF Ledger!Init
<1>2. TypeOK /\ InHandShape /\ Custody /\ [Next]_vars
      => Ledger!Next \/ UNCHANGED [c \in Commands |-> Stage(c)]
  <2> SUFFICES ASSUME TypeOK, InHandShape, Custody, [Next]_vars
               PROVE  Ledger!Next \/ UNCHANGED [c \in Commands |-> Stage(c)]
    OBVIOUS
  <2>1. CASE \/ MainLock \/ MainNoData \/ MainRegister \/ MainUpdate \/ MainSendRegistration
             \/ \E p \in Packet : MainReceive(p)
             \/ OutAccept \/ OutLock \/ Exec \/ RedisSendCommand \/ UNCHANGED vars
    BY <2>1, OtherStutters
       DEF MainLock, MainNoData, MainRegister, MainUpdate, MainSendRegistration, MainReceive,
           OutAccept, OutLock, Exec, ExecLock, ExecResend, ExecUnlock, RedisSendCommand,
           history, vars
  <2>2. ASSUME NEW d \in Commands, RedisReceive(d)
        PROVE  Ledger!Next
    BY <2>2, ReceiveAccepts DEF Ledger!Next
  <2> QED
    BY <2>1, <2>2, TransmitSends, AddTaskTracks, RemoveTaskSettles
       DEF Next, Main, Out, Redis
<1> QED
  BY <1>1, <1>2, TypeCorrect, CustodyHolds, PTL DEF Spec, LedgerSpec, Ledger!Spec
================================================================================
