---------------------------- MODULE NrfDaemonProofs ----------------------------
(***************************************************************************)
(* The daemon's invariants, proved for every number of hubs, sensors and    *)
(* requests, every backlog, and every interleaving of the four threads.     *)
(***************************************************************************)
EXTENDS NrfDaemon, ActionTasksProofs

(* What each thread has in hand at each of its steps.                       *)
InHandShape ==
  /\ pc["main"] \in {"removing", "checking", "connecting"} => rx \in Packet
  /\ pc["out"] = "idle" <=> outMsg = None
  /\ pc["out"] = "adding" => outMsg.ack
  /\ pc["redis"] = "connecting" <=> redisCmd # None

LEMMA InitTyped == Init => TypeOK /\ InHandShape
BY ConstantsAssumption, NoneAssumption, EmptySeq
   DEF Init, TypeOK, InHandShape, Threads, MainLabels, OutLabels, ExecLabels, RedisLabels

(* A step of main keeps the types.                                          *)
LEMMA MainTyped == TypeOK /\ InHandShape /\ Main => TypeOK' /\ InHandShape'
<1> SUFFICES ASSUME TypeOK, InHandShape, Main
             PROVE  TypeOK' /\ InHandShape'
  OBVIOUS
<1> USE ConstantsAssumption, NoneAssumption
    DEF TypeOK, InHandShape, Goto, At, Threads, MainLabels, OutLabels, ExecLabels,
        RedisLabels, locks, history, Packet, Keys
<1>1. CASE MainLock
  BY <1>1 DEF MainLock
<1>2. CASE MainNoData
  BY <1>2 DEF MainNoData
<1>3. CASE MainRemoveTask
  <2>1. RemoveTask(tasks, rx.key) \in Seq(Task)
    BY RemoveTaskEffect
  <2> QED
    BY <1>3, <2>1 DEF MainRemoveTask
<1>4. CASE MainRegister
  BY <1>4 DEF MainRegister
<1>5. CASE MainUpdate
  BY <1>5 DEF MainUpdate
<1>6. CASE MainSendRegistration
  BY <1>6 DEF MainSendRegistration, Enqueue, Message, Bodies
<1>7. ASSUME NEW p \in Packet, MainReceive(p)
      PROVE  TypeOK' /\ InHandShape'
  BY <1>7 DEF MainReceive
<1> QED
  BY <1>1, <1>2, <1>3, <1>4, <1>5, <1>6, <1>7 DEF Main

(* A step of the outgoing thread keeps the types.                           *)
LEMMA OutTyped == TypeOK /\ InHandShape /\ Out => TypeOK' /\ InHandShape'
<1> SUFFICES ASSUME TypeOK, InHandShape, Out
             PROVE  TypeOK' /\ InHandShape'
  OBVIOUS
<1> USE ConstantsAssumption, NoneAssumption
    DEF TypeOK, InHandShape, Goto, At, Threads, MainLabels, OutLabels, ExecLabels,
        RedisLabels, locks, history, Message
<1>1. CASE OutAccept
  <2>1. /\ Head(pending) \in Message /\ Tail(pending) \in Seq(Message)
        /\ Len(Tail(pending)) = Len(pending) - 1
    BY <1>1, HeadTailProperties DEF OutAccept
  <2>2. Len(pending) \in Nat
    BY LenProperties
  <2> QED
    BY <1>1, <2>1, <2>2 DEF OutAccept
<1>2. CASE OutLock
  BY <1>2 DEF OutLock
<1>3. CASE OutTransmit
  BY <1>3 DEF OutTransmit
<1>4. CASE OutAddTask
  BY <1>4 DEF OutAddTask, AddTask, Task
<1> QED
  BY <1>1, <1>2, <1>3, <1>4 DEF Out

(* A step of the executor keeps the types.                                  *)
LEMMA ExecTyped == TypeOK /\ InHandShape /\ Exec => TypeOK' /\ InHandShape'
<1> SUFFICES ASSUME TypeOK, InHandShape, Exec
             PROVE  TypeOK' /\ InHandShape'
  OBVIOUS
<1> USE ConstantsAssumption
    DEF TypeOK, InHandShape, Goto, At, Threads, MainLabels, OutLabels, ExecLabels,
        RedisLabels, locks, history
<1>1. CASE ExecLock
  BY <1>1 DEF ExecLock
<1>2. CASE ExecResend
  <2>1. tasks[next] \in Task
    BY <1>2, ElementOfSeq DEF ExecResend
  <2> QED
    BY <1>2, <2>1 DEF ExecResend, Enqueue, Message, Task, Keys
<1>3. CASE ExecUnlock
  BY <1>3 DEF ExecUnlock
<1> QED
  BY <1>1, <1>2, <1>3 DEF Exec

(* A step of the Redis thread keeps the types.                              *)
LEMMA RedisTyped == TypeOK /\ InHandShape /\ Redis => TypeOK' /\ InHandShape'
<1> SUFFICES ASSUME TypeOK, InHandShape, Redis
             PROVE  TypeOK' /\ InHandShape'
  OBVIOUS
<1> USE ConstantsAssumption, NoneAssumption
    DEF TypeOK, InHandShape, Goto, At, Threads, MainLabels, OutLabels, ExecLabels,
        RedisLabels, locks, history
<1>1. ASSUME NEW c \in Commands, RedisReceive(c)
      PROVE  TypeOK' /\ InHandShape'
  BY <1>1 DEF RedisReceive
<1>2. CASE RedisSendCommand
  BY <1>2 DEF RedisSendCommand, Enqueue, Message, Bodies, Keys
<1> QED
  BY <1>1, <1>2 DEF Redis

(* The state of the daemon is always well typed.                            *)
THEOREM TypeCorrect == Spec => [](TypeOK /\ InHandShape)
<1>1. TypeOK /\ InHandShape /\ [Next]_vars => TypeOK' /\ InHandShape'
  <2>1. CASE Next
    BY <2>1, MainTyped, OutTyped, ExecTyped, RedisTyped DEF Next
  <2>2. CASE UNCHANGED vars
    BY <2>2 DEF vars, TypeOK, InHandShape
  <2> QED
    BY <2>1, <2>2
<1> QED
  BY <1>1, InitTyped, PTL DEF Spec

(* The step each lock invariant needs: a lock changes hands only through    *)
(* "free", and only together with the program counter of its holder.        *)
LEMMA LocksKept == TypeOK /\ LockDiscipline /\ [Next]_vars => LockDiscipline'
<1> SUFFICES ASSUME TypeOK, LockDiscipline, [Next]_vars
             PROVE  LockDiscipline'
  OBVIOUS
<1> USE DEF LockDiscipline, MainListening, Goto, At, TypeOK, Threads, MainLabels,
            OutLabels, ExecLabels, RedisLabels, locks
<1>1. CASE MainLock
  BY <1>1 DEF MainLock
<1>2. CASE MainNoData
  BY <1>2 DEF MainNoData
<1>3. CASE MainRemoveTask
  BY <1>3 DEF MainRemoveTask
<1>4. CASE MainRegister
  BY <1>4 DEF MainRegister
<1>5. CASE MainUpdate
  BY <1>5 DEF MainUpdate
<1>6. CASE MainSendRegistration
  BY <1>6 DEF MainSendRegistration
<1>7. ASSUME NEW p \in Packet, MainReceive(p)
      PROVE  LockDiscipline'
  BY <1>7 DEF MainReceive
<1>8. CASE Out
  BY <1>8 DEF Out, OutAccept, OutLock, OutTransmit, OutAddTask
<1>9. CASE Exec
  BY <1>9 DEF Exec, ExecLock, ExecResend, ExecUnlock
<1>10. CASE Redis
  BY <1>10 DEF Redis, RedisReceive, RedisSendCommand
<1>11. CASE UNCHANGED vars
  BY <1>11 DEF vars
<1> QED
  BY <1>1, <1>2, <1>3, <1>4, <1>5, <1>6, <1>7, <1>8, <1>9, <1>10, <1>11 DEF Next, Main

(* Each lock is held exactly by the thread that works under it: two threads *)
(* are never inside the radio driver, nor inside the resend list, at once.  *)
THEOREM LocksHeld == Spec => []LockDiscipline
<1>1. Init => LockDiscipline
  BY DEF Init, LockDiscipline, MainListening, At, Threads
<1> QED
  BY <1>1, LocksKept, TypeCorrect, PTL DEF Spec

(* The executor's iterator stays valid: the list does not change during a   *)
(* pass, whatever the other threads are doing.                              *)
THEOREM PassUndisturbed == Spec => PassSeesStableTasks
<1>1. LockDiscipline /\ [Next]_vars => [At("exec", "resending") => tasks' = tasks]_vars
  <2> SUFFICES ASSUME LockDiscipline, Next, At("exec", "resending")
               PROVE  tasks' = tasks
    BY DEF vars
  <2>1. taskLock = "exec"
    BY DEF LockDiscipline
  <2>2. CASE Main
    BY <2>1, <2>2 DEF Main, MainLock, MainNoData, MainReceive, MainRemoveTask,
                      MainRegister, MainUpdate, MainSendRegistration
  <2>3. CASE Out
    BY <2>1, <2>3 DEF Out, OutAccept, OutLock, OutTransmit, OutAddTask
  <2>4. CASE Exec
    BY <2>4 DEF Exec, ExecLock, ExecResend, ExecUnlock
  <2>5. CASE Redis
    BY <2>5 DEF Redis, RedisReceive, RedisSendCommand
  <2> QED
    BY <2>2, <2>3, <2>4, <2>5 DEF Next
<1> QED
  BY <1>1, LocksHeld, PTL DEF Spec, PassSeesStableTasks
================================================================================
