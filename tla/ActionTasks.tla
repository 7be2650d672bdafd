------------------------------ MODULE ActionTasks ------------------------------
(***************************************************************************)
(* The resend list of the gateway daemon (nrfActionTaskMng::m_tasks) as a   *)
(* sequence of tasks, each a record with the field  key  (the address of    *)
(* the sensor whose acknowledgement is awaited) and  body  (the packet).    *)
(* The locking of the list is modelled by the threads of NrfDaemon.         *)
(***************************************************************************)
EXTENDS SequencesExt

(* apiAddTask: push_back.  Nothing looks for a task of the same sensor.     *)
AddTask(tasks, key, body) == Append(tasks, [key |-> key, body |-> body])

(* Mutant: every task of the sensor is erased.                              *)
RemoveTaskEvery(tasks, key) == SelectSeq(tasks, LAMBDA task : task.key # key)

(* Mutant: the first task is erased, whatever its sensor.                   *)
RemoveTaskFirst(tasks, key) == RemoveFirstMatch(tasks, LAMBDA task : TRUE)

(* apiRemoveTask: the loop erases the first task of that sensor, returns at *)
(* once, and leaves the list alone when no task matches.                    *)
RemoveTask(tasks, key) == RemoveFirstMatch(tasks, LAMBDA task : task.key = key)
================================================================================
