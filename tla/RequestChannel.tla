----------------------------- MODULE RequestChannel ----------------------------
(***************************************************************************)
(* What the gateway, the radio and the hubs together promise of requests:   *)
(* one that was taken stays pending until its hub has carried it out and    *)
(* the gateway knows; only when the daemon dies are requests lost, all that *)
(* are pending at once, and none of them comes back, though its hub may     *)
(* still carry it out.  WiseUpLink implements this channel when no two      *)
(* requests are for one relay.                                              *)
(***************************************************************************)
EXTENDS Naturals

CONSTANT Requests

VARIABLES
  status,  \* how far each request has come
  done,    \* the requests carried out
  deaths   \* how often the daemon has died

Init == status = [r \in Requests |-> "new"] /\ done = {} /\ deaths = 0

Take(r) ==
  /\ status[r] = "new" /\ status' = [status EXCEPT ![r] = "pending"]
  /\ UNCHANGED <<done, deaths>>

CarryOut(r) ==
  /\ status[r] # "new" /\ done' = done \cup {r}
  /\ UNCHANGED <<status, deaths>>

Settle(r) ==
  /\ status[r] = "pending" /\ r \in done
  /\ status' = [status EXCEPT ![r] = "settled"]
  /\ UNCHANGED <<done, deaths>>

Die ==
  /\ status' = [r \in Requests |-> IF status[r] = "pending" THEN "lost" ELSE status[r]]
  /\ deaths' = deaths + 1 /\ UNCHANGED done

Next == Die \/ \E r \in Requests : Take(r) \/ CarryOut(r) \/ Settle(r)

Spec == Init /\ [][Next]_<<status, done, deaths>>
================================================================================
