----------------------------- MODULE CommandLedger -----------------------------
(***************************************************************************)
(* What the gateway daemon promises of the SENSOR-ACTION requests it takes  *)
(* from Redis: a request is first put on the air, then entered in the       *)
(* resend list, stays there until an acknowledgement for its sensor removes *)
(* it, and never goes back.  NrfDaemon implements this ledger.              *)
(***************************************************************************)
CONSTANT Commands

VARIABLE status   \* status[c]: how far request c has come

Stages == {"new", "accepted", "sent", "tracked", "settled"}

Init == status = [c \in Commands |-> "new"]

Advance(c, from, to) ==
  /\ status[c] = from
  /\ status' = [status EXCEPT ![c] = to]

Accept(c) == Advance(c, "new", "accepted")
Send(c)   == Advance(c, "accepted", "sent")
Track(c)  == Advance(c, "sent", "tracked")
Settle(c) == Advance(c, "tracked", "settled")

Next == \E c \in Commands : Accept(c) \/ Send(c) \/ Track(c) \/ Settle(c)

Spec == Init /\ [][Next]_status
================================================================================
