----------------------------- MODULE Nrf24Proofs -----------------------------
(***************************************************************************)
(* The driver of the radio, for every depth of the FIFO and any traffic.    *)
(***************************************************************************)
EXTENDS Nrf24, FiniteSetTheorems, TLAPS

Done == status \cap {"TX_DS", "MAX_RT"} # {}

(* RX_DR is set and there is nothing to read.  Between the read and the     *)
(* clearing of the bit this says nothing.                                   *)
Stale == rxFifo = << >> /\ "RX_DR" \in status /\ pc # "clear"

Accounted ==
  /\ phantoms <= wasted
  /\ Stale => phantoms + 1 <= wasted
  /\ pc = "read" => rxFifo # << >> \/ "RX_DR" \in status

(* Transmitting and waiting for it go together, bits of an earlier packet   *)
(* are cleared before the next is loaded, and a packet that is done is gone *)
(* or cannot be sent.                                                       *)
Transmitting ==
  /\ (mode = "tx" \/ ptx) => pc = "sending"
  /\ pc \in {"flush", "send"} => ~ Done
  /\ pc = "sending" /\ ~ Done => txFifo = <<given>> /\ given # 0
  /\ pc = "sending" /\ Done => "MAX_RT" \in status \/ txFifo = << >>

RadioInv == RadioTypeOK /\ Accounted /\ Transmitting /\ SendsSettled

-----------------------------------------------------------------------------
(* Counting one further.                                                    *)
LEMMA CountOn ==
  ASSUME NEW n \in Nat
  PROVE  Append([i \in 1..n |-> i], n + 1) = [i \in 1..(n + 1) |-> i]
<1>1. [i \in 1..n |-> i] \in Seq(Nat) /\ Len([i \in 1..n |-> i]) = n
  OBVIOUS
<1> QED
  BY <1>1

(* It holds at first.                                                       *)
LEMMA RadioInitial == RadioInit => RadioInv
<1> SUFFICES ASSUME RadioInit PROVE RadioInv
  OBVIOUS
<1> USE DEF RadioInit
<1>1. txFifo \in Seq(Nat) /\ Len(txFifo) <= 1
  <2>1. CASE txFifo = << >>
    BY <2>1
  <2>2. CASE txFifo = <<0>>
    BY <2>2
  <2> QED
    BY <2>1, <2>2
<1>2. rxFifo \in Seq(Nat) /\ handled \in Seq(Nat) /\ finished \in Seq(Nat) /\ Len(rxFifo) <= Depth
  BY RadioConstants
<1>3. status \subseteq Bits /\ wasted \in Nat
  BY DEF Bits
<1>4. RadioTypeOK
  BY <1>1, <1>2, <1>3 DEF RadioTypeOK, Pcs
<1>5. Accounted
  <2>1. pc # "read" /\ phantoms = 0 /\ 0 <= wasted
    OBVIOUS
  <2>2. Stale => wasted = 1
    BY DEF Stale
  <2> QED
    BY <2>1, <2>2 DEF Accounted
<1>6. Transmitting
  BY DEF Transmitting, Done
<1>7. SendsSettled
  BY DEF SendsSettled
<1> QED
  BY <1>4, <1>5, <1>6, <1>7 DEF RadioInv

(* The conjuncts look at few of the variables: what leaves these alone, or  *)
(* changes them in a way that does not matter, keeps the conjunct.          *)
LEMMA AccountedKept ==
  ASSUME Accounted, UNCHANGED <<rxFifo, phantoms, wasted>>,
         "RX_DR" \in status' <=> "RX_DR" \in status,
         pc # "clear", pc' # "read" \/ pc = "read"
  PROVE  Accounted'
BY DEF Accounted, Stale

LEMMA TransmittingKept ==
  ASSUME Transmitting, UNCHANGED <<mode, ptx, txFifo, given>>,
         Done' <=> Done, "MAX_RT" \in status' <=> "MAX_RT" \in status,
         pc \notin {"flush", "send", "sending"} \/ pc' = pc,
         pc' \notin {"flush", "send", "sending"} \/ pc' = pc
  PROVE  Transmitting'
BY DEF Transmitting

LEMMA SettledKept ==
  ASSUME SendsSettled, UNCHANGED <<finished, given>>, Done' <=> Done,
         pc # "sending" \/ pc' = pc, pc' # "sending" \/ pc' = pc
  PROVE  SendsSettled'
BY DEF SendsSettled, Done

(* The invariant is inductive: one step for each call of the driver and for  *)
(* each thing the chip does by itself.                                      *)
THEOREM RadioStep == RadioInv /\ [RadioNext]_radioVars => RadioInv'
<1> SUFFICES ASSUME RadioInv, [RadioNext]_radioVars PROVE RadioInv'
  OBVIOUS
<1> USE RadioConstants
<1>0. RadioTypeOK /\ Accounted /\ Transmitting /\ SendsSettled
  BY DEF RadioInv
<1>1. CASE Arrive
  <2> USE <1>1, <1>0 DEF Arrive
  <2>1. rxFifo' \in Seq(Nat) /\ Len(rxFifo') = Len(rxFifo) + 1 /\ rxFifo' # << >> /\ arrived' \in Nat
    BY DEF RadioTypeOK
  <2>2. RadioTypeOK'
    BY <2>1 DEF RadioTypeOK, sending, Bits
  <2>3. Accounted'
    BY <2>1 DEF Accounted, Stale
  <2>4. (Done' <=> Done) /\ ("MAX_RT" \in status' <=> "MAX_RT" \in status)
    BY DEF Done
  <2>5. Transmitting'
    BY <2>4, TransmittingKept DEF sending
  <2>6. SendsSettled'
    BY <2>4, SettledKept DEF sending
  <2> QED
    BY <2>2, <2>3, <2>5, <2>6 DEF RadioInv
<1>2. CASE Transmit
  <2> USE <1>2, <1>0 DEF Transmit
  <2>1. pc = "sending" /\ txFifo = <<given>> /\ given # 0 /\ ~ Done
    BY DEF Transmitting, Done
  <2>2. Head(txFifo) = given /\ Tail(txFifo) = << >> /\ given \in Nat
    BY <2>1 DEF RadioTypeOK
  <2>3. finished' = Append(finished, given)
    BY <2>2
  <2>8. finished' \in Seq(Nat)
    BY <2>2, <2>3 DEF RadioTypeOK
  <2>9. /\ "TX_DS" \in status' \/ "MAX_RT" \in status'
        /\ status' \subseteq Bits /\ ("RX_DR" \in status' <=> "RX_DR" \in status)
        /\ txFifo' \in {txFifo, << >>} /\ ("MAX_RT" \in status' \/ txFifo' = << >>)
    BY <2>2 DEF RadioTypeOK, Bits
  <2>10. Done'
    BY <2>9 DEF Done
  <2>11. txFifo' \in Seq(Nat) /\ Len(txFifo') <= 1
    BY <2>9 DEF RadioTypeOK
  <2>4. RadioTypeOK'
    BY <2>8, <2>9, <2>11 DEF RadioTypeOK, receiving
  <2>5. Accounted'
    BY <2>1, <2>9, AccountedKept DEF receiving
  <2>6. Transmitting'
    BY <2>1, <2>9, <2>10 DEF Transmitting
  <2>7. SendsSettled'
    <3>1. finished = [i \in 1..(given - 1) |-> i]
      BY <2>1 DEF SendsSettled, Done
    <3>2. given - 1 \in Nat /\ (given - 1) + 1 = given
      BY <2>1, <2>2
    <3>3. Append(finished, given) = [i \in 1..given |-> i]
      BY <3>1, <3>2, CountOn
    <3> QED
      BY <3>3, <2>1, <2>3, <2>10 DEF SendsSettled, Done
  <2> QED
    BY <2>4, <2>5, <2>6, <2>7 DEF RadioInv
<1>3. CASE PollStatus
  <2> USE <1>3, <1>0 DEF PollStatus
  <2>1. RadioTypeOK'
    BY DEF RadioTypeOK, chip, receiving, sending, Pcs
  <2>2. Accounted'
    BY DEF Accounted, Stale, chip, receiving
  <2>3. Transmitting'
    BY TransmittingKept DEF chip, sending, Done
  <2>4. SendsSettled'
    BY SettledKept DEF chip, sending, Done
  <2> QED
    BY <2>1, <2>2, <2>3, <2>4 DEF RadioInv
<1>4. CASE PollFifo
  <2> USE <1>4, <1>0 DEF PollFifo
  <2>1. RadioTypeOK'
    BY DEF RadioTypeOK, chip, receiving, sending, Pcs
  <2>2. Accounted'
    BY DEF Accounted, Stale, chip, receiving
  <2>3. Transmitting'
    BY TransmittingKept DEF chip, sending, Done
  <2>4. SendsSettled'
    BY SettledKept DEF chip, sending, Done
  <2> QED
    BY <2>1, <2>2, <2>3, <2>4 DEF RadioInv
<1>5. CASE GetPayload
  <2> USE <1>5, <1>0 DEF GetPayload
  <2>1. /\ buffer' \in Nat /\ rxFifo' \in Seq(Nat) /\ Len(rxFifo') <= Depth /\ phantoms' \in Nat
        /\ phantoms' <= wasted
    <3>1. CASE rxFifo = << >>
      <4>1. phantoms' = phantoms + 1 /\ buffer' \in {buffer, 0} /\ rxFifo' = rxFifo
        BY <3>1
      <4>2. phantoms + 1 <= wasted
        BY <3>1 DEF Accounted, Stale
      <4> QED
        BY <4>1, <4>2 DEF RadioTypeOK
    <3>2. CASE rxFifo # << >>
      <4>1. Head(rxFifo) \in Nat /\ Tail(rxFifo) \in Seq(Nat) /\ Len(Tail(rxFifo)) <= Len(rxFifo)
        BY <3>2 DEF RadioTypeOK
      <4>2. Len(Tail(rxFifo)) \in Nat /\ Len(rxFifo) \in Nat /\ Len(rxFifo) <= Depth
        BY <4>1 DEF RadioTypeOK
      <4>3. buffer' = Head(rxFifo) /\ rxFifo' = Tail(rxFifo) /\ phantoms' = phantoms
        BY <3>2
      <4>4. phantoms \in Nat /\ phantoms <= wasted
        BY DEF RadioTypeOK, Accounted
      <4> HIDE <1>5, <1>0 DEF GetPayload
      <4> QED
        BY <4>1, <4>2, <4>3, <4>4
    <3> QED
      BY <3>1, <3>2
  <2>2. RadioTypeOK'
    BY <2>1 DEF RadioTypeOK, sending, Pcs
  <2>3. Accounted'
    BY <2>1 DEF Accounted, Stale
  <2>4. Transmitting'
    BY TransmittingKept DEF sending, Done
  <2>5. SendsSettled'
    BY SettledKept DEF sending, Done
  <2> QED
    BY <2>2, <2>3, <2>4, <2>5 DEF RadioInv
<1>6. CASE GetClear
  <2> USE <1>6, <1>0 DEF GetClear
  <2>1. RadioTypeOK'
    BY DEF RadioTypeOK, receiving, sending, Pcs
  <2>2. Accounted'
    BY DEF Accounted, Stale, receiving
  <2>3. Transmitting'
    BY TransmittingKept DEF sending, Done
  <2>4. SendsSettled'
    BY SettledKept DEF sending, Done
  <2> QED
    BY <2>1, <2>2, <2>3, <2>4 DEF RadioInv
<1>7. CASE ReceiveHandler
  <2> USE <1>7, <1>0 DEF ReceiveHandler
  <2>1. handled' \in Seq(Nat)
    BY DEF RadioTypeOK
  <2>2. RadioTypeOK'
    BY <2>1 DEF RadioTypeOK, chip, sending, Pcs
  <2>3. Accounted'
    BY AccountedKept DEF chip
  <2>4. Transmitting'
    BY TransmittingKept DEF chip, sending, Done
  <2>5. SendsSettled'
    BY SettledKept DEF chip, sending, Done
  <2> QED
    BY <2>2, <2>3, <2>4, <2>5 DEF RadioInv
<1>8. ASSUME NEW from \in {"idle", "sent"}, NEW to \in {"flush", "reflush"}, Configure(from, to)
      PROVE  RadioInv'
  <2> USE <1>8, <1>0 DEF Configure, RxPowerUp
  <2>1. RadioTypeOK'
    BY DEF RadioTypeOK, receiving, sending, Pcs
  <2>2. Accounted'
    BY AccountedKept DEF receiving
  <2>3. Transmitting'
    BY DEF Transmitting, Done
  <2>4. SendsSettled'
    BY DEF SendsSettled, sending
  <2> QED
    BY <2>1, <2>2, <2>3, <2>4 DEF RadioInv
<1>9. ASSUME NEW from, NEW to, <<from, to>> \in {<<"flush", "send">>, <<"reflush", "idle">>},
             ConfigureFlush(from, to)
      PROVE  RadioInv'
  <2> USE <1>9, <1>0 DEF ConfigureFlush, RxFlushBuffer
  <2>0. \/ pc = "flush" /\ pc' = "send"
        \/ pc = "reflush" /\ pc' = "idle"
    OBVIOUS
  <2>1. {rxFifo[i] : i \in DOMAIN rxFifo} \subseteq Nat
    BY DEF RadioTypeOK
  <2>7. rxFifo' = << >> /\ rxFifo' \in Seq(Nat) /\ Len(rxFifo') <= Depth
    OBVIOUS
  <2>8. flushed' = flushed \cup {rxFifo[i] : i \in DOMAIN rxFifo} /\ flushed \subseteq Nat
    BY DEF RadioTypeOK
  <2>9. wasted' \in Nat
    BY DEF RadioTypeOK
  <2>2. flushed' \subseteq Nat /\ wasted' \in Nat
    BY <2>1, <2>8, <2>9, Zenon
  <2>3. RadioTypeOK'
    BY <2>0, <2>2, <2>7 DEF RadioTypeOK, sending, Pcs
  <2>4. Accounted'
    BY <2>0 DEF Accounted, Stale, RadioTypeOK
  <2>5. Transmitting'
    BY <2>0 DEF Transmitting, Done, sending
  <2>6. SendsSettled'
    BY <2>0 DEF SendsSettled, sending
  <2> QED
    BY <2>3, <2>4, <2>5, <2>6 DEF RadioInv
<1>10. CASE Send
  <2> USE <1>10, <1>0 DEF Send
  <2>1. given' \in Nat /\ given' # 0 /\ given' - 1 = given /\ txFifo' = <<given'>>
    BY DEF RadioTypeOK
  <2>2. txFifo' \in Seq(Nat) /\ Len(txFifo') = 1
    BY <2>1
  <2>3. RadioTypeOK'
    BY <2>1, <2>2 DEF RadioTypeOK, receiving, Pcs
  <2>4. Accounted'
    BY AccountedKept DEF receiving
  <2>5. ~ Done /\ ~ Done'
    BY DEF Transmitting, Done
  <2>6. Transmitting'
    BY <2>1, <2>5 DEF Transmitting
  <2>7. SendsSettled'
    BY <2>1, <2>5 DEF SendsSettled, Done
  <2> QED
    BY <2>3, <2>4, <2>6, <2>7 DEF RadioInv
<1>11. CASE DataSending
  <2> USE <1>11, <1>0 DEF DataSending, RxPowerUp
  <2>1. RadioTypeOK'
    BY DEF RadioTypeOK, receiving, sending, Pcs
  <2>2. Accounted'
    BY AccountedKept DEF receiving
  <2>3. Transmitting'
    BY DEF Transmitting, Done
  <2>4. SendsSettled'
    BY DEF SendsSettled, sending
  <2> QED
    BY <2>1, <2>2, <2>3, <2>4 DEF RadioInv
<1>12. CASE UNCHANGED radioVars
  <2> USE <1>12, <1>0 DEF radioVars, chip
  <2>1. RadioTypeOK'
    BY DEF RadioTypeOK
  <2>2. Accounted'
    BY DEF Accounted, Stale
  <2>3. Transmitting'
    BY DEF Transmitting, Done
  <2>4. SendsSettled'
    BY DEF SendsSettled
  <2> QED
    BY <2>1, <2>2, <2>3, <2>4 DEF RadioInv
<1> QED
  BY <1>1, <1>2, <1>3, <1>4, <1>5, <1>6, <1>7, <1>8, <1>9, <1>10, <1>11, <1>12
     DEF RadioNext, Poll, SendPacket, Sender

(* The invariant holds of the driver and its chip at all times.             *)
THEOREM RadioInvariant == RadioSpec => []RadioInv
<1> QED
  BY RadioInitial, RadioStep, PTL DEF RadioSpec

(* The driver and the chip are well typed and the FIFOs within their depth. *)
THEOREM RadioTypes == RadioSpec => []RadioTypeOK
<1>1. RadioInv => RadioTypeOK
  BY DEF RadioInv
<1> QED
  BY <1>1, RadioInvariant, PTL

(* Reads of an empty FIFO (RX_DR set by a flushed packet) are at most as    *)
(* many as the flushes of packets.                                          *)
THEOREM PhantomsBounded == RadioSpec => []PhantomsAccounted
<1>1. RadioInv => PhantomsAccounted
  BY DEF RadioInv, Accounted, PhantomsAccounted
<1> QED
  BY <1>1, RadioInvariant, PTL

(* send returns when the packet it was given is done, and sends no other.   *)
THEOREM EachSendSettled == RadioSpec => []SendsSettled
<1>1. RadioInv => SendsSettled
  BY DEF RadioInv
<1> QED
  BY <1>1, RadioInvariant, PTL

-----------------------------------------------------------------------------
(* Where a packet the chip took is: waiting, in the driver's hands, handled *)
(* or flushed.  All that wait came after those that do not.                 *)
Waiting == {rxFifo[i] : i \in DOMAIN rxFifo}
Seen    == {handled[i] : i \in DOMAIN handled}
Reading == pc \in {"clear", "handle"}

Ordered ==
  /\ Waiting \cup Seen \cup flushed \subseteq 1..arrived /\ buffer \in 0..arrived
  /\ \A i, j \in DOMAIN rxFifo : i < j => rxFifo[i] < rxFifo[j]
  /\ \A q \in Waiting : buffer < q /\ \A p \in Seen : p < q
  /\ \A p \in flushed : p \notin Seen /\ p \notin Waiting /\ p # buffer

Followed ==
  /\ \A i, j \in DOMAIN handled : i < j => handled[i] <= handled[j]
  /\ buffer # 0 => \A p \in Seen : p <= buffer
  /\ buffer # 0 /\ ~ Reading => handled # << >> /\ handled[Len(handled)] = buffer

Counted ==
  /\ IsFiniteSet(Again) /\ Cardinality(Again) <= phantoms
  /\ Reading /\ buffer \in Seen => Cardinality(Again) + 1 <= phantoms

Placed ==
  \A p \in 1..arrived : p \in Waiting \cup Seen \cup flushed \/ (Reading /\ p = buffer)

OrderInv == Ordered /\ Followed /\ Counted /\ Placed

LEMMA OrderKept ==
  ASSUME OrderInv, UNCHANGED <<rxFifo, handled, flushed, arrived, buffer, phantoms>>,
         Reading' <=> Reading
  PROVE  OrderInv'
BY DEF OrderInv, Ordered, Followed, Counted, Placed, Waiting, Seen, Again

LEMMA ArriveOrder ==
  ASSUME RadioTypeOK, OrderInv, Arrive
  PROVE  OrderInv'
<1> DEFINE n == Len(rxFifo) + 1
<1>1. /\ arrived \in Nat /\ arrived' = arrived + 1 /\ rxFifo \in Seq(Nat)
      /\ rxFifo' = Append(rxFifo, arrived + 1)
      /\ UNCHANGED <<handled, flushed, buffer, phantoms, pc>>
  BY DEF Arrive, RadioTypeOK
<1>2. /\ DOMAIN rxFifo' = DOMAIN rxFifo \cup {n} /\ DOMAIN rxFifo = 1..Len(rxFifo) /\ Len(rxFifo) \in Nat
      /\ rxFifo'[n] = arrived + 1 /\ \A i \in DOMAIN rxFifo : rxFifo'[i] = rxFifo[i]
  BY <1>1
<1>3. Waiting' = Waiting \cup {arrived + 1} /\ Seen' = Seen
  <2>1. \A q \in Waiting' : q \in Waiting \/ q = arrived + 1
    BY <1>2 DEF Waiting
  <2>2. \A q \in Waiting : q \in Waiting'
    BY <1>2 DEF Waiting
  <2>3. arrived + 1 \in Waiting'
    BY <1>2 DEF Waiting
  <2> QED
    BY <1>1, <2>1, <2>2, <2>3 DEF Seen
<1>4. \A i \in DOMAIN rxFifo : rxFifo[i] \in 1..arrived
  BY DEF OrderInv, Ordered, Waiting
<1> HIDE DEF n
<1>5. \A i, j \in DOMAIN rxFifo' : i < j => rxFifo'[i] < rxFifo'[j]
  <2> SUFFICES ASSUME NEW i \in DOMAIN rxFifo', NEW j \in DOMAIN rxFifo', i < j
               PROVE  rxFifo'[i] < rxFifo'[j]
    OBVIOUS
  <2>1. i \in DOMAIN rxFifo
    BY <1>2 DEF n
  <2>2. CASE j \in DOMAIN rxFifo
    BY <1>2, <2>1, <2>2 DEF OrderInv, Ordered
  <2>3. CASE j = n
    BY <1>1, <1>2, <1>4, <2>1, <2>3
  <2> QED
    BY <1>2, <2>2, <2>3
<1>6. Ordered'
  <2>1. Waiting \cup Seen \cup flushed \subseteq 1..arrived /\ buffer \in 0..arrived
    BY DEF OrderInv, Ordered
  <2>2. 1..arrived \subseteq 1..(arrived + 1) /\ arrived + 1 \in 1..(arrived + 1)
        /\ arrived + 1 \notin 1..arrived /\ \A p \in 0..arrived : p < arrived + 1 /\ p \in 0..(arrived + 1)
    BY <1>1
  <2>3. \A q \in Waiting' : buffer < q /\ \A p \in Seen : p < q
    BY <1>1, <1>3, <2>1 DEF OrderInv, Ordered
  <2>4. \A p \in flushed : p \notin Seen /\ p \notin Waiting' /\ p # buffer
    BY <1>3, <2>1, <2>2 DEF OrderInv, Ordered
  <2>5. Waiting' \cup Seen \cup flushed \subseteq 1..(arrived + 1)
    BY <1>3, <2>1, <2>2
  <2> QED
    BY <1>1, <1>3, <1>5, <2>1, <2>2, <2>3, <2>4, <2>5 DEF Ordered
<1>7. Placed'
  <2>1. 1..(arrived + 1) = 1..arrived \cup {arrived + 1}
    BY <1>1
  <2> QED
    BY <1>1, <1>3, <2>1 DEF OrderInv, Placed, Reading
<1>8. Followed' /\ Counted'
  BY <1>1, <1>3 DEF OrderInv, Followed, Counted, Reading, Again
<1> QED
  BY <1>6, <1>7, <1>8 DEF OrderInv

(* What is read is the oldest that waits; what an empty FIFO gives was the  *)
(* last to be handled, or is nothing.                                       *)
LEMMA GetPayloadOrder ==
  ASSUME RadioTypeOK, OrderInv, GetPayload
  PROVE  OrderInv'
<1>0. /\ pc = "read" /\ pc' = "clear" /\ UNCHANGED <<handled, flushed, arrived>>
      /\ Seen' = Seen /\ Again' = Again /\ ~ Reading /\ Reading'
      /\ phantoms \in Nat /\ arrived \in Nat /\ rxFifo \in Seq(Nat)
  BY DEF GetPayload, RadioTypeOK, Seen, Again, Reading
<1>1. CASE rxFifo = << >>
  <2>1. buffer' \in {buffer, 0} /\ phantoms' = phantoms + 1 /\ rxFifo' = rxFifo /\ Waiting' = Waiting
    BY <1>1 DEF GetPayload, Waiting
  <2>2. Waiting = {}
    BY <1>1 DEF Waiting
  <2>3. \A p \in flushed : p \in 1..arrived /\ p # 0
    BY DEF OrderInv, Ordered
  <2>4. Ordered'
    BY <1>0, <2>1, <2>2, <2>3 DEF OrderInv, Ordered
  <2>5. Followed' /\ Placed'
    BY <1>0, <2>1 DEF OrderInv, Followed, Placed
  <2>6. Cardinality(Again) \in Nat
    BY FS_CardinalityType DEF OrderInv, Counted
  <2>7. Counted'
    BY <1>0, <2>1, <2>6 DEF OrderInv, Counted
  <2> QED
    BY <2>4, <2>5, <2>7 DEF OrderInv
<1>2. CASE rxFifo # << >>
  <2>0. PICK p : p = rxFifo[1]
    OBVIOUS
  <2>1. /\ buffer' = p /\ phantoms' = phantoms /\ 1 \in DOMAIN rxFifo /\ p \in Waiting
        /\ \A i \in DOMAIN rxFifo' : i \in Nat \ {0} /\ i + 1 \in DOMAIN rxFifo /\ rxFifo'[i] = rxFifo[i + 1]
        /\ \A i \in DOMAIN rxFifo : i # 1 => i - 1 \in DOMAIN rxFifo' /\ rxFifo'[i - 1] = rxFifo[i]
    BY <1>0, <1>2, <2>0 DEF GetPayload, Waiting
  <2>2. Waiting' \subseteq Waiting /\ \A q \in Waiting' : p < q
    <3> SUFFICES ASSUME NEW i \in DOMAIN rxFifo' PROVE rxFifo'[i] \in Waiting /\ p < rxFifo'[i]
      BY DEF Waiting
    <3>1. i + 1 \in DOMAIN rxFifo /\ 1 < i + 1 /\ rxFifo'[i] = rxFifo[i + 1]
      BY <1>0, <2>1
    <3> QED
      BY <2>0, <2>1, <3>1 DEF OrderInv, Ordered, Waiting
  <2>3. \A q \in Waiting : q = p \/ q \in Waiting'
    BY <2>0, <2>1 DEF Waiting
  <2>4. \A i, j \in DOMAIN rxFifo' : i < j => rxFifo'[i] < rxFifo'[j]
    BY <1>0, <2>1 DEF OrderInv, Ordered
  <2>5. p \in 1..arrived /\ p \notin flushed /\ \A q \in Seen : q < p /\ q \in 1..arrived
    BY <2>1 DEF OrderInv, Ordered
  <2>6. Ordered'
    <3>0. Waiting \cup Seen \cup flushed \subseteq 1..arrived
      BY DEF OrderInv, Ordered
    <3>1. Waiting' \cup Seen \cup flushed \subseteq 1..arrived
      BY <2>2, <3>0
    <3>4. buffer' \in 0..arrived
      BY <1>0, <2>1, <2>5
    <3>2. \A q \in Waiting' : buffer' < q /\ \A r \in Seen : r < q
      BY <2>1, <2>2 DEF OrderInv, Ordered
    <3>3. \A r \in flushed : r \notin Seen /\ r \notin Waiting' /\ r # buffer'
      BY <2>1, <2>2, <2>5 DEF OrderInv, Ordered
    <3> QED
      BY <1>0, <2>4, <3>1, <3>2, <3>3, <3>4 DEF Ordered
  <2>7. Followed'
    BY <1>0, <2>1, <2>5 DEF OrderInv, Followed
  <2>8. Placed'
    BY <1>0, <2>1, <2>3 DEF OrderInv, Placed
  <2>9. p \notin Seen
    BY <1>0, <2>5
  <2>10. Counted'
    BY <1>0, <2>1, <2>9 DEF OrderInv, Counted
  <2> QED
    BY <2>6, <2>7, <2>8, <2>10 DEF OrderInv
<1> QED
  BY <1>1, <1>2

(* What is handled is handled for the first time, or is what was handled    *)
(* last and counts as a reading of an empty FIFO.                           *)
LEMMA HandlerOrder ==
  ASSUME RadioTypeOK, OrderInv, ReceiveHandler
  PROVE  OrderInv'
<1> DEFINE n == Len(handled) + 1
<1>0. /\ pc = "handle" /\ Reading /\ ~ Reading' /\ handled \in Seq(Nat) /\ buffer \in Nat
      /\ UNCHANGED <<rxFifo, flushed, arrived, buffer, phantoms>> /\ Waiting' = Waiting
      /\ handled' = IF buffer = 0 THEN handled ELSE Append(handled, buffer)
      /\ phantoms \in Nat /\ arrived \in Nat
  BY DEF ReceiveHandler, RadioTypeOK, Reading, Waiting, chip
<1>1. CASE buffer = 0
  <2>1. handled' = handled /\ Seen' = Seen /\ Again' = Again
    BY <1>0, <1>1 DEF Seen, Again
  <2>2. Placed'
    BY <1>0, <1>1, <2>1 DEF OrderInv, Placed
  <2> QED
    BY <1>0, <1>1, <2>1, <2>2 DEF OrderInv, Ordered, Followed, Counted
<1>2. CASE buffer # 0
  <2>1. /\ DOMAIN handled' = DOMAIN handled \cup {n} /\ DOMAIN handled = 1..Len(handled)
        /\ Len(handled) \in Nat /\ Len(handled') = n /\ handled'[n] = buffer /\ handled' # << >>
        /\ \A i \in DOMAIN handled : handled'[i] = handled[i]
    BY <1>0, <1>2
  <2>2. Seen' = Seen \cup {buffer}
    <3>1. \A q \in Seen' : q \in Seen \/ q = buffer
      BY <2>1 DEF Seen
    <3>2. \A q \in Seen : q \in Seen'
      BY <2>1 DEF Seen
    <3>3. buffer \in Seen'
      BY <2>1 DEF Seen
    <3> QED
      BY <3>1, <3>2, <3>3
  <2>3. buffer \in 1..arrived
    BY <1>0, <1>2 DEF OrderInv, Ordered
  <2>4. Ordered'
    BY <1>0, <2>2, <2>3 DEF OrderInv, Ordered
  <2>5. \A i \in DOMAIN handled : handled[i] <= buffer
    BY <1>2 DEF OrderInv, Followed, Seen
  <2>6. Followed'
    <3>1. \A i, j \in DOMAIN handled' : i < j => handled'[i] <= handled'[j]
      <4> SUFFICES ASSUME NEW i \in DOMAIN handled', NEW j \in DOMAIN handled', i < j
                   PROVE  handled'[i] <= handled'[j]
        OBVIOUS
      <4>1. i \in DOMAIN handled
        BY <2>1
      <4>2. CASE j = n
        BY <2>1, <2>5, <4>1, <4>2
      <4>3. CASE j \in DOMAIN handled
        BY <2>1, <4>1, <4>3 DEF OrderInv, Followed
      <4> QED
        BY <2>1, <4>2, <4>3
    <3>2. \A p \in Seen' : p <= buffer
      BY <1>0, <1>2, <2>2 DEF OrderInv, Followed
    <3> QED
      BY <1>0, <2>1, <3>1, <3>2 DEF Followed
  <2>7. Placed'
    BY <1>0, <2>2 DEF OrderInv, Placed
  <2>8. Counted'
    <3>1. /\ IsFiniteSet(Again) /\ Cardinality(Again) \in Nat /\ Cardinality(Again) <= phantoms
          /\ buffer \in Seen => Cardinality(Again) + 1 <= phantoms
      BY <1>0, FS_CardinalityType DEF OrderInv, Counted
    <3>2. n \notin Again
      BY <2>1 DEF Again
    <3>3. CASE buffer \in Seen
      <4>1. Again' \subseteq Again \cup {n}
        BY <2>1 DEF Again
      <4> HIDE DEF n
      <4>2. IsFiniteSet(Again \cup {n}) /\ Cardinality(Again \cup {n}) = Cardinality(Again) + 1
        BY <3>1, <3>2, FS_AddElement
      <4>3. IsFiniteSet(Again') /\ Cardinality(Again') <= Cardinality(Again) + 1
            /\ Cardinality(Again') \in Nat
        BY <4>1, <4>2, FS_Subset, FS_CardinalityType
      <4> QED
        BY <1>0, <3>1, <3>3, <4>3 DEF Counted
    <3>4. CASE buffer \notin Seen
      <4>1. n # 1 => handled[n - 1] # buffer
        BY <2>1, <3>4 DEF Seen
      <4>2. Again' = Again
        BY <2>1, <4>1 DEF Again
      <4> QED
        BY <1>0, <3>1, <4>2 DEF Counted
    <3> QED
      BY <3>3, <3>4
  <2> QED
    BY <2>4, <2>6, <2>7, <2>8 DEF OrderInv
<1> QED
  BY <1>1, <1>2

LEMMA FlushOrder ==
  ASSUME RadioTypeOK, OrderInv, NEW from, NEW to, ConfigureFlush(from, to),
         from \in {"flush", "reflush"}, to \in {"send", "idle"}
  PROVE  OrderInv'
<1>1. /\ UNCHANGED <<handled, arrived, buffer, phantoms>> /\ ~ Reading /\ ~ Reading'
      /\ rxFifo' = << >> /\ flushed' = flushed \cup Waiting
  BY DEF ConfigureFlush, RxFlushBuffer, Reading, Waiting
<1>2. Waiting' = {} /\ Seen' = Seen /\ Again' = Again
  BY <1>1 DEF Waiting, Seen, Again
<1>3. \A p \in Waiting : p \notin Seen /\ p # buffer
  <2>1. \A p \in Waiting : p \in Nat
    BY DEF OrderInv, Ordered
  <2> QED
    BY <2>1 DEF OrderInv, Ordered
<1>4. Ordered'
  BY <1>1, <1>2, <1>3 DEF OrderInv, Ordered
<1>5. Placed'
  BY <1>1, <1>2 DEF OrderInv, Placed
<1> QED
  BY <1>1, <1>2, <1>4, <1>5 DEF OrderInv, Followed, Counted

LEMMA StepOrder ==
  ASSUME RadioTypeOK, OrderInv, [RadioNext]_radioVars
  PROVE  OrderInv'
<1> USE DEF chip, receiving, sending
<1>1. Transmit \/ PollStatus \/ PollFifo \/ GetClear \/ Send \/ DataSending \/ UNCHANGED radioVars
        => /\ UNCHANGED <<rxFifo, handled, flushed, arrived, buffer, phantoms>>
           /\ Reading' <=> Reading
  BY DEF Transmit, PollStatus, PollFifo, GetClear, Send, DataSending, radioVars, Reading
<1>2. \A from, to : Configure(from, to) /\ from \in {"idle", "sent"} /\ to \in {"flush", "reflush"}
        => /\ UNCHANGED <<rxFifo, handled, flushed, arrived, buffer, phantoms>>
           /\ Reading' <=> Reading
  BY DEF Configure, Reading
<1>3. Configure("idle", "flush") \/ Configure("sent", "reflush")
        => /\ UNCHANGED <<rxFifo, handled, flushed, arrived, buffer, phantoms>>
           /\ Reading' <=> Reading
  BY <1>2
<1>4. ConfigureFlush("flush", "send") \/ ConfigureFlush("reflush", "idle") => OrderInv'
  BY FlushOrder
<1> QED
  BY <1>1, <1>3, <1>4, OrderKept, ArriveOrder, GetPayloadOrder, HandlerOrder
     DEF RadioNext, Poll, SendPacket, Sender

LEMMA OrderInvariant == RadioSpec => []OrderInv
<1>1. RadioInit => OrderInv
  <2> SUFFICES ASSUME RadioInit PROVE OrderInv
    OBVIOUS
  <2>1. Waiting = {} /\ Seen = {} /\ Again = {}
    BY DEF RadioInit, Waiting, Seen, Again
  <2> QED
    BY <2>1, FS_EmptySet DEF RadioInit, OrderInv, Ordered, Followed, Counted, Placed
<1> QED
  BY <1>1, StepOrder, RadioTypes, PTL DEF RadioSpec

(* Packets are handled in the order the chip took them, and a second time   *)
(* only as often as a read was misled by a flush.                           *)
THEOREM AlwaysInOrder == RadioSpec => []HandledInOrder
<1>1. RadioInv /\ OrderInv => HandledInOrder
  <2> SUFFICES ASSUME RadioInv, OrderInv PROVE HandledInOrder
    OBVIOUS
  <2>1. Cardinality(Again) \in Nat /\ phantoms \in Nat /\ wasted \in Nat
    BY FS_CardinalityType DEF OrderInv, Counted, RadioInv, RadioTypeOK
  <2> QED
    BY <2>1 DEF RadioInv, Accounted, OrderInv, Followed, Counted, HandledInOrder
<1> QED
  BY <1>1, RadioInvariant, OrderInvariant, PTL

(* No packet the chip took vanishes: it waits, is being handled, has been   *)
(* handled or was flushed; and what is flushed was not handled.             *)
THEOREM NoPacketVanishes ==
  RadioSpec => [](/\ \A p \in 1..arrived :
                       p \in Waiting \cup Seen \cup flushed \/ (Reading /\ p = buffer)
                  /\ Seen \cap flushed = {})
<1>1. OrderInv => /\ \A p \in 1..arrived :
                       p \in Waiting \cup Seen \cup flushed \/ (Reading /\ p = buffer)
                  /\ Seen \cap flushed = {}
  BY DEF OrderInv, Placed, Ordered
<1> QED
  BY <1>1, OrderInvariant, PTL

================================================================================
