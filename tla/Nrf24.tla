-------------------------------- MODULE Nrf24 --------------------------------
(***************************************************************************)
(* The driver of the radio, between the lock of WiseRFComm and the chip:    *)
(* one thread at a time polls or sends, one access to the chip a step; the  *)
(* chip receives and transmits between any two of them.                     *)
(* Packets that arrive and packets to send are numbered in their order.     *)
(***************************************************************************)
EXTENDS Naturals, Sequences, FiniteSets

CONSTANTS
  Depth,       \* packets the receive FIFO of the chip holds
  MaxArrivals, \* bound: packets that arrive
  MaxSends     \* bound: packets sent

ASSUME RadioConstants ==
  Depth \in Nat \ {0} /\ MaxArrivals \in Nat /\ MaxSends \in Nat

VARIABLES
  mode,      \* "rx": CE high in receiving mode, "tx": CE high in transmitting
  status,    \* the bits of STATUS that are set
  rxFifo, txFifo,
  ptx,       \* m_ptx: the driver waits for a transmission
  buffer,    \* m_rxBuffer: a packet, or 0 where it holds none
  pc,        \* where the thread with the lock is; "idle": nobody has it
  handled,   \* packets dataRecievedHandler was called with
  arrived, given, \* packets received by the chip; packets given to send
  finished,  \* history: packets whose transmission ended, TX_DS or MAX_RT
  flushed,   \* history: packets flushed unread
  phantoms,  \* history: reads of an empty FIFO
  wasted     \* history: flushes of a FIFO that held packets

chip      == <<mode, status, rxFifo, txFifo>>
radioVars == <<chip, ptx, buffer, pc, handled, arrived, given,
               finished, flushed, phantoms, wasted>>
receiving == <<handled, arrived, flushed, phantoms, wasted>>
sending   == <<given, finished>>

(* After init () and configure (); of what the process before it did, the   *)
(* chip may still have RX_DR set and a packet to send.                      *)
RadioInit ==
  /\ mode = "rx" /\ status \in SUBSET {"RX_DR"}
  /\ rxFifo = << >> /\ txFifo \in {<< >>, <<0>>}
  /\ ptx = FALSE /\ buffer = 0 /\ pc = "idle" /\ handled = << >>
  /\ arrived = 0 /\ given = 0 /\ finished = << >> /\ flushed = {} /\ phantoms = 0
  /\ wasted = IF status = {} THEN 0 ELSE 1

-----------------------------------------------------------------------------
(* The chip.  A packet that finds the FIFO full is not received.            *)
Arrive ==
  /\ mode = "rx" /\ Len(rxFifo) < Depth /\ arrived < MaxArrivals
  /\ arrived' = arrived + 1 /\ rxFifo' = Append(rxFifo, arrived')
  /\ status' = status \cup {"RX_DR"}
  /\ UNCHANGED <<mode, txFifo, ptx, buffer, pc, handled, flushed, phantoms, wasted, sending>>

(* A packet is acknowledged and leaves the FIFO, or has been tried often    *)
(* enough and stays; then nothing is sent until MAX_RT is cleared.          *)
Transmit ==
  /\ mode = "tx" /\ txFifo # << >> /\ "MAX_RT" \notin status
  /\ finished' = Append(finished, Head(txFifo))
  /\ \/ txFifo' = Tail(txFifo) /\ status' = status \cup {"TX_DS"}
     \/ UNCHANGED txFifo /\ status' = status \cup {"MAX_RT"}
  /\ UNCHANGED <<mode, rxFifo, ptx, buffer, pc, given, receiving>>

-----------------------------------------------------------------------------
(* pollListener.  dataReady looks at RX_DR ...                              *)
PollStatus ==
  /\ pc = "idle" /\ pc' = IF "RX_DR" \in status THEN "read" ELSE "fifo"
  /\ UNCHANGED <<chip, ptx, buffer, receiving, sending>>

(* Mutant: RX_DR alone counts.                                              *)
PollFifoSkip ==
  /\ pc = "fifo" /\ pc' = "idle" /\ UNCHANGED <<chip, ptx, buffer, receiving, sending>>

(* ... and, when it is not set, at the FIFO.                                *)
PollFifo ==
  /\ pc = "fifo" /\ pc' = IF rxFifo = << >> THEN "idle" ELSE "read"
  /\ UNCHANGED <<chip, ptx, buffer, receiving, sending>>

(* getData.  An empty FIFO gives what was read before, or nothing that has  *)
(* the magic number.                                                        *)
GetPayload ==
  /\ pc = "read" /\ pc' = "clear"
  /\ IF rxFifo = << >>
     THEN buffer' \in {buffer, 0} /\ phantoms' = phantoms + 1 /\ UNCHANGED rxFifo
     ELSE buffer' = Head(rxFifo) /\ rxFifo' = Tail(rxFifo) /\ UNCHANGED phantoms
  /\ UNCHANGED <<mode, status, txFifo, ptx, handled, arrived, flushed, wasted, sending>>

(* Mutant: RX_DR stays.                                                     *)
GetClearNothing ==
  /\ pc = "clear" /\ pc' = "handle" /\ UNCHANGED <<chip, ptx, buffer, receiving, sending>>

GetClear ==
  /\ pc = "clear" /\ pc' = "handle" /\ status' = status \ {"RX_DR"}
  /\ UNCHANGED <<mode, rxFifo, txFifo, ptx, buffer, receiving, sending>>

(* nrfRecieveHandler: only what has the magic number goes further.          *)
ReceiveHandler ==
  /\ pc = "handle" /\ pc' = "idle"
  /\ handled' = IF buffer = 0 THEN handled ELSE Append(handled, buffer)
  /\ UNCHANGED <<chip, ptx, buffer, arrived, flushed, phantoms, wasted, sending>>

-----------------------------------------------------------------------------
(* Mutant: the bits of the last transmission stay.                          *)
RxPowerUpOnly == ptx' = FALSE /\ mode' = "rx" /\ UNCHANGED status

(* Mutant: the chip stays in transmitting mode.                             *)
RxPowerUpDeaf == ptx' = FALSE /\ UNCHANGED mode /\ status' = status \ {"TX_DS", "MAX_RT"}

RxPowerUp == ptx' = FALSE /\ mode' = "rx" /\ status' = status \ {"TX_DS", "MAX_RT"}

RxFlushBuffer ==
  /\ rxFifo' = << >> /\ flushed' = flushed \cup {rxFifo[i] : i \in DOMAIN rxFifo}
  /\ wasted' = IF rxFifo = << >> THEN wasted ELSE wasted + 1

(* sendPacket: configure, send, configure.                                  *)
Configure(from, to) ==
  /\ pc = from /\ pc' = to /\ RxPowerUp
  /\ UNCHANGED <<rxFifo, txFifo, buffer, receiving, sending>>

ConfigureFlush(from, to) ==
  /\ pc = from /\ pc' = to /\ RxFlushBuffer
  /\ UNCHANGED <<mode, status, txFifo, ptx, buffer, handled, arrived, phantoms, sending>>

SendPacket == given < MaxSends /\ Configure("idle", "flush")

(* Mutant: what the chip still has to send stays in front.                  *)
SendBehind ==
  /\ pc = "send" /\ (ptx => status \cap {"TX_DS", "MAX_RT"} # {}) /\ pc' = "sending"
  /\ mode' = "tx" /\ ptx' = TRUE /\ given' = given + 1 /\ txFifo' = Append(txFifo, given')
  /\ UNCHANGED <<status, rxFifo, buffer, finished, receiving>>

(* send: wait for the last packet, then load this one and raise CE.         *)
Send ==
  /\ pc = "send" /\ (ptx => status \cap {"TX_DS", "MAX_RT"} # {}) /\ pc' = "sending"
  /\ mode' = "tx" /\ ptx' = TRUE /\ given' = given + 1 /\ txFifo' = <<given'>>
  /\ UNCHANGED <<status, rxFifo, buffer, finished, receiving>>

(* dataSending, until it is FALSE.                                          *)
DataSending ==
  /\ pc = "sending" /\ status \cap {"TX_DS", "MAX_RT"} # {} /\ pc' = "sent" /\ RxPowerUp
  /\ UNCHANGED <<rxFifo, txFifo, buffer, receiving, sending>>

Poll == PollStatus \/ PollFifo \/ GetPayload \/ GetClear \/ ReceiveHandler

Sender ==
  \/ ConfigureFlush("flush", "send") \/ Send \/ DataSending
  \/ Configure("sent", "reflush") \/ ConfigureFlush("reflush", "idle")

RadioNext == Arrive \/ Transmit \/ Poll \/ SendPacket \/ Sender

RadioSpec == RadioInit /\ [][RadioNext]_radioVars

(* The threads go on, and a transmission ends: it is acknowledged or given  *)
(* up.  Nothing need arrive and nothing need be sent.                       *)
RadioFairSpec ==
  RadioSpec /\ WF_radioVars(Poll) /\ WF_radioVars(Sender) /\ WF_radioVars(Transmit)

-----------------------------------------------------------------------------
Bits == {"RX_DR", "TX_DS", "MAX_RT"}
Pcs  == {"idle", "fifo", "read", "clear", "handle",
         "flush", "send", "sending", "sent", "reflush"}

RadioTypeOK ==
  /\ mode \in {"rx", "tx"} /\ status \subseteq Bits /\ pc \in Pcs /\ ptx \in BOOLEAN
  /\ rxFifo \in Seq(Nat) /\ Len(rxFifo) <= Depth
  /\ txFifo \in Seq(Nat) /\ Len(txFifo) <= 1
  /\ buffer \in Nat /\ handled \in Seq(Nat) /\ arrived \in Nat /\ given \in Nat
  /\ finished \in Seq(Nat) /\ flushed \subseteq Nat /\ phantoms \in Nat /\ wasted \in Nat

(* "We can short circuit on RX_DR" (dataReady), with an exception: a flush  *)
(* leaves RX_DR set.  Each flush of packets, and what a process before left,*)
(* makes at most one read of an empty FIFO: at most so often is a packet    *)
(* handled a second time.                                                   *)
PhantomsAccounted == phantoms <= wasted

(* A packet the chip took may be flushed, but the driver handles none out of *)
(* order, and one a second time only for a read of an empty FIFO that a flush*)
(* is to blame for.                                                          *)
Again == {i \in DOMAIN handled \ {1} : handled[i] = handled[i - 1]}

HandledInOrder ==
  /\ \A i, j \in DOMAIN handled : i < j => handled[i] <= handled[j]
  /\ Cardinality(Again) <= wasted

(* send returns when the chip is done with the packet it was given, and not *)
(* because of an earlier one; what goes on the air is that packet.          *)
SendsSettled ==
  finished = [i \in 1..(IF pc = "sending" /\ status \cap {"TX_DS", "MAX_RT"} = {}
                        THEN given - 1 ELSE given) |-> i]

(* "just checking RX_DR isn't good enough" (dataReady): a packet that came  *)
(* between the read of another and the clearing of RX_DR is handled too,    *)
(* unless a send flushes it.                                                *)
NothingOverlooked ==
  \A p \in 1..MaxArrivals :
    arrived >= p ~> p \in flushed \/ \E i \in DOMAIN handled : handled[i] = p

(* The radio does not stay deaf: send comes back to receiving.              *)
SendReturns == mode = "tx" ~> mode = "rx"
================================================================================
