---------------------------- MODULE FileTransfer ----------------------------
(***************************************************************************)
(* Project1 as a whole: a transmitter and a receiver process on a serial   *)
(* line.                                                                   *)
(***************************************************************************)
EXTENDS Transmitter, Receiver

CONSTANTS
  Premature,  (* the alarm may expire while a frame or its answer is       *)
              (* still on its way                                          *)
  Stalls,     (* the process may be stopped for longer than the timeout    *)
              (* between alarm() and setFlag(1)                            *)
  Interrupts  (* the processes that may get a SIGINT                       *)

ASSUME TransferAssumption ==
  /\ Premature \in BOOLEAN
  /\ Stalls \in BOOLEAN
  /\ Interrupts \subseteq {"tx", "rx"}

VARIABLE killed  (* the processes that got a SIGINT *)

vars == <<lineVars, txVars, rxVars, killed>>

Init == LineInit /\ TxInit /\ RxInit /\ killed = {}

(* The answer to the last frame is not coming any more: nothing is on its  *)
(* way to the transmitter, and the receiver has nothing left to look at or *)
(* does not run any more.                                                  *)
Quiet ==
  /\ toTx = <<>>
  /\ \/ toRx = <<>> /\ hand = NoPacket
     \/ "rx" \in killed \/ rxPhase = "closed"

Tx(A) == "tx" \notin killed /\ A /\ UNCHANGED <<rxVars, killed>>
Rx(A) == "rx" \notin killed /\ A /\ UNCHANGED <<txVars, killed>>

Alarm ==
  /\ Premature \/ Quiet
  /\ Stalls \/ txPc # "set"
  /\ Tx(TxAlarm)

(* sigint_handler: restore the port and exit.                              *)
Sigint ==
  /\ \E p \in Interrupts \ killed : killed' = killed \cup {p}
  /\ UNCHANGED <<lineVars, txVars, rxVars>>

(* Both programs have ended.                                               *)
Finished ==
  /\ txPhase = "closed"
  /\ rxPhase = "closed"
  /\ UNCHANGED vars

Next ==
  \/ Tx(TxLoop)
  \/ Tx(TxReceive)
  \/ Alarm
  \/ Rx(RxReceive)
  \/ Rx(RxDeliver)
  \/ Sigint
  \/ Finished

Spec == Init /\ [][Next]_vars

(* Both programs keep running and the kernel delivers the alarm and, every *)
(* time the transmitter polls for it, sooner or later the pending answer.  *)
Fairness ==
  /\ WF_vars(Tx(TxLoop))
  /\ SF_vars(Tx(TxReceive))
  /\ WF_vars(Alarm)
  /\ WF_vars(Rx(RxReceive))
  /\ WF_vars(Rx(RxDeliver))

FairSpec == Spec /\ Fairness

-----------------------------------------------------------------------------
TypeOK ==
  /\ LineTypeOK
  /\ TxTypeOK
  /\ RxTypeOK
  /\ killed \subseteq {"tx", "rx"}

(* The output file never gets a data packet twice or out of order, and the *)
(* i-th one written always carries the i-th sequence byte: true whatever   *)
(* the line and the timer do, although CFlag never changes and so never    *)
(* tells a retransmission from a new frame.                                *)
InOrder ==
  \A i \in 1 .. Len(out) :
    /\ SeqByte(out[i]) = (i - 1) % SeqMod
    /\ \A j \in 1 .. i - 1 : out[j] < out[i]

(* Only the start packet sets the descriptor data is written to: no data   *)
(* packet reaches readDataPackets before a start packet has.               *)
DataAfterStart == hand \in DataPacket \/ out # <<>> => target

(* A start packet opens the file with O_TRUNC, and start packets are       *)
(* retransmitted: none is ever handled after data has been written.        *)
NeverTruncated ==
  [][/\ Len(out) <= Len(out')
     /\ \A i \in 1 .. Len(out) : out'[i] = out[i]]_vars

(* What one side believes of the connection is true of the other: a        *)
(* transmitter that writes has a receiver past llopen, a receiver that was *)
(* told to disconnect has a transmitter in llclose, and a side that        *)
(* reports success is not alone.                                           *)
PhasesAgree ==
  /\ txPhase \in {"write", "close", "gaveUp", "closed"} => rxPhase # "open"
  /\ rxPhase \in {"disc", "ua", "closed"} => cur = EndPacket
  /\ rxPhase \in {"ua", "closed"} => txPhase \in {"close", "gaveUp", "closed"}
  /\ txPhase = "closed" => rxPhase \in {"ua", "closed"}
  /\ rxPhase = "closed" => txPhase = "closed"

(* llopen and llclose write their command at most once more than the       *)
(* number of tries: the alarm may expire between the loop condition and    *)
(* the test of the flag.                                                   *)
CommandsBounded == txPhase # "write" => sent <= MaxTries + 1

(* The transmitter leaves a data packet behind only when the receiver has  *)
(* written it or holds it: an RR answers the frame it follows.             *)
RRMeansReceived ==
  \A i \in DataPacket :
    i < cur => hand = i \/ \E k \in 1 .. Len(out) : out[k] = i

(* A receiver that has taken the end packet has the whole file.            *)
WholeFile ==
  rxPhase \in {"disc", "ua", "closed"} => out = [i \in DataPacket |-> i]

(* While an answer is awaited with the flag set, an alarm is pending that  *)
(* will clear it: the retransmission cannot be forgotten.                  *)
AlarmPending ==
  txPhase \in Looping /\ txPc \in {"while", "flag", "read"} /\ flag = 1 => armed

(* When nobody is interrupted and only frames that are written until they  *)
(* are answered are spoiled, both programs come to their end with the      *)
(* connection closed.                                                      *)
BothClose ==
  [](faults.once = 0 /\ killed = {})
    => <>(txPhase = "closed" /\ rxPhase = "closed")

(* llwrite has no limit of tries.  When its answer does not come, the      *)
(* receiver may have gone, it never waits in silence: the alarm keeps      *)
(* making it write the frame again.                                        *)
KeepsTrying == <>[](txPhase = "write") => []<>(txPhase = "write" /\ txPc = "arm")

(* Once llwrite is called all the data arrives, unless the receiver is     *)
(* interrupted: a frame that is lost or rejected is sent again, a repeated *)
(* one is recognised.                                                      *)
AllDataArrives == txPhase = "write" ~> (Len(out) = NPackets \/ killed # {})

(* llopen and llclose return, answered or not.                             *)
CommandsReturn ==
  /\ txPhase = "open" ~> txPhase # "open"
  /\ txPhase = "close" ~> txPhase # "close"

-----------------------------------------------------------------------------
(* The inductive invariant behind InOrder, NeverTruncated, DataAfterStart  *)
(* and PhasesAgree.                                                        *)

(* The kinds of frame on a line, the packets its information frames carry, *)
(* and that those packets stand in order.                                  *)
Kinds(line) == {line[i].kind : i \in DOMAIN line}
Informed(line) == {i \in DOMAIN line : line[i].kind = "I"}
Carried(line) == {line[i].n : i \in Informed(line)}
InRow(line) == \A i, j \in Informed(line) : i < j => line[i].n <= line[j].n

(* The packets the receiver has taken but not yet looked at.               *)
Held == {hand, partial} \ {NoPacket}

(* The packets stand in one nondecreasing row: the output file, the packet *)
(* the receiver holds, the frames on the line, the packet being sent.  So  *)
(* a packet reaches the receiver again only directly after itself, where   *)
(* one sequence byte is enough to tell it from its successor.              *)
OrderInv ==
  /\ InRow(toRx)
  /\ \A n \in Carried(toRx) : n <= cur
  /\ hand = NoPacket \/ partial = NoPacket
  /\ \A h \in Held : h <= cur /\ \A n \in Carried(toRx) : h <= n
  /\ \A i \in DOMAIN out :
       out[i] <= cur /\ \A n \in Carried(toRx) \cup Held : out[i] <= n
  /\ order = Len(out) - 1
  /\ InOrder

(* The transmitter leaves the start packet behind only for an RR, and the  *)
(* first RR of a transfer answers the start packet.                        *)
StartInv ==
  /\ cur > 0 \/ "RR" \in Kinds(toTx) => target \/ hand = StartPacket
  /\ out # <<>> => target

(* What a command on the line says of the process that wrote it.           *)
ConnectionInv ==
  /\ txPhase = "open" => cur = StartPacket
  /\ hand # NoPacket => rxPhase = "read"
  /\ "SET" \in Kinds(toTx) => rxPhase # "open"
  /\ "DISC" \in Kinds(toRx) => txPhase \in {"close", "gaveUp", "closed"}
  /\ "DISC" \in Kinds(toTx) => rxPhase \in {"ua", "closed"}
  /\ "UA" \in Kinds(toRx) => txPhase = "closed"
  /\ PhasesAgree

IInv == TypeOK /\ OrderInv /\ StartInv /\ ConnectionInv

-----------------------------------------------------------------------------
(* The inductive invariant behind RRMeansReceived, WholeFile and CopySpec, *)
(* when the alarm is never premature.                                      *)

(* Whoever may still read and answer: at most one frame is on its way in   *)
(* both directions together, and none when the transmitter is about to     *)
(* write.                                                                  *)
OneExchange ==
  /\ Len(toTx) <= 1
  /\ "rx" \notin killed => Len(toRx) + Len(toTx) <= 1
  /\ txPhase \in Looping /\ flag = 0 /\ txPc \in {"while", "flag", "read"}
       => toTx = <<>> /\ ("rx" \notin killed => toRx = <<>>)

(* The receiver has all packets up to i.                                   *)
Arrived(i) == i <= Len(out) \/ (hand = i /\ i = Len(out) + 1)

(* All that is on its way belongs to the packet being sent, and an RR      *)
(* answers that one.                                                       *)
AnswerInv ==
  /\ "rx" \notin killed => \A n \in Carried(toRx) : n = cur
  /\ partial # NoPacket => partial = cur /\ "RR" \notin Kinds(toTx)
  /\ "RR" \in Kinds(toTx) => Arrived(cur) \/ cur = EndPacket

(* The output has no gap, and what the transmitter counts has arrived.     *)
CopyInv ==
  /\ cur > 0 => Arrived(cur - 1)
  /\ \A i \in 1 .. Len(out) : out[i] = i

(* With an alarm that waits until the line is quiet, one exchange is on    *)
(* its way at a time, it belongs to the packet being sent, and nothing     *)
(* that the transmitter has counted is missing.                            *)
TimelyInv == OneExchange /\ AnswerInv /\ CopyInv

-----------------------------------------------------------------------------
(* The file copy as its user sees it: the packets the receiver holds, the  *)
(* packets the transmitter counts as delivered, and the end of the file.   *)
Copy == INSTANCE ReliableCopy WITH
  N <- NPackets,
  received <- IF hand = Len(out) + 1 /\ hand # EndPacket
              THEN Append(out, hand) ELSE out,
  acked <- IF cur = 0 THEN 0 ELSE cur - 1,
  ended <- rxPhase \in {"disc", "ua", "closed"}

CopySpec == Copy!Spec

=============================================================================
