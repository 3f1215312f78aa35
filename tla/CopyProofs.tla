----------------------------- MODULE CopyProofs -----------------------------
(***************************************************************************)
(* What an alarm that is never premature adds to the file transfer, for    *)
(* every file, line and number of tries: an RR means that its packet has   *)
(* been received, the file is whole when its end is seen, and the transfer *)
(* implements ReliableCopy.                                                *)
(***************************************************************************)
EXTENDS FileTransferProofs

-----------------------------------------------------------------------------
(* The lines.                                                              *)

(* An empty line has no frames to speak of.                                *)
LEMMA NoFrames ==
  /\ Len(<<>>) = 0 /\ Kinds(<<>>) = {} /\ Carried(<<>>) = {}
  /\ \A l \in Seq(Frame) : (Len(l) = 0 <=> l = <<>>) /\ Len(l) \in Nat
BY DEF Kinds, Carried, Informed

(* A write adds at most one frame.                                         *)
LEMMA WrittenFrame ==
  ASSUME NEW l \in Seq(Frame), Len(l) <= LineCap, NEW f \in Frame,
         NEW lNext, WriteTo(l, f, lNext), faults \in Spoiled
  PROVE  /\ lNext \in Seq(Frame)
         /\ Len(lNext) <= Len(l) + 1
         /\ Kinds(lNext) \subseteq Kinds(l) \cup {f.kind}
         /\ Carried(lNext) \subseteq Carried(l) \cup {f.n}
         /\ f.kind # "I" => Carried(lNext) = Carried(l)
<1>1. CASE lNext = l
  BY <1>1
<1>2. ASSUME NEW g \in Frame, lNext = Append(l, g), g.kind = f.kind, g.n = f.n
      PROVE  /\ Len(lNext) <= Len(l) + 1
             /\ Kinds(lNext) \subseteq Kinds(l) \cup {f.kind}
             /\ Carried(lNext) \subseteq Carried(l) \cup {f.n}
             /\ f.kind # "I" => Carried(lNext) = Carried(l)
  BY <1>2, AppendFrame
<1> QED
  BY <1>1, <1>2, WriteFrame

(* What a step of the transmitter does to the lines: it takes a frame or   *)
(* not, and writes one or not; an information frame carries cur.           *)
LEMMA TxLines ==
  ASSUME TypeOK, TxLoop \/ TxReceive
  PROVE  /\ Len(toRx') <= Len(toRx) + 1
         /\ \A n \in Carried(toRx') : n \in Carried(toRx) \/ n = cur
         /\ toRx' = toRx \/ TxSend \/ TxRejected \/ TxRejectedInterrupted \/ TxClosed
         /\ TxLoop => toTx' = toTx
         /\ TxReceive => toTx # <<>> /\ toTx' = Tail(toTx)
<1> DEFINE Bounded == /\ Len(toRx') <= Len(toRx) + 1
                      /\ \A n \in Carried(toRx') : n \in Carried(toRx) \/ n = cur
<1>1. /\ TxLoop => toTx' = toTx
      /\ TxReceive => toTx # <<>> /\ toTx' = Tail(toTx)
  BY DEF TxLoop, TxTryAgain, TxGiveUp, TxSend, TxSkipSend, TxArm, TxSetFlag, TxPoll,
         TxReceive, TxOpened, TxAcked, TxRejected, TxRejectedInterrupted, TxClosed,
         TxIgnored, TxTakes, lineVars
<1>2. toRx' = toRx \/ TxSend \/ TxRejected \/ TxRejectedInterrupted \/ TxClosed
  BY DEF TxLoop, TxTryAgain, TxGiveUp, TxSkipSend, TxArm, TxSetFlag, TxPoll,
         TxReceive, TxOpened, TxAcked, TxIgnored, lineVars
<1>3. CASE toRx' = toRx
  BY <1>1, <1>2, <1>3 DEF TypeOK, LineTypeOK
<1>4. CASE TxSend \/ TxRejected
  <2>1. /\ Command \in Frame /\ WriteToRx(Command)
        /\ Command.kind = "I" => Command.n = cur
    BY <1>4, CommandFrame DEF TxSend, TxRejected, At, Looping, TypeOK, TxTypeOK
  <2>2. /\ Len(toRx') <= Len(toRx) + 1
        /\ Carried(toRx') \subseteq Carried(toRx) \cup {Command.n}
        /\ Command.kind # "I" => Carried(toRx') = Carried(toRx)
    BY <2>1, WrittenFrame DEF WriteToRx, TypeOK, LineTypeOK
  <2> QED
    BY <1>1, <1>2, <2>1, <2>2
<1>5. CASE TxRejectedInterrupted /\ toRx' # toRx
  <2> DEFINE g == [Command EXCEPT !.q = "dam"]
  <2>1. /\ Command \in Frame /\ Command.n = cur
        /\ toRx' = Append(toRx, g)
    BY <1>5, CommandFrame DEF TxRejectedInterrupted, TypeOK, TxTypeOK
  <2>2. g \in Frame /\ g.n = cur
    BY <2>1 DEF Frame
  <2> HIDE DEF g
  <2>3. Len(toRx') = Len(toRx) + 1 /\ Carried(toRx') \subseteq Carried(toRx) \cup {cur}
    BY <2>1, <2>2, AppendFrame DEF TypeOK, LineTypeOK
  <2> QED
    BY <1>1, <1>2, <2>3 DEF TypeOK, LineTypeOK
<1>6. CASE TxClosed
  <2>1. /\ Supervision("UA") \in Frame /\ Supervision("UA").kind = "UA"
        /\ WriteToRx(Supervision("UA"))
    BY <1>6, FramesWritten DEF TxClosed, Kind
  <2>2. Len(toRx') <= Len(toRx) + 1 /\ Carried(toRx') = Carried(toRx)
    BY <2>1, WrittenFrame DEF WriteToRx, TypeOK, LineTypeOK
  <2> QED
    BY <1>1, <1>2, <2>2
<1> QED
  BY <1>2, <1>3, <1>4, <1>5, <1>6

(* What a frame read by the receiver does to the lines and to what it      *)
(* holds: nothing, or it is accepted, collected, or closes the one that is *)
(* collected.                                                              *)
Kept == UNCHANGED <<hand, partial>> /\ ("RR" \in Kinds(toTx') => "RR" \in Kinds(toTx))
Accepted == hand = NoPacket /\ partial = NoPacket /\ hand' \in Carried(toRx) /\ UNCHANGED partial
Collected == UNCHANGED <<hand, toTx>> /\ partial' \in Carried(toRx)
Completed == hand = NoPacket /\ partial # NoPacket /\ hand' = partial /\ partial' = NoPacket
Refused ==
  /\ hand = NoPacket /\ UNCHANGED hand /\ partial' = NoPacket
  /\ "RR" \in Kinds(toTx') => "RR" \in Kinds(toTx)

Ended == {"disc", "ua", "closed"}

LEMMA RxLines ==
  ASSUME TypeOK, RxReceive
  PROVE  /\ toRx # <<>> /\ Len(toRx') = Len(toRx) - 1
         /\ Len(toTx') <= Len(toTx) + 1
         /\ Carried(toRx') \subseteq Carried(toRx)
         /\ UNCHANGED <<order, target, out>>
         /\ Kept \/ Accepted \/ Collected \/ Completed \/ Refused
         /\ rxPhase' \in Ended <=> rxPhase \in Ended
<1>1. PICK f \in {Head(toRx)} :
        \/ RxOpen(f) \/ RxDisc(f) \/ RxUa(f) \/ RxIgnored(f)
        \/ RxAccept(f) \/ RxReject(f) \/ RxCollect(f)
        \/ RxCloseByNext(f) \/ RxHeaderError(f)
  BY DEF RxReceive
<1>2. toRx # <<>> /\ toRx' = Tail(toRx) /\ f = Head(toRx)
  BY <1>1
  DEF RxReceive, RxOpen, RxDisc, RxUa, RxIgnored, RxAccept, RxReject, RxCollect,
      RxCloseByNext, RxHeaderError, RxReads, RxAnswers, RxTakes
<1>3. /\ f \in Frame
      /\ Len(toRx') = Len(toRx) - 1
      /\ Carried(toRx') \subseteq Carried(toRx)
      /\ f.kind = "I" => f.n \in Carried(toRx)
  BY <1>2, TailFrame DEF TypeOK, LineTypeOK
<1>4. ASSUME NEW k \in Kind, WriteToTx(Supervision(k))
      PROVE  /\ Len(toTx') <= Len(toTx) + 1
             /\ k # "RR" => ("RR" \in Kinds(toTx') => "RR" \in Kinds(toTx))
  <2>1. Supervision(k) \in Frame /\ Supervision(k).kind = k
    BY FramesWritten
  <2>2. Len(toTx') <= Len(toTx) + 1 /\ Kinds(toTx') \subseteq Kinds(toTx) \cup {k}
    BY <1>4, <2>1, WrittenFrame DEF WriteToTx, TypeOK, LineTypeOK
  <2> QED
    BY <2>2
<1>5. toTx' = toTx => Len(toTx') <= Len(toTx) + 1
  BY DEF TypeOK, LineTypeOK
<1>6. {"SET", "DISC", "RR", "REJ"} \subseteq Kind
  BY DEF Kind
<1>7. CASE RxOpen(f) \/ RxDisc(f)
  BY <1>2, <1>3, <1>4, <1>6, <1>7 DEF RxOpen, RxDisc, RxAnswers, RxTakes, Kept, Ended
<1>8. CASE RxUa(f)
  BY <1>2, <1>3, <1>5, <1>8 DEF RxUa, RxTakes, Kept, Ended
<1>9. CASE RxIgnored(f) \/ RxHeaderError(f)
  BY <1>2, <1>3, <1>5, <1>9 DEF RxIgnored, RxHeaderError, rxVars, Kept
<1>10. CASE RxAccept(f)
  BY <1>2, <1>3, <1>4, <1>6, <1>10 DEF RxAccept, RxReads, Accepted
<1>11. CASE RxReject(f)
  BY <1>2, <1>3, <1>4, <1>6, <1>11 DEF RxReject, rxVars, Kept
<1>12. CASE RxCollect(f)
  BY <1>2, <1>3, <1>5, <1>12 DEF RxCollect, Collected
<1>13. CASE RxCloseByNext(f)
  BY <1>2, <1>3, <1>4, <1>6, <1>13 DEF RxCloseByNext, RxReads, Completed, Refused
<1> QED
  BY <1>1, <1>7, <1>8, <1>9, <1>10, <1>11, <1>12, <1>13

-----------------------------------------------------------------------------
(* One exchange at a time.                                                 *)

(* The transmitter writes only when nothing is on its way, or right after  *)
(* it has taken the only frame that was.                                   *)
LEMMA ExchangeLoop ==
  ASSUME TypeOK, OneExchange, TxLoop, UNCHANGED killed
  PROVE  OneExchange'
<1> USE DEF OneExchange, TypeOK, LineTypeOK
<1>1. toTx' = toTx
  BY TxLines
<1>2. CASE TxSend
  <2>1. /\ txPhase \in Looping /\ flag = 0 /\ txPc = "flag" /\ txPc' = "arm"
    BY <1>2 DEF TxSend, At, Goto
  <2>2. toTx = <<>> /\ ("rx" \notin killed => toRx = <<>>)
    BY <2>1
  <2>3. Len(toRx') <= Len(toRx) + 1
    BY TxLines
  <2>4. Len(toTx) = 0 /\ ("rx" \notin killed => Len(toRx') <= 1)
    BY <2>2, <2>3, TypeStep
  <2>5. Len(toRx') \in Nat
    BY <1>2, CommandFrame, WriteFrame DEF TxSend, WriteToRx, TxTypeOK
  <2> QED
    BY <1>1, <2>1, <2>4, <2>5
<1>3. CASE ~TxSend
  <2>1. toRx' = toRx
    BY <1>3, TxLines
    DEF TxLoop, TxTryAgain, TxGiveUp, TxSkipSend, TxArm, TxSetFlag, TxPoll, lineVars
  <2>2. txPhase' \in Looping /\ flag' = 0 /\ txPc' \in {"while", "flag", "read"}
          => txPhase \in Looping /\ flag = 0 /\ txPc \in {"while", "flag", "read"}
    BY <1>3 DEF TxLoop, TxTryAgain, TxGiveUp, TxSkipSend, TxArm, TxSetFlag, TxPoll, At, Goto
  <2> QED
    BY <1>1, <2>1, <2>2
<1> QED
  BY <1>2, <1>3

LEMMA ExchangeReceive ==
  ASSUME TypeOK, OneExchange, TxReceive, UNCHANGED <<rxVars, killed>>
  PROVE  OneExchange'
<1> USE DEF OneExchange, TypeOK, LineTypeOK
<1>1. toTx # <<>> /\ toTx' = Tail(toTx) /\ Len(toRx') <= Len(toRx) + 1
  BY TxLines
<1>2. Len(toTx) = 1 /\ toTx' = <<>> /\ Len(toTx') = 0
  <2>1. toTx' \in Seq(Frame) /\ Len(toTx') = Len(toTx) - 1
    BY <1>1, TailFrame
  <2>2. Len(toTx) \in Nat /\ Len(toTx) # 0 /\ Len(toTx) <= 1
    BY <1>1, NoFrames
  <2>3. Len(toTx) = 1 /\ Len(toTx') = 0
    BY <2>1, <2>2
  <2> QED
    BY <2>1, <2>3, NoFrames
<1>3. "rx" \notin killed => toRx = <<>> /\ Len(toRx) = 0
  <2>1. toRx \in Seq(Frame) /\ Len(toRx) \in Nat
    BY NoFrames
  <2>2. "rx" \notin killed => Len(toRx) = 0
    BY <1>2, <2>1
  <2> QED
    BY <2>1, <2>2, NoFrames
<1>4. Len(toRx') \in Nat
  <2>1. TypeOK'
    BY TypeTxReceive
  <2> QED
    BY <2>1
<1>5. CASE toRx' = toRx
  BY <1>2, <1>3, <1>5
<1>6. CASE toRx' # toRx
  <2>1. TxRejected \/ TxRejectedInterrupted \/ TxClosed
    BY <1>6, TxLines
    DEF TxReceive, TxOpened, TxAcked, TxIgnored
  <2>2. txPc' = "arm" \/ txPhase' \notin Looping
    BY <2>1 DEF TxRejected, TxRejectedInterrupted, TxClosed, Goto, Looping
  <2>3. "rx" \notin killed => Len(toRx') <= 1
    BY <1>1, <1>3, <1>4
  <2>4. txPc' = "arm" \/ txPhase' \notin Looping => OneExchange'
    BY <1>2, <1>4, <2>3 DEF rxVars
  <2> QED
    BY <2>2, <2>4
<1> QED
  BY <1>5, <1>6

(* The alarm expires in silence.                                           *)
LEMMA ExchangeAlarm ==
  ASSUME TypeOK, OneExchange, PhasesAgree, Alarm, ~Premature
  PROVE  OneExchange'
<1>1. Quiet /\ UNCHANGED <<txPhase, txPc, toRx, toTx, killed>>
  BY DEF Alarm, Tx, TxAlarm, lineVars
<1>2. txPhase \in Looping => toTx = <<>> /\ ("rx" \notin killed => toRx = <<>>)
  BY <1>1 DEF Quiet, PhasesAgree, Looping
<1> QED
  BY <1>1, <1>2 DEF OneExchange

(* The receiver takes a frame before it writes one.                        *)
LEMMA ExchangeRx ==
  ASSUME TypeOK, OneExchange, Rx(RxReceive)
  PROVE  OneExchange'
<1> USE DEF OneExchange, TypeOK, LineTypeOK
<1>1. /\ "rx" \notin killed
      /\ UNCHANGED <<txPhase, txPc, flag, killed>>
      /\ RxReceive
  BY DEF Rx, txVars
<1>2. /\ toRx # <<>> /\ Len(toRx') = Len(toRx) - 1
      /\ Len(toTx') <= Len(toTx) + 1
  BY <1>1, RxLines
<1>3. Len(toRx) = 1 /\ Len(toTx) = 0
  BY <1>1, <1>2, NoFrames
<1>4. Len(toTx') \in Nat
  <2>1. TypeOK'
    BY <1>1, TypeRxReceive DEF Rx
  <2> QED
    BY <2>1
<1> QED
  BY <1>1, <1>2, <1>3, <1>4

LEMMA ExchangeStep ==
  ASSUME TypeOK, OneExchange, PhasesAgree, [Next]_vars, ~Premature
  PROVE  OneExchange'
<1>1. CASE Tx(TxLoop)
  BY <1>1, ExchangeLoop DEF Tx
<1>2. CASE Tx(TxReceive)
  BY <1>2, ExchangeReceive DEF Tx, rxVars
<1>3. CASE Alarm
  BY <1>3, ExchangeAlarm
<1>4. CASE Rx(RxReceive)
  BY <1>4, ExchangeRx
<1>5. CASE Rx(RxDeliver) \/ Sigint \/ Finished \/ UNCHANGED vars
  <2>1. UNCHANGED <<txPhase, txPc, flag, toRx, toTx>> /\ killed \subseteq killed'
    BY <1>5 DEF Rx, RxDeliver, RxStart, RxWrite, RxSkip, RxEnd, RxHandles, Sigint, Finished,
                vars, txVars, lineVars
  <2> QED
    BY <2>1 DEF OneExchange
<1> QED
  BY <1>1, <1>2, <1>3, <1>4, <1>5 DEF Next

-----------------------------------------------------------------------------
(* What has arrived.                                                       *)

(* A data packet between llread and readDataPackets is the last one of the *)
(* file or the one after it, and its sequence byte tells which.            *)
LEMMA HandNext ==
  ASSUME TypeOK, OrderInv, CopyInv, hand \in DataPacket
  PROVE  /\ hand = Len(out) \/ hand = Len(out) + 1
         /\ SeqByte(hand) = (order + 1) % SeqMod <=> hand = Len(out) + 1
<1> DEFINE m == Len(out)
<1>1. m \in Nat /\ hand \in Nat /\ hand >= 1 /\ cur \in Nat /\ DOMAIN out = 1 .. m
  BY LineAssumption DEF TypeOK, TxTypeOK, RxTypeOK, DataPacket, Packet, EndPacket
<1>2. hand \in Held /\ hand <= cur /\ order + 1 = m
  BY <1>1 DEF OrderInv, Held, NoPacket
<1>3. m > 0 => m <= hand
  <2>1. ASSUME m > 0 PROVE out[m] = m /\ out[m] <= hand
    BY <1>1, <1>2, <2>1 DEF OrderInv, CopyInv
  <2> QED
    BY <2>1
<1>4. hand <= m + 1
  BY <1>1, <1>2 DEF CopyInv, Arrived
<1> HIDE DEF m
<1>5. hand = m \/ hand = m + 1
  BY <1>1, <1>3, <1>4
<1>6. CASE hand = m + 1
  BY <1>1, <1>2, <1>6 DEF SeqByte
<1>7. CASE hand = m
  <2>1. m - 1 \in Nat
    BY <1>1, <1>7
  <2>2. ((m - 1) + 1) % SeqMod # (m - 1) % SeqMod
    BY <2>1, NeighbourBytes
  <2>3. (m - 1) + 1 = m
    BY <1>1
  <2> QED
    <3>1. SeqByte(hand) = (m - 1) % SeqMod /\ (order + 1) % SeqMod = m % SeqMod
      BY <1>2, <1>7 DEF SeqByte
    <3>2. hand # m + 1
      BY <1>1, <1>7
    <3>3. m % SeqMod # (m - 1) % SeqMod
      BY <2>2, <2>3, Zenon
    <3>4. SeqByte(hand) # (order + 1) % SeqMod
      BY <3>1, <3>3, Zenon
    <3> QED
      BY <1>7, <3>2, <3>4, Zenon DEF m
<1> QED
  BY <1>5, <1>6, <1>7 DEF m

(* The transmitter moves on to the next packet when nothing is on its way  *)
(* and the one before has arrived.                                         *)
LEMMA ArrivedAcked ==
  ASSUME IInv, TimelyInv, TxAcked, UNCHANGED <<rxVars, killed>>
  PROVE  AnswerInv' /\ CopyInv'
<1> USE DEF IInv, TimelyInv
<1>1. /\ toTx # <<>> /\ toTx' = Tail(toTx) /\ Head(toTx).kind = "RR"
      /\ toRx' = toRx /\ UNCHANGED <<hand, partial, out, killed>>
      /\ cur' = cur \/ (cur < EndPacket /\ cur' = cur + 1)
      /\ cur \in Nat
  BY LineAssumption DEF TxAcked, TxTakes, rxVars, TypeOK, TxTypeOK, Packet, EndPacket
<1>2. "RR" \in Kinds(toTx)
  BY <1>1, TailFrame DEF TypeOK, LineTypeOK
<1>3. Kinds(toTx') = {} /\ ("rx" \notin killed => Carried(toRx) = {})
  <2>1. Len(toTx) \in Nat /\ Len(toTx) # 0 /\ Len(toTx) <= 1 /\ Len(toRx) \in Nat
    BY <1>1, NoFrames DEF TypeOK, LineTypeOK, OneExchange
  <2>2. toTx' \in Seq(Frame) /\ Len(toTx') = Len(toTx) - 1
    BY <1>1, TailFrame DEF TypeOK, LineTypeOK
  <2>3. Len(toTx') = 0 /\ ("rx" \notin killed => Len(toRx) = 0)
    BY <2>1, <2>2 DEF OneExchange
  <2> QED
    BY <2>2, <2>3, NoFrames DEF TypeOK, LineTypeOK
<1>4. AnswerInv'
  BY <1>1, <1>2, <1>3 DEF AnswerInv
<1>5. CopyInv'
  <2>1. CASE cur' = cur
    BY <1>1, <2>1 DEF CopyInv, Arrived
  <2>2. CASE cur < EndPacket /\ cur' = cur + 1
    <3>1. cur # EndPacket /\ (cur + 1) - 1 = cur
      BY <1>1, <2>2, LineAssumption DEF EndPacket
    <3>2. Arrived(cur)
      BY <1>2, <3>1 DEF AnswerInv
    <3> QED
      BY <1>1, <2>2, <3>1, <3>2 DEF CopyInv, Arrived
  <2> QED
    BY <1>1, <2>1, <2>2
<1> QED
  BY <1>4, <1>5

(* Any other step of the transmitter stays with its packet.                *)
LEMMA ArrivedTx ==
  ASSUME IInv, TimelyInv, TxLoop \/ TxReceive, UNCHANGED <<rxVars, killed>>
  PROVE  AnswerInv' /\ CopyInv'
<1> USE DEF IInv, TimelyInv
<1>1. CASE TxAcked
  BY <1>1, ArrivedAcked
<1>2. CASE ~TxAcked
  <2>1. cur' = cur
    <3>1. txPhase = "open" => cur = StartPacket
      BY DEF ConnectionInv
    <3> QED
      BY <1>2, <3>1 DEF TxLoop, TxTryAgain, TxGiveUp, TxSend, TxSkipSend, TxArm, TxSetFlag, TxPoll,
           TxReceive, TxOpened, TxRejected, TxRejectedInterrupted, TxClosed, TxIgnored
  <2>2. Kinds(toTx') \subseteq Kinds(toTx)
    BY KindsTx
  <2>3. \A n \in Carried(toRx') : n \in Carried(toRx) \/ n = cur
    BY TxLines
  <2>4. UNCHANGED <<hand, partial, out, killed>>
    BY DEF rxVars
  <2>5. \A i : Arrived(i)' <=> Arrived(i)
    BY <2>4 DEF Arrived
  <2>6. AnswerInv'
    BY <2>1, <2>2, <2>3, <2>4, <2>5 DEF AnswerInv
  <2>7. CopyInv'
    BY <2>1, <2>4, <2>5 DEF CopyInv
  <2> QED
    BY <2>6, <2>7
<1> QED
  BY <1>1, <1>2

(* What the receiver accepts, at once or when it has collected it to its   *)
(* end, is the packet being sent, the last one of the file or the next.    *)
LEMMA ArrivedReceive ==
  ASSUME IInv, TimelyInv, Rx(RxReceive)
  PROVE  AnswerInv' /\ CopyInv'
<1> USE DEF IInv, TimelyInv
<1>1. /\ "rx" \notin killed /\ UNCHANGED <<cur, killed>> /\ RxReceive
  BY DEF Rx, txVars
<1>2. /\ toRx # <<>> /\ Carried(toRx') \subseteq Carried(toRx)
      /\ out' = out
      /\ Kept \/ Accepted \/ Collected \/ Completed \/ Refused
  BY <1>1, RxLines
<1>3. \A n \in Carried(toRx) : n = cur
  BY <1>1 DEF AnswerInv
<1>4. cur \in Nat /\ Len(out) \in Nat
  BY LineAssumption DEF TypeOK, TxTypeOK, RxTypeOK, Packet, EndPacket
<1>5. CASE Kept
  BY <1>1, <1>2, <1>3, <1>5 DEF Kept, AnswerInv, CopyInv, Arrived
<1>6. CASE Refused
  BY <1>1, <1>2, <1>3, <1>6 DEF Refused, AnswerInv, CopyInv, Arrived
<1>7. CASE Accepted \/ Completed
  <2>1. hand = NoPacket /\ hand' = cur /\ partial' = NoPacket
    BY <1>3, <1>7 DEF Accepted, Completed, AnswerInv
  <2>2. cur <= Len(out) + 1
    BY <1>4, <2>1 DEF CopyInv, Arrived, NoPacket
  <2>3. Arrived(cur)' /\ (cur > 0 => Arrived(cur - 1)')
    BY <1>1, <1>2, <1>4, <2>1, <2>2 DEF Arrived
  <2> QED
    BY <1>1, <1>2, <1>3, <2>1, <2>3 DEF AnswerInv, CopyInv
<1>8. CASE Collected
  <2>1. hand' = hand /\ toTx' = toTx /\ partial' = cur
    BY <1>3, <1>8 DEF Collected
  <2>2. "RR" \notin Kinds(toTx)
    <3>1. Len(toRx) \in Nat /\ Len(toRx) # 0 /\ Len(toTx) \in Nat /\ Len(toRx) + Len(toTx) <= 1
      BY <1>1, <1>2, NoFrames DEF TypeOK, LineTypeOK, OneExchange
    <3>2. toTx = <<>>
      BY <3>1, NoFrames DEF TypeOK, LineTypeOK
    <3> QED
      BY <3>2, NoFrames
  <2> QED
    BY <1>1, <1>2, <1>3, <2>1, <2>2 DEF AnswerInv, CopyInv, Arrived
<1> QED
  BY <1>2, <1>5, <1>6, <1>7, <1>8

(* readDataPackets writes the packet that is next and no other.            *)
LEMMA ArrivedDeliver ==
  ASSUME IInv, TimelyInv, RxDeliver, UNCHANGED <<txVars, killed>>
  PROVE  AnswerInv' /\ CopyInv'
<1> USE DEF IInv, TimelyInv
<1>1. UNCHANGED <<toRx, toTx, cur, partial, killed>> /\ hand' = NoPacket
  BY DEF RxDeliver, RxStart, RxWrite, RxSkip, RxEnd, RxHandles, lineVars, txVars
<1>2. /\ cur \in Nat /\ cur <= EndPacket /\ Len(out) \in Nat /\ Len(out)' \in Nat
      /\ EndPacket = NPackets + 1 /\ NPackets \in Nat
  <2>1. TypeOK'
    BY TypeRxDeliver
  <2> QED
    BY <2>1, LineAssumption DEF TypeOK, TxTypeOK, RxTypeOK, Packet, EndPacket
<1>3. SUFFICES /\ \A i \in Nat : Arrived(i) /\ (i < EndPacket) => Arrived(i)'
               /\ \A i \in 1 .. Len(out)' : out'[i] = i
  <2>1. Arrived(cur) \/ cur = EndPacket => Arrived(cur)' \/ cur = EndPacket
    BY <1>1, <1>2, <1>3 DEF Arrived
  <2>2. cur > 0 => Arrived(cur - 1)'
    <3>1. cur > 0 => cur - 1 \in Nat /\ cur - 1 < EndPacket
      BY <1>2
    <3> QED
      BY <1>1, <1>3, <3>1 DEF CopyInv, Arrived
  <2> QED
    BY <1>1, <1>3, <2>1, <2>2 DEF AnswerInv, CopyInv
<1>4. CASE RxStart
  <2>1. out = <<>> /\ out' = <<>> /\ hand = 0
    BY <1>4, StartEmpty DEF RxStart, StartPacket
  <2> QED
    BY <1>1, <2>1 DEF Arrived
<1>5. CASE RxWrite
  <2>1. hand = Len(out) + 1 /\ out' = Append(out, hand)
    BY <1>5, HandNext DEF RxWrite
  <2>2. /\ Len(out)' = Len(out) + 1
        /\ \A i \in 1 .. Len(out) : out'[i] = out[i]
        /\ out'[Len(out) + 1] = hand
    BY <2>1 DEF TypeOK, RxTypeOK
  <2> QED
    BY <1>2, <2>1, <2>2 DEF Arrived, CopyInv
<1>6. CASE RxSkip
  <2>1. hand # Len(out) + 1 /\ out' = out
    BY <1>6, HandNext DEF RxSkip
  <2> QED
    BY <2>1 DEF Arrived, CopyInv
<1>7. CASE RxEnd
  <2>1. hand = EndPacket /\ out' = out
    BY <1>7 DEF RxEnd
  <2> QED
    BY <1>2, <2>1 DEF Arrived, CopyInv
<1> QED
  BY <1>4, <1>5, <1>6, <1>7 DEF RxDeliver

(* Nothing has been written yet.                                           *)
LEMMA TimelyInit == Init => TimelyInv
<1> SUFFICES ASSUME Init PROVE TimelyInv
  OBVIOUS
<1>1. /\ toRx = <<>> /\ toTx = <<>> /\ cur = 0 /\ partial = NoPacket /\ out = <<>>
      /\ Len(out) = 0 /\ Len(toRx) = 0 /\ Len(toTx) = 0
  BY NoFrames DEF Init, LineInit, TxInit, RxInit, StartPacket
<1>2. OneExchange
  BY <1>1 DEF OneExchange
<1>3. AnswerInv
  BY <1>1, NoFrames DEF AnswerInv
<1>4. CopyInv
  BY <1>1 DEF CopyInv
<1> QED
  BY <1>2, <1>3, <1>4 DEF TimelyInv

LEMMA TimelyStep ==
  ASSUME IInv, TimelyInv, [Next]_vars, ~Premature
  PROVE  TimelyInv'
<1>1. OneExchange'
  BY ExchangeStep DEF IInv, ConnectionInv, TimelyInv
<1>2. AnswerInv' /\ CopyInv'
  <2>1. CASE Tx(TxLoop) \/ Tx(TxReceive)
    BY <2>1, ArrivedTx DEF Tx
  <2>2. CASE Rx(RxReceive)
    BY <2>2, ArrivedReceive
  <2>3. CASE Rx(RxDeliver)
    BY <2>3, ArrivedDeliver DEF Rx
  <2>4. CASE Alarm \/ Sigint \/ Finished \/ UNCHANGED vars
    <3>1. UNCHANGED <<toRx, toTx, cur, hand, partial, out>> /\ killed \subseteq killed'
      BY <2>4 DEF Alarm, Tx, TxAlarm, Sigint, Finished, vars, txVars, rxVars, lineVars
    <3> QED
      BY <3>1 DEF TimelyInv, AnswerInv, CopyInv, Arrived
  <2> QED
    BY <2>1, <2>2, <2>3, <2>4 DEF Next
<1> QED
  BY <1>1, <1>2 DEF TimelyInv

-----------------------------------------------------------------------------
(* The theorems.                                                           *)

(* The invariant of an alarm that waits until the line is quiet.           *)
THEOREM TimelyInvariant ==
  ASSUME ~Premature
  PROVE  Spec => []TimelyInv
<1>1. Init => TimelyInv
  BY TimelyInit
<1>2. IInv /\ TimelyInv /\ [Next]_vars => TimelyInv'
  BY TimelyStep
<1>3. Spec => []IInv
  BY Invariant
<1> QED
  BY <1>1, <1>2, <1>3, PTL DEF Spec

(* The transmitter leaves a packet behind only when the receiver has       *)
(* written it or holds it.                                                 *)
THEOREM AnswersTrue ==
  ASSUME ~Premature
  PROVE  Spec => []RRMeansReceived
<1>1. IInv /\ TimelyInv => RRMeansReceived
  <2> SUFFICES ASSUME IInv, TimelyInv, NEW i \in DataPacket, i < cur
               PROVE  hand = i \/ \E k \in 1 .. Len(out) : out[k] = i
    BY DEF RRMeansReceived
  <2>1. /\ cur \in Nat /\ i \in Nat /\ i >= 1 /\ Len(out) \in Nat
    BY LineAssumption
    DEF IInv, TypeOK, TxTypeOK, RxTypeOK, Packet, EndPacket, DataPacket
  <2>2. cur - 1 <= Len(out) \/ (hand = cur - 1 /\ cur - 1 = Len(out) + 1)
    BY <2>1 DEF TimelyInv, CopyInv, Arrived
  <2>3. i <= Len(out) \/ hand = i
    BY <2>1, <2>2
  <2>4. ASSUME i <= Len(out) PROVE i \in 1 .. Len(out) /\ out[i] = i
    BY <2>1, <2>4 DEF TimelyInv, CopyInv
  <2> QED
    BY <2>3, <2>4
<1> QED
  BY <1>1, Invariant, TimelyInvariant, PTL

(* When the end packet is being sent and the last data packet has been     *)
(* handled, all packets are in the file, and no other.                     *)
LEMMA AllArrived ==
  ASSUME IInv, TimelyInv, cur = EndPacket, hand # NPackets
  PROVE  Len(out) = NPackets
<1>1. EndPacket - 1 = NPackets /\ EndPacket > 0 /\ NPackets \in Nat /\ Len(out) \in Nat
  BY LineAssumption DEF EndPacket, IInv, TypeOK, RxTypeOK
<1>2. NPackets <= Len(out)
  BY <1>1 DEF TimelyInv, CopyInv, Arrived
<1>3. Len(out) > 0 => Len(out) <= NPackets
  <2>1. ASSUME Len(out) > 0 PROVE out[Len(out)] = Len(out) /\ out[Len(out)] \in DataPacket
    BY <1>1, <2>1 DEF TimelyInv, CopyInv, IInv, TypeOK, RxTypeOK
  <2> QED
    BY <2>1 DEF DataPacket
<1> QED
  BY <1>1, <1>2, <1>3

(* A receiver that has taken the end packet has the whole file.            *)
THEOREM FileWhole ==
  ASSUME ~Premature
  PROVE  Spec => []WholeFile
<1>1. IInv /\ TimelyInv => WholeFile
  <2> SUFFICES ASSUME IInv, TimelyInv, rxPhase \in Ended
               PROVE  out = [i \in DataPacket |-> i]
    BY DEF WholeFile, Ended
  <2>1. Len(out) = NPackets
    <3>1. hand = NoPacket /\ cur = EndPacket
      BY DEF IInv, ConnectionInv, PhasesAgree, Ended
    <3> QED
      BY <3>1, AllArrived, LineAssumption DEF NoPacket
  <2>2. /\ DOMAIN out = DataPacket
        /\ out = [i \in DataPacket |-> out[i]]
        /\ \A i \in DataPacket : out[i] = i
    BY <2>1 DEF TimelyInv, CopyInv, IInv, TypeOK, RxTypeOK, DataPacket
  <2> QED
    BY <2>2
<1> QED
  BY <1>1, Invariant, TimelyInvariant, PTL

-----------------------------------------------------------------------------
(* The refinement of ReliableCopy.                                         *)

Received == IF hand = Len(out) + 1 /\ hand # EndPacket THEN Append(out, hand) ELSE out
Acked == IF cur = 0 THEN 0 ELSE cur - 1

(* What the abstract copy has received is the row up to its length.        *)
LEMMA ReceivedRow ==
  ASSUME IInv, TimelyInv
  PROVE  /\ Received \in Seq(Nat)
         /\ Len(Received) \in Nat
         /\ Len(Received) = IF hand = Len(out) + 1 /\ hand # EndPacket
                            THEN Len(out) + 1 ELSE Len(out)
<1>1. out \in Seq(Nat) /\ Len(out) \in Nat
  BY LineAssumption DEF IInv, TypeOK, RxTypeOK, DataPacket
<1>2. CASE hand = Len(out) + 1 /\ hand # EndPacket
  BY <1>1, <1>2 DEF Received
<1>3. CASE ~(hand = Len(out) + 1 /\ hand # EndPacket)
  BY <1>1, <1>3 DEF Received
<1> QED
  BY <1>2, <1>3

(* The transmitter counts a packet, or stutters.                           *)
LEMMA CopyTx ==
  ASSUME IInv, TimelyInv, TxLoop \/ TxReceive, UNCHANGED rxVars
  PROVE  /\ UNCHANGED <<Received, rxPhase>>
         /\ \/ Acked' = Acked
            \/ Acked < Len(Received) /\ Acked' = Acked + 1
<1>1. UNCHANGED <<hand, out, rxPhase>> /\ Received' = Received
  BY DEF rxVars, Received
<1>2. cur \in Nat /\ Len(out) \in Nat /\ EndPacket \in Nat
  BY LineAssumption DEF IInv, TypeOK, TxTypeOK, RxTypeOK, Packet, EndPacket
<1>3. CASE cur' = cur
  BY <1>1, <1>3 DEF Acked
<1>4. CASE cur' # cur
  <2>1. cur' = cur + 1 /\ cur < EndPacket /\ TxAcked
    <3>1. txPhase = "open" => cur = StartPacket
      BY DEF IInv, ConnectionInv
    <3> QED
      BY <1>4, <3>1
      DEF TxLoop, TxTryAgain, TxGiveUp, TxSend, TxSkipSend, TxArm, TxSetFlag, TxPoll,
          TxReceive, TxOpened, TxAcked, TxRejected, TxRejectedInterrupted, TxClosed, TxIgnored
  <2>2. toTx # <<>> /\ Head(toTx).kind = "RR"
    BY <2>1 DEF TxAcked, TxTakes
  <2>3. "RR" \in Kinds(toTx)
    BY <2>2, TailFrame DEF IInv, TypeOK, LineTypeOK
  <2>4. cur # EndPacket
    BY <1>2, <2>1
  <2>5. cur <= Len(out) \/ (hand = cur /\ cur = Len(out) + 1)
    BY <2>3, <2>4 DEF TimelyInv, AnswerInv, Arrived
  <2>6. cur <= Len(Received)
    BY <1>2, <2>4, <2>5, ReceivedRow
  <2>7. CASE cur = 0
    BY <1>1, <2>1, <2>7 DEF Acked
  <2>8. CASE cur # 0
    BY <1>1, <1>2, <2>1, <2>6, <2>8, ReceivedRow DEF Acked
  <2> QED
    BY <1>1, <2>7, <2>8
<1> QED
  BY <1>1, <1>3, <1>4

(* The receiver takes the packet that is next, or stutters.                *)
LEMMA CopyRxReceive ==
  ASSUME IInv, TimelyInv, Rx(RxReceive)
  PROVE  /\ Acked' = Acked
         /\ rxPhase' \in Ended <=> rxPhase \in Ended
         /\ \/ Received' = Received
            \/ /\ Len(Received) < NPackets
               /\ Received' = Append(Received, Len(Received) + 1)
<1>1. /\ "rx" \notin killed /\ cur' = cur /\ RxReceive
  BY DEF Rx, txVars
<1>2. /\ out' = out
      /\ Kept \/ Accepted \/ Collected \/ Completed \/ Refused
      /\ rxPhase' \in Ended <=> rxPhase \in Ended
  BY <1>1, RxLines DEF IInv
<1>3. Acked' = Acked
  BY <1>1 DEF Acked
<1>4. CASE hand' = hand
  BY <1>2, <1>3, <1>4 DEF Received
<1>5. CASE hand' # hand
  <2>1. hand = NoPacket /\ hand' = cur
    BY <1>1, <1>2, <1>5
    DEF Kept, Accepted, Collected, Completed, Refused, TimelyInv, AnswerInv
  <2>2. /\ Len(out) \in Nat /\ cur \in Nat /\ cur <= EndPacket
        /\ EndPacket = NPackets + 1 /\ NPackets \in Nat
    BY LineAssumption DEF IInv, TypeOK, TxTypeOK, RxTypeOK, Packet, EndPacket
  <2>3. Received = out
    BY <2>1, <2>2 DEF Received, NoPacket
  <2>4. CASE cur = Len(out) + 1 /\ cur # EndPacket
    BY <1>2, <1>3, <2>1, <2>2, <2>3, <2>4 DEF Received
  <2>5. CASE ~(cur = Len(out) + 1 /\ cur # EndPacket)
    BY <1>1, <1>2, <1>3, <2>1, <2>3, <2>5 DEF Received, EndPacket
  <2> QED
    BY <2>4, <2>5
<1> QED
  BY <1>4, <1>5

(* The packet in the hand goes to the file, is dropped, or ends it.        *)
LEMMA CopyRxDeliver ==
  ASSUME IInv, TimelyInv, RxDeliver, UNCHANGED <<txVars, killed>>
  PROVE  /\ Acked' = Acked
         /\ Received' = Received
         /\ \/ rxPhase' = rxPhase
            \/ Len(Received) = NPackets /\ rxPhase' \in Ended
<1>1. cur' = cur /\ hand' = NoPacket /\ Acked' = Acked
  BY DEF RxDeliver, RxStart, RxWrite, RxSkip, RxEnd, RxHandles, txVars, Acked
<1>2. /\ Len(out) \in Nat /\ EndPacket = NPackets + 1 /\ NPackets \in Nat
      /\ cur \in Nat /\ hand \in {NoPacket} \cup 0 .. EndPacket
  BY LineAssumption DEF IInv, TypeOK, TxTypeOK, RxTypeOK, Packet, EndPacket
<1>3. Len(out') \in Nat
  <2>1. TypeOK'
    BY TypeRxDeliver DEF IInv
  <2> QED
    BY <2>1 DEF TypeOK, RxTypeOK
<1>4. Received' = out'
  BY <1>1, <1>3 DEF Received, NoPacket
<1>5. CASE RxStart
  <2>1. out = <<>> /\ out' = <<>> /\ hand = 0 /\ rxPhase' = rxPhase /\ Len(out) = 0
    BY <1>5, StartEmpty DEF RxStart, StartPacket, IInv
  <2>2. Received = out
    BY <2>1 DEF Received
  <2> QED
    BY <1>1, <1>4, <2>1, <2>2
<1>6. CASE RxWrite
  <2>1. hand = Len(out) + 1 /\ out' = Append(out, hand) /\ rxPhase' = rxPhase
    BY <1>6, HandNext DEF RxWrite, IInv, TimelyInv
  <2>2. hand # EndPacket
    BY <1>2, <1>6 DEF RxWrite, DataPacket
  <2> QED
    BY <1>1, <1>4, <2>1, <2>2 DEF Received
<1>7. CASE RxSkip
  <2>1. hand # Len(out) + 1 /\ out' = out /\ rxPhase' = rxPhase
    BY <1>7, HandNext DEF RxSkip, IInv, TimelyInv
  <2> QED
    BY <1>1, <1>4, <2>1 DEF Received
<1>8. CASE RxEnd
  <2>1. hand = EndPacket /\ out' = out /\ rxPhase' = "disc"
    BY <1>8 DEF RxEnd
  <2>2. Received = out
    BY <2>1 DEF Received
  <2>3. cur = EndPacket /\ hand # NPackets
    <3>1. hand <= cur /\ cur <= EndPacket
      BY <1>2, <2>1 DEF IInv, OrderInv, Held, NoPacket, TypeOK, TxTypeOK, Packet
    <3> QED
      BY <1>2, <2>1, <3>1
  <2> QED
    BY <1>1, <1>4, <2>1, <2>2, <2>3, AllArrived DEF Ended
<1> QED
  BY <1>5, <1>6, <1>7, <1>8 DEF RxDeliver

LEMMA CopyInit == Init => Copy!Init
<1> SUFFICES ASSUME Init PROVE Copy!Init
  OBVIOUS
<1>1. hand = NoPacket /\ out = <<>> /\ cur = 0 /\ rxPhase = "open" /\ Len(out) = 0
  BY NoFrames DEF Init, RxInit, TxInit, StartPacket
<1> QED
  BY <1>1 DEF Copy!Init, NoPacket

(* Every step of the two processes is a step of the abstract copy or       *)
(* changes nothing of it.                                                  *)
LEMMA CopyStep ==
  ASSUME IInv, TimelyInv, [Next]_vars
  PROVE  [Copy!Next]_(Copy!copyVars)
<1> DEFINE E == rxPhase \in Ended
<1>1. \/ Received' = Received /\ Acked' = Acked /\ E' = E
      \/ /\ Len(Received) < NPackets
         /\ Received' = Append(Received, Len(Received) + 1)
         /\ Acked' = Acked /\ E' = E
      \/ Acked < Len(Received) /\ Acked' = Acked + 1 /\ Received' = Received /\ E' = E
      \/ Len(Received) = NPackets /\ E' = TRUE /\ Received' = Received /\ Acked' = Acked
  <2>1. CASE Tx(TxLoop) \/ Tx(TxReceive)
    BY <2>1, CopyTx DEF Tx
  <2>2. CASE Rx(RxReceive)
    BY <2>2, CopyRxReceive
  <2>3. CASE Rx(RxDeliver)
    BY <2>3, CopyRxDeliver DEF Rx
  <2>4. CASE Alarm \/ Sigint \/ Finished \/ UNCHANGED vars
    <3>1. UNCHANGED <<cur, hand, out, rxPhase>>
      BY <2>4 DEF Alarm, Tx, TxAlarm, Sigint, Finished, vars, txVars, rxVars
    <3> QED
      BY <3>1 DEF Received, Acked
  <2> QED
    BY <2>1, <2>2, <2>3, <2>4 DEF Next
<1> QED
  BY <1>1
  DEF Copy!Next, Copy!Receive, Copy!Acknowledge, Copy!End, Copy!copyVars, Received, Acked, Ended

(* The transfer implements the reliable copy: packets are received in      *)
(* order, counted by the transmitter only then, and the end is seen only   *)
(* with the whole file.                                                    *)
THEOREM CopyImplemented ==
  ASSUME ~Premature
  PROVE  Spec => CopySpec
<1>1. Init => Copy!Init
  BY CopyInit
<1>2. IInv /\ TimelyInv /\ [Next]_vars => [Copy!Next]_(Copy!copyVars)
  BY CopyStep
<1> QED
  BY <1>1, <1>2, Invariant, TimelyInvariant, PTL DEF Spec, CopySpec, Copy!Spec

=============================================================================
