------------------------- MODULE FileTransferProofs -------------------------
(***************************************************************************)
(* What holds of the file transfer for every file, line, timer and number  *)
(* of tries: the proofs of the invariants that the runs check on small     *)
(* instances.                                                              *)
(***************************************************************************)
EXTENDS FileTransfer, TLAPS

(* What a line looks like after one more frame, and after one less.        *)
LEMMA AppendFrame ==
  ASSUME NEW l \in Seq(Frame), NEW g \in Frame
  PROVE  /\ Append(l, g) \in Seq(Frame)
         /\ Len(Append(l, g)) = Len(l) + 1
         /\ Kinds(Append(l, g)) = Kinds(l) \cup {g.kind}
         /\ Carried(Append(l, g)) \subseteq Carried(l) \cup {g.n}
         /\ g.kind # "I" => Carried(Append(l, g)) = Carried(l)
         /\ InRow(l) /\ (g.kind = "I" => \A n \in Carried(l) : n <= g.n)
              => InRow(Append(l, g))
<1> DEFINE m == Append(l, g)
<1>1. /\ m \in Seq(Frame)
      /\ Len(m) = Len(l) + 1
      /\ DOMAIN l = 1 .. Len(l)
      /\ DOMAIN m = 1 .. Len(l) + 1
      /\ \A i \in 1 .. Len(l) : m[i] = l[i]
      /\ m[Len(l) + 1] = g
      /\ Len(l) \in Nat
  OBVIOUS
<1> HIDE DEF m
<1>2. Kinds(m) = Kinds(l) \cup {g.kind}
  BY <1>1 DEF Kinds
<1>3. /\ Informed(l) \subseteq Informed(m)
      /\ Informed(m) \subseteq Informed(l) \cup {Len(l) + 1}
      /\ Len(l) + 1 \in Informed(m) <=> g.kind = "I"
      /\ \A i \in Informed(l) : i \in 1 .. Len(l) /\ m[i] = l[i]
  BY <1>1 DEF Informed
<1>4. Carried(m) \subseteq Carried(l) \cup {g.n}
  BY <1>1, <1>3 DEF Carried
<1>5. ASSUME g.kind # "I" PROVE Carried(m) = Carried(l)
  <2>1. Informed(m) = Informed(l)
    BY <1>3, <1>5
  <2> QED
    BY <1>3, <2>1 DEF Carried
<1>6. ASSUME InRow(l), g.kind = "I" => \A n \in Carried(l) : n <= g.n
      PROVE  InRow(m)
  <2> SUFFICES ASSUME NEW i \in Informed(m), NEW j \in Informed(m), i < j
               PROVE  m[i].n <= m[j].n
    BY DEF InRow
  <2>1. i \in Informed(l) /\ m[i] = l[i]
    BY <1>1, <1>3 DEF Informed
  <2>2. CASE j \in Informed(l)
    BY <1>3, <1>6, <2>1, <2>2 DEF InRow
  <2>3. CASE j = Len(l) + 1
    <3>1. g.kind = "I" /\ m[j] = g
      BY <1>1, <1>3, <2>3
    <3>2. l[i].n \in Carried(l)
      BY <2>1 DEF Carried
    <3> QED
      BY <1>6, <2>1, <3>1, <3>2
  <2> QED
    BY <1>3, <2>2, <2>3
<1> QED
  BY <1>1, <1>2, <1>4, <1>5, <1>6 DEF m

(* What a line looks like after its first frame has been read.              *)
LEMMA TailFrame ==
  ASSUME NEW l \in Seq(Frame), l # <<>>
  PROVE  /\ Tail(l) \in Seq(Frame)
         /\ Len(Tail(l)) = Len(l) - 1
         /\ Head(l) \in Frame
         /\ Head(l).kind \in Kinds(l)
         /\ Kinds(Tail(l)) \subseteq Kinds(l)
         /\ Carried(Tail(l)) \subseteq Carried(l)
         /\ Head(l).kind = "I" => Head(l).n \in Carried(l)
         /\ InRow(l) => InRow(Tail(l))
         /\ InRow(l) /\ Head(l).kind = "I" => \A n \in Carried(Tail(l)) : Head(l).n <= n
<1> DEFINE m == Tail(l)
           h == Head(l)
<1>1. /\ m \in Seq(Frame)
      /\ Len(l) \in Nat \ {0}
      /\ Len(m) = Len(l) - 1
      /\ DOMAIN l = 1 .. Len(l)
      /\ DOMAIN m = 1 .. Len(l) - 1
      /\ \A i \in 1 .. Len(l) - 1 : m[i] = l[i + 1]
      /\ h = l[1]
      /\ h \in Frame
  OBVIOUS
<1> HIDE DEF m, h
<1>2. h.kind \in Kinds(l) /\ Kinds(m) \subseteq Kinds(l)
  <2>1. 1 \in DOMAIN l /\ \A i \in DOMAIN m : i + 1 \in DOMAIN l /\ m[i] = l[i + 1]
    BY <1>1
  <2> QED
    BY <1>1, <2>1 DEF Kinds
<1>3. /\ \A i \in Informed(m) : i + 1 \in Informed(l) /\ m[i] = l[i + 1] /\ i \in Nat /\ i >= 1
      /\ h.kind = "I" => 1 \in Informed(l)
  BY <1>1 DEF Informed
<1>4. Carried(m) \subseteq Carried(l)
  BY <1>3 DEF Carried
<1>5. h.kind = "I" => h.n \in Carried(l)
  BY <1>1, <1>3 DEF Carried
<1>6. ASSUME InRow(l) PROVE InRow(m)
  <2> SUFFICES ASSUME NEW i \in Informed(m), NEW j \in Informed(m), i < j
               PROVE  m[i].n <= m[j].n
    BY DEF InRow
  <2>1. i + 1 < j + 1
    BY <1>3
  <2> QED
    BY <1>3, <1>6, <2>1 DEF InRow
<1>7. ASSUME InRow(l), h.kind = "I", NEW n \in Carried(m)
      PROVE  h.n <= n
  <2>1. PICK i \in Informed(m) : n = m[i].n
    BY DEF Carried
  <2>2. 1 < i + 1
    BY <1>3
  <2> QED
    BY <1>1, <1>3, <1>7, <2>1, <2>2 DEF InRow
<1> QED
  BY <1>1, <1>2, <1>4, <1>5, <1>6, <1>7 DEF m, h

(* A spoiled frame is counted within the bound.                            *)
LEMMA FaultCounted ==
  ASSUME NEW f, faults \in Spoiled, CanSpoil(f), Spoil(f)
  PROVE  faults' \in Spoiled
<1> DEFINE g == [faults EXCEPT !.again = @ + 1]
           h == [faults EXCEPT !.once = @ + 1]
<1>1. /\ faults.again \in Nat /\ faults.once \in Nat
      /\ faults.again + faults.once < MaxFaults
      /\ faults = [again |-> faults.again, once |-> faults.once]
  BY DEF Spoiled, CanSpoil
<1>2. g = [again |-> faults.again + 1, once |-> faults.once]
  BY <1>1
<1>3. h = [again |-> faults.again, once |-> faults.once + 1]
  BY <1>1
<1>4. \A a, o \in Nat : a + o <= MaxFaults => [again |-> a, once |-> o] \in Spoiled
  BY DEF Spoiled
<1>5. /\ faults.again + 1 \in Nat /\ faults.once + 1 \in Nat
      /\ (faults.again + 1) + faults.once <= MaxFaults
      /\ faults.again + (faults.once + 1) <= MaxFaults
  BY <1>1, LineAssumption
<1>6. g \in Spoiled
  BY <1>1, <1>2, <1>4, <1>5
<1>7. h \in Spoiled
  BY <1>1, <1>3, <1>4, <1>5
<1> QED
  BY <1>6, <1>7 DEF Spoil

(* What a write does to a line: nothing, or one more frame of that kind    *)
(* with that packet.                                                       *)
LEMMA WriteFrame ==
  ASSUME NEW l \in Seq(Frame), Len(l) <= LineCap,
         NEW f \in Frame,
         NEW lNext, WriteTo(l, f, lNext),
         faults \in Spoiled
  PROVE  /\ faults' \in Spoiled
         /\ lNext \in Seq(Frame)
         /\ Len(lNext) <= LineCap
         /\ \/ lNext = l
            \/ \E g \in Frame : lNext = Append(l, g) /\ g.kind = f.kind /\ g.n = f.n
<1>1. faults' \in Spoiled
  BY FaultCounted DEF WriteTo
<1>2. \/ lNext = l
      \/ Len(l) < LineCap /\ \E g \in Frame : lNext = Append(l, g) /\ g.kind = f.kind /\ g.n = f.n
  <2>1. \A q \in {"dam", "open"} :
          /\ [f EXCEPT !.q = q] \in Frame
          /\ [f EXCEPT !.q = q].kind = f.kind
          /\ [f EXCEPT !.q = q].n = f.n
    BY DEF Frame
  <2> QED
    BY <2>1 DEF WriteTo
<1> QED
  BY <1>1, <1>2, AppendFrame, LineAssumption

(* The frames the programs write.                                          *)
LEMMA FramesWritten ==
  /\ \A k \in Kind :
       Supervision(k) \in Frame /\ Supervision(k).kind = k /\ Supervision(k).n = 0
  /\ \A i \in Packet :
       Information(i) \in Frame /\ Information(i).kind = "I" /\ Information(i).n = i
BY LineAssumption DEF Supervision, Information, Frame, Packet, EndPacket, Kind

(* What the transmitter writes is a frame.                                  *)
LEMMA CommandFrame ==
  ASSUME cur \in Packet
  PROVE  /\ Command \in Frame
         /\ txPhase = "open" => Command.kind = "SET"
         /\ txPhase = "write" => Command.kind = "I" /\ Command.n = cur
         /\ txPhase = "close" => Command.kind = "DISC"
BY FramesWritten DEF Command, Kind

-----------------------------------------------------------------------------
(* Every variable keeps its type.                                          *)

USE DEF TypeOK, LineTypeOK, TxTypeOK, RxTypeOK

(* Both processes start with values of their types.                         *)
LEMMA TypeInit == Init => TypeOK
<1> SUFFICES ASSUME Init PROVE TypeOK
  OBVIOUS
<1>1. LineTypeOK
  <2>1. faults \in Spoiled
    BY LineAssumption DEF Init, LineInit, Spoiled
  <2> QED
    BY <2>1, LineAssumption DEF Init, LineInit
<1>2. TxTypeOK
  <2>1. 0 \in Packet
    BY LineAssumption DEF Packet, EndPacket
  <2>2. armed \in BOOLEAN
    BY DEF Init, TxInit
  <2>3. 0 \in 0 .. TriesWrap - 1
    BY TxAssumption
  <2> QED
    BY <2>1, <2>2, <2>3 DEF Init, TxInit, TxPhase, Looping, StartPacket
<1>3. RxTypeOK
  <2>1. target \in BOOLEAN
    BY DEF Init, RxInit
  <2> QED
    BY <2>1 DEF Init, RxInit, RxPhase
<1> QED
  BY <1>1, <1>2, <1>3 DEF Init

(* A tries counter that wraps around stays in its range.                   *)
LEMMA TriesInRange ==
  ASSUME NEW t \in 0 .. TriesWrap - 1
  PROVE  (t + 1) % TriesWrap \in 0 .. TriesWrap - 1
BY TxAssumption

(* The steps of the transmitter's loop.                                    *)
LEMMA TypeTxLoop ==
  ASSUME TypeOK, TxLoop, UNCHANGED <<rxVars, killed>>
  PROVE  TypeOK'
<1>1. CASE TxTryAgain
  BY <1>1 DEF TxTryAgain, Goto, lineVars, rxVars
<1>2. CASE TxGiveUp
  BY <1>2 DEF TxGiveUp, TxPhase, lineVars, rxVars
<1>3. CASE TxSend
  <2>1. Command \in Frame
    BY CommandFrame
  <2>2. toRx' \in Seq(Frame) /\ Len(toRx') <= LineCap /\ faults' \in Spoiled
    BY <1>3, <2>1, WriteFrame DEF TxSend, WriteToRx
  <2> QED
    BY <1>3, <2>2 DEF TxSend, Goto, rxVars
<1>4. CASE TxSkipSend
  BY <1>4 DEF TxSkipSend, Goto, lineVars, rxVars
<1>5. CASE TxArm
  BY <1>5 DEF TxArm, Goto, lineVars, rxVars
<1>6. CASE TxSetFlag
  BY <1>6 DEF TxSetFlag, Goto, lineVars, rxVars
<1>7. CASE TxPoll
  BY <1>7 DEF TxPoll, Goto, lineVars, rxVars
<1> QED
  BY <1>1, <1>2, <1>3, <1>4, <1>5, <1>6, <1>7 DEF TxLoop

(* The steps that take a frame from the line to the transmitter.           *)
LEMMA TypeTxReceive ==
  ASSUME TypeOK, TxReceive, UNCHANGED <<rxVars, killed>>
  PROVE  TypeOK'
<1>1. toTx' \in Seq(Frame) /\ Len(toTx') <= LineCap
  <2>1. toTx # <<>> /\ toTx' = Tail(toTx)
    BY DEF TxReceive, TxOpened, TxAcked, TxRejected, TxRejectedInterrupted, TxClosed,
           TxIgnored, TxTakes
  <2> QED
    BY <2>1, TailFrame, LineAssumption
<1>2. CASE TxOpened
  <2>1. StartPacket \in Packet
    BY LineAssumption DEF Packet, StartPacket, EndPacket
  <2> QED
    BY <1>1, <1>2, <2>1 DEF TxOpened, Goto, rxVars, TxPhase, Looping
<1>3. CASE TxAcked
  <2>1. cur' \in Packet
    BY <1>3, LineAssumption DEF TxAcked, Packet, EndPacket
  <2>2. 0 \in 0 .. TriesWrap - 1
    BY TxAssumption
  <2>3. armed' \in BOOLEAN
    BY <1>3 DEF TxAcked
  <2>4. txPhase' \in TxPhase /\ tries' \in 0 .. TriesWrap - 1 /\ sent' \in Nat
    BY <1>3, <2>2 DEF TxAcked, TxPhase, Looping
  <2>5. UNCHANGED <<rxVars, killed, toRx, faults>> /\ txPc' = "while" /\ flag' = 0
    BY <1>3 DEF TxAcked, Goto
  <2> QED
    BY <1>1, <2>1, <2>3, <2>4, <2>5 DEF rxVars
<1>4. CASE TxRejected
  <2>1. Command \in Frame
    BY CommandFrame
  <2>2. toRx' \in Seq(Frame) /\ Len(toRx') <= LineCap /\ faults' \in Spoiled
    BY <1>4, <2>1, WriteFrame DEF TxRejected, WriteToRx
  <2> QED
    BY <1>1, <1>4, <2>2 DEF TxRejected, Goto, rxVars
<1>5. CASE TxRejectedInterrupted
  <2>1. [Command EXCEPT !.q = "dam"] \in Frame
    BY CommandFrame DEF Frame
  <2>2. toRx' \in Seq(Frame) /\ Len(toRx') <= LineCap
    <3>1. \/ toRx' = toRx
          \/ /\ Len(toRx) < LineCap
             /\ \E g \in Frame : toRx' = Append(toRx, g)
      BY <1>5, <2>1 DEF TxRejectedInterrupted
    <3>2. CASE toRx' = toRx
      BY <3>2
    <3>3. ASSUME Len(toRx) < LineCap, NEW g \in Frame, toRx' = Append(toRx, g)
          PROVE  toRx' \in Seq(Frame) /\ Len(toRx') <= LineCap
      <4>1. Append(toRx, g) \in Seq(Frame) /\ Len(Append(toRx, g)) <= LineCap
        BY <3>3, LineAssumption
      <4> QED
        BY <3>3, <4>1
    <3> QED
      BY <3>1, <3>2, <3>3
  <2>3. faults' \in Spoiled /\ tries' \in 0 .. TriesWrap - 1
    <3>1. tries' \in 0 .. TriesWrap - 1
      BY <1>5, TriesInRange DEF TxRejectedInterrupted
    <3>2. faults' \in Spoiled
      BY <1>5, FaultCounted DEF TxRejectedInterrupted, TypeOK, LineTypeOK
    <3> QED
      BY <3>1, <3>2
  <2> QED
    BY <1>1, <1>5, <2>2, <2>3 DEF TxRejectedInterrupted, Goto, rxVars
<1>6. CASE TxClosed
  <2>1. toRx' \in Seq(Frame) /\ Len(toRx') <= LineCap /\ faults' \in Spoiled
    BY <1>6, FramesWritten, WriteFrame DEF TxClosed, WriteToRx, Kind
  <2> QED
    BY <1>1, <1>6, <2>1 DEF TxClosed, rxVars, TxPhase
<1>7. CASE TxIgnored
  BY <1>1, <1>7 DEF TxIgnored, Goto, rxVars
<1> QED
  BY <1>2, <1>3, <1>4, <1>5, <1>6, <1>7 DEF TxReceive

(* The steps that take a frame from the line to the receiver.              *)
LEMMA TypeRxReceive ==
  ASSUME TypeOK, RxReceive, UNCHANGED <<txVars, killed>>
  PROVE  TypeOK'
<1> DEFINE f == Head(toRx)
<1>1. toRx # <<>> /\ toRx' = Tail(toRx)
  BY DEF RxReceive, RxOpen, RxDisc, RxUa, RxIgnored, RxAccept, RxReject, RxCollect,
         RxCloseByNext, RxHeaderError, RxReads, RxAnswers, RxTakes
<1>2. toRx' \in Seq(Frame) /\ Len(toRx') <= LineCap /\ f \in Frame
  BY <1>1, TailFrame, LineAssumption
<1>3. \A k \in Kind :
        WriteToTx(Supervision(k))
          => toTx' \in Seq(Frame) /\ Len(toTx') <= LineCap /\ faults' \in Spoiled
  BY FramesWritten, WriteFrame DEF WriteToTx
<1> HIDE DEF f
<1>4. CASE RxOpen(f)
  BY <1>2, <1>3, <1>4 DEF RxOpen, RxAnswers, RxPhase, txVars, Kind
<1>5. CASE RxDisc(f)
  BY <1>2, <1>3, <1>5 DEF RxDisc, RxAnswers, RxPhase, txVars, Kind
<1>6. CASE RxUa(f)
  BY <1>2, <1>6 DEF RxUa, RxPhase, txVars
<1>7. CASE RxIgnored(f)
  BY <1>2, <1>7 DEF RxIgnored, rxVars, txVars
<1>8. CASE RxAccept(f)
  BY <1>2, <1>3, <1>8 DEF RxAccept, txVars, Kind, Frame
<1>9. CASE RxReject(f)
  BY <1>2, <1>3, <1>9 DEF RxReject, rxVars, txVars, Kind
<1>10. CASE RxCollect(f)
  BY <1>2, <1>10 DEF RxCollect, txVars, Frame
<1>11. CASE RxCloseByNext(f)
  BY <1>2, <1>3, <1>11 DEF RxCloseByNext, txVars, Kind
<1>12. CASE RxHeaderError(f)
  BY <1>2, <1>12 DEF RxHeaderError, rxVars, txVars
<1> QED
  BY <1>4, <1>5, <1>6, <1>7, <1>8, <1>9, <1>10, <1>11, <1>12 DEF RxReceive, f

(* The steps of readDataPackets on the packet llread returned.             *)
LEMMA TypeRxDeliver ==
  ASSUME TypeOK, RxDeliver, UNCHANGED <<txVars, killed>>
  PROVE  TypeOK'
<1>1. CASE RxStart
  BY <1>1 DEF RxStart, RxHandles, txVars, lineVars
<1>2. CASE RxWrite
  <2>1. Append(out, hand) \in Seq(DataPacket) /\ order + 1 \in Nat
    BY <1>2 DEF RxWrite
  <2> QED
    BY <1>2, <2>1 DEF RxWrite, RxHandles, txVars, lineVars
<1>3. CASE RxSkip
  BY <1>3 DEF RxSkip, RxHandles, txVars, lineVars
<1>4. CASE RxEnd
  BY <1>4 DEF RxEnd, RxHandles, RxPhase, txVars, lineVars
<1> QED
  BY <1>1, <1>2, <1>3, <1>4 DEF RxDeliver

(* The SIGALRM handler keeps the types.                                     *)
LEMMA TypeAlarm ==
  ASSUME TypeOK, TxAlarm, UNCHANGED <<rxVars, killed>>
  PROVE  TypeOK'
BY TriesInRange DEF TxAlarm, lineVars, rxVars

(* Every step keeps the types.                                              *)
LEMMA TypeStep ==
  ASSUME TypeOK, [Next]_vars
  PROVE  TypeOK'
<1>1. CASE Tx(TxLoop)
  BY <1>1, TypeTxLoop DEF Tx
<1>2. CASE Tx(TxReceive)
  BY <1>2, TypeTxReceive DEF Tx
<1>3. CASE Alarm
  BY <1>3, TypeAlarm DEF Alarm, Tx
<1>4. CASE Rx(RxReceive)
  BY <1>4, TypeRxReceive DEF Rx
<1>5. CASE Rx(RxDeliver)
  BY <1>5, TypeRxDeliver DEF Rx
<1>6. CASE Sigint
  BY <1>6, TransferAssumption DEF Sigint, lineVars, txVars, rxVars
<1>7. CASE Finished \/ UNCHANGED vars
  BY <1>7 DEF Finished, vars, lineVars, txVars, rxVars
<1> QED
  BY <1>1, <1>2, <1>3, <1>4, <1>5, <1>6, <1>7 DEF Next

(* Types: every variable stays in its set, whatever the file and the line. *)
THEOREM TypeCorrect == Spec => []TypeOK
<1>1. Init => TypeOK
  BY TypeInit
<1>2. TypeOK /\ [Next]_vars => TypeOK'
  BY TypeStep
<1> QED
  BY <1>1, <1>2, PTL DEF Spec

-----------------------------------------------------------------------------
(* The packets stand in one row (OrderInv).                                *)

(* A step that moves no packet keeps the packets in their row.              *)
LEMMA OrderUnchanged ==
  ASSUME OrderInv, UNCHANGED <<toRx, cur, hand, partial, order, out>>
  PROVE  OrderInv'
BY DEF OrderInv, InOrder, InRow, Carried, Informed, Held, SeqByte

(* A frame written to the receiver carries the packet being sent, the last *)
(* of the row.                                                             *)
LEMMA OrderWritten ==
  ASSUME TypeOK, OrderInv,
         NEW f \in Frame, f.kind = "I" => f.n = cur,
         WriteToRx(f),
         UNCHANGED <<cur, hand, partial, order, out>>
  PROVE  OrderInv'
<1>1. CASE toRx' = toRx
  BY <1>1, OrderUnchanged
<1>2. ASSUME NEW g \in Frame, toRx' = Append(toRx, g), g.kind = f.kind, g.n = f.n
      PROVE  OrderInv'
  <2>1. /\ Carried(toRx') \subseteq Carried(toRx) \cup {g.n}
        /\ g.kind # "I" => Carried(toRx') = Carried(toRx)
        /\ InRow(toRx) /\ (g.kind = "I" => \A n \in Carried(toRx) : n <= g.n) => InRow(toRx')
    BY <1>2, AppendFrame
  <2>2. Carried(toRx') \subseteq Carried(toRx) \cup {cur}
    BY <1>2, <2>1
  <2>3. InRow(toRx')
    BY <1>2, <2>1 DEF OrderInv
  <2>4. \A n \in Carried(toRx') : n <= cur
    BY <2>2, LineAssumption DEF OrderInv, Packet, EndPacket
  <2>5. \A h \in Held : h <= cur /\ \A n \in Carried(toRx') : h <= n
    BY <2>2 DEF OrderInv
  <2>6. \A i \in DOMAIN out :
          out[i] <= cur /\ \A n \in Carried(toRx') \cup Held : out[i] <= n
    BY <2>2 DEF OrderInv
  <2> QED
    BY <2>3, <2>4, <2>5, <2>6 DEF OrderInv, InOrder, Held, SeqByte
<1> QED
  BY <1>1, <1>2, WriteFrame DEF WriteToRx

(* A frame taken by the receiver, with what it does to hand and partial.   *)
LEMMA OrderTaken ==
  ASSUME TypeOK, OrderInv,
         toRx # <<>>, toRx' = Tail(toRx),
         UNCHANGED <<cur, order, out>>,
         \/ UNCHANGED <<hand, partial>>
         \/ /\ hand = NoPacket /\ partial = NoPacket
            /\ Head(toRx).kind = "I"
            /\ \/ hand' = Head(toRx).n /\ partial' = NoPacket
               \/ hand' = NoPacket /\ partial' = Head(toRx).n
         \/ hand = NoPacket /\ hand' \in {partial, NoPacket} /\ partial' = NoPacket
  PROVE  OrderInv'
<1> DEFINE h == Head(toRx)
<1>1. /\ h \in Frame
      /\ Carried(toRx') \subseteq Carried(toRx)
      /\ h.kind = "I" => h.n \in Carried(toRx)
      /\ InRow(toRx')
      /\ h.kind = "I" => \A n \in Carried(toRx') : h.n <= n
  BY TailFrame DEF OrderInv
<1>2. /\ hand' = NoPacket \/ partial' = NoPacket
      /\ \/ Held' \subseteq Held
         \/ h.kind = "I" /\ Held' \subseteq {h.n}
  BY DEF OrderInv, Held
<1> HIDE DEF h
<1>3. \A x \in Held' : x <= cur /\ \A n \in Carried(toRx') : x <= n
  BY <1>1, <1>2 DEF OrderInv
<1>4. \A i \in DOMAIN out :
        out[i] <= cur /\ \A n \in Carried(toRx') \cup Held' : out[i] <= n
  BY <1>1, <1>2 DEF OrderInv
<1>5. \A n \in Carried(toRx') : n <= cur
  BY <1>1 DEF OrderInv
<1> QED
  BY <1>1, <1>2, <1>3, <1>4, <1>5 DEF OrderInv, InOrder, SeqByte

(* Neighbouring sequence bytes differ.                                     *)
LEMMA NeighbourBytes ==
  ASSUME NEW n \in Nat
  PROVE  (n + 1) % SeqMod # n % SeqMod
<1> DEFINE m == SeqMod
           r == n % m
           q == n \div m
           r2 == (n + 1) % m
           q2 == (n + 1) \div m
<1>1. m \in Nat /\ m >= 2
  BY RxAssumption
<1>2. q \in Int /\ q2 \in Int /\ n = m * q + r /\ n + 1 = m * q2 + r2
  BY <1>1
<1> HIDE DEF m, q, q2, r, r2
<1>3. SUFFICES ASSUME r2 = r, r \in Int, r2 \in Int PROVE FALSE
  BY <1>1 DEF r, r2, m
<1>4. m * (q2 - q) = 1
  BY <1>1, <1>2, <1>3
<1> DEFINE d == q2 - q
<1>5. d \in Int
  BY <1>2
<1> HIDE DEF d
<1>6. CASE d >= 1
  <2>1. m * d >= m
    BY <1>1, <1>5, <1>6
  <2> QED
    BY <1>1, <1>4, <2>1 DEF d
<1>7. CASE d <= 0
  <2>1. m * d <= 0
    BY <1>1, <1>5, <1>7
  <2> QED
    BY <1>1, <1>4, <2>1 DEF d
<1> QED
  BY <1>5, <1>6, <1>7

(* readDataPackets writes a packet that is greater than every packet in    *)
(* the file: an equal one would have the previous sequence byte.           *)
LEMMA OrderWrite ==
  ASSUME TypeOK, OrderInv, RxWrite, UNCHANGED cur
  PROVE  OrderInv'
<1>1. /\ hand \in DataPacket /\ hand \in Held
      /\ SeqByte(hand) = (order + 1) % SeqMod
      /\ order' = order + 1 /\ out' = Append(out, hand)
      /\ hand' = NoPacket /\ partial' = partial /\ toRx' = toRx
  BY LineAssumption DEF RxWrite, RxHandles, lineVars, Held, DataPacket, NoPacket
<1>2. /\ Len(out) \in Nat /\ order = Len(out) - 1
      /\ DOMAIN out = 1 .. Len(out)
      /\ \A i \in 1 .. Len(out) : out[i] \in DataPacket /\ out[i] <= hand
  <2>1. Len(out) \in Nat /\ DOMAIN out = 1 .. Len(out)
    OBVIOUS
  <2>2. \A i \in DOMAIN out : out[i] \in DataPacket
    OBVIOUS
  <2>3. \A i \in DOMAIN out : out[i] <= hand
    BY <1>1 DEF OrderInv
  <2>4. order = Len(out) - 1
    BY DEF OrderInv
  <2> QED
    BY <2>1, <2>2, <2>3, <2>4
<1>3. \A i \in 1 .. Len(out) : out[i] < hand
  <2> SUFFICES ASSUME NEW i \in 1 .. Len(out), out[i] = hand
               PROVE  FALSE
    BY <1>1, <1>2 DEF DataPacket
  <2>1. i = Len(out)
    <3> SUFFICES ASSUME i < Len(out) PROVE FALSE
      BY <1>2
    <3>1. out[i] < out[Len(out)]
      BY <1>2 DEF OrderInv, InOrder
    <3> QED
      BY <1>1, <1>2, <3>1 DEF DataPacket
  <2>2. SeqByte(hand) = (Len(out) - 1) % SeqMod
    BY <2>1 DEF OrderInv, InOrder
  <2>3. SeqByte(hand) = Len(out) % SeqMod
    BY <1>1, <1>2
  <2>4. Len(out) - 1 \in Nat /\ (Len(out) - 1) + 1 = Len(out)
    BY <1>2, <2>1
  <2> QED
    BY <2>2, <2>3, <2>4, NeighbourBytes
<1>4. /\ Len(out') = Len(out) + 1
      /\ DOMAIN out' = 1 .. Len(out) + 1
      /\ \A i \in 1 .. Len(out) : out'[i] = out[i]
      /\ out'[Len(out) + 1] = hand
  BY <1>1, <1>2
<1>5. Held' \subseteq Held
  BY <1>1 DEF Held
<1>6. InOrder'
  <2> SUFFICES ASSUME NEW i \in 1 .. Len(out) + 1
               PROVE  /\ SeqByte(out'[i]) = (i - 1) % SeqMod
                      /\ \A j \in 1 .. i - 1 : out'[j] < out'[i]
    BY <1>2, <1>4 DEF InOrder, SeqByte
  <2>1. CASE i \in 1 .. Len(out)
    <3>1. \A j \in 1 .. i - 1 : j \in 1 .. Len(out)
      BY <1>2, <2>1
    <3> QED
      BY <1>4, <2>1, <3>1 DEF OrderInv, InOrder
  <2>2. CASE i = Len(out) + 1
    <3>1. \A j \in 1 .. i - 1 : j \in 1 .. Len(out)
      BY <1>2, <2>2
    <3>2. SeqByte(hand) = (i - 1) % SeqMod
      BY <1>1, <1>2, <2>2
    <3> QED
      BY <1>3, <1>4, <2>2, <3>1, <3>2
  <2> QED
    BY <1>2, <2>1, <2>2
<1>7. order' = Len(out') - 1
  BY <1>1, <1>2, <1>4
<1>8. \A i \in DOMAIN out' :
        out'[i] <= cur /\ \A n \in Carried(toRx) \cup Held' : out'[i] <= n
  <2>1. CASE partial = NoPacket
    <3>1. Held' = {}
      BY <1>1, <2>1 DEF Held
    <3> QED
      BY <1>1, <1>2, <1>4, <3>1 DEF OrderInv
  <2>2. CASE hand = NoPacket
    BY <1>1, <2>2, LineAssumption DEF DataPacket, NoPacket
  <2> QED
    BY <2>1, <2>2 DEF OrderInv
<1>9. InRow(toRx') /\ Carried(toRx') = Carried(toRx)
  BY <1>1 DEF OrderInv, InRow, Carried, Informed
<1>10. \A h \in Held' : h <= cur /\ \A n \in Carried(toRx) : h <= n
  BY <1>5 DEF OrderInv
<1>11. hand' = NoPacket
  BY <1>1
<1> QED
  BY <1>1, <1>6, <1>7, <1>8, <1>9, <1>10, <1>11 DEF OrderInv

(* A start packet is looked at only while the file is empty.               *)
LEMMA StartEmpty ==
  ASSUME TypeOK, OrderInv, hand = StartPacket
  PROVE  out = <<>>
<1>1. \A i \in 1 .. Len(out) : out[i] \in DataPacket /\ out[i] <= 0
  BY DEF OrderInv, Held, StartPacket, NoPacket
<1>2. Len(out) = 0
  <2>1. Len(out) \in Nat
    OBVIOUS
  <2>2. 1 \notin 1 .. Len(out)
    BY <1>1, LineAssumption DEF DataPacket
  <2> QED
    BY <2>1, <2>2
<1> QED
  BY <1>2

(* The packet being sent only grows.                                       *)
LEMMA OrderAdvance ==
  ASSUME TypeOK, OrderInv, cur' \in Packet, cur <= cur',
         UNCHANGED <<toRx, hand, partial, order, out>>
  PROVE  OrderInv'
<1>1. /\ \A n \in Carried(toRx) : n \in Packet
      /\ \A h \in Held : h \in Packet
      /\ \A i \in DOMAIN out : out[i] \in DataPacket
  <2>1. \A i \in DOMAIN toRx : toRx[i] \in Frame
    OBVIOUS
  <2>2. \A n \in Carried(toRx) : n \in Packet
    BY <2>1 DEF Carried, Informed, Frame
  <2>3. \A h \in Held : h \in Packet
    BY DEF Held
  <2> QED
    BY <2>2, <2>3
<1>2. \A n : n \in Packet \cup DataPacket /\ n <= cur => n <= cur'
  BY LineAssumption DEF Packet, DataPacket, EndPacket
<1>3. /\ \A n \in Carried(toRx) : n <= cur'
      /\ \A h \in Held : h <= cur'
      /\ \A i \in DOMAIN out : out[i] <= cur'
  BY <1>1, <1>2 DEF OrderInv
<1>4. InRow(toRx') /\ Carried(toRx') = Carried(toRx) /\ Held' = Held
  BY DEF OrderInv, InRow, Carried, Informed, Held
<1>5. InOrder'
  BY DEF OrderInv, InOrder, SeqByte
<1> QED
  BY <1>3, <1>4, <1>5 DEF OrderInv

(* Every step of the system keeps the packets in their row.                *)
LEMMA OrderStep ==
  ASSUME TypeOK, OrderInv, ConnectionInv, [Next]_vars
  PROVE  OrderInv'
<1>0. TypeOK'
  BY TypeStep
<1>1. CASE Tx(TxLoop)
  <2>1. CASE TxSend
    <3>1. Command \in Frame /\ (Command.kind = "I" => Command.n = cur)
      BY <2>1, CommandFrame DEF TxSend, At, Looping
    <3> QED
      BY <1>1, <2>1, <3>1, OrderWritten DEF Tx, TxSend, rxVars
  <2>2. CASE ~TxSend
    BY <1>1, <2>2, OrderUnchanged
    DEF Tx, TxLoop, TxTryAgain, TxGiveUp, TxSkipSend, TxArm, TxSetFlag, TxPoll, rxVars, lineVars
  <2> QED
    BY <2>1, <2>2
<1>2. CASE Tx(TxReceive)
  <2>1. CASE TxOpened
    BY <1>2, <2>1, OrderUnchanged DEF Tx, TxOpened, rxVars, ConnectionInv
  <2>2. CASE TxAcked
    <3>1. cur <= cur'
      BY <2>2, LineAssumption DEF TxAcked, Packet, EndPacket
    <3> QED
      BY <1>0, <1>2, <2>2, <3>1, OrderAdvance DEF Tx, TxAcked, rxVars
  <2>3. CASE TxRejected
    <3>1. Command \in Frame /\ Command.n = cur
      BY <2>3, CommandFrame DEF TxRejected
    <3> QED
      BY <1>2, <2>3, <3>1, OrderWritten DEF Tx, TxRejected, rxVars
  <2>4. CASE TxRejectedInterrupted
    <3>1. Command \in Frame /\ Command.n = cur /\ CanSpoil(Command)
      BY <2>4, CommandFrame DEF TxRejectedInterrupted
    <3>2. CASE toRx' = toRx
      BY <1>2, <2>4, <3>2, OrderUnchanged DEF Tx, TxRejectedInterrupted, rxVars
    <3>3. CASE toRx' # toRx
      <4>1. Len(toRx) < LineCap /\ toRx' = Append(toRx, [Command EXCEPT !.q = "dam"])
        BY <2>4, <3>3 DEF TxRejectedInterrupted
      <4>2. Command.kind = "I" /\ Spoil(Command)
        BY <2>4, CommandFrame DEF TxRejectedInterrupted
      <4>3. WriteToRx(Command)
        BY <3>1, <4>1, <4>2 DEF WriteToRx, WriteTo
      <4> QED
        BY <1>2, <2>4, <3>1, <4>3, OrderWritten DEF Tx, TxRejectedInterrupted, rxVars
    <3> QED
      BY <3>2, <3>3
  <2>5. CASE TxClosed
    <3>1. Supervision("UA") \in Frame /\ Supervision("UA").kind # "I"
      BY FramesWritten DEF Kind
    <3> QED
      BY <1>2, <2>5, <3>1, OrderWritten DEF Tx, TxClosed, rxVars
  <2>6. CASE TxIgnored
    BY <1>2, <2>6, OrderUnchanged DEF Tx, TxIgnored, rxVars
  <2> QED
    BY <1>2, <2>1, <2>2, <2>3, <2>4, <2>5, <2>6 DEF Tx, TxReceive
<1>3. CASE Alarm
  BY <1>3, OrderUnchanged DEF Alarm, Tx, TxAlarm, rxVars, lineVars
<1>4. CASE Rx(RxReceive)
  <2>1. PICK f \in {Head(toRx)} :
          \/ RxOpen(f) \/ RxDisc(f) \/ RxUa(f) \/ RxIgnored(f)
          \/ RxAccept(f) \/ RxReject(f) \/ RxCollect(f)
          \/ RxCloseByNext(f) \/ RxHeaderError(f)
    BY <1>4 DEF Rx, RxReceive
  <2>2. toRx # <<>> /\ toRx' = Tail(toRx) /\ f = Head(toRx) /\ UNCHANGED cur
    BY <1>4, <2>1
    DEF Rx, RxReceive, RxOpen, RxDisc, RxUa, RxIgnored, RxAccept, RxReject, RxCollect,
        RxCloseByNext, RxHeaderError, RxReads, RxAnswers, RxTakes, txVars
  <2>3. CASE RxOpen(f) \/ RxDisc(f) \/ RxUa(f) \/ RxIgnored(f) \/ RxReject(f) \/ RxHeaderError(f)
    <3>1. UNCHANGED <<hand, partial, order, out>>
      BY <2>3 DEF RxOpen, RxDisc, RxUa, RxIgnored, RxReject, RxHeaderError, RxAnswers, rxVars
    <3> QED
      BY <2>2, <3>1, OrderTaken
  <2>4. CASE RxAccept(f)
    BY <2>2, <2>4, OrderTaken DEF RxAccept, RxReads
  <2>5. CASE RxCollect(f)
    BY <2>2, <2>5, OrderTaken DEF RxCollect, RxReads
  <2>6. CASE RxCloseByNext(f)
    BY <2>2, <2>6, OrderTaken DEF RxCloseByNext, RxReads
  <2> QED
    BY <2>1, <2>3, <2>4, <2>5, <2>6
<1>5. CASE Rx(RxDeliver)
  <2>1. CASE RxWrite
    BY <1>5, <2>1, OrderWrite DEF Rx, txVars
  <2>2. CASE ~RxWrite
    <3>1. UNCHANGED <<toRx, cur, partial, order, out>> /\ hand' = NoPacket
      BY <1>5, <2>2, StartEmpty
      DEF Rx, RxDeliver, RxStart, RxSkip, RxEnd, RxHandles, txVars, lineVars
    <3>2. Held' \subseteq Held
      BY <3>1 DEF Held
    <3> QED
      BY <3>1, <3>2 DEF OrderInv, InOrder, InRow, Carried, Informed, SeqByte
  <2> QED
    BY <2>1, <2>2
<1>6. CASE Sigint
  BY <1>6, OrderUnchanged DEF Sigint, lineVars, txVars, rxVars
<1>7. CASE Finished \/ UNCHANGED vars
  BY <1>7, OrderUnchanged DEF Finished, vars, lineVars, txVars, rxVars
<1> QED
  BY <1>1, <1>2, <1>3, <1>4, <1>5, <1>6, <1>7 DEF Next

-----------------------------------------------------------------------------
(* What is on the lines, step by step (StartInv and ConnectionInv).        *)

(* A written frame adds at most its kind to a line.                         *)
LEMMA KindsWritten ==
  ASSUME NEW l \in Seq(Frame), Len(l) <= LineCap, NEW f \in Frame,
         NEW lNext, WriteTo(l, f, lNext), faults \in Spoiled
  PROVE  Kinds(lNext) \subseteq Kinds(l) \cup {f.kind}
<1>1. CASE lNext = l
  BY <1>1
<1>2. ASSUME NEW g \in Frame, lNext = Append(l, g), g.kind = f.kind
      PROVE  Kinds(lNext) \subseteq Kinds(l) \cup {f.kind}
  BY <1>2, AppendFrame
<1> QED
  BY <1>1, <1>2, WriteFrame

(* The steps of the transmitter on the lines: what it adds and removes.    *)
LEMMA KindsTx ==
  ASSUME TypeOK, TxLoop \/ TxReceive \/ TxAlarm
  PROVE  /\ Kinds(toTx') \subseteq Kinds(toTx)
         /\ Kinds(toRx') \subseteq Kinds(toRx) \cup {"SET", "I", "DISC", "UA"}
         /\ "DISC" \in Kinds(toRx') => "DISC" \in Kinds(toRx) \/ txPhase = "close"
         /\ "UA" \in Kinds(toRx') => "UA" \in Kinds(toRx) \/ txPhase' = "closed"
<1>1. Kinds(toTx') \subseteq Kinds(toTx)
  <2>1. toTx' = toTx \/ (toTx # <<>> /\ toTx' = Tail(toTx))
    BY DEF TxLoop, TxTryAgain, TxGiveUp, TxSend, TxSkipSend, TxArm, TxSetFlag, TxPoll,
           TxReceive, TxOpened, TxAcked, TxRejected, TxRejectedInterrupted, TxClosed,
           TxIgnored, TxTakes, TxAlarm, lineVars
  <2> QED
    BY <2>1, TailFrame
<1>2. CASE UNCHANGED toRx
  BY <1>1, <1>2
<1>3. CASE TxSend \/ TxRejected
  <2>1. /\ Command \in Frame /\ WriteToRx(Command)
        /\ Command.kind \in {"SET", "I", "DISC"}
        /\ Command.kind = "DISC" => txPhase = "close"
    BY <1>3, CommandFrame DEF TxSend, TxRejected, At, Looping
  <2>2. Kinds(toRx') \subseteq Kinds(toRx) \cup {Command.kind}
    BY <2>1, KindsWritten DEF WriteToRx
  <2> QED
    BY <1>1, <2>1, <2>2
<1>4. CASE TxRejectedInterrupted /\ toRx' # toRx
  <2>1. /\ Command \in Frame /\ Command.kind = "I"
        /\ toRx' = Append(toRx, [Command EXCEPT !.q = "dam"])
    BY <1>4, CommandFrame DEF TxRejectedInterrupted
  <2>2. [Command EXCEPT !.q = "dam"] \in Frame /\ [Command EXCEPT !.q = "dam"].kind = "I"
    BY <2>1 DEF Frame
  <2>3. Kinds(toRx') = Kinds(toRx) \cup {"I"}
    BY <2>1, <2>2, AppendFrame
  <2> QED
    BY <1>1, <2>3
<1>5. CASE TxClosed
  <2>1. /\ Supervision("UA") \in Frame /\ Supervision("UA").kind = "UA"
        /\ WriteToRx(Supervision("UA"))
    BY <1>5, FramesWritten DEF TxClosed, Kind
  <2>2. Kinds(toRx') \subseteq Kinds(toRx) \cup {"UA"}
    BY <2>1, KindsWritten DEF WriteToRx
  <2> QED
    BY <1>1, <1>5, <2>2 DEF TxClosed
<1>6. \/ UNCHANGED toRx \/ TxSend \/ TxRejected \/ TxClosed
      \/ TxRejectedInterrupted /\ toRx' # toRx
  BY DEF TxLoop, TxTryAgain, TxGiveUp, TxSkipSend, TxArm, TxSetFlag, TxPoll,
         TxReceive, TxOpened, TxAcked, TxIgnored, TxAlarm, lineVars
<1> QED
  BY <1>2, <1>3, <1>4, <1>5, <1>6

(* The steps of the receiver on the lines.                                 *)
LEMMA KindsRx ==
  ASSUME TypeOK, RxReceive \/ RxDeliver
  PROVE  /\ Kinds(toRx') \subseteq Kinds(toRx)
         /\ "SET" \in Kinds(toTx') => "SET" \in Kinds(toTx) \/ rxPhase' = "read"
         /\ "DISC" \in Kinds(toTx') => "DISC" \in Kinds(toTx) \/ rxPhase' = "ua"
         /\ "RR" \in Kinds(toTx') => \/ "RR" \in Kinds(toTx)
                                     \/ RxReceive /\ hand = NoPacket /\ hand' # NoPacket
<1>1. CASE RxDeliver
  BY <1>1 DEF RxDeliver, RxStart, RxWrite, RxSkip, RxEnd, RxHandles, lineVars
<1>2. CASE RxReceive
  <2>1. PICK f \in {Head(toRx)} :
          \/ RxOpen(f) \/ RxDisc(f) \/ RxUa(f) \/ RxIgnored(f)
          \/ RxAccept(f) \/ RxReject(f) \/ RxCollect(f)
          \/ RxCloseByNext(f) \/ RxHeaderError(f)
    BY <1>2 DEF RxReceive
  <2>2. toRx # <<>> /\ toRx' = Tail(toRx) /\ f = Head(toRx)
    BY <1>2, <2>1
    DEF RxReceive, RxOpen, RxDisc, RxUa, RxIgnored, RxAccept, RxReject, RxCollect,
        RxCloseByNext, RxHeaderError, RxReads, RxAnswers, RxTakes
  <2>3. Kinds(toRx') \subseteq Kinds(toRx) /\ f \in Frame
    BY <2>2, TailFrame
  <2>4. \A k \in Kind :
          WriteToTx(Supervision(k)) => Kinds(toTx') \subseteq Kinds(toTx) \cup {k}
    BY FramesWritten, KindsWritten DEF WriteToTx
  <2>5. CASE RxOpen(f)
    BY <2>3, <2>4, <2>5 DEF RxOpen, RxAnswers, Kind
  <2>6. CASE RxDisc(f)
    BY <2>3, <2>4, <2>6 DEF RxDisc, RxAnswers, Kind
  <2>7. CASE RxUa(f) \/ RxIgnored(f) \/ RxCollect(f) \/ RxHeaderError(f)
    <3>1. toTx' = toTx
      BY <2>7 DEF RxUa, RxIgnored, RxCollect, RxHeaderError
    <3> QED
      BY <2>3, <3>1
  <2>8. CASE RxAccept(f)
    <3>1. f.n # NoPacket
      BY <2>3, LineAssumption DEF Frame, Packet, NoPacket, EndPacket
    <3>2. "RR" \in Kind /\ WriteToTx(Supervision("RR")) /\ hand = NoPacket /\ hand' = f.n
      BY <2>8 DEF RxAccept, RxReads, Kind
    <3> QED
      BY <1>2, <2>3, <2>4, <3>1, <3>2
  <2>9. CASE RxReject(f)
    BY <2>3, <2>4, <2>9 DEF RxReject, Kind
  <2>10. CASE RxCloseByNext(f)
    <3>1. "RR" \in Kind /\ "REJ" \in Kind /\ hand = NoPacket /\ partial # NoPacket
      BY <2>10 DEF RxCloseByNext, RxReads, Kind
    <3>2. CASE WriteToTx(Supervision("RR")) /\ hand' = partial
      BY <1>2, <2>3, <2>4, <3>1, <3>2
    <3>3. CASE WriteToTx(Supervision("REJ"))
      BY <2>3, <2>4, <3>1, <3>3
    <3> QED
      BY <2>10, <3>2, <3>3 DEF RxCloseByNext
  <2> QED
    BY <2>1, <2>5, <2>6, <2>7, <2>8, <2>9, <2>10
<1> QED
  BY <1>1, <1>2

(* Every step keeps the start packet ahead of the data.                     *)
LEMMA StartStep ==
  ASSUME TypeOK, OrderInv, StartInv, ConnectionInv, [Next]_vars
  PROVE  StartInv'
<1> DEFINE Begun == target \/ hand = StartPacket
           Told == cur > 0 \/ "RR" \in Kinds(toTx)
<1>0. TypeOK'
  BY TypeStep
<1>1. CASE Tx(TxLoop) \/ Tx(TxReceive) \/ Alarm
  <2>1. /\ TxLoop \/ TxReceive \/ TxAlarm
        /\ UNCHANGED <<target, hand, out>>
    BY <1>1 DEF Tx, Alarm, rxVars
  <2>2. Kinds(toTx') \subseteq Kinds(toTx)
    BY <2>1, KindsTx
  <2>3. cur' > 0 => Told
    <3>1. CASE UNCHANGED cur
      BY <3>1
    <3>2. CASE TxOpened
      BY <3>2 DEF TxOpened, StartPacket
    <3>3. CASE TxAcked
      BY <3>3, TailFrame DEF TxAcked, TxTakes
    <3> QED
      BY <2>1, <3>1, <3>2, <3>3
      DEF TxLoop, TxTryAgain, TxGiveUp, TxSend, TxSkipSend, TxArm, TxSetFlag, TxPoll,
          TxReceive, TxRejected, TxRejectedInterrupted, TxClosed, TxIgnored, TxAlarm
  <2>4. Told' => Told
    BY <2>2, <2>3
  <2> QED
    BY <2>1, <2>4 DEF StartInv
<1>2. CASE Rx(RxReceive) \/ Rx(RxDeliver)
  <2>1. (RxReceive \/ RxDeliver) /\ UNCHANGED cur
    BY <1>2 DEF Rx, txVars
  <2>2. CASE RxReceive
    <3>1. UNCHANGED <<target, out>> /\ (hand = NoPacket \/ UNCHANGED hand)
      BY <2>2
      DEF RxReceive, RxOpen, RxDisc, RxUa, RxIgnored, RxAccept, RxReject, RxCollect,
          RxCloseByNext, RxHeaderError, RxReads, RxAnswers, rxVars
    <3>2. CASE Told
      BY <3>1, <3>2 DEF StartInv, StartPacket, NoPacket
    <3>3. CASE ~Told /\ Told'
      <4>1. hand' # NoPacket
        BY <2>1, <3>3, KindsRx
      <4>2. hand' \in Packet /\ hand' <= cur' /\ cur' = 0
        <5>1. cur' = 0
          BY <2>1, <3>3, LineAssumption DEF Packet, EndPacket
        <5>2. OrderInv'
          BY OrderStep
        <5>3. hand' \in Held'
          BY <4>1 DEF Held
        <5> QED
          BY <1>0, <4>1, <5>1, <5>2, <5>3 DEF OrderInv
      <4>3. hand' = StartPacket
        BY <4>2, LineAssumption DEF Packet, EndPacket, StartPacket
      <4> QED
        BY <3>1, <4>3 DEF StartInv
    <3>4. CASE ~Told'
      BY <3>1, <3>4 DEF StartInv
    <3> QED
      BY <3>2, <3>3, <3>4
  <2>3. CASE RxDeliver
    <3>1. UNCHANGED toTx
      BY <2>3 DEF RxDeliver, RxStart, RxWrite, RxSkip, RxEnd, RxHandles, lineVars
    <3>2. Told' => Told
      BY <2>1, <3>1
    <3>3. CASE RxStart
      BY <3>3 DEF RxStart, StartInv
    <3>4. CASE RxWrite
      <4>1. hand \in DataPacket /\ hand <= cur /\ target' = target
        BY <3>4, LineAssumption DEF RxWrite, OrderInv, Held, DataPacket, NoPacket
      <4>2. cur > 0 /\ hand # StartPacket
        BY <4>1, LineAssumption DEF DataPacket, StartPacket, Packet, EndPacket
      <4>3. target
        BY <4>2 DEF StartInv
      <4> QED
        BY <4>1, <4>3 DEF StartInv
    <3>5. CASE RxSkip \/ RxEnd
      <4>1. UNCHANGED <<target, out>> /\ hand # StartPacket
        BY <3>5, LineAssumption
        DEF RxSkip, RxEnd, DataPacket, EndPacket, StartPacket
      <4> QED
        BY <3>2, <4>1 DEF StartInv
    <3> QED
      BY <2>3, <3>3, <3>4, <3>5 DEF RxDeliver
  <2> QED
    BY <2>1, <2>2, <2>3
<1>3. CASE Sigint \/ Finished \/ UNCHANGED vars
  BY <1>3 DEF Sigint, Finished, vars, lineVars, txVars, rxVars, StartInv
<1> QED
  BY <1>1, <1>2, <1>3 DEF Next

(* Every step keeps what the two sides know of the connection.              *)
LEMMA ConnectionStep ==
  ASSUME TypeOK, OrderInv, ConnectionInv, [Next]_vars
  PROVE  ConnectionInv'
<1>1. CASE Tx(TxLoop) \/ Tx(TxReceive) \/ Alarm
  <2>1. /\ TxLoop \/ TxReceive \/ TxAlarm
        /\ UNCHANGED <<rxPhase, hand>>
    BY <1>1 DEF Tx, Alarm, rxVars
  <2>2. /\ Kinds(toTx') \subseteq Kinds(toTx)
        /\ "DISC" \in Kinds(toRx') => "DISC" \in Kinds(toRx) \/ txPhase = "close"
        /\ "UA" \in Kinds(toRx') => "UA" \in Kinds(toRx) \/ txPhase' = "closed"
    BY <2>1, KindsTx
  <2>3. CASE UNCHANGED <<txPhase, cur>>
    BY <2>1, <2>2, <2>3 DEF ConnectionInv, PhasesAgree
  <2>4. CASE TxGiveUp
    BY <2>1, <2>2, <2>4 DEF TxGiveUp, ConnectionInv, PhasesAgree
  <2>5. CASE TxOpened
    <3>1. "SET" \in Kinds(toTx)
      BY <2>5, TailFrame DEF TxOpened, TxTakes
    <3> QED
      BY <2>1, <2>2, <2>5, <3>1 DEF TxOpened, ConnectionInv, PhasesAgree
  <2>6. CASE TxAcked
    <3>1. cur = EndPacket => cur' = EndPacket
      BY <2>6, LineAssumption DEF TxAcked, EndPacket
    <3>2. txPhase = "write" /\ txPhase' \in {"write", "close"}
      BY <2>6 DEF TxAcked
    <3> QED
      BY <2>1, <2>2, <3>1, <3>2 DEF ConnectionInv, PhasesAgree
  <2>7. CASE TxClosed
    <3>1. "DISC" \in Kinds(toTx)
      BY <2>7, TailFrame DEF TxClosed, TxTakes
    <3> QED
      BY <2>1, <2>2, <2>7, <3>1 DEF TxClosed, ConnectionInv, PhasesAgree
  <2> QED
    BY <2>1, <2>3, <2>4, <2>5, <2>6, <2>7
    DEF TxLoop, TxTryAgain, TxSend, TxSkipSend, TxArm, TxSetFlag, TxPoll,
        TxReceive, TxRejected, TxRejectedInterrupted, TxIgnored, TxAlarm
<1>2. CASE Rx(RxReceive) \/ Rx(RxDeliver)
  <2>1. (RxReceive \/ RxDeliver) /\ UNCHANGED <<txPhase, cur>>
    BY <1>2 DEF Rx, txVars
  <2>2. /\ Kinds(toRx') \subseteq Kinds(toRx)
        /\ "SET" \in Kinds(toTx') => "SET" \in Kinds(toTx) \/ rxPhase' = "read"
        /\ "DISC" \in Kinds(toTx') => "DISC" \in Kinds(toTx) \/ rxPhase' = "ua"
    BY <2>1, KindsRx
  <2>3. hand' # NoPacket => rxPhase' = "read"
    BY <2>1
    DEF RxReceive, RxOpen, RxDisc, RxUa, RxIgnored, RxAccept, RxReject, RxCollect,
        RxCloseByNext, RxHeaderError, RxReads, RxAnswers, RxTakes, rxVars,
        RxDeliver, RxStart, RxWrite, RxSkip, RxEnd, RxHandles, ConnectionInv
  <2>4. CASE UNCHANGED rxPhase
    BY <2>1, <2>2, <2>3, <2>4 DEF ConnectionInv, PhasesAgree
  <2>5. CASE rxPhase = "open" /\ rxPhase' = "read"
    BY <2>1, <2>2, <2>3, <2>5 DEF ConnectionInv, PhasesAgree
  <2>6. CASE rxPhase = "disc" /\ rxPhase' = "ua" /\ "DISC" \in Kinds(toRx)
    BY <2>1, <2>2, <2>3, <2>6 DEF ConnectionInv, PhasesAgree
  <2>7. CASE rxPhase = "ua" /\ rxPhase' = "closed" /\ "UA" \in Kinds(toRx)
    BY <2>1, <2>2, <2>3, <2>7 DEF ConnectionInv, PhasesAgree
  <2>8. CASE RxEnd
    <3>1. hand = EndPacket /\ EndPacket # NoPacket
      BY <2>8, LineAssumption DEF RxEnd, EndPacket, NoPacket
    <3>2. hand <= cur
      BY <3>1 DEF OrderInv, Held
    <3>3. cur = EndPacket /\ hand # NoPacket
      BY <3>1, <3>2, LineAssumption DEF Packet, EndPacket
    <3> QED
      BY <2>1, <2>2, <2>3, <2>8, <3>3 DEF RxEnd, ConnectionInv, PhasesAgree
  <2>9. \/ UNCHANGED rxPhase \/ RxEnd
        \/ rxPhase = "open" /\ rxPhase' = "read"
        \/ rxPhase = "disc" /\ rxPhase' = "ua" /\ Head(toRx).kind = "DISC" /\ toRx # <<>>
        \/ rxPhase = "ua" /\ rxPhase' = "closed" /\ Head(toRx).kind = "UA" /\ toRx # <<>>
    BY <2>1
    DEF RxReceive, RxOpen, RxDisc, RxUa, RxIgnored, RxAccept, RxReject, RxCollect,
        RxCloseByNext, RxHeaderError, RxReads, RxAnswers, RxTakes, rxVars,
        RxDeliver, RxStart, RxWrite, RxSkip
  <2> QED
    BY <2>4, <2>5, <2>6, <2>7, <2>8, <2>9, TailFrame
<1>3. CASE Sigint \/ Finished \/ UNCHANGED vars
  BY <1>3 DEF Sigint, Finished, vars, lineVars, txVars, rxVars, ConnectionInv, PhasesAgree
<1> QED
  BY <1>1, <1>2, <1>3 DEF Next

-----------------------------------------------------------------------------
(* The inductive invariant, and what follows from it.                      *)

(* The four invariants hold together, in every behaviour.                  *)
THEOREM Invariant == Spec => []IInv
<1>1. Init => IInv
  <2> SUFFICES ASSUME Init PROVE IInv
    OBVIOUS
  <2>1. TypeOK
    BY TypeInit
  <2>2. Kinds(toRx) = {} /\ Kinds(toTx) = {} /\ Carried(toRx) = {} /\ InRow(toRx)
    BY DEF Init, LineInit, Kinds, Carried, Informed, InRow
  <2>3. Held = {} /\ Len(out) = 0 /\ order = -1 /\ DOMAIN out = {}
    BY DEF Init, RxInit, Held
  <2>4. InOrder
    BY <2>3 DEF InOrder
  <2>5. OrderInv
    BY <2>2, <2>3, <2>4 DEF OrderInv, Init, RxInit
  <2>6. StartInv
    BY <2>2 DEF StartInv, Init, RxInit, TxInit, StartPacket
  <2>7. ConnectionInv
    BY <2>2 DEF ConnectionInv, PhasesAgree, Init, RxInit, TxInit
  <2> QED
    BY <2>1, <2>5, <2>6, <2>7 DEF IInv
<1>2. IInv /\ [Next]_vars => IInv'
  BY TypeStep, OrderStep, StartStep, ConnectionStep DEF IInv
<1> QED
  BY <1>1, <1>2, PTL DEF Spec

(* No data packet is written twice or out of order, whatever the line      *)
(* loses, spoils or delays and whenever the alarm expires.                 *)
THEOREM FileInOrder == Spec => []InOrder
<1>1. IInv => InOrder
  BY DEF IInv, OrderInv
<1> QED
  BY <1>1, Invariant, PTL

(* No data packet is looked at before the output file has been opened.     *)
THEOREM FileOpened == Spec => []DataAfterStart
<1>1. IInv => DataAfterStart
  <2> SUFFICES ASSUME IInv, hand \in DataPacket \/ out # <<>>
               PROVE  target
    BY DEF DataAfterStart
  <2>1. CASE hand \in DataPacket
    <3>1. hand <= cur
      BY <2>1, LineAssumption DEF IInv, OrderInv, Held, DataPacket, NoPacket
    <3>2. cur > 0 /\ hand # StartPacket
      BY <2>1, <3>1, LineAssumption
      DEF IInv, DataPacket, StartPacket, Packet, EndPacket
    <3> QED
      BY <3>2 DEF IInv, StartInv
  <2>2. CASE out # <<>>
    BY <2>2 DEF IInv, StartInv
  <2> QED
    BY <2>1, <2>2
<1> QED
  BY <1>1, Invariant, PTL

(* What has been written stays written: no retransmitted start packet      *)
(* truncates the file.                                                     *)
THEOREM FileKept == Spec => NeverTruncated
<1> DEFINE Kept == /\ Len(out) <= Len(out')
                   /\ \A i \in 1 .. Len(out) : out'[i] = out[i]
<1>1. IInv /\ [Next]_vars => [Kept]_vars
  <2> SUFFICES ASSUME IInv, [Next]_vars PROVE Kept
    OBVIOUS
  <2>1. CASE UNCHANGED out
    BY <2>1 DEF IInv
  <2>2. CASE RxStart
    <3>1. out = <<>>
      BY <2>2, StartEmpty DEF IInv, RxStart
    <3> QED
      BY <2>2, <3>1 DEF RxStart
  <2>3. CASE RxWrite
    BY <2>3 DEF IInv, RxWrite
  <2>4. UNCHANGED out \/ RxStart \/ RxWrite
    BY DEF Next, Tx, Rx, Alarm, Sigint, Finished, vars, rxVars, RxReceive, RxOpen, RxDisc,
           RxUa, RxIgnored, RxAccept, RxReject, RxCollect, RxCloseByNext, RxHeaderError,
           RxAnswers, RxDeliver, RxSkip, RxEnd
  <2> QED
    BY <2>1, <2>2, <2>3, <2>4
<1>2. Spec => [][Kept]_vars
  BY <1>1, Invariant, PTL DEF Spec
<1> QED
  BY <1>2 DEF NeverTruncated

(* The two sides agree on how far the connection is.                       *)
THEOREM SidesAgree == Spec => []PhasesAgree
<1>1. IInv => PhasesAgree
  BY DEF IInv, ConnectionInv
<1> QED
  BY <1>1, Invariant, PTL

-----------------------------------------------------------------------------
(* The retry loop of llopen, llwrite and llclose against the SIGALRM       *)
(* handler: how often a command is written, and that an alarm is pending   *)
(* while an answer is awaited.                                             *)

Pending == IF armed THEN 1 ELSE 0

(* Every write of a command uses up one expiry of the alarm, but for the   *)
(* first; an alarm that is pending when the loop condition has passed may  *)
(* still expire before the flag is looked at.                              *)
RetryInv ==
  /\ txPhase \in {"open", "close"} =>
       /\ tries + Pending <= MaxTries + 1
       /\ txPc \in {"flag", "arm"} => tries + Pending <= MaxTries
       /\ sent <= tries + 1
       /\ flag = 0 /\ txPc \in {"while", "flag", "read"} => sent <= tries
  /\ CommandsBounded

(* The counter does not wrap while a command is repeated.                  *)
LEMMA TriesCount ==
  ASSUME NEW t \in Nat, t <= MaxTries
  PROVE  (t + 1) % TriesWrap = t + 1
<1>1. t + 1 < TriesWrap /\ TriesWrap \in Nat /\ t + 1 \in Nat
  BY TxAssumption
<1> QED
  BY <1>1

(* No command has been written and no alarm is pending.                     *)
LEMMA RetryInit == Init => RetryInv
  BY TxAssumption DEF Init, TxInit, RetryInv, Pending, CommandsBounded

(* A command is written only after an expiry that was counted.              *)
LEMMA RetryLoop ==
  ASSUME TypeOK, RetryInv, TxLoop
  PROVE  RetryInv'
<1> USE TxAssumption DEF RetryInv, CommandsBounded, Pending, At, Goto, TypeOK, TxTypeOK
<1>1. CASE TxTryAgain
  BY <1>1 DEF TxTryAgain
<1>2. CASE TxGiveUp
  BY <1>2 DEF TxGiveUp
<1>3. CASE TxSend
  <2>1. CASE txPhase = "write"
    BY <1>3, <2>1 DEF TxSend
  <2>2. CASE txPhase \in {"open", "close"}
    <3>1. sent <= tries /\ tries + Pending <= MaxTries /\ sent \in Nat /\ tries \in Nat
      BY <1>3, <2>2 DEF TxSend
    <3>2. sent' = sent + 1 /\ txPc' = "arm" /\ UNCHANGED <<txPhase, tries, armed>>
      BY <1>3, <2>2 DEF TxSend
    <3>3. Pending \in {0, 1} /\ Pending' = Pending
      BY <3>2
    <3>4. sent' <= tries' + 1 /\ sent' <= MaxTries + 1
      BY <3>1, <3>2, <3>3
    <3> QED
      BY <2>2, <3>1, <3>2, <3>3, <3>4
  <2> QED
    BY <1>3, <2>1, <2>2 DEF TxSend, Looping
<1>4. CASE TxSkipSend
  BY <1>4 DEF TxSkipSend
<1>5. CASE TxArm
  BY <1>5 DEF TxArm
<1>6. CASE TxSetFlag
  BY <1>6 DEF TxSetFlag
<1>7. CASE TxPoll
  BY <1>7 DEF TxPoll
<1> QED
  BY <1>1, <1>2, <1>3, <1>4, <1>5, <1>6, <1>7 DEF TxLoop

(* An answer starts the next call with fresh tries, or leaves them alone.   *)
LEMMA RetryReceive ==
  ASSUME TypeOK, RetryInv, TxReceive
  PROVE  RetryInv'
<1> USE TxAssumption DEF RetryInv, CommandsBounded, Pending, At, Goto, TxTakes
<1>1. CASE TxOpened
  BY <1>1 DEF TxOpened
<1>2. CASE TxAcked
  BY <1>2 DEF TxAcked
<1>3. CASE TxRejected
  BY <1>3 DEF TxRejected
<1>4. CASE TxRejectedInterrupted
  BY <1>4 DEF TxRejectedInterrupted
<1>5. CASE TxClosed
  BY <1>5 DEF TxClosed, TypeOK, TxTypeOK
<1>6. CASE TxIgnored
  BY <1>6 DEF TxIgnored
<1> QED
  BY <1>1, <1>2, <1>3, <1>4, <1>5, <1>6 DEF TxReceive

(* An expiry uses up the pending alarm for one more try.                    *)
LEMMA RetryAlarm ==
  ASSUME TypeOK, RetryInv, TxAlarm
  PROVE  RetryInv'
<1>1. CASE txPhase \in {"open", "close"}
  <2>1. tries \in Nat /\ tries <= MaxTries
    BY <1>1, TxAssumption DEF TxAlarm, RetryInv, Pending, TypeOK, TxTypeOK
  <2>2. tries' = tries + 1
    BY <2>1, TriesCount DEF TxAlarm
  <2> QED
    BY <1>1, <2>1, <2>2, TxAssumption
    DEF TxAlarm, RetryInv, Pending, CommandsBounded, TypeOK, TxTypeOK
<1>2. CASE txPhase \notin {"open", "close"}
  BY <1>2 DEF TxAlarm, RetryInv, CommandsBounded
<1> QED
  BY <1>1, <1>2

(* Every step keeps the tries and the writes together.                      *)
LEMMA RetryStep ==
  ASSUME TypeOK, RetryInv, [Next]_vars
  PROVE  RetryInv'
<1>1. CASE Tx(TxLoop)
  BY <1>1, RetryLoop DEF Tx
<1>2. CASE Tx(TxReceive)
  BY <1>2, RetryReceive DEF Tx
<1>3. CASE Alarm
  BY <1>3, RetryAlarm DEF Alarm, Tx
<1>4. CASE UNCHANGED txVars
  BY <1>4 DEF txVars, RetryInv, Pending, CommandsBounded
<1>5. CASE Rx(RxReceive) \/ Rx(RxDeliver) \/ Sigint \/ Finished \/ UNCHANGED vars
  BY <1>4, <1>5 DEF Rx, Sigint, Finished, vars
<1> QED
  BY <1>1, <1>2, <1>3, <1>5 DEF Next

(* llopen and llclose write their command at most once more than the       *)
(* number of tries the user typed.                                         *)
THEOREM CommandsLimited == Spec => []CommandsBounded
<1>1. Init => RetryInv
  BY RetryInit
<1>2. TypeOK /\ RetryInv /\ [Next]_vars => RetryInv'
  BY RetryStep
<1>3. RetryInv => CommandsBounded
  BY DEF RetryInv
<1>4. Spec => []TypeOK
  BY TypeCorrect
<1> QED
  BY <1>1, <1>2, <1>3, <1>4, PTL DEF Spec

-----------------------------------------------------------------------------
(* An alarm is pending also when it is about to be relied on.              *)
AlarmInv ==
  /\ AlarmPending
  /\ At("set") => armed

(* Every step leaves an alarm pending wherever the flag is set.             *)
LEMMA AlarmStep ==
  ASSUME TypeOK, AlarmInv, [Next]_vars, Timeout > 0, ~Stalls
  PROVE  AlarmInv'
<1> USE DEF AlarmInv, AlarmPending, At, Goto, Looping
<1>1. CASE Tx(TxLoop)
  <2>1. CASE TxArm
    <3>1. armed'
      BY <2>1 DEF TxArm
    <3> QED
      BY <2>1, <3>1 DEF TxArm
  <2>2. CASE TxLoop /\ ~TxArm
    BY <2>2 DEF TxLoop, TxTryAgain, TxGiveUp, TxSend, TxSkipSend, TxSetFlag, TxPoll
  <2> QED
    BY <1>1, <2>1, <2>2 DEF Tx
<1>2. CASE Tx(TxReceive)
  BY <1>2 DEF Tx, TxReceive, TxOpened, TxAcked, TxRejected, TxRejectedInterrupted, TxClosed,
              TxIgnored, TxTakes
<1>3. CASE Alarm
  BY <1>3 DEF Alarm, Tx, TxAlarm
<1>4. CASE UNCHANGED txVars
  BY <1>4 DEF txVars
<1>5. CASE Rx(RxReceive) \/ Rx(RxDeliver) \/ Sigint \/ Finished \/ UNCHANGED vars
  BY <1>4, <1>5 DEF Rx, Sigint, Finished, vars
<1> QED
  BY <1>1, <1>2, <1>3, <1>5 DEF Next

(* A timer that is on and a process that is not stopped between alarm()    *)
(* and setFlag(1): then a retransmission is never forgotten.               *)
THEOREM RetransmissionPending ==
  ASSUME Timeout > 0, ~Stalls
  PROVE  Spec => []AlarmPending
<1>1. Init => AlarmInv
  BY DEF Init, TxInit, AlarmInv, AlarmPending, At
<1>2. TypeOK /\ AlarmInv /\ [Next]_vars => AlarmInv'
  BY AlarmStep
<1>3. AlarmInv => AlarmPending
  BY DEF AlarmInv
<1>4. Spec => []TypeOK
  BY TypeCorrect
<1> QED
  BY <1>1, <1>2, <1>3, <1>4, PTL DEF Spec

=============================================================================
