------------------------------ MODULE Receiver ------------------------------
(***************************************************************************)
(* The receiving process of Project1/app.c: llopen, then readDataPackets,  *)
(* which calls llread until the end packet, then llclose.  It has no timer *)
(* and no limit: every call reads until the frame it wants has arrived.    *)
(* llread answers RR before readDataPackets has looked at the packet, so   *)
(* the packet in between is a variable, hand.                              *)
(***************************************************************************)
EXTENDS SerialLine, Integers

CONSTANT
  SeqMod      (* the range of the sequence byte of a data packet: 256    *)

ASSUME RxAssumption == SeqMod \in Nat \ {0, 1}

VARIABLES
  rxPhase,  (* the frame the process waits for                            *)
  hand,     (* the packet llread has returned                             *)
  partial,  (* the packet being collected beyond its frame                *)
  order,    (* orderByte, -1 before the first data packet                 *)
  target,   (* the output file has been opened                            *)
  out       (* the data packets in the output file                        *)

rxVars == <<rxPhase, hand, partial, order, target, out>>

NoPacket == -1

RxPhase == {"open", "read", "disc", "ua", "closed"}

RxTypeOK ==
  /\ rxPhase \in RxPhase
  /\ hand \in Packet \cup {NoPacket}
  /\ partial \in Packet \cup {NoPacket}
  /\ order \in Nat \cup {-1}
  /\ target \in BOOLEAN
  /\ out \in Seq(DataPacket)

RxInit ==
  /\ rxPhase = "open"
  /\ hand = NoPacket
  /\ partial = NoPacket
  /\ order = -1
  /\ target = FALSE
  /\ out = <<>>

(* The byte buffer[1] of data packet i.                                    *)
SeqByte(i) == (i - 1) % SeqMod

(* The process waits for frames of this phase, and f is the next one.      *)
RxTakes(phase, f) ==
  /\ rxPhase = phase
  /\ f = Head(toRx)
  /\ toRx' = Tail(toRx)

(* waitForData for the command k, answered with k (llopen, llclose).       *)
RxAnswers(f, phase, k, next) ==
  /\ RxTakes(phase, f)
  /\ f.kind = k
  /\ WriteToTx(Supervision(k))
  /\ rxPhase' = next
  /\ UNCHANGED <<hand, partial, order, target, out>>

(* Mutant of RxDisc: the receiver does not wait for the UA.                *)
RxDiscNoUa(f) == RxAnswers(f, "disc", "DISC", "closed")

RxOpen(f) == RxAnswers(f, "open", "SET", "read")
RxDisc(f) == RxAnswers(f, "disc", "DISC", "ua")

RxUa(f) ==
  /\ RxTakes("ua", f)
  /\ f.kind = "UA"
  /\ rxPhase' = "closed"
  /\ UNCHANGED <<hand, partial, order, target, out, toTx, faults>>

(* waitForData is given a frame of another kind.                           *)
RxIgnored(f) ==
  /\ \E w \in {<<"open", "SET">>, <<"disc", "DISC">>, <<"ua", "UA">>} :
       RxTakes(w[1], f) /\ f.kind # w[2]
  /\ UNCHANGED <<rxVars, toTx, faults>>

-----------------------------------------------------------------------------
(* One frame read by llread.                                               *)
RxReads(f) == hand = NoPacket /\ RxTakes("read", f)

(* Header and BCC2 are right: RR, and the packet is returned.              *)
RxAccept(f) ==
  /\ RxReads(f)
  /\ partial = NoPacket
  /\ f.kind = "I" /\ f.q = "ok"
  /\ WriteToTx(Supervision("RR"))
  /\ hand' = f.n
  /\ UNCHANGED <<rxPhase, partial, order, target, out>>

(* Mutant of RxReject: RR although BCC2 is wrong.                          *)
RxRejectAnswersRR(f) ==
  /\ RxReads(f)
  /\ partial = NoPacket
  /\ f.kind = "I" /\ f.q = "dam"
  /\ WriteToTx(Supervision("RR"))
  /\ UNCHANGED rxVars

(* BCC2 is wrong: REJ.                                                     *)
RxReject(f) ==
  /\ RxReads(f)
  /\ partial = NoPacket
  /\ f.kind = "I" /\ f.q = "dam"
  /\ WriteToTx(Supervision("REJ"))
  /\ UNCHANGED rxVars

(* No closing flag: llread keeps collecting.                               *)
RxCollect(f) ==
  /\ RxReads(f)
  /\ partial = NoPacket
  /\ f.kind = "I" /\ f.q = "open"
  /\ partial' = f.n
  /\ UNCHANGED <<rxPhase, hand, order, target, out, toTx, faults>>

(* The opening flag of f closes the frame being collected and the rest of  *)
(* f is skipped.  Every read that timed out has appended the last byte     *)
(* once more, so BCC2 comes out right or wrong by the parity of their      *)
(* number.  When it is right, the packet is returned with bytes appended   *)
(* that readDataPackets does not look at.                                  *)
RxCloseByNext(f) ==
  /\ RxReads(f)
  /\ partial # NoPacket
  /\ \/ WriteToTx(Supervision("RR")) /\ hand' = partial
     \/ WriteToTx(Supervision("REJ")) /\ UNCHANGED hand
  /\ partial' = NoPacket
  /\ UNCHANGED <<rxPhase, order, target, out>>

(* Not the header of an information frame: ERROR_STATE, no answer.         *)
RxHeaderError(f) ==
  /\ RxReads(f)
  /\ partial = NoPacket
  /\ f.kind # "I"
  /\ UNCHANGED <<rxVars, toTx, faults>>

RxReceive ==
  /\ toRx # <<>>
  /\ \E f \in {Head(toRx)} :
       \/ RxOpen(f)
       \/ RxDisc(f)
       \/ RxUa(f)
       \/ RxIgnored(f)
       \/ RxAccept(f)
       \/ RxReject(f)
       \/ RxCollect(f)
       \/ RxCloseByNext(f)
       \/ RxHeaderError(f)

-----------------------------------------------------------------------------
(* readDataPackets looks at the packet llread returned.                    *)
RxHandles == hand' = NoPacket /\ UNCHANGED <<partial, lineVars>>

(* Start packet: open the output file, truncating it.                      *)
RxStart ==
  /\ hand = StartPacket
  /\ RxHandles
  /\ target' = TRUE
  /\ out' = <<>>
  /\ UNCHANGED <<rxPhase, order>>

(* Mutant of RxWrite: the sequence byte is not compared.                   *)
RxWriteUnchecked ==
  /\ hand \in DataPacket
  /\ RxHandles
  /\ order' = order + 1
  /\ out' = Append(out, hand)
  /\ UNCHANGED <<rxPhase, target>>

(* Data packet with the expected sequence byte: append it to the file.     *)
RxWrite ==
  /\ hand \in DataPacket
  /\ SeqByte(hand) = (order + 1) % SeqMod
  /\ RxHandles
  /\ order' = order + 1
  /\ out' = Append(out, hand)
  /\ UNCHANGED <<rxPhase, target>>

(* Mutant of RxSkip: a duplicate advances the order byte too.              *)
RxSkipCounted ==
  /\ hand \in DataPacket
  /\ SeqByte(hand) # (order + 1) % SeqMod
  /\ RxHandles
  /\ order' = order + 1
  /\ UNCHANGED <<rxPhase, target, out>>

(* Data packet with another sequence byte: taken for a duplicate.          *)
RxSkip ==
  /\ hand \in DataPacket
  /\ SeqByte(hand) # (order + 1) % SeqMod
  /\ RxHandles
  /\ UNCHANGED <<rxPhase, order, target, out>>

(* End packet: close the file, go to llclose.                              *)
RxEnd ==
  /\ hand = EndPacket
  /\ RxHandles
  /\ rxPhase' = "disc"
  /\ UNCHANGED <<order, target, out>>

RxDeliver ==
  \/ RxStart
  \/ RxWrite
  \/ RxSkip
  \/ RxEnd

=============================================================================
