------------------------------ MODULE SendFile ------------------------------
(***************************************************************************)
(* sendFile of the transmitter: the start packet, the file in packets of   *)
(* the chosen size, the end packet.  txPc says what it is about to do:     *)
(* send the start packet, test the loop condition, or send the end packet; *)
(* while llwrite runs it names the packet on its way.                      *)
(***************************************************************************)
EXTENDS PacketLink

VARIABLES
  txPc,      (* "sendStart", "start", "loop", "data", "sendEnd", "end"      *)
  total,     (* fileSizeAux                                                *)
  bytes,     (* the int bytes                                              *)
  offset,    (* where the next read of the input begins                    *)
  nSeq,      (* nSeq % 256                                                 *)
  txBar      (* the characters of the last progress bar                    *)

sendVars == <<txPc, total, bytes, offset, nSeq, txBar>>

SendTypeOK ==
  /\ txPc \in {"sendStart", "start", "loop", "data", "sendEnd", "end"}
  /\ total \in IntValue
  /\ bytes \in IntValue
  /\ offset \in Nat
  /\ nSeq \in Byte
  /\ txBar \in Int

SendInit ==
  /\ txPc = "sendStart"
  /\ total = 0
  /\ bytes = 0
  /\ offset = 0
  /\ nSeq = 0
  /\ txBar = 0

Sending(pc) == stage["tx"] = "transfer" /\ txPc = pc
SendGoes(pc) == txPc' = pc

(* What one read of the input gives when n bytes can be read from it.      *)
Chunk(n) == Min({world.frame - Header, Max({0, n - offset})})

(* The loop condition of sendFileData.  Mutant: one more round.            *)
MoreToSendOneMore == bytes <= total
MoreToSend == bytes < total

-----------------------------------------------------------------------------
(* sendFileInfo with START_C: fstat, the packet, llwrite.  It returns the  *)
(* size as an int, or 1 when llwrite fails.                                *)
SendStart ==
  /\ Sending("sendStart")
  /\ \/ llwrite(Start(world.size)) /\ SendGoes("start") /\ UNCHANGED total
     \/ NotWritten /\ SendGoes("loop") /\ total' = 1
  /\ UNCHANGED <<programVars, bytes, offset, nSeq, txBar>>

StartSent ==
  /\ Sending("start")
  /\ \/ Written /\ total' = ToInt(world.size)
     \/ NotWritten /\ total' = 1
  /\ SendGoes("loop")
  /\ UNCHANGED <<programVars, bytes, offset, nSeq, txBar>>

(* The loop of sendFileData with n readable bytes.  A read of 0 bytes is   *)
(* sent as a packet without data, a read that fails is tried again.        *)
ReadChunk(n) ==
  /\ Sending("loop")
  /\ MoreToSend
  /\ Chunk(n) > 0 \/ world.atEnd = "eof"
  /\ offset' = offset + Chunk(n)
  /\ \/ llwrite(Data(nSeq, offset, Chunk(n))) /\ SendGoes("data")
     \/ NotWritten /\ SendGoes("sendEnd")
  /\ UNCHANGED <<programVars, total, bytes, nSeq, txBar>>

ReadFails(n) ==
  /\ Sending("loop")
  /\ MoreToSend
  /\ Chunk(n) = 0 /\ world.atEnd = "error"
  /\ UNCHANGED <<programVars, linkVars, sendVars>>

ChunkSent ==
  /\ Sending("data")
  /\ bytes' = ToInt(bytes + Len(offer.bytes))
  /\ nSeq' = (nSeq + 1) % Base
  /\ txBar' = Columns(total, bytes')
  /\ Written
  /\ SendGoes("loop")
  /\ UNCHANGED <<programVars, total, offset>>

(* llwrite fails while it runs: sendFileData returns -1.                   *)
ChunkNotSent ==
  /\ Sending("data")
  /\ NotWritten
  /\ SendGoes("sendEnd")
  /\ UNCHANGED <<programVars, total, bytes, offset, nSeq, txBar>>

(* The input is closed and the loop is left.                               *)
DataDone ==
  /\ Sending("loop")
  /\ ~MoreToSend
  /\ SendGoes("sendEnd")
  /\ UNCHANGED <<programVars, linkVars, total, bytes, offset, nSeq, txBar>>

(* sendFileInfo with END_C; its fstat may fail on the closed input, and    *)
(* the size in the packet is nobody's.                                     *)
SendEnd ==
  /\ Sending("sendEnd")
  /\ llwrite(End)
  /\ SendGoes("end")
  /\ UNCHANGED <<programVars, total, bytes, offset, nSeq, txBar>>

(* main goes on to closeConnection, whether llwrite worked or not.         *)
EndSent ==
  /\ \/ Sending("end") /\ (Written \/ NotWritten)
     \/ Sending("sendEnd") /\ NotWritten
  /\ Goes("tx", "transfer", "closing")
  /\ UNCHANGED <<world, port, sendVars>>

SendStep(n) ==
  \/ SendStart \/ StartSent
  \/ ReadChunk(n) \/ ReadFails(n)
  \/ ChunkSent \/ ChunkNotSent \/ DataDone
  \/ SendEnd \/ EndSent

=============================================================================
