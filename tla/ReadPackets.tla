---------------------------- MODULE ReadPackets ----------------------------
(***************************************************************************)
(* readDataPackets of the receiver: what it does with each packet that     *)
(* llread returns.  RR has been sent for all of them before.               *)
(***************************************************************************)
EXTENDS PacketLink

VARIABLES
  fileSize,   (* the size announced; nothing before the first start packet *)
  order,      (* (orderByte + 1) % 256, the sequence byte that is next     *)
  received,   (* receivedBytes                                             *)
  target,     (* the output file: "unset", "open", "failed", "closed"      *)
  out,        (* its bytes, named by their places in the input             *)
  rxBar       (* the characters of the last progress bar                   *)

readVars == <<fileSize, order, received, target, out, rxBar>>

ReadTypeOK ==
  /\ fileSize \in IntValue
  /\ order \in Byte
  /\ received \in IntValue
  /\ target \in {"unset", "open", "failed", "closed"}
  /\ out \in Seq(Nat \ {0})
  /\ rxBar \in Int

ReadInit ==
  /\ fileSize = 0
  /\ order = 0
  /\ received = 0
  /\ target = "unset"
  /\ out = <<>>
  /\ rxBar = 0

Handles(c) == stage["rx"] = "transfer" /\ hand.c = c
Done == hand' = NoPacket /\ UNCHANGED <<signals, offer, taken, late>>

(* progressBar; before a start packet fileSize is not initialised, and any *)
(* bar may come out.                                                       *)
Draw(size, done) ==
  IF target = "unset" THEN rxBar' \in {51, Endless} ELSE rxBar' = Columns(size, done)

(* What write_frame leaves of a packet on a disk with little room: the     *)
(* bytes that fit.  The whole packet is then tried again, which fails, and *)
(* nobody looks at the result.                                             *)
Room == IF target = "open" THEN Max({0, world.room - Len(out)}) ELSE 0
Wrote(bs) == out \o SubSeq(bs, 1, Min({Len(bs), Room}))

-----------------------------------------------------------------------------
(* A start packet: the size is put together and the file is opened anew.   *)
ReadStart ==
  /\ Handles("start")
  /\ fileSize' \in Assembled(hand.size)
  /\ target' = IF world.target = "fails" THEN "failed" ELSE "open"
  /\ out' = IF world.target = "fails" THEN out ELSE <<>>
  /\ rxBar' = Columns(fileSize', received)
  /\ Done
  /\ UNCHANGED <<programVars, order, received>>

(* A data packet that is next: its bytes are written and counted.          *)
(* Mutant of ReadData: the sequence byte is not looked at.                 *)
ReadDataUnchecked ==
  /\ Handles("data")
  /\ order' = (order + 1) % Base
  /\ out' = Wrote(SubSeq(hand.bytes, 1, LengthOf(hand)))
  /\ received' = ToInt(received + LengthOf(hand))
  /\ Draw(fileSize, received')
  /\ Done
  /\ UNCHANGED <<programVars, fileSize, target>>

ReadData ==
  /\ Handles("data")
  /\ hand.seq = order
  /\ order' = (order + 1) % Base
  /\ out' = Wrote(SubSeq(hand.bytes, 1, LengthOf(hand)))
  /\ received' = ToInt(received + LengthOf(hand))
  /\ Draw(fileSize, received')
  /\ Done
  /\ UNCHANGED <<programVars, fileSize, target>>

(* Mutant of ReadCopy: a copy is counted.                                  *)
ReadCopyCounted ==
  /\ Handles("data")
  /\ hand.seq # order
  /\ received' = ToInt(received + LengthOf(hand))
  /\ Draw(fileSize, received')
  /\ Done
  /\ UNCHANGED <<programVars, fileSize, order, target, out>>

(* Any other one is dropped.                                               *)
ReadCopy ==
  /\ Handles("data")
  /\ hand.seq # order
  /\ Done
  /\ UNCHANGED <<programVars, readVars>>

(* An end packet closes the file, whatever it says.                        *)
ReadEnd ==
  /\ Handles("end")
  /\ Draw(fileSize, received)
  /\ target' = IF target = "open" THEN "closed" ELSE target
  /\ Done
  /\ Goes("rx", "transfer", "closing")
  /\ UNCHANGED <<world, port, fileSize, order, received, out>>

(* llread returned NULL: app.c draws the bar and reads on, the error       *)
(* creators look at the packet all the same.                               *)
ReadNothing ==
  /\ Handles("error")
  /\ world.build = "app"
  /\ Draw(fileSize, received)
  /\ Done
  /\ UNCHANGED <<programVars, fileSize, order, received, target, out>>

ReadNull ==
  /\ Handles("error")
  /\ world.build = "errors"
  /\ Goes("rx", "transfer", "crashed")
  /\ UNCHANGED <<world, port, linkVars, readVars>>

ReadStep ==
  \/ ReadStart \/ ReadData \/ ReadCopy \/ ReadEnd \/ ReadNothing \/ ReadNull

=============================================================================
