---------------------------- MODULE Application ----------------------------
(***************************************************************************)
(* Project1 above its link layer: both programs from their first line to   *)
(* their last, and the file between them.                                  *)
(***************************************************************************)
EXTENDS SendFile, ReadPackets

vars == <<programVars, linkVars, sendVars, readVars>>

Init == ProgramInit /\ LinkInit /\ SendInit /\ ReadInit

(* What can be read of the input.  When the receiver opens the same file,  *)
(* it is empty from then on but for what the receiver has written.         *)
Readable ==
  IF world.target = "same" /\ target # "unset" THEN Len(out) ELSE world.there

Main(p) == ProgramStep(p) /\ UNCHANGED <<linkVars, sendVars, readVars>>
Link == LinkStep /\ UNCHANGED <<sendVars, readVars>>
Send == SendStep(Readable) /\ UNCHANGED readVars
Receive == llread /\ UNCHANGED <<programVars, sendVars, readVars>>
Read == ReadStep /\ UNCHANGED sendVars
Environment ==
  /\ PortDies \/ \E p \in Program : sigint_handler(p)
  /\ UNCHANGED <<linkVars, sendVars, readVars>>

Next ==
  \/ \E p \in Program : Main(p)
  \/ Link
  \/ Send
  \/ Receive
  \/ Read
  \/ Environment

Spec == Init /\ [][Next]_vars

(* Both programs run, and a good line carries what is written to it.       *)
Fairness ==
  /\ \A p \in Program : WF_vars(Main(p))
  /\ WF_vars(Link)
  /\ WF_vars(Send)
  /\ WF_vars(Receive)
  /\ WF_vars(Read)

FairSpec == Spec /\ Fairness

-----------------------------------------------------------------------------
StartPacket == [c : {"start"}, size : [0 .. SizeDigits - 1 -> Byte]]
DataPacket == [c : {"data"}, seq : Byte, l2 : Byte, l1 : Byte, bytes : Seq(Nat \ {0})]
IsPacket(p) == p \in {NoPacket, End} \/ p \in StartPacket \/ p \in DataPacket

TypeOK ==
  /\ ProgramTypeOK
  /\ SendTypeOK
  /\ ReadTypeOK
  /\ signals \subseteq Signal
  /\ taken \in BOOLEAN
  /\ IsPacket(offer) /\ IsPacket(late)
  /\ IsPacket(hand) \/ hand = Damaged

(* The receiver has seen the end packet.                                   *)
EndSeen == stage["rx"] \in {"closing", "parting", "restoring"}

(* The size fits an int, the file is as long as it says, its name can be   *)
(* opened and the disk has room for it.                                    *)
Copyable ==
  /\ world.size < HalfRange
  /\ world.there >= world.size
  /\ world.target = "opens"
  /\ world.room >= world.size

(* An int shows too little of a file this large, but the counter of        *)
(* sendFileData can step over what it shows: one more packet takes it past *)
(* the end of the int, it comes round, and the loop goes on.               *)
Rewound ==
  /\ world.size >= 2 * HalfRange
  /\ ToInt(world.size) + world.frame - Header > HalfRange

(* Once the receiver has seen the end, the output holds the whole file     *)
(* exactly when it could be copied: the widths of sizes, lengths and       *)
(* counters, copies and damaged frames never cost a file that fits them,   *)
(* and a file that does not fit is cut.  A file that is sent onto itself   *)
(* may be whole when one packet holds it, and one of Rewound may be sent.  *)
WholeWhenCopyable ==
  EndSeen /\ port["tx"] # "gone" =>
    /\ Copyable => Len(out) >= world.size
    /\ target = "closed" /\ Len(out) >= world.size =>
         Copyable \/ world.target = "same" \/ Rewound

(* The size the receiver puts together is the one the file has, when an    *)
(* int can hold it.                                                        *)
AnnouncedRight ==
  target # "unset" /\ world.size < HalfRange => fileSize = world.size

(* The progress bar keeps its width while a file that does not grow is     *)
(* copied, copies and damaged frames or not.  An empty file, or a damaged  *)
(* frame before the first start packet, gives it no width at all.          *)
BarFits ==
  world.size \in 1 .. HalfRange - 1 /\ world.there <= world.size =>
    /\ txBar <= 51
    /\ target # "unset" => rxBar <= 51

(* A program that has changed the port, or only saved its settings, does   *)
(* not exit without putting them back: not when the connection fails, not  *)
(* when the user interrupts it, not at its end.                            *)
PortRestored ==
  [][\A p \in Program :
       stage[p] \notin {"started", "opened"} /\ stage'[p] = "ended" /\ stage[p] # "ended"
         => port'[p] \in {"found", "gone"}]_vars

(* On a good line both programs come to their end, unless the input gives  *)
(* less than its size: then sendFileData reads on forever.                 *)
Sendable ==
  /\ ~world.noisy /\ ~world.dies /\ world.tries > 0
  /\ world.refuses = {} /\ world.sigint = {} /\ world.heap = "zero"
  /\ \/ ToInt(world.size) <= 0
     \/ /\ world.target # "same"
        /\ world.there >= ToInt(world.size)
        /\ \/ world.there < HalfRange
           \/ ToInt(world.size) + MaxFrame - Header <= HalfRange
Ends == Sendable ~> \A p \in Program : stage[p] = "ended"

-----------------------------------------------------------------------------
(* The inductive invariant behind the properties above and CopySpec.       *)

(* A port that has not been set up yet is as it was found.                 *)
PortInv ==
  \A p \in Program : stage[p] \in {"started", "opened", "saved", "asked"} => port[p] = "found"

(* A program that is not connected yet.                                    *)
Early == {"started", "opened", "saved", "asked", "raw", "connecting"}

(* txPc names the packet that llwrite is sending; what readDataPackets     *)
(* handles is the packet that llread returned last.                        *)
PacketInv ==
  /\ stage["tx"] \in Early => txPc = "sendStart"
  /\ offer.c # "none" => offer.c = txPc
  /\ stage["tx"] = "transfer" /\ txPc \in {"start", "data", "end"} => offer.c = txPc
  /\ taken => late = offer /\ offer.c # "none"
  /\ hand.c \in {"none", "error"} \/ hand = late
  /\ late.c \in {"none", "start"} => order = 0 /\ received = 0 /\ out = <<>>
  /\ late.c \in {"data", "end"} => txPc \notin {"sendStart", "start"}
  /\ late.c = "end" => txPc = "end"
  /\ target = "closed" => late.c = "end"
  /\ \A p \in {offer, late} : p.c = "data" => LengthOf(p) = Len(p.bytes)

(* The output has all bytes in front of the place x, or the disk is full.  *)
Reached(x) == Len(out) = x \/ (Room = 0 /\ Len(out) <= x)

Untaken == offer.c = "data" /\ ~taken
Succ(n) == (n + 1) % Base
NextSeq == IF late.c = "data" THEN Succ(late.seq) ELSE 0

(* The packet returned last ends at x.  It is in the hand, next in order,  *)
(* and the output has reached its first byte; or it has been handled, its  *)
(* copy is out of order, and the output has reached x.                     *)
InHand(x) ==
  /\ hand = late
  /\ late.seq = order
  /\ Len(late.bytes) <= x
  /\ late.bytes = Bytes(x - Len(late.bytes), Len(late.bytes))
  /\ Reached(x - Len(late.bytes))
  /\ received = ToInt(x - Len(late.bytes))

Handled(x) == Succ(late.seq) = order /\ Reached(x) /\ received = ToInt(x)

(* The packet that is sent but not taken begins at x, and the next read    *)
(* behind it; or else the next read begins at x.                           *)
OnItsWay(x) ==
  /\ offer.seq = nSeq /\ nSeq = NextSeq
  /\ offset = x + Len(offer.bytes)
  /\ offer.bytes = Bytes(x, Len(offer.bytes))

NextRead(x) ==
  /\ offset = x
  /\ IF offer.c = "data" THEN late.seq = nSeq ELSE nSeq = NextSeq

RowAt(x) ==
  /\ late.c # "data" => x = 0
  /\ late.c = "data" => InHand(x) \/ Handled(x)
  /\ Untaken => OnItsWay(x)
  /\ ~Untaken /\ port["tx"] # "gone" => NextRead(x)

(* The bytes stand in one row, whose two parts meet at a place x.          *)
RowInv == late.c # "end" => \E x \in 0 .. offset : RowAt(x)

OutIsPrefix == out = Bytes(0, Len(out))

(* A packet is taken only after a start packet, which tells the size and   *)
(* opens the output.                                                       *)
OpenInv ==
  /\ offer.c \in {"data", "end"} => late.c # "none"
  /\ port["tx"] # "gone" /\ txPc \notin {"sendStart", "start"} => late.c # "none"
  /\ late.c # "none" /\ target = "unset" => hand = late /\ late.c = "start"
  /\ target = "failed" <=> target # "unset" /\ world.target = "fails"
  /\ \A p \in {offer, late} : p.c = "start" => p = Start(world.size)
  /\ Len(out) <= world.room

(* The int bytes is what it can show of the bytes that llwrite has sent.   *)
(* The loop is left when they are as many as fstat said.                   *)
InFlight == IF txPc = "data" /\ offer.c = "data" THEN Len(offer.bytes) ELSE 0
LoopInv ==
  /\ offset <= world.there
  /\ port["tx"] # "gone" =>
       /\ bytes = ToInt(offset - InFlight)
       /\ txPc \notin {"sendStart", "start"} => total = ToInt(world.size)
       /\ txPc \in {"sendEnd", "end"} => bytes >= total
       /\ ToInt(world.size) + world.frame - Header <= HalfRange =>
            offset = 0 \/ offset < ToInt(world.size) + world.frame - Header

(* When the end packet has been taken, the output has all bytes that were  *)
(* read of the input, or the disk is full.                                 *)
EndInv ==
  /\ EndSeen => late.c = "end"
  /\ late.c = "end" =>
       \E x \in 0 .. offset :
         /\ port["tx"] # "gone" => x = offset
         /\ received = ToInt(x)
         /\ Len(out) <= x
         /\ target \in {"open", "closed"} => Len(out) = x \/ Len(out) = world.room

IInv ==
  /\ TypeOK /\ PortInv /\ PacketInv /\ OutIsPrefix /\ RowInv
  /\ OpenInv /\ LoopInv /\ EndInv /\ AnnouncedRight /\ BarFits

(* What the output file goes through.                                      *)
Copy == INSTANCE FileCopy WITH file <- out, state <- target
CopySpec == Copy!Spec

=============================================================================
