--------------------------- MODULE InformationLink ---------------------------
(***************************************************************************)
(* Information frames byte by byte: what llwrite writes, a line that may   *)
(* lose, garble or insert a byte, and llread, which feeds its machine with *)
(* one byte per read.  The port is set to VMIN = 0, VTIME = 1, so a read   *)
(* that waits for a tenth of a second returns without a byte; llread does  *)
(* not look at what read returns and feeds the byte it still has.          *)
(*                                                                         *)
(* A frame is written when the one before has been read: the receiver sees *)
(* one stream of bytes in any case, and it may time out between them.      *)
(***************************************************************************)
EXTENDS ReceiverMachine

CONSTANTS
  Payloads,   (* the packets that may be sent, as sequences of bytes     *)
  Noisy,      (* bound: those whose frames may be spoiled or stand in a row *)
  NFrames,    (* bound: frames written                                   *)
  MaxNoise,   (* bound: frames the line spoils                           *)
  NoiseBytes, (* what a garbled or inserted byte may become              *)
  Garbage,    (* what uninitialised memory may hold                      *)
  Pauses,     (* a read may time out inside a frame                      *)
  FrameCap    (* bound: bytes collected by timed-out reads               *)

ASSUME InformationAssumption ==
  /\ \A p \in Payloads : p \in Seq(Byte) /\ Len(p) >= 2
  /\ Noisy \subseteq Payloads
  /\ NFrames \in Nat
  /\ MaxNoise \in Nat
  /\ NoiseBytes \subseteq Byte
  /\ Garbage \subseteq Byte /\ Garbage # {}
  /\ Pauses \in BOOLEAN
  /\ FrameCap \in Nat

VARIABLES
  wire,      (* bytes written and not yet read                          *)
  packet,    (* the packet of the last frame written                    *)
  spoiled,   (* the line has spoiled that frame                         *)
  written,   (* frames written                                          *)
  noise,     (* frames spoiled                                          *)
  machine,   (* the machine of the current llread                       *)
  byte,      (* frame[0], the byte read last                            *)
  returned,  (* packets llread has returned since that frame was written *)
  answers,   (* the answers sent                                        *)
  missed     (* whole frames in a row that were not returned            *)

infoVars == <<wire, packet, spoiled, written, noise, machine, byte, returned, answers, missed>>

TypeOK ==
  /\ wire \in Seq(Byte)
  /\ packet \in Payloads \cup {<<>>}
  /\ spoiled \in BOOLEAN
  /\ written \in 0 .. NFrames
  /\ noise \in 0 .. MaxNoise
  /\ machine \in Machine
  /\ byte \in Byte
  /\ returned \in Seq(Seq(Byte))
  /\ answers \in Seq({"RR", "REJ"})
  /\ missed \in Nat

Init ==
  /\ wire = <<>>
  /\ packet = <<>>
  /\ spoiled = FALSE
  /\ written = 0
  /\ noise = 0
  /\ \E b \in Garbage : machine = newReceiverStateMachine(b)
  /\ byte \in Garbage
  /\ returned = <<>>
  /\ answers = <<>>
  /\ missed = 0

(* The frame on the wire has been read whole and was not returned.         *)
Missed == written > 0 /\ ~spoiled /\ returned # <<packet>>

(* llwrite writes the frame of a packet.                                   *)
Write(data) ==
  /\ wire = <<>>
  /\ written < NFrames
  /\ written = 0 \/ {packet, data} \subseteq Noisy
  /\ packet' = data
  /\ written' = written + 1
  /\ returned' = <<>>
  /\ missed' = IF Missed THEN missed + 1 ELSE 0
  /\ \/ /\ wire' = InformationFrame(data)
        /\ spoiled' = FALSE
        /\ UNCHANGED noise
     \/ /\ noise < MaxNoise /\ data \in Noisy
        /\ wire' \in Spoilt(InformationFrame(data), NoiseBytes) \ {InformationFrame(data)}
        /\ spoiled' = TRUE
        /\ noise' = noise + 1
  /\ UNCHANGED <<machine, byte, answers>>

-----------------------------------------------------------------------------
(* llread returns, and readDataPackets calls it again: a new machine and a *)
(* new variable frame, neither of them initialised.                        *)
CallAgain(b) ==
  /\ \E g \in Garbage : machine' = newReceiverStateMachine(g)
  /\ byte' \in Garbage \cup {b}

Answer(k) == answers' = Append(answers, k)

(* llread feeds the machine with the byte b.                               *)
Continue(r, b) ==
  /\ r.state \notin {"FINAL", "ERROR"}
  /\ machine' = r
  /\ byte' = b
  /\ UNCHANGED <<returned, answers>>

HeaderError(r, b) ==
  /\ r.state = "ERROR"
  /\ CallAgain(b)
  /\ UNCHANGED <<returned, answers>>

Reject(r, b) ==
  /\ r.state = "FINAL"
  /\ getSentBCC2(r) # getCalculatedBCC2(r)
  /\ Answer("REJ")
  /\ CallAgain(b)
  /\ UNCHANGED returned

Accept(r, b) ==
  /\ r.state = "FINAL"
  /\ getSentBCC2(r) = getCalculatedBCC2(r)
  /\ Answer("RR")
  /\ returned' = Append(returned, getDataFrame(r))
  /\ CallAgain(b)

(* Mutant of Feed: a header error ends the frame but not the machine.      *)
FeedKeepsMachine(b) ==
  LET r == interpretChar(machine, b)
  IN  \/ Continue(r, b)
      \/ Reject(r, b)
      \/ Accept(r, b)
      \/ /\ r.state = "ERROR"
         /\ machine' = r
         /\ byte' = b
         /\ UNCHANGED <<returned, answers>>

Feed(b) ==
  LET r == interpretChar(machine, b)
  IN  Continue(r, b) \/ HeaderError(r, b) \/ Reject(r, b) \/ Accept(r, b)

ReadByte ==
  /\ wire # <<>>
  /\ wire' = Tail(wire)
  /\ Feed(Head(wire))
  /\ UNCHANGED <<packet, spoiled, written, noise, missed>>

ReadTimeout ==
  /\ Pauses \/ wire = <<>>
  /\ Len(machine.frame) < FrameCap
  /\ Feed(byte)
  /\ UNCHANGED <<wire, packet, spoiled, written, noise, missed>>

Next == (\E data \in Payloads : Write(data)) \/ ReadByte \/ ReadTimeout

Spec == Init /\ [][Next]_infoVars

-----------------------------------------------------------------------------
FrameRead == wire = <<>> /\ written > 0

(* Stuffing, checksum and uninitialised memory are transparent: on a line  *)
(* without noise every frame is answered by one RR and returned as it was  *)
(* sent, whatever bytes it is made of.                                     *)
Transparent ==
  FrameRead /\ noise = 0 =>
    returned = <<packet>> /\ answers = [i \in 1 .. written |-> "RR"]

(* The checksum in the machine is the checksum of the frame but for its    *)
(* last two bytes, as long as the stuffing is regular.                     *)
ChecksumFollows ==
  noise = 0 /\ machine.state = "COLLECTING" /\ Len(machine.frame) >= 3
    => machine.bcc2 = getBCC2(SubSeq(machine.frame, 1, Len(machine.frame) - 2))

(* A spoiled byte costs at most one whole frame after the spoiled one: the *)
(* flags bring llread back in step.                                        *)
BackInStep == missed + (IF FrameRead /\ Missed THEN 1 ELSE 0) <= 1

(* No frame is answered twice, although a lost closing flag delays an      *)
(* answer into the next frame: llwrite would take a second RR for the      *)
(* answer to the next packet.                                              *)
OneAnswer == Len(answers) <= written

(* The inter-character timer is unused: how long the bytes of a frame take *)
(* does not matter.                                                        *)
PausesHarmless == FrameRead /\ noise = 0 => returned = <<packet>>

=============================================================================
