----------------------------- MODULE SerialLine -----------------------------
(***************************************************************************)
(* The serial line between the two computers, seen as two FIFO lines of    *)
(* link-layer frames.  A frame is appended when a process writes it and    *)
(* leaves when the other one has read its last byte.                       *)
(*                                                                         *)
(* The line may spoil a frame.  Byte noise shows at frame level in three   *)
(* ways: the frame is not recognised at all (lost, header damaged, frame   *)
(* too short), an information frame is collected but its BCC2 is wrong     *)
(* ("dam"), or its closing flag is missing, so that the receiver goes on   *)
(* collecting into the next frame ("open").                                *)
(***************************************************************************)
EXTENDS Naturals, Sequences

CONSTANTS
  NPackets,   (* data packets the file is cut into                  *)
  LineCap,    (* frames one direction holds, sent but not yet read   *)
  MaxFaults,  (* bound: frames the line may spoil in a behaviour    *)
  Faulty      (* the kinds of frame the line may spoil              *)

Kind == {"SET", "UA", "DISC", "RR", "REJ", "I"}

ASSUME LineAssumption ==
  /\ NPackets \in Nat
  /\ LineCap \in Nat \ {0}
  /\ MaxFaults \in Nat
  /\ Faulty \subseteq Kind

VARIABLES
  toRx,     (* frames written by the transmitter, oldest first *)
  toTx,     (* frames written by the receiver, oldest first    *)
  faults    (* how many frames were spoiled so far             *)

lineVars == <<toRx, toTx, faults>>

(* The packets of a transfer: start, data, end.                            *)
StartPacket == 0
DataPacket == 1 .. NPackets
EndPacket == NPackets + 1
Packet == 0 .. EndPacket

(* A frame: its kind, the packet an information frame carries (0 in the    *)
(* others), its quality.                                                   *)
Frame == [kind : Kind, n : Packet, q : {"ok", "dam", "open"}]

Supervision(k) == [kind |-> k, n |-> 0, q |-> "ok"]
Information(i) == [kind |-> "I", n |-> i, q |-> "ok"]

(* The spoiled frames are counted apart: those of a kind that is written   *)
(* again until it is answered, and the commands and the RR.                *)
Again == {"I", "REJ"}
Spoiled == {g \in [again : Nat, once : Nat] : g.again + g.once <= MaxFaults}

LineTypeOK ==
  /\ toRx \in Seq(Frame) /\ Len(toRx) <= LineCap
  /\ toTx \in Seq(Frame) /\ Len(toTx) <= LineCap
  /\ faults \in Spoiled

LineInit ==
  /\ toRx = <<>>
  /\ toTx = <<>>
  /\ faults = [again |-> 0, once |-> 0]

CanSpoil(f) == faults.again + faults.once < MaxFaults /\ f.kind \in Faulty
Spoil(f) ==
  faults' = IF f.kind \in Again THEN [faults EXCEPT !.again = @ + 1]
            ELSE [faults EXCEPT !.once = @ + 1]

(* One write_frame to the line l: the frame goes through, is lost, or (an  *)
(* information frame) goes through spoiled.  The port has no flow control: *)
(* a frame that finds the line full is lost too.                           *)
WriteTo(l, f, lNext) ==
  \/ /\ Len(l) < LineCap
     /\ lNext = Append(l, f)
     /\ faults' = faults
  \/ /\ Len(l) = LineCap
     /\ lNext = l
     /\ faults' = faults
  \/ /\ CanSpoil(f)
     /\ lNext = l
     /\ Spoil(f)
  \/ /\ CanSpoil(f)
     /\ f.kind = "I"
     /\ Len(l) < LineCap
     /\ \E q \in {"dam", "open"} : lNext = Append(l, [f EXCEPT !.q = q])
     /\ Spoil(f)

WriteToRx(f) == WriteTo(toRx, f, toRx')
WriteToTx(f) == WriteTo(toTx, f, toTx')

=============================================================================
