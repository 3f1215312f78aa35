----------------------------- MODULE Transmitter -----------------------------
(***************************************************************************)
(* The transmitting process of Project1/app.c: main runs llopen, then one  *)
(* llwrite per packet (start, data 1..NPackets, end), then llclose.  All   *)
(* three are the same loop around a flag and a SIGALRM handler:            *)
(*                                                                         *)
(*   "while"  the loop condition (the tries, in llopen and llclose)        *)
(*   "flag"   if getFlag() = 0, write the frame                            *)
(*   "arm"    alarm(getTimeout())                                          *)
(*   "set"    setFlag(1)                                                   *)
(*   "read"   read one byte and feed the answer detectors                  *)
(*                                                                         *)
(* The handler atende may run between any two of these steps.              *)
(***************************************************************************)
EXTENDS SerialLine

CONSTANTS
  MaxTries,   (* numTransformations, the tries the user typed            *)
  Timeout,    (* the timeout in seconds the user typed; alarm(0) is off  *)
  TriesWrap   (* the range of the unsigned short tries: 65536            *)

ASSUME TxAssumption ==
  /\ MaxTries \in Nat
  /\ Timeout \in Nat
  /\ TriesWrap \in Nat /\ TriesWrap > MaxTries + 1

VARIABLES
  txPhase,  (* the call the process is in, or how it ended               *)
  txPc,     (* where in the loop it is                                   *)
  cur,      (* the packet llwrite is sending                             *)
  flag,     (* linkL->flag                                               *)
  tries,    (* linkL->tries                                              *)
  armed,    (* an alarm is pending                                       *)
  sent      (* history: commands written by the current llopen/llclose   *)

txVars == <<txPhase, txPc, cur, flag, tries, armed, sent>>

Looping == {"open", "write", "close"}
TxPhase == Looping \cup {"failed", "closed", "gaveUp"}

TxTypeOK ==
  /\ txPhase \in TxPhase
  /\ txPc \in {"while", "flag", "arm", "set", "read"}
  /\ cur \in Packet
  /\ flag \in {0, 1}
  /\ tries \in 0 .. TriesWrap - 1
  /\ armed \in BOOLEAN
  /\ sent \in Nat

TxInit ==
  /\ txPhase = "open"
  /\ txPc = "while"
  /\ cur = StartPacket
  /\ flag = 0
  /\ tries = 0
  /\ armed = FALSE
  /\ sent = 0

(* Mutant of Command: the end packet is sent with the control byte START_C.*)
CommandEndAsStart ==
  CASE txPhase = "open"  -> Supervision("SET")
    [] txPhase = "write" -> Information(IF cur = EndPacket THEN StartPacket ELSE cur)
    [] txPhase = "close" -> Supervision("DISC")
    [] OTHER             -> Supervision("UA")

(* What the current call writes, and the answer it waits for.  The         *)
(* receiver acknowledges SET with SET.                                     *)
Command == CASE txPhase = "open"  -> Supervision("SET")
             [] txPhase = "write" -> Information(cur)
             [] txPhase = "close" -> Supervision("DISC")
             [] OTHER             -> Supervision("UA")
Awaited == CASE txPhase = "open"  -> "SET"
             [] txPhase = "write" -> "RR"
             [] txPhase = "close" -> "DISC"
             [] OTHER             -> "UA"

At(pc) == txPhase \in Looping /\ txPc = pc
Goto(pc) == txPc' = pc

-----------------------------------------------------------------------------
(* The loop condition: llopen and llclose give up when tries is used up,   *)
(* llwrite has no limit.                                                   *)
TxTryAgain ==
  /\ At("while")
  /\ txPhase \in {"open", "close"} => tries < MaxTries
  /\ Goto("flag")
  /\ UNCHANGED <<txPhase, cur, flag, tries, armed, sent, lineVars>>

TxGiveUp ==
  /\ At("while")
  /\ txPhase \in {"open", "close"}
  /\ tries >= MaxTries
  /\ txPhase' = IF txPhase = "open" THEN "failed" ELSE "gaveUp"
  /\ UNCHANGED <<txPc, cur, flag, tries, armed, sent, lineVars>>

(* Mutant of TxSend: the frame is written in every round of the loop.      *)
TxSendEveryRound ==
  /\ At("flag")
  /\ WriteToRx(Command)
  /\ sent' = IF txPhase = "write" THEN sent ELSE sent + 1
  /\ Goto("arm")
  /\ UNCHANGED <<txPhase, cur, flag, tries, armed, toTx>>

TxSend ==
  /\ At("flag")
  /\ flag = 0
  /\ WriteToRx(Command)
  /\ sent' = IF txPhase = "write" THEN sent ELSE sent + 1
  /\ Goto("arm")
  /\ UNCHANGED <<txPhase, cur, flag, tries, armed, toTx>>

TxSkipSend ==
  /\ At("flag")
  /\ flag = 1
  /\ Goto("read")
  /\ UNCHANGED <<txPhase, cur, flag, tries, armed, sent, lineVars>>

TxArm ==
  /\ At("arm")
  /\ armed' = (Timeout > 0)
  /\ Goto("set")
  /\ UNCHANGED <<txPhase, cur, flag, tries, sent, lineVars>>

TxSetFlag ==
  /\ At("set")
  /\ flag' = 1
  /\ Goto("read")
  /\ UNCHANGED <<txPhase, cur, tries, armed, sent, lineVars>>

(* A read that completes no frame: back to the loop condition.             *)
TxPoll ==
  /\ At("read")
  /\ Goto("while")
  /\ UNCHANGED <<txPhase, cur, flag, tries, armed, sent, lineVars>>

-----------------------------------------------------------------------------
(* A read that completes a frame.                                          *)
TxTakes(k) ==
  /\ At("read")
  /\ toTx # <<>>
  /\ Head(toTx).kind = k
  /\ toTx' = Tail(toTx)

(* llopen returns TRUE; sendFile calls llwrite with the start packet.      *)
TxOpened ==
  /\ txPhase = "open"
  /\ TxTakes("SET")
  /\ txPhase' = "write"
  /\ cur' = StartPacket
  /\ flag' = 0
  /\ armed' = FALSE
  /\ Goto("while")
  /\ UNCHANGED <<tries, sent, toRx, faults>>

(* Mutant of TxAcked: llwrite starts without setFlag(0).                   *)
TxAckedFlagKept ==
  /\ txPhase = "write"
  /\ TxTakes("RR")
  /\ armed' = FALSE
  /\ Goto("while")
  /\ IF cur < EndPacket
     THEN cur' = cur + 1 /\ UNCHANGED <<txPhase, tries, sent>>
     ELSE txPhase' = "close" /\ tries' = 0 /\ sent' = 0 /\ UNCHANGED cur
  /\ UNCHANGED <<flag, toRx, faults>>

(* llwrite returns; the next packet, or llclose with fresh tries.          *)
TxAcked ==
  /\ txPhase = "write"
  /\ TxTakes("RR")
  /\ flag' = 0
  /\ armed' = FALSE
  /\ Goto("while")
  /\ IF cur < EndPacket
     THEN cur' = cur + 1 /\ UNCHANGED <<txPhase, tries, sent>>
     ELSE txPhase' = "close" /\ tries' = 0 /\ sent' = 0 /\ UNCHANGED cur
  /\ UNCHANGED <<toRx, faults>>

(* llwrite writes the frame again.                                         *)
TxRejected ==
  /\ txPhase = "write"
  /\ TxTakes("REJ")
  /\ WriteToRx(Command)
  /\ Goto("arm")
  /\ UNCHANGED <<txPhase, cur, flag, tries, armed, sent>>

(* The same while the previous alarm expires inside write_frame: write     *)
(* returns a partial count and write_frame writes the whole frame again    *)
(* after it, so the frame is spoiled by its own first half.                *)
TxRejectedInterrupted ==
  /\ txPhase = "write"
  /\ TxTakes("REJ")
  /\ armed
  /\ CanSpoil(Command)
  /\ \/ toRx' = toRx
     \/ /\ Len(toRx) < LineCap
        /\ toRx' = Append(toRx, [Command EXCEPT !.q = "dam"])
  /\ Spoil(Command)
  /\ flag' = 0
  /\ tries' = (tries + 1) % TriesWrap
  /\ armed' = FALSE
  /\ Goto("arm")
  /\ UNCHANGED <<txPhase, cur, sent>>

(* llclose answers the DISC with UA and returns TRUE.                      *)
TxClosed ==
  /\ txPhase = "close"
  /\ TxTakes("DISC")
  /\ WriteToRx(Supervision("UA"))
  /\ txPhase' = "closed"
  /\ armed' = FALSE
  /\ UNCHANGED <<txPc, cur, flag, tries, sent>>

(* A frame the current detectors do not accept.                            *)
TxIgnored ==
  /\ \E k \in Kind \ ({Awaited} \cup (IF txPhase = "write" THEN {"REJ"} ELSE {})) :
       TxTakes(k)
  /\ Goto("while")
  /\ UNCHANGED <<txPhase, cur, flag, tries, armed, sent, toRx, faults>>

TxReceive ==
  \/ TxOpened
  \/ TxAcked
  \/ TxRejected
  \/ TxRejectedInterrupted
  \/ TxClosed
  \/ TxIgnored

-----------------------------------------------------------------------------
(* Mutants of TxAlarm: the tries are not counted, are counted without      *)
(* their width, or the flag is not cleared.                                *)
TxAlarmUncounted ==
  /\ armed
  /\ txPhase # "failed"
  /\ armed' = FALSE
  /\ flag' = 0
  /\ UNCHANGED <<txPhase, txPc, cur, tries, sent, lineVars>>

TxAlarmUnwrapped ==
  /\ armed
  /\ txPhase # "failed"
  /\ armed' = FALSE
  /\ flag' = 0
  /\ tries' = tries + 1
  /\ UNCHANGED <<txPhase, txPc, cur, sent, lineVars>>

TxAlarmFlagKept ==
  /\ armed
  /\ txPhase # "failed"
  /\ armed' = FALSE
  /\ tries' = (tries + 1) % TriesWrap
  /\ UNCHANGED <<txPhase, txPc, cur, flag, sent, lineVars>>

(* The SIGALRM handler atende.                                             *)
TxAlarm ==
  /\ armed
  /\ txPhase # "failed"
  /\ armed' = FALSE
  /\ flag' = 0
  /\ tries' = (tries + 1) % TriesWrap
  /\ UNCHANGED <<txPhase, txPc, cur, sent, lineVars>>

TxLoop ==
  \/ TxTryAgain
  \/ TxGiveUp
  \/ TxSend
  \/ TxSkipSend
  \/ TxArm
  \/ TxSetFlag
  \/ TxPoll

=============================================================================
