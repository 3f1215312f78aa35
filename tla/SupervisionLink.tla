--------------------------- MODULE SupervisionLink ---------------------------
(***************************************************************************)
(* Supervision frames byte by byte: sendSupervisionFrame on one side, the  *)
(* machines of StateMachine.c on the other.  A call that waits feeds every *)
(* byte to one machine per frame it waits for: llopen and llclose to one,  *)
(* llwrite to one for RR and one for REJ.                                  *)
(*                                                                         *)
(* A read may time out between any two bytes and then returns none.        *)
(* waitForData has zeroed its buffer and feeds the zero; llwrite feeds the *)
(* byte it read before.                                                    *)
(*                                                                         *)
(* A frame is written when the one before has been read, as in             *)
(* InformationLink.                                                        *)
(***************************************************************************)
EXTENDS Framing

CONSTANTS
  Callers,    (* the waiting calls to look at                            *)
  NFrames,    (* bound: frames written                                   *)
  MaxNoise,   (* bound: frames the line spoils                           *)
  NoiseBytes, (* what a garbled or inserted byte may become              *)
  Garbage,    (* what uninitialised memory may hold                      *)
  OtherFrames (* information frames that reach a waiting receiver        *)

Caller == {"llwrite", "txOpen", "txClose", "rxOpen", "rxDisc", "rxUa"}

ASSUME SupervisionAssumption ==
  /\ Callers \subseteq Caller
  /\ NFrames \in Nat
  /\ MaxNoise \in Nat
  /\ NoiseBytes \subseteq Byte
  /\ Garbage \subseteq Byte
  /\ \A f \in OtherFrames : f \in Seq(Byte) /\ f # <<>> /\ f[Len(f)] = FLAG

VARIABLES
  caller,   (* the call that waits                                        *)
  wire,     (* bytes written and not yet read                             *)
  control,  (* the control byte of the last frame written                 *)
  broken,   (* history: the line has spoiled that frame, or a pause or a  *)
            (* resend has broken into it                                  *)
  before,   (* the control byte of the frame before                       *)
  written,  (* frames written                                             *)
  noise,    (* frames the line has spoiled                                *)
  state,    (* the state of each machine, by the control byte it awaits   *)
  byte,     (* bytesStream[0]                                             *)
  last,     (* history: the five bytes fed last, the latest first         *)
  heard,    (* the control bytes of the frames taken since the last frame *)
            (* was written                                                *)
  missed    (* history: unbroken awaited frames in a row that were not    *)
            (* taken                                                      *)

supVars == <<caller, wire, control, broken, before, written, noise, state, byte, last,
             heard, missed>>

States == {"START", "FLAG", "A", "C", "BCC", "FINAL"}

Reader(c) == IF c \in {"llwrite", "txOpen", "txClose"} THEN "transmitter" ELSE "receiver"
Writer(c) == IF Reader(c) = "transmitter" THEN "receiver" ELSE "transmitter"

Awaited(c) == CASE c = "llwrite"            -> {RR1, REJ1}
                [] c \in {"txOpen", "rxOpen"}  -> {SET}
                [] c \in {"txClose", "rxDisc"} -> {DISC}
                [] OTHER                    -> {UA}

(* The frames a side writes.                                               *)
Writes(w) == IF w = "transmitter" THEN {SET, DISC, UA} ELSE {SET, DISC, RR1, REJ1}

NoControl == {1}

TypeOK ==
  /\ caller \in Callers
  /\ wire \in Seq(Byte)
  /\ control \in Control \cup {CI, NoControl}
  /\ before \in Control \cup {CI, NoControl}
  /\ broken \in BOOLEAN
  /\ written \in 0 .. NFrames
  /\ noise \in 0 .. MaxNoise
  /\ state \in [Awaited(caller) -> States]
  /\ byte \in Byte
  /\ last \in [1 .. 5 -> Byte]
  /\ heard \in SUBSET Control
  /\ missed \in Nat

(* newStateMachine                                                         *)
expectedAbyte(reader, k) ==
  IF (reader = "transmitter") = (k \in {SET, DISC}) THEN AR ELSE AE

(* Mutant of Fresh: llwrite makes no machine for REJ.                      *)
FreshNoRej == [k \in Awaited(caller) \ {REJ1} |-> "START"]

(* The machines of a new wait.                                             *)
Fresh == [k \in Awaited(caller) |-> "START"]
NoBytes == [i \in 1 .. 5 |-> Zero]

Init ==
  /\ caller \in Callers
  /\ wire = <<>>
  /\ control = NoControl
  /\ before = NoControl
  /\ broken = FALSE
  /\ written = 0
  /\ noise = 0
  /\ state = Fresh
  /\ byte \in Garbage
  /\ last = NoBytes
  /\ heard = {}
  /\ missed = 0

-----------------------------------------------------------------------------
Missed == control \in Awaited(caller) /\ ~broken /\ control \notin heard

PutOnWire(f, k) ==
  /\ wire = <<>>
  /\ written < NFrames
  /\ written' = written + 1
  /\ control' = k
  /\ before' = control
  /\ heard' = {}
  /\ missed' = IF broken \/ control \in heard THEN 0
               ELSE IF Missed THEN missed + 1 ELSE missed
  /\ \/ wire' = f /\ broken' = FALSE /\ UNCHANGED noise
     \/ /\ noise < MaxNoise
        /\ wire' \in Spoilt(f, NoiseBytes) \ {f}
        /\ broken' = TRUE
        /\ noise' = noise + 1
  /\ UNCHANGED <<caller, state, byte, last>>

(* sendSupervisionFrame on the other side.                                 *)
WriteSupervision(k) == PutOnWire(SupervisionFrame(Writer(caller), k), k)

(* A transmitter that repeats an information frame.                        *)
WriteOther(f) == Writer(caller) = "transmitter" /\ PutOnWire(f, CI)

-----------------------------------------------------------------------------
(* Mutants of interpretSignal: the check byte is not compared; a flag      *)
(* after a flag starts the machine over.                                   *)
interpretSignalNoBCC(st, a, k, s) ==
  CASE st = "START" /\ s = FLAG      -> "FLAG"
    [] st = "FLAG" /\ s = a          -> "A"
    [] st = "FLAG" /\ s = FLAG       -> "FLAG"
    [] st = "A" /\ s = k             -> "C"
    [] st = "A" /\ s = FLAG          -> "FLAG"
    [] st = "C"                      -> "BCC"
    [] st = "BCC" /\ s = FLAG        -> "FINAL"
    [] OTHER                        -> "START"

interpretSignalOneFlag(st, a, k, s) ==
  CASE st = "START" /\ s = FLAG      -> "FLAG"
    [] st = "FLAG" /\ s = a          -> "A"
    [] st = "A" /\ s = k             -> "C"
    [] st = "C" /\ s = Xor(a, k)     -> "BCC"
    [] st = "BCC" /\ s = FLAG        -> "FINAL"
    [] OTHER                        -> "START"

(* One machine, one byte; a is the expected address, k the control byte.   *)
(* Any byte but the awaited one starts the machine over, but a flag after  *)
(* a flag or an address counts as a flag.  Read after FINAL, START.        *)
interpretSignal(st, a, k, s) ==
  CASE st = "START" /\ s = FLAG      -> "FLAG"
    [] st = "FLAG" /\ s = a          -> "A"
    [] st = "FLAG" /\ s = FLAG       -> "FLAG"
    [] st = "A" /\ s = k             -> "C"
    [] st = "A" /\ s = FLAG          -> "FLAG"
    [] st = "C" /\ s = Xor(a, k)     -> "BCC"
    [] st = "BCC" /\ s = FLAG        -> "FINAL"
    [] OTHER                        -> "START"

Interpreted(s) ==
  [k \in Awaited(caller) |-> interpretSignal(state[k], expectedAbyte(Reader(caller), k), k, s)]

Remember(s) == last' = [i \in 1 .. 5 |-> IF i = 1 THEN s ELSE last[i - 1]]

(* A machine that waits goes on with the next byte; when one is FINAL the  *)
(* call returns or, after REJ, llwrite writes its frame again and starts   *)
(* both machines over.  The next llwrite has a new bytesStream.            *)
Final == {k \in Awaited(caller) : state[k] = "FINAL"}

Feed(s) ==
  /\ Final = {}
  /\ state' = Interpreted(s)
  /\ byte' = s
  /\ Remember(s)
  /\ heard' = heard \cup {k \in Awaited(caller) : state'[k] = "FINAL"}
  /\ UNCHANGED <<caller, control, before, written, noise, missed>>

ReadByte ==
  /\ wire # <<>>
  /\ wire' = Tail(wire)
  /\ Feed(Head(wire))
  /\ UNCHANGED broken

(* A pause, which breaks into the frame whose bytes are still to come.  (A *)
(* pause before its first byte does what one before the frame does.)       *)
ReadTimeout ==
  /\ Feed(IF caller = "llwrite" THEN byte ELSE Zero)
  /\ broken' = (broken \/ wire # <<>>)
  /\ UNCHANGED wire

(* llwrite goes on: with the same frame after REJ, the next one after RR.  *)
NextFrame ==
  /\ caller = "llwrite"
  /\ Final # {}
  /\ state' = Fresh
  /\ last' = NoBytes
  /\ byte' \in IF RR1 \in Final THEN Garbage \cup {byte} ELSE {byte}
  /\ UNCHANGED <<caller, wire, control, broken, before, written, noise, heard, missed>>

(* The alarm has expired: llwrite writes its frame again and starts both   *)
(* machines over, also in the middle of an answer.                         *)
Resend ==
  /\ caller = "llwrite"
  /\ Final = {}
  /\ state' = Fresh
  /\ last' = NoBytes
  /\ broken' = (broken \/ wire # <<>>)
  /\ UNCHANGED <<caller, wire, control, before, written, noise, byte, heard, missed>>

Next ==
  \/ \E k \in Writes(Writer(caller)) : WriteSupervision(k)
  \/ \E f \in OtherFrames : WriteOther(f)
  \/ ReadByte
  \/ ReadTimeout
  \/ NextFrame
  \/ Resend

Spec == Init /\ [][Next]_supVars

-----------------------------------------------------------------------------
(* A call takes a frame only when the last five bytes it fed are exactly   *)
(* that frame, from the other side: nothing shorter, and no byte between   *)
(* them that a pause has fed.                                              *)
HeardExactly ==
  \A k \in Final :
    LET a == expectedAbyte(Reader(caller), k)
    IN  last = <<FLAG, Xor(a, k), k, a, FLAG>>

(* No frame is taken for another, though one byte of each may be wrong and *)
(* reads time out between any two bytes: what was heard is the frame on    *)
(* the wire or, its closing flag lost, the one before.                     *)
NothingInvented == heard \subseteq {control, before}

(* What NothingInvented asks of the information frames that reach a        *)
(* waiting receiver: with one byte wrong they hold, after a flag or at     *)
(* their start, nothing that could become the rest of a supervision frame  *)
(* with address a and control k.  A check byte that is zero may be missing *)
(* there, as a pause supplies it.  Some packets do not allow it:           *)
(* <<Zero, AE, DISC>> with a flag before AE holds DISC.                    *)
Rests(a, k) ==
  {<<a, k, Xor(a, k), FLAG>>} \cup IF Xor(a, k) = Zero THEN {<<a, k, FLAG>>} ELSE {}

Follows(w, i, rest) == \A j \in 1 .. Len(rest) : i + j <= Len(w) => w[i + j] = rest[j]

Clear(w, a, k) ==
  /\ Len(w) >= 4
  /\ \A i \in 0 .. Len(w) - 1 :
       i = 0 \/ w[i] = FLAG => \A rest \in Rests(a, k) : ~Follows(w, i, rest)

Harmless(f) ==
  \A w \in Spoilt(f, NoiseBytes) \cup {f}, k \in Control :
    Clear(w, expectedAbyte("receiver", k), k)

(* Without noise every awaited frame that was read with no pause and no    *)
(* resend inside it has been taken, whatever was read before it: a pause   *)
(* or a resend inside a frame costs no other frame.                        *)
NothingMissed == wire = <<>> /\ noise = 0 => ~Missed

(* With noise, broken frames, however many and however broken, cost at     *)
(* most one unbroken awaited frame after them.                             *)
BackInStep == missed + (IF wire = <<>> /\ Missed THEN 1 ELSE 0) <= 1

=============================================================================
