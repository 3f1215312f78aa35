------------------------------ MODULE Framing ------------------------------
(***************************************************************************)
(* The bytes of the frames of Project1: their values, their checksum, byte *)
(* stuffing, and the frames both programs write.  A byte is the set of its *)
(* bits that are one, so exclusive or is the symmetric difference.         *)
(***************************************************************************)
EXTENDS Naturals, Sequences

Bit == 0 .. 7
Byte == SUBSET Bit
Xor(a, b) == (a \ b) \cup (b \ a)

FLAG == {1, 2, 3, 4, 5, 6}      (* 0x7E *)
ESCAPE == {0, 2, 3, 4, 5, 6}    (* 0x7D *)
FlagMark == {1, 2, 3, 4, 6}     (* 0x5E *)
EscapeMark == {0, 2, 3, 4, 6}   (* 0x5D *)
Zero == {}

(* Address bytes.                                                          *)
AE == {0, 1}                    (* 0x03 *)
AR == {0}                       (* 0x01 *)

(* Control bytes.  CFlag stays 0, so only these answers are ever sent.     *)
SET == {0, 1}                   (* 0x03 *)
DISC == {0, 1, 3}               (* 0x0B *)
UA == {0, 1, 2}                 (* 0x07 *)
RR1 == {0, 2, 7}                (* 0x85 *)
REJ1 == {0, 7}                  (* 0x81 *)
CI == {}                        (* 0x00 *)

Control == {SET, DISC, UA, RR1, REJ1}

-----------------------------------------------------------------------------
(* The exclusive or of all bytes, from the first on.                       *)
getBCC2(buffer) ==
  LET bcc2[i \in 1 .. Len(buffer)] ==
        IF i = 1 THEN buffer[1] ELSE Xor(bcc2[i - 1], buffer[i])
  IN  bcc2[Len(buffer)]

Stuffed(b) == CASE b = FLAG   -> <<ESCAPE, FlagMark>>
                [] b = ESCAPE -> <<ESCAPE, EscapeMark>>
                [] OTHER      -> <<b>>

getStuffedData(buffer) ==
  LET stuffed[i \in 0 .. Len(buffer)] ==
        IF i = 0 THEN <<>> ELSE stuffed[i - 1] \o Stuffed(buffer[i])
  IN  stuffed[Len(buffer)]

(* Mutant of InformationFrame: BCC2 is appended unstuffed.                 *)
InformationFrameBareBCC2(data) ==
  <<FLAG, AE, CI, Xor(AE, CI)>> \o getStuffedData(data) \o <<getBCC2(data), FLAG>>

(* The frame llwrite builds around the bytes of a packet.                  *)
InformationFrame(data) ==
  <<FLAG, AE, CI, Xor(AE, CI)>>
     \o getStuffedData(Append(data, getBCC2(data)))
     \o <<FLAG>>

(* The address byte of a supervision frame is that of its command: a       *)
(* command carries its writer's, an answer the other's.                    *)
Address(writer, control) ==
  IF (writer = "transmitter") = (control \in {SET, DISC}) THEN AE ELSE AR

SupervisionFrame(writer, control) ==
  LET a == Address(writer, control)
  IN  <<FLAG, a, control, Xor(a, control), FLAG>>

-----------------------------------------------------------------------------
(* The ways a line spoils a byte of a frame: it is lost, it becomes        *)
(* another, another comes before it.                                       *)
Without(f, i) == [j \in 1 .. Len(f) - 1 |-> IF j < i THEN f[j] ELSE f[j + 1]]
With(f, i, b) ==
  [j \in 1 .. Len(f) + 1 |-> IF j < i THEN f[j] ELSE IF j = i THEN b ELSE f[j - 1]]

(* The frames with one byte wrong; noise are the bytes that come instead.  *)
Spoilt(f, noise) ==
  {Without(f, i) : i \in DOMAIN f}
    \cup {[f EXCEPT ![i] = b] : i \in DOMAIN f, b \in noise}
    \cup {With(f, i, b) : i \in DOMAIN f, b \in noise}

=============================================================================
