------------------------------- MODULE Packets -------------------------------
(***************************************************************************)
(* The packets of the application layer and the numbers in them.  A byte   *)
(* has Base values, an int 2 * HalfRange, the off_t of a file size         *)
(* SizeDigits bytes.  The bytes of a file are named by their places in it. *)
(***************************************************************************)
EXTENDS Integers, Sequences, FiniteSetsExt

CONSTANTS
  Base,        (* values of a byte: 256                       *)
  IntDigits,   (* bytes of an int: 4                          *)
  SizeDigits   (* bytes of an off_t: 8                        *)

HalfRange == Base ^ IntDigits \div 2

ASSUME PacketAssumption ==
  /\ Base \in Nat /\ Base > 1 /\ Base % 2 = 0
  /\ IntDigits \in Nat /\ IntDigits > 2
  /\ SizeDigits \in Nat /\ SizeDigits >= IntDigits
  /\ HalfRange \in Nat /\ HalfRange >= Base * Base
  /\ \A i \in 0 .. SizeDigits : Base ^ i \in Nat /\ Base ^ i > 0
  /\ Base ^ 0 = 1 /\ \A i \in 0 .. SizeDigits - 1 : Base ^ (i + 1) = Base * Base ^ i

Byte == 0 .. Base - 1
IntValue == -HalfRange .. HalfRange - 1

(* A number cut down to an int, which wraps around as gcc builds it.       *)
ToInt(n) == ((n + HalfRange) % (2 * HalfRange)) - HalfRange

(* memcpy(&controlStart[3], &sizeOfFile, sizeof(off_t)): least byte first. *)
SizeField(n) == [i \in 0 .. SizeDigits - 1 |-> (n \div Base ^ i) % Base]

(* fileSize |= buffer[10-k] << 8*(7-k): the shift is one of an int.  A byte *)
(* that is shifted past the int leaves there what the processor makes of   *)
(* it; a zero stays zero.                                                  *)
Low(f) ==
  LET sum[k \in 0 .. IntDigits] == IF k = 0 THEN 0 ELSE sum[k - 1] + f[k - 1] * Base ^ (k - 1)
  IN  sum[IntDigits]

(* Mutant of Assembled: the least byte is shifted too.                     *)
AssembledShifted(f) ==
  {n \in IntValue :
     (\A i \in IntDigits .. SizeDigits - 1 : f[i] = 0) => n = ToInt(Base * Low(f))}

Assembled(f) ==
  {n \in IntValue :
     (\A i \in IntDigits .. SizeDigits - 1 : f[i] = 0) => n = ToInt(Low(f))}

(* The length of the data in two bytes, and read again.                    *)
L2(k) == (k \div Base) % Base
L1OneShort(k) == k % (Base - 1)   (* mutant of L1 *)
L1(k) == k % Base
LengthOf(p) == Base * p.l2 + p.l1

(* The places from + 1 to from + k.                                        *)
Bytes(from, k) == [i \in 1 .. k |-> from + i]

NoPacket == [c |-> "none"]
Start(size) == [c |-> "start", size |-> SizeField(size)]
Data(n, from, k) == [c |-> "data", seq |-> n, l2 |-> L2(k), l1 |-> L1(k), bytes |-> Bytes(from, k)]
End == [c |-> "end"]

(* What readDataPackets makes of a frame that llread did not accept.       *)
Damaged == [c |-> "error"]

(* A quotient cut down towards zero.                                       *)
Abs(n) == IF n < 0 THEN -n ELSE n
Quotient(a, b) ==
  IF (a < 0) = (b < 0) THEN Abs(a) \div Abs(b) ELSE -(Abs(a) \div Abs(b))

(* The characters that progressBar prints for its bar.  An empty file      *)
(* makes it divide 0 by 0; the quotient becomes the least int there is     *)
(* (on x86) and half of it blanks.                                         *)
Endless == 51 + 2 ^ 30
Columns(fileSize, done) ==
  LET share == IF fileSize = 0 THEN 0 ELSE Quotient(100 * done, fileSize)
      length == Quotient(share, 2)
  IN  CASE fileSize = 0 -> Endless
        [] length > 50  -> length
        [] length <= 50 -> 51 - length + (IF length > 0 THEN length - 1 ELSE 0)

=============================================================================
