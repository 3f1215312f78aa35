----------------------------- MODULE WholeProofs -----------------------------
(***************************************************************************)
(* Proofs about Application, continued: the receiver puts the size of the  *)
(* file together rightly (SizeAnnounced), the progress bar keeps its width *)
(* (BarKept), and the output file is whole exactly when the input could be *)
(* copied (FileWhole).  IInv is inductive.                                 *)
(***************************************************************************)
EXTENDS ApplicationProofs, WellFoundedInduction

-----------------------------------------------------------------------------
(* The digits of a number.                                                 *)

(* Every set of natural numbers with an element has a least one: a proof   *)
(* for every k looks at the least k for which it fails.                    *)
LEMMA Least ==
  ASSUME NEW T, T \subseteq Nat, T # {}
  PROVE  \E x \in T : \A y \in T : x <= y
<1> DEFINE R == OpToRel(<, Nat)
<1>1. \A x, y \in Nat : y < x => <<y, x>> \in R
  BY DEF OpToRel
<1>2. IsWellFoundedOn(R, Nat)
  BY NatLessThanWellFounded, Zenon
<1> HIDE DEF R
<1>3. PICK x \in T : \A y \in T : ~(<<y, x>> \in R)
  BY <1>2, WFMin
<1>4. ASSUME NEW y \in T PROVE x <= y
  <2>1. x \in Nat /\ y \in Nat
    OBVIOUS
  <2>2. ~(y < x)
    BY <1>1, <1>3, <2>1, Zenon
  <2> QED
    BY <2>1, <2>2, SMT
<1> QED
  BY <1>4

LEMMA Powers ==
  ASSUME NEW i \in 0 .. SizeDigits
  PROVE  /\ Base ^ i \in Nat /\ Base ^ i > 0
         /\ i > 0 => Base ^ i = Base * Base ^ (i - 1)
         /\ i = 0 => Base ^ i = 1
<1>1. i > 0 => i - 1 \in 0 .. SizeDigits - 1 /\ (i - 1) + 1 = i
  BY PacketAssumption
<1>2. \A j \in 0 .. SizeDigits - 1 : Base ^ (j + 1) = Base * Base ^ j
  BY PacketAssumption
<1>3. i > 0 => Base ^ ((i - 1) + 1) = Base * Base ^ (i - 1)
  BY <1>1, <1>2
<1> QED
  BY <1>1, <1>3, PacketAssumption

(* The digits above the int are zero when the number fits below them.      *)
LEMMA PowersGrow ==
  ASSUME NEW i \in IntDigits .. SizeDigits
  PROVE  Base ^ i >= Base ^ IntDigits
<1> DEFINE Bad == {k \in IntDigits .. SizeDigits : ~(Base ^ k >= Base ^ IntDigits)}
<1>0. IntDigits \in Nat /\ SizeDigits \in Nat /\ IntDigits \in 0 .. SizeDigits
  BY PacketAssumption
<1>1. CASE Bad = {}
  BY <1>1
<1>2. CASE Bad # {}
  <2>1. PICK k \in Bad : \A j \in Bad : k <= j
    <3>1. Bad \subseteq Nat
      BY <1>0
    <3> QED
      BY <1>2, <3>1, Least
  <2>2. k \in IntDigits .. SizeDigits /\ k \in 0 .. SizeDigits /\ ~(Base ^ k >= Base ^ IntDigits)
    BY <1>0, <2>1
  <2>3. k # IntDigits
    BY <1>0, <2>2, Powers
  <2>4. k - 1 \in IntDigits .. SizeDigits /\ ~(k <= k - 1) /\ k > 0
    BY <1>0, <2>2, <2>3
  <2>5. Base ^ (k - 1) >= Base ^ IntDigits
    BY <2>1, <2>4
  <2>6. Base ^ k = Base * Base ^ (k - 1) /\ Base ^ (k - 1) \in Nat
    BY <1>0, <2>2, <2>4, Powers
  <2>7. \A b \in Nat, p \in Nat : b > 1 => b * p >= p
    OBVIOUS
  <2>8. Base ^ k >= Base ^ (k - 1)
    BY <2>6, <2>7, PacketAssumption
  <2>9. Base ^ k \in Nat /\ Base ^ IntDigits \in Nat
    BY <1>0, <2>2, Powers
  <2> QED
    BY <2>2, <2>5, <2>6, <2>8, <2>9
<1> QED
  BY <1>1, <1>2

(* One more digit.                                                         *)
LEMMA NextDigit ==
  ASSUME NEW n \in Nat, NEW b \in Nat, b > 0, NEW p \in Nat, p > 0
  PROVE  n % (b * p) = (n % p) + ((n \div p) % b) * p
<1>1. PICK q \in Int, r \in 0 .. p - 1 : n = p * q + r /\ n % p = r /\ n \div p = q
  BY DivMod
<1>2. PICK u \in Int, v \in 0 .. b - 1 : q = b * u + v /\ q % b = v
  BY DivMod
<1>3. PICK m \in Nat : m = b * p /\ m > 0
  <2>1. b * p \in Nat /\ b * p > 0
    OBVIOUS
  <2> QED
    BY <2>1
<1>4. PICK s \in Nat : s = p * v + r /\ s < m
  <2>1. v >= 0 /\ v <= b - 1 /\ p * v \in Nat
    OBVIOUS
  <2>2. p * v <= p * (b - 1) /\ p * (b - 1) = b * p - p
    OBVIOUS
  <2>3. p * v + r \in Nat /\ p * v + r < m
    BY <1>3, <2>1, <2>2
  <2> QED
    BY <2>3
<1>5. p * q = m * u + p * v
  <2>1. p * (b * u + v) = p * (b * u) + p * v /\ p * (b * u) = (b * p) * u
    OBVIOUS
  <2> QED
    BY <1>2, <1>3, <2>1
<1>6. n = m * u + s
  <2>1. m * u \in Int /\ p * v \in Int /\ p * q \in Int
    OBVIOUS
  <2> QED
    BY <1>1, <1>4, <1>5, <2>1
<1>7. n % m = s
  <2>1. s \in 0 .. m - 1
    BY <1>4
  <2> QED
    BY <1>3, <1>6, <2>1, DivUnique
<1>8. p * v = v * p
  OBVIOUS
<1>9. s = r + v * p
  <2>1. p * v \in Int
    OBVIOUS
  <2> QED
    BY <1>4, <1>8, <2>1
<1> QED
  BY <1>1, <1>2, <1>3, <1>7, <1>9

(* The size is put together from the digits that fit an int.               *)
LEMMA LowOfSize ==
  ASSUME NEW n \in Nat
  PROVE  Low(SizeField(n)) = n % Base ^ IntDigits
<1> DEFINE f == SizeField(n)
           Sums(g) == g = [k \in 0 .. IntDigits |->
                             IF k = 0 THEN 0 ELSE g[k - 1] + f[k - 1] * Base ^ (k - 1)]
           sum == CHOOSE g : Sums(g)
           right == [k \in 0 .. IntDigits |-> n % Base ^ k]
<1>0. IntDigits \in Nat /\ SizeDigits \in Nat /\ IntDigits <= SizeDigits /\ Base \in Nat /\ Base > 0
  BY PacketAssumption
<1>1. ASSUME NEW k \in 0 .. IntDigits, k > 0
      PROVE  n % Base ^ k = (n % Base ^ (k - 1)) + f[k - 1] * Base ^ (k - 1)
  <2>1. k \in 0 .. SizeDigits /\ k - 1 \in 0 .. SizeDigits /\ k - 1 \in 0 .. SizeDigits - 1
    BY <1>0, <1>1
  <2>2. PICK p \in Nat : p = Base ^ (k - 1) /\ p > 0
    BY <2>1, Powers
  <2>3. Base ^ k = Base * p
    BY <1>1, <2>1, <2>2, Powers
  <2>4. f[k - 1] = (n \div p) % Base
    BY <2>1, <2>2 DEF SizeField
  <2>5. n % (Base * p) = (n % p) + ((n \div p) % Base) * p
    BY <1>0, <2>2, NextDigit
  <2> QED
    BY <2>2, <2>3, <2>4, <2>5, Zenon
<1>2. n % Base ^ 0 = 0
  <2>1. Base ^ 0 = 1
    BY PacketAssumption
  <2> QED
    BY <2>1
<1> HIDE DEF f
<1>3. Sums(right)
  <2> DEFINE next == [k \in 0 .. IntDigits |->
                        IF k = 0 THEN 0 ELSE right[k - 1] + f[k - 1] * Base ^ (k - 1)]
  <2>1. ASSUME NEW k \in 0 .. IntDigits PROVE right[k] = next[k]
    <3>1. CASE k = 0
      BY <1>2, <3>1
    <3>2. CASE k > 0
      <4>1. k - 1 \in 0 .. IntDigits
        BY <1>0, <3>2
      <4>2. right[k - 1] = n % Base ^ (k - 1)
        BY <4>1
      <4>3. next[k] = right[k - 1] + f[k - 1] * Base ^ (k - 1)
        BY <3>2
      <4>4. right[k] = n % Base ^ k
        OBVIOUS
      <4> HIDE DEF right, next
      <4> QED
        BY <1>1, <3>2, <4>2, <4>3, <4>4, Zenon
    <3> QED
      BY <1>0, <3>1, <3>2
  <2> QED
    BY <2>1
<1> HIDE DEF right
<1>4. Sums(sum)
  BY <1>3
<1>5. Low(SizeField(n)) = sum[IntDigits]
  BY DEF Low, f
<1> HIDE DEF sum
<1>6. ASSUME NEW k \in 0 .. IntDigits PROVE sum[k] = n % Base ^ k
  <2> DEFINE Bad == {j \in 0 .. IntDigits : sum[j] # n % Base ^ j}
  <2>1. CASE Bad = {}
    BY <2>1
  <2>2. CASE Bad # {}
    <3>1. PICK j \in Bad : \A i \in Bad : j <= i
      <4>1. Bad \subseteq Nat
        BY <1>0
      <4> QED
        BY <2>2, <4>1, Least
    <3>2. j \in 0 .. IntDigits /\ sum[j] # n % Base ^ j
      BY <3>1
    <3>3. j > 0
      <4>1. j = 0 => sum[j] = 0
        BY <1>4, <3>2
      <4> QED
        BY <1>0, <1>2, <3>2, <4>1
    <3>4. j - 1 \in 0 .. IntDigits /\ ~(j <= j - 1)
      BY <1>0, <3>2, <3>3
    <3>5. sum[j - 1] = n % Base ^ (j - 1)
      BY <3>1, <3>4
    <3>6. sum[j] = sum[j - 1] + f[j - 1] * Base ^ (j - 1)
      <4>1. sum[j] = IF j = 0 THEN 0 ELSE sum[j - 1] + f[j - 1] * Base ^ (j - 1)
        BY <1>4, <3>2, Zenon
      <4>2. j # 0
        BY <1>0, <3>2, <3>3
      <4> QED
        BY <4>1, <4>2, Zenon
    <3> QED
      BY <1>1, <3>2, <3>3, <3>5, <3>6, Zenon
  <2> QED
    BY <2>1, <2>2
<1>7. IntDigits \in 0 .. IntDigits
  BY <1>0
<1> QED
  BY <1>5, <1>6, <1>7

LEMMA SizeAssembled ==
  ASSUME NEW n \in Nat, n < HalfRange, NEW m \in Assembled(SizeField(n))
  PROVE  m = n
<1>1. PICK p \in Nat : p = Base ^ IntDigits /\ p > 0 /\ n < p
  <2>1. IntDigits \in 0 .. SizeDigits
    BY PacketAssumption
  <2>2. Base ^ IntDigits \in Nat /\ Base ^ IntDigits > 0
    BY <2>1, Powers
  <2>3. \A p \in Nat : p \div 2 <= p
    OBVIOUS
  <2>4. HalfRange <= Base ^ IntDigits /\ HalfRange \in Nat
    BY <2>2, <2>3, PacketAssumption DEF HalfRange
  <2> QED
    BY <2>2, <2>4
<1>2. \A i \in IntDigits .. SizeDigits - 1 : SizeField(n)[i] = 0
  <2> TAKE i \in IntDigits .. SizeDigits - 1
  <2>1. /\ i \in IntDigits .. SizeDigits /\ i \in 0 .. SizeDigits /\ i \in 0 .. SizeDigits - 1
        /\ Base \in Nat /\ Base > 0
    BY PacketAssumption
  <2>2. PICK b \in Nat : b = Base ^ i /\ b >= p
    BY <1>1, <2>1, Powers, PowersGrow
  <2>3. n \div b = 0
    BY <1>1, <2>2
  <2>4. SizeField(n)[i] = (n \div Base ^ i) % Base
    BY <2>1 DEF SizeField
  <2>5. \A a \in Nat : a > 0 => 0 % a = 0
    OBVIOUS
  <2>6. SizeField(n)[i] = 0 % Base
    BY <2>2, <2>3, <2>4, Zenon
  <2> QED
    BY <2>1, <2>5, <2>6
<1>3. Low(SizeField(n)) = n
  <2>1. n % p = n
    BY <1>1
  <2> QED
    BY <1>1, <2>1, LowOfSize, Zenon
<1>4. n \in IntValue
  BY PacketAssumption DEF IntValue
<1> QED
  BY <1>2, <1>3, <1>4, ToIntSmall DEF Assembled

-----------------------------------------------------------------------------
(* Numbers of the loop, the disk and the bar.                              *)

(* A wrapped number is not larger than the number of bytes it counts.      *)
LEMMA ToIntBelow ==
  ASSUME NEW n \in Nat
  PROVE  ToInt(n) <= n /\ ToInt(n) \in Int
<1>1. PICK h \in Nat : h = HalfRange /\ h > 0
  BY PacketAssumption
<1>2. \A k \in Nat, m \in Nat : m > 0 => k % m <= k /\ k % m \in Int
  OBVIOUS
<1>3. n + h \in Nat /\ 2 * h \in Nat /\ 2 * h > 0
  BY <1>1
<1>4. (n + h) % (2 * h) <= n + h /\ (n + h) % (2 * h) \in Int
  BY <1>2, <1>3
<1> QED
  BY <1>1, <1>4 DEF ToInt

(* A size that is past the first half of the int's range is shown negative. *)
LEMMA ToIntNegative ==
  ASSUME NEW n \in Nat, n >= HalfRange, n < 2 * HalfRange
  PROVE  ToInt(n) < 0
<1>1. PICK h \in Nat : h = HalfRange /\ h > 0
  BY PacketAssumption
<1>2. n + h = (2 * h) * 1 + (n - h) /\ n - h \in 0 .. (2 * h) - 1 /\ n + h \in Int
  BY <1>1
<1>3. (n + h) % (2 * h) = n - h
  <2>1. PICK m \in Nat : m = 2 * h /\ m > 0
    BY <1>1
  <2>2. (n + h) % m = n - h
    BY <1>2, <2>1, DivUnique
  <2> QED
    BY <2>1, <2>2
<1> QED
  BY <1>1, <1>3 DEF ToInt

(* A bar that is not overfull has its width.                               *)
LEMMA ColumnsFit ==
  ASSUME NEW s \in Nat, s > 0, NEW d \in 0 .. s
  PROVE  Columns(s, d) <= 51
<1>1. PICK a \in Nat : a = 100 * d /\ a <= 100 * s
  BY SMT
<1>2. Quotient(a, s) \in 0 .. 100
  <2>1. Quotient(a, s) = a \div s
    BY DEF Quotient, Abs
  <2>2. PICK q \in Int, r \in 0 .. s - 1 : a = s * q + r /\ a \div s = q
    BY DivMod
  <2>3. q <= 100
    <3>1. CASE q >= 101
      <4>1. \A x \in Nat : x >= 101 => s * x >= s * 101
        OBVIOUS
      <4>2. q \in Nat /\ s * q >= s * 101 /\ s * q \in Nat
        BY <3>1, <4>1
      <4> QED
        BY <1>1, <2>2, <4>2
    <3> QED
      BY <3>1
  <2>4. a \div s \in Nat
    OBVIOUS
  <2> QED
    BY <2>1, <2>2, <2>3, <2>4
<1>3. PICK share \in 0 .. 100 : share = Quotient(100 * d, s)
  BY <1>1, <1>2
<1>4. PICK length \in 0 .. 50 : length = Quotient(share, 2)
  <2>1. Quotient(share, 2) = share \div 2
    BY DEF Quotient, Abs
  <2>2. \A x \in 0 .. 100 : x \div 2 \in 0 .. 50
    OBVIOUS
  <2> QED
    BY <2>1, <2>2
<1>5. Columns(s, d) = CASE s = 0 -> Endless
        [] length > 50  -> length
        [] length <= 50 -> 51 - length + (IF length > 0 THEN length - 1 ELSE 0)
  BY <1>3, <1>4 DEF Columns
<1>6. Columns(s, d) = 51 - length + (IF length > 0 THEN length - 1 ELSE 0)
  BY <1>4, <1>5
<1> QED
  BY <1>6

(* What one read gives, when n bytes can be read.                          *)
LEMMA ChunkBounds ==
  ASSUME ProgramTypeOK, offset \in Nat, NEW n \in Nat
  PROVE  /\ Chunk(n) \in Nat
         /\ Chunk(n) <= world.frame - Header
         /\ offset + Chunk(n) <= n \/ Chunk(n) = 0
<1> DEFINE m == Max({0, n - offset})
           k == world.frame - Header
<1>1. m = IF 0 >= n - offset THEN 0 ELSE n - offset
  BY Larger
<1>2. k \in Nat
  BY WorldFacts, WorldAssumption
<1> HIDE DEF m, k
<1>3. m \in Nat
  BY <1>1
<1>4. Chunk(n) = Min({k, m})
  BY DEF Chunk, k, m
<1>5. Chunk(n) = IF k <= m THEN k ELSE m
  BY <1>2, <1>3, <1>4, Smaller
<1>6. Chunk(n) \in Nat /\ Chunk(n) <= k /\ (offset + Chunk(n) <= n \/ Chunk(n) = 0)
  BY <1>1, <1>2, <1>3, <1>5
<1> QED
  BY <1>6 DEF k

-----------------------------------------------------------------------------
(* What is known between two steps.                                        *)

WholeInv == OpenInv /\ LoopInv /\ EndInv /\ AnnouncedRight /\ BarFits

LEMMA Parts == IInv <=> RowsInv /\ WholeInv
BY DEF IInv, RowsInv, WholeInv, Ports, DataInv, TypeOK, LinkTypes

(* A file whose size is announced rightly and that does not grow.          *)
Fitting == world.size \in 1 .. HalfRange - 1 /\ world.there <= world.size

LEMMA Known ==
  ASSUME RowsInv
  PROVE  /\ world.size \in Nat /\ world.there \in Nat /\ world.room \in Nat
         /\ world.frame \in Int /\ world.frame - Header \in Nat
         /\ HalfRange \in Nat /\ HalfRange > 0
         /\ offset \in Nat /\ bytes \in Int /\ total \in Int /\ txBar \in Int /\ rxBar \in Int
         /\ ToInt(world.size) \in Int
         /\ world.size < HalfRange => ToInt(world.size) = world.size
<1>1. /\ world.size \in Nat /\ world.there \in Nat /\ world.room \in Nat
      /\ world.frame \in Int /\ world.frame - Header \in Nat
  BY WorldFacts, WorldAssumption DEF RowsInv, Ports
<1>2. HalfRange \in Nat /\ HalfRange > 0
  BY PacketAssumption
<1>3. offset \in Nat /\ bytes \in Int /\ total \in Int /\ txBar \in Int /\ rxBar \in Int
  BY Sender DEF RowsInv, IntValue, DataInv, ReadTypeOK
<1>4. ToInt(world.size) \in Int
  BY <1>1, ToIntRange DEF IntValue
<1>5. world.size < HalfRange => ToInt(world.size) = world.size
  BY <1>1, <1>2, ToIntSmall DEF IntValue
<1> QED
  BY <1>1, <1>2, <1>3, <1>4, <1>5

(* The packet returned last is a data packet, which is in the hand or has  *)
(* been handled, or there has not been one.                                *)
LEMMA Place ==
  ASSUME RowsInv, late.c # "end", NEW x \in 0 .. offset, RowAt(x)
  PROVE  /\ Len(out) \in Nat /\ Len(out) <= x
         /\ \E y \in 0 .. x : received = ToInt(y)
         /\ hand.c # late.c => received = ToInt(x) /\ Reached(x)
<1>1. DataInv /\ x \in Nat
  BY Known DEF RowsInv
<1>2. CASE late.c = "data"
  <2>1. Len(late.bytes) \in Nat /\ Len(out) \in Nat
    BY <1>1, <1>2, Reader
  <2>2. InHand(x) \/ Handled(x)
    BY <1>2 DEF RowAt
  <2>3. CASE InHand(x)
    <3>0. PICK k \in Nat : k = Len(late.bytes) /\ k <= x
      BY <2>1, <2>3 DEF InHand
    <3>1. PICK y \in Nat : y = x - k /\ y <= x
      <4>1. x - k \in Nat /\ x - k <= x
        BY <1>1, <3>0
      <4> QED
        BY <4>1
    <3>2. x - Len(late.bytes) = y
      BY <3>0, <3>1
    <3>3. hand = late /\ Reached(y) /\ received = ToInt(y)
      <4>1. /\ hand = late /\ Reached(x - Len(late.bytes))
            /\ received = ToInt(x - Len(late.bytes))
        BY <2>3 DEF InHand
      <4> QED
        BY <3>2, <4>1, Zenon
    <3>4. Len(out) <= y
      BY <2>1, <3>1, <3>3 DEF Reached
    <3> QED
      BY <1>1, <2>1, <3>1, <3>3, <3>4
  <2>4. CASE Handled(x)
    BY <1>1, <2>1, <2>4 DEF Handled, Reached
  <2> QED
    BY <2>2, <2>3, <2>4
<1>3. CASE late.c # "data"
  <2>1. late.c \in {"none", "start"} /\ x = 0
    BY <1>1, <1>3, Sender DEF RowAt
  <2>2. received = 0 /\ out = <<>> /\ Len(out) = 0
    BY <1>1, <2>1, Reader
  <2> QED
    BY <2>1, <2>2, ToIntZero DEF Reached
<1> QED
  BY <1>2, <1>3

LEMMA OutBelow ==
  ASSUME RowsInv, late.c # "end"
  PROVE  Len(out) \in Nat /\ Len(out) <= offset
<1>1. PICK x \in 0 .. offset : RowAt(x)
  BY DEF RowsInv, DataInv, RowInv
<1> QED
  BY <1>1, Place, Known

(* The counter of the receiver counts no more than has been read.          *)
LEMMA ReceivedFits ==
  ASSUME RowsInv, LoopInv, EndInv, Fitting
  PROVE  received \in 0 .. world.size
<1>1. offset \in Nat /\ world.size \in Nat /\ world.size < HalfRange /\ offset <= world.size /\ HalfRange \in Nat
  BY Known DEF LoopInv, Fitting
<1>2. \E y \in 0 .. offset : received = ToInt(y)
  <2>1. CASE late.c = "end"
    BY <2>1 DEF EndInv
  <2>2. CASE late.c # "end"
    <3>1. PICK x \in 0 .. offset : RowAt(x)
      BY <2>2 DEF RowsInv, DataInv, RowInv
    <3>2. \E y \in 0 .. x : received = ToInt(y)
      BY <2>2, <3>1, Place
    <3> QED
      BY <1>1, <3>2
  <2> QED
    BY <2>1, <2>2
<1>3. PICK y \in 0 .. offset : received = ToInt(y)
  BY <1>2
<1>4. y \in IntValue
  BY <1>1 DEF IntValue
<1> QED
  BY <1>1, <1>3, <1>4, ToIntSmall

(* The bars that are drawn.                                                *)
LEMMA DrawFits ==
  ASSUME RowsInv, AnnouncedRight, Fitting, NEW d \in 0 .. world.size, Draw(fileSize, d),
         target # "unset"
  PROVE  rxBar' <= 51
<1>1. fileSize = world.size /\ world.size \in Nat /\ world.size > 0
  BY Known DEF AnnouncedRight, Fitting
<1>2. rxBar' = Columns(fileSize, d)
  BY DEF Draw
<1> QED
  BY <1>1, <1>2, ColumnsFit

-----------------------------------------------------------------------------
(* Steps that leave the packets, sendFile and readDataPackets alone.       *)

LEMMA WholeUntouched ==
  ASSUME WholeInv, PortStep, UNCHANGED <<offer, taken, late, hand>>,
         UNCHANGED <<sendVars, readVars>>, EndSeen' => EndSeen
  PROVE  WholeInv'
<1>1. UNCHANGED <<txPc, total, bytes, offset, nSeq, txBar>>
  BY DEF sendVars
<1>2. UNCHANGED <<fileSize, order, received, target, out, rxBar, world>>
  BY DEF readVars, PortStep
<1>3. port'["tx"] # "gone" => port["tx"] # "gone"
  BY DEF PortStep
<1>4. Start(world.size)' = Start(world.size)
  BY <1>2
<1>5. OpenInv'
  BY <1>1, <1>2, <1>3, <1>4, Zenon DEF WholeInv, OpenInv
<1>6. LoopInv'
  BY <1>1, <1>2, <1>3 DEF WholeInv, LoopInv, InFlight, ToInt
<1>7. EndInv'
  BY <1>1, <1>2, <1>3 DEF WholeInv, EndInv, ToInt
<1>8. AnnouncedRight' /\ BarFits'
  BY <1>1, <1>2 DEF WholeInv, AnnouncedRight, BarFits
<1> QED
  BY <1>5, <1>6, <1>7, <1>8 DEF WholeInv

(* Only readDataPackets leads to the receiver's closing.                   *)
LEMMA EndStays ==
  ASSUME RowsInv, (\E p \in Program : Main(p)) \/ Link \/ Environment
  PROVE  EndSeen' => EndSeen
<1>0. stage \in [Program -> Stage] /\ Program = {"tx", "rx"}
  BY DEF RowsInv, Ports, ProgramTypeOK, Program
<1> DEFINE Closing == {"closing", "parting", "restoring"}
<1>1. ASSUME NEW p \in Program, NEW from, NEW to, Goes(p, from, to),
             p = "rx" /\ to \in Closing => from \in Closing
      PROVE  EndSeen' => EndSeen
  BY <1>0, <1>1 DEF Goes, EndSeen
<1> HIDE DEF Closing
<1>2. ASSUME NEW p \in Program, Main(p) PROVE EndSeen' => EndSeen
  <2>1. ASSUME NEW from, NEW call, NEW to \in {"opened", "saved", "asked"}, Passes(p, from, call, to)
        PROVE  EndSeen' => EndSeen
    <3> DEFINE there == IF call \in world.refuses THEN "ended" ELSE to
    <3>1. Goes(p, from, there) /\ there \notin Closing
      BY <2>1 DEF Passes, Closing
    <3> HIDE DEF there
    <3> QED
      BY <1>1, <3>1
  <2>2. CASE analyseArgs(p) \/ getOldAttributes(p) \/ configureLinkLayer(p)
    <3> DEFINE input == IF p = "tx" THEN "input" ELSE "none"
    <3>1. configureLinkLayer(p) <=> Passes(p, "saved", input, "asked")
      BY DEF configureLinkLayer
    <3> HIDE DEF input
    <3> QED
      BY <2>1, <2>2, <3>1 DEF analyseArgs, getOldAttributes
  <2>3. CASE serialPortSetup(p)
    <3> DEFINE there == IF "tcsetattr" \in world.refuses THEN "ended" ELSE "raw"
    <3>1. Goes(p, "asked", there) /\ there \notin Closing
      BY <2>3 DEF serialPortSetup, Closing
    <3> HIDE DEF there
    <3> QED
      BY <1>1, <3>1
  <2>4. CASE initializeStateMachine(p)
    <3> DEFINE there == IF world.heap = "dirty" THEN "crashed" ELSE "connecting"
    <3>1. Goes(p, "raw", there) /\ there \notin Closing
      BY <2>4 DEF initializeStateMachine, Closing
    <3> HIDE DEF there
    <3> QED
      BY <1>1, <3>1
  <2>5. CASE Restore(p)
    <3>1. Goes(p, "restoring", "ended") /\ "ended" \notin Closing
      BY <2>5 DEF Restore, Closing
    <3> QED
      BY <1>1, <3>1
  <2> QED
    BY <1>2, <2>2, <2>3, <2>4, <2>5 DEF Main, ProgramStep
<1>3. CASE Link
  <2>1. CASE txCalls
    BY <2>1 DEF txCalls, Calls, programVars, EndSeen
  <2>2. CASE llopen \/ createConnectionFails \/ llclose \/ llcloseFails
    <3>1. \E from, to : Goes("tx", from, to)
      BY <2>2 DEF llopen, createConnectionFails, llclose, llcloseFails
    <3> QED
      BY <1>0, <1>1, <3>1
  <2>3. CASE rxOpens
    <3>1. Goes("rx", "connecting", "transfer") /\ "transfer" \notin Closing
      BY <2>3 DEF rxOpens, Answers, Closing
    <3> QED
      BY <1>0, <1>1, <3>1
  <2>4. CASE rxDisc
    <3>1. Goes("rx", "closing", "parting") /\ "closing" \in Closing
      BY <2>4 DEF rxDisc, Answers, Closing
    <3> QED
      BY <1>0, <1>1, <3>1
  <2>5. CASE rxUa
    <3>1. Goes("rx", "parting", "restoring") /\ "parting" \in Closing
      BY <2>5 DEF rxUa, Closing
    <3> QED
      BY <1>0, <1>1, <3>1
  <2> QED
    BY <1>3, <2>1, <2>2, <2>3, <2>4, <2>5 DEF Link, LinkStep
<1>4. CASE Environment
  <2>1. CASE PortDies
    BY <2>1 DEF PortDies, EndSeen
  <2>2. ASSUME NEW p \in Program, sigint_handler(p) PROVE EndSeen' => EndSeen
    BY <1>0, <2>2 DEF sigint_handler, EndSeen
  <2> QED
    BY <1>4, <2>1, <2>2 DEF Environment
<1> QED
  BY <1>2, <1>3, <1>4

LEMMA WholeOthers ==
  ASSUME RowsInv, WholeInv, PortStep, (\E p \in Program : Main(p)) \/ Link \/ Environment
  PROVE  WholeInv'
<1>1. EndSeen' => EndSeen
  BY EndStays
<1>2. UNCHANGED <<sendVars, readVars>>
  BY DEF Main, Link, Environment
<1>3. UNCHANGED <<offer, taken, late, hand>>
  <2>1. CASE Link
    BY <2>1 DEF Link, LinkStep, txCalls, Calls, llopen, createConnectionFails, llclose, llcloseFails,
                rxOpens, rxDisc, Answers, rxUa, PacketsUnchanged, linkVars
  <2>2. CASE (\E p \in Program : Main(p)) \/ Environment
    BY <2>2 DEF Main, Environment, linkVars
  <2> QED
    BY <2>1, <2>2
<1> QED
  BY <1>1, <1>2, <1>3, WholeUntouched

-----------------------------------------------------------------------------
(* sendFile.                                                               *)

(* What every step of it has to show.                                      *)
LEMMA WholeSent ==
  ASSUME RowsInv, WholeInv, PortStep, UNCHANGED <<late, hand, readVars>>,
         stage'["rx"] = stage["rx"],
         offer'.c \in {"data", "end"} => late.c # "none",
         offer'.c = "start" => offer' = Start(world.size),
         port'["tx"] # "gone" /\ txPc' \notin {"sendStart", "start"} => late.c # "none",
         offset' \in Nat, offset <= offset', late.c = "end" => offset' = offset,
         LoopInv',
         Fitting => txBar' <= 51
  PROVE  WholeInv'
<1>1. UNCHANGED <<fileSize, order, received, target, out, rxBar, world>>
  BY DEF readVars, PortStep
<1>2. port'["tx"] # "gone" => port["tx"] # "gone"
  BY DEF PortStep
<1>3. Start(world.size)' = Start(world.size)
  BY <1>1
<1>4. OpenInv'
  <2>1. (\A p \in {offer, late} : p.c = "start" => p = Start(world.size))'
    <3>1. late.c = "start" => late = Start(world.size)
      BY DEF WholeInv, OpenInv
    <3> QED
      BY <1>3, <3>1, Zenon
  <2>2. (late.c # "none" /\ target = "unset" => hand = late /\ late.c = "start")'
    BY <1>1 DEF WholeInv, OpenInv
  <2>3. (target = "failed" <=> target # "unset" /\ world.target = "fails")'
    BY <1>1 DEF WholeInv, OpenInv
  <2>4. (Len(out) <= world.room)'
    BY <1>1 DEF WholeInv, OpenInv
  <2>5. (offer.c \in {"data", "end"} => late.c # "none")'
    OBVIOUS
  <2>6. (port["tx"] # "gone" /\ txPc \notin {"sendStart", "start"} => late.c # "none")'
    OBVIOUS
  <2> QED
    BY <2>1, <2>2, <2>3, <2>4, <2>5, <2>6 DEF OpenInv
<1>5. EndInv'
  <2>1. EndSeen' => late'.c = "end"
    BY DEF WholeInv, EndInv, EndSeen
  <2>2. ASSUME late.c = "end"
        PROVE  \E x \in 0 .. offset' :
                 /\ port'["tx"] # "gone" => x = offset'
                 /\ received' = ToInt(x)
                 /\ Len(out') <= x
                 /\ target' \in {"open", "closed"} => Len(out') = x \/ Len(out') = world'.room
    BY <1>1, <1>2, <2>2 DEF WholeInv, EndInv
  <2> QED
    BY <2>1, <2>2 DEF EndInv, ToInt
<1>6. AnnouncedRight'
  BY <1>1 DEF WholeInv, AnnouncedRight
<1>7. BarFits'
  BY <1>1 DEF WholeInv, BarFits, Fitting
<1> QED
  BY <1>4, <1>5, <1>6, <1>7 DEF WholeInv

(* llwrite has failed: the port is gone, and with it what the loop counts. *)
LEMMA WholeNotSent ==
  ASSUME RowsInv, WholeInv, PortStep, NotWritten, UNCHANGED <<readVars, txBar>>,
         stage'["rx"] = stage["rx"],
         offset' \in Nat, offset <= offset', offset' <= world.there,
         late.c = "end" => offset' = offset
  PROVE  WholeInv'
<1>1. /\ offer' = NoPacket /\ offer'.c = "none" /\ UNCHANGED <<late, hand>>
      /\ port'["tx"] = "gone"
  BY DEF NotWritten, NoPacket, PortStep
<1>2. LoopInv'
  BY <1>1 DEF LoopInv, PortStep
<1>3. Fitting => txBar' <= 51
  BY DEF WholeInv, BarFits, Fitting
<1> QED
  BY <1>1, <1>2, <1>3, WholeSent

LEMMA Looping ==
  ASSUME RowsInv, WholeInv
  PROVE  /\ offset <= world.there
         /\ Fitting => txBar <= 51
         /\ port["tx"] # "gone" =>
              /\ bytes = ToInt(offset - InFlight)
              /\ txPc \notin {"sendStart", "start"} => total = ToInt(world.size) /\ late.c # "none"
              /\ txPc \in {"sendEnd", "end"} => bytes >= total
              /\ ToInt(world.size) + world.frame - Header <= HalfRange =>
                   offset = 0 \/ offset < ToInt(world.size) + world.frame - Header
BY DEF WholeInv, LoopInv, OpenInv, BarFits, Fitting

(* A step that leaves the numbers alone while nothing is in flight.        *)
LEMMA LoopKept ==
  ASSUME RowsInv, WholeInv, PortStep, UNCHANGED <<bytes, offset>>,
         InFlight = 0, InFlight' = 0,
         port["tx"] # "gone" =>
           /\ txPc' \notin {"sendStart", "start"} => total' = ToInt(world.size)
           /\ txPc' \in {"sendEnd", "end"} => bytes >= total'
  PROVE  LoopInv'
<1>1. UNCHANGED world /\ (port'["tx"] # "gone" => port["tx"] # "gone")
  BY DEF PortStep
<1>2. ToInt(world.size)' = ToInt(world.size) /\ ToInt(offset - InFlight)' = ToInt(offset - InFlight)
  BY <1>1 DEF ToInt
<1> QED
  BY <1>1, <1>2, Looping DEF LoopInv

LEMMA WholeSendStart ==
  ASSUME RowsInv, WholeInv, PortStep, SendStart, UNCHANGED readVars
  PROVE  WholeInv'
<1>1. /\ txPc = "sendStart" /\ UNCHANGED <<stage, port, bytes, offset, nSeq, txBar>>
  BY DEF SendStart, Sending, programVars
<1>2. offset \in Nat /\ offset <= world.there /\ (Fitting => txBar' <= 51)
  BY <1>1, Known, Looping
<1>3. CASE llwrite(Start(world.size)) /\ SendGoes("start")
  <2>1. offer' = Start(world.size) /\ offer'.c = "start" /\ txPc' = "start" /\ UNCHANGED <<late, hand>>
    BY <1>3 DEF llwrite, SendGoes, Start
  <2>2. LoopInv'
    BY <1>1, <2>1, LoopKept DEF InFlight
  <2> QED
    BY <1>1, <1>2, <2>1, <2>2, WholeSent
<1>4. CASE NotWritten
  BY <1>1, <1>2, <1>4, WholeNotSent
<1> QED
  BY <1>3, <1>4 DEF SendStart

LEMMA WholeStartSent ==
  ASSUME RowsInv, WholeInv, PortStep, StartSent, UNCHANGED readVars
  PROVE  WholeInv'
<1>1. /\ txPc = "start" /\ txPc' = "loop" /\ UNCHANGED <<stage, port, bytes, offset, nSeq, txBar>>
  BY DEF StartSent, Sending, SendGoes, programVars
<1>2. offset \in Nat /\ offset <= world.there /\ (Fitting => txBar' <= 51)
  BY <1>1, Known, Looping
<1>3. CASE Written /\ total' = ToInt(world.size)
  <2>1. offer' = NoPacket /\ offer'.c = "none" /\ UNCHANGED <<late, hand>> /\ taken
    BY <1>3 DEF Written, NoPacket
  <2>2. late.c # "none"
    BY <2>1, Sender DEF RowsInv
  <2>3. LoopInv'
    BY <1>1, <1>3, <2>1, LoopKept DEF InFlight
  <2> QED
    BY <1>1, <1>2, <2>1, <2>2, <2>3, WholeSent
<1>4. CASE NotWritten
  BY <1>1, <1>2, <1>4, WholeNotSent
<1> QED
  BY <1>3, <1>4 DEF StartSent

(* A read gives bytes that are there.                                      *)
LEMMA ReadBelow ==
  ASSUME RowsInv, WholeInv, late.c # "end"
  PROVE  /\ Readable \in Nat
         /\ Chunk(Readable) \in Nat /\ Chunk(Readable) <= world.frame - Header
         /\ offset + Chunk(Readable) <= world.there
<1>1. offset \in Nat /\ world.there \in Nat /\ offset <= world.there
  BY Known, Looping
<1>2. Len(out) \in Nat /\ Len(out) <= offset
  BY OutBelow
<1>3. Readable \in Nat /\ Readable <= world.there
  BY <1>1, <1>2 DEF Readable
<1>4. /\ Chunk(Readable) \in Nat /\ Chunk(Readable) <= world.frame - Header
      /\ offset + Chunk(Readable) <= Readable \/ Chunk(Readable) = 0
  BY <1>1, <1>3, ChunkBounds DEF RowsInv, Ports
<1> QED
  BY <1>1, <1>3, <1>4

LEMMA WholeReadChunk ==
  ASSUME RowsInv, WholeInv, PortStep, ReadChunk(Readable), UNCHANGED readVars
  PROVE  WholeInv'
<1>0. txPc = "loop" /\ late.c # "end"
  BY Sender DEF ReadChunk, Sending, RowsInv
<1>1. PICK k \in Nat : /\ k = Chunk(Readable) /\ k <= world.frame - Header
                       /\ offset + k <= world.there
  BY <1>0, ReadBelow
<1>2. /\ bytes < total /\ offset' = offset + k
      /\ UNCHANGED <<stage, port, total, bytes, nSeq, txBar, world>>
  BY <1>1 DEF ReadChunk, MoreToSend, programVars
<1>3. offset \in Nat /\ offset' \in Nat /\ offset <= offset' /\ offset' <= world.there
  BY <1>1, <1>2, Known
<1>4. Fitting => txBar' <= 51
  BY <1>2, Looping
<1>5. CASE llwrite(Data(nSeq, offset, k)) /\ SendGoes("data")
  <2>1. /\ offer' = Data(nSeq, offset, k) /\ txPc' = "data" /\ UNCHANGED <<late, hand>>
        /\ port["tx"] # "gone"
    BY <1>5 DEF llwrite, SendGoes
  <2>2. offer'.c = "data" /\ Len(offer'.bytes) = k
    BY <1>3, <2>1, BytesText DEF Data
  <2>3. InFlight = 0 /\ InFlight' = k
    BY <1>0, <2>1, <2>2 DEF InFlight
  <2>4. offset - InFlight = offset /\ (offset - InFlight)' = offset
    BY <1>2, <1>3, <2>3
  <2>5. bytes = ToInt(offset) /\ total = ToInt(world.size) /\ late.c # "none"
    BY <1>0, <2>1, <2>4, Looping
  <2>6. bytes' = ToInt(offset - InFlight)'
    BY <1>2, <2>4, <2>5 DEF ToInt
  <2>7. ASSUME ToInt(world.size) + world.frame - Header <= HalfRange
        PROVE  offset' < ToInt(world.size) + world.frame - Header
    <3>1. PICK t \in Int, d \in Nat, h \in Nat :
            t = ToInt(world.size) /\ d = world.frame - Header /\ h = HalfRange /\ h > 0
      BY Known
    <3>2. ToInt(world.size) + world.frame - Header = t + d
      BY <3>1, Known
    <3>3. offset = 0 \/ offset < t + d
      BY <2>1, <2>7, <3>2, Looping
    <3>4. offset < h
      BY <1>3, <2>7, <3>1, <3>2, <3>3
    <3>5. ToInt(offset) = offset
      BY <1>3, <3>1, <3>4, ToIntSmall DEF IntValue
    <3>6. offset < t
      BY <1>2, <2>5, <3>1, <3>5
    <3> QED
      BY <1>1, <1>2, <1>3, <3>1, <3>2, <3>6
  <2>8. LoopInv'
    <3>1. ToInt(world.size)' = ToInt(world.size)
      BY <1>2 DEF ToInt
    <3> QED
      BY <1>2, <1>3, <2>1, <2>5, <2>6, <2>7, <3>1 DEF LoopInv
  <2> QED
    BY <1>0, <1>2, <1>3, <1>4, <2>1, <2>2, <2>5, <2>8, WholeSent
<1>6. CASE NotWritten
  BY <1>0, <1>2, <1>3, <1>6, WholeNotSent
<1> QED
  BY <1>1, <1>5, <1>6 DEF ReadChunk

LEMMA WholeChunkSent ==
  ASSUME RowsInv, WholeInv, PortStep, ChunkSent, UNCHANGED readVars
  PROVE  WholeInv'
<1>1. /\ stage["tx"] = "transfer" /\ txPc = "data" /\ txPc' = "loop"
      /\ UNCHANGED <<stage, port, total, offset>> /\ port["tx"] # "gone"
      /\ offer' = NoPacket /\ offer'.c = "none" /\ UNCHANGED <<late, hand, world>>
      /\ bytes' = ToInt(bytes + Len(offer.bytes)) /\ txBar' = Columns(total, bytes')
  BY DEF ChunkSent, Sending, SendGoes, programVars, Written, NoPacket
<1>2. offer.c = "data" /\ late.c # "end"
  BY <1>1, Sender DEF RowsInv
<1>3. PICK k \in Nat : k = Len(offer.bytes) /\ InFlight = k
  <2>1. Len(offer.bytes) \in Nat
    BY <1>2, Reader, DataFields DEF RowsInv
  <2> QED
    BY <1>1, <1>2, <2>1 DEF InFlight
<1>4. offset \in Nat /\ offset <= world.there /\ world.there \in Nat
  BY Known, Looping
<1>5. bytes' = ToInt(offset)
  <2>1. bytes = ToInt(offset - k)
    BY <1>1, <1>3, Looping
  <2>2. offset - k \in Int /\ (offset - k) + k = offset
    BY <1>4
  <2> QED
    BY <1>1, <1>3, <2>1, <2>2, ToIntSum
<1>6. InFlight' = 0 /\ (offset - InFlight)' = offset
  BY <1>1, <1>4 DEF InFlight
<1>7. LoopInv'
  <2>1. ToInt(world.size)' = ToInt(world.size) /\ bytes' = ToInt(offset - InFlight)'
    BY <1>1, <1>5, <1>6 DEF ToInt
  <2> QED
    BY <1>1, <2>1, Looping DEF LoopInv
<1>8. ASSUME Fitting PROVE txBar' <= 51
  <2>1. /\ world.size \in Nat /\ world.size > 0 /\ world.size < HalfRange /\ offset \in 0 .. world.size
        /\ HalfRange \in Nat
    BY <1>4, <1>8, Known DEF Fitting
  <2>2. offset \in IntValue
    BY <2>1 DEF IntValue
  <2>3. bytes' = offset
    BY <1>5, <2>2, ToIntSmall
  <2>4. total = world.size
    BY <1>1, <2>1, Known, Looping
  <2> QED
    BY <1>1, <2>1, <2>3, <2>4, ColumnsFit
<1>9. late.c # "none"
  BY <1>1, Looping
<1> QED
  BY <1>1, <1>2, <1>4, <1>7, <1>8, <1>9, WholeSent

LEMMA WholeAtEnd ==
  ASSUME RowsInv, WholeInv, PortStep, ChunkNotSent \/ DataDone \/ SendEnd \/ EndSent, UNCHANGED readVars
  PROVE  WholeInv'
<1>0. UNCHANGED <<total, bytes, offset, nSeq, txBar>>
  BY DEF ChunkNotSent, DataDone, SendEnd, EndSent, sendVars
<1>1. offset \in Nat /\ offset <= world.there /\ (Fitting => txBar' <= 51)
  BY <1>0, Known, Looping
<1>2. stage'["rx"] = stage["rx"]
  <2>1. CASE ChunkNotSent \/ DataDone \/ SendEnd
    BY <2>1 DEF ChunkNotSent, DataDone, SendEnd, programVars
  <2>2. CASE EndSent
    BY <2>2 DEF EndSent, Goes, RowsInv, Ports, ProgramTypeOK, Program
  <2> QED
    BY <2>1, <2>2
<1>3. CASE NotWritten
  BY <1>0, <1>1, <1>2, <1>3, WholeNotSent
<1>4. CASE DataDone
  <2>1. /\ txPc = "loop" /\ txPc' = "sendEnd" /\ ~(bytes < total) /\ UNCHANGED <<offer, late, hand>>
    BY <1>4 DEF DataDone, Sending, SendGoes, linkVars, MoreToSend
  <2>2. offer.c = "none" /\ bytes \in Int /\ total \in Int
    BY <2>1, Sender, Known DEF RowsInv
  <2>3. LoopInv'
    BY <1>0, <2>1, <2>2, Looping, LoopKept DEF InFlight
  <2>4. port'["tx"] # "gone" => late.c # "none"
    BY <2>1, Looping DEF PortStep
  <2> QED
    BY <1>0, <1>1, <1>2, <2>1, <2>2, <2>3, <2>4, WholeSent
<1>5. CASE SendEnd
  <2>1. /\ txPc = "sendEnd" /\ txPc' = "end" /\ UNCHANGED <<late, hand>> /\ offer' = End
        /\ offer'.c = "end" /\ port["tx"] # "gone"
    BY <1>5 DEF SendEnd, Sending, SendGoes, llwrite, End
  <2>2. LoopInv'
    BY <1>0, <2>1, Looping, LoopKept DEF InFlight
  <2>3. late.c # "none"
    BY <2>1, Looping
  <2> QED
    BY <1>0, <1>1, <1>2, <2>1, <2>2, <2>3, WholeSent
<1>6. CASE EndSent /\ Written
  <2>1. /\ txPc \in {"end", "sendEnd"} /\ txPc' = txPc /\ UNCHANGED <<late, hand>> /\ offer' = NoPacket
        /\ offer'.c = "none" /\ port["tx"] # "gone"
    BY <1>6 DEF EndSent, Sending, Written, NoPacket, sendVars
  <2>2. LoopInv'
    BY <1>0, <2>1, Looping, LoopKept DEF InFlight
  <2>3. late.c # "none"
    BY <2>1, Looping
  <2> QED
    BY <1>0, <1>1, <1>2, <2>1, <2>2, <2>3, WholeSent
<1> QED
  BY <1>3, <1>4, <1>5, <1>6 DEF ChunkNotSent, EndSent

LEMMA WholeSend ==
  ASSUME RowsInv, WholeInv, PortStep, Send
  PROVE  WholeInv'
<1>1. SendStep(Readable) /\ UNCHANGED readVars
  BY DEF Send
<1>2. CASE ReadFails(Readable)
  <2>1. UNCHANGED <<offer, taken, late, hand, signals, sendVars, readVars, programVars>>
    BY <1>1, <1>2 DEF ReadFails, linkVars
  <2>2. EndSeen' => EndSeen
    BY <2>1 DEF EndSeen, programVars
  <2> QED
    BY <2>1, <2>2, WholeUntouched
<1> QED
  BY <1>1, <1>2, WholeSendStart, WholeStartSent, WholeReadChunk, WholeChunkSent, WholeAtEnd
     DEF SendStep

-----------------------------------------------------------------------------
(* llread.                                                                 *)

LEMMA LoopStays ==
  ASSUME WholeInv, PortStep, UNCHANGED sendVars, UNCHANGED offer
  PROVE  LoopInv' /\ UNCHANGED <<txPc, offset, world>> /\ (port'["tx"] # "gone" => port["tx"] # "gone")
<1>1. /\ UNCHANGED <<txPc, total, bytes, offset, nSeq, txBar, world>>
      /\ port'["tx"] # "gone" => port["tx"] # "gone"
  BY DEF sendVars, PortStep
<1>2. ToInt(world.size)' = ToInt(world.size) /\ ToInt(offset - InFlight)' = ToInt(offset - InFlight)
  BY <1>1 DEF ToInt, InFlight
<1> QED
  BY <1>1, <1>2 DEF WholeInv, LoopInv

LEMMA WholeTake ==
  ASSUME RowsInv, WholeInv, PortStep, Take, UNCHANGED <<programVars, sendVars, readVars>>
  PROVE  WholeInv'
<1>1. /\ hand = NoPacket /\ hand.c = "none" /\ offer # NoPacket /\ ~taken
      /\ late' = offer /\ hand' = offer /\ UNCHANGED <<signals, offer>>
  BY DEF Take, Reads, NoPacket
<1>2. /\ UNCHANGED <<fileSize, order, received, target, out, rxBar, txBar, txPc, offset, world, stage, port>>
  BY DEF programVars, sendVars, readVars
<1>3. LoopInv'
  BY <1>1, LoopStays
<1>4. offer.c \in {"start", "data", "end"} /\ offer.c = txPc
  BY <1>1, PacketKinds, Sender DEF RowsInv, DataInv, LinkTypes
<1>5. stage["rx"] = "transfer" /\ ~EndSeen'
  BY <1>2 DEF Take, Reads, EndSeen
<1>6. target = "unset" => offer.c = "start"
  <2>1. CASE offer.c = "start"
    BY <2>1
  <2>2. CASE offer.c \in {"data", "end"}
    <3>1. late.c # "none"
      BY <2>2 DEF WholeInv, OpenInv
    <3>2. target = "unset" => hand = late
      BY <3>1 DEF WholeInv, OpenInv
    <3> QED
      BY <1>1, <3>1, <3>2
  <2> QED
    BY <1>4, <2>1, <2>2
<1>7. OpenInv'
  <2>1. (\A p \in {offer, late} : p.c = "start" => p = Start(world.size))'
    <3>1. offer.c = "start" => offer = Start(world.size)
      BY DEF WholeInv, OpenInv
    <3>2. Start(world.size)' = Start(world.size)
      BY <1>2
    <3> QED
      BY <1>1, <3>1, <3>2, Zenon
  <2>2. (target = "failed" <=> target # "unset" /\ world.target = "fails")' /\ (Len(out) <= world.room)'
    BY <1>2 DEF WholeInv, OpenInv
  <2> QED
    BY <1>1, <1>2, <1>4, <1>6, <2>1, <2>2 DEF OpenInv
<1>8. EndInv'
  <2>1. SUFFICES ASSUME offer.c = "end"
                 PROVE  \E x \in 0 .. offset :
                          /\ port["tx"] # "gone" => x = offset
                          /\ received = ToInt(x)
                          /\ Len(out) <= x
                          /\ target \in {"open", "closed"} => Len(out) = x \/ Len(out) = world.room
    BY <1>1, <1>2, <1>5 DEF EndInv, ToInt
  <2>2. CASE late.c = "end"
    BY <2>2 DEF WholeInv, EndInv
  <2>3. CASE late.c # "end"
    <3>1. PICK x \in 0 .. offset : RowAt(x)
      BY <2>3 DEF RowsInv, DataInv, RowInv
    <3>2. late.c # "none"
      BY <2>1 DEF WholeInv, OpenInv
    <3>3. Len(out) \in Nat /\ Len(out) <= x /\ received = ToInt(x) /\ Reached(x)
      BY <1>1, <2>3, <3>1, <3>2, Place
    <3>4. port["tx"] # "gone" => x = offset
      BY <1>1, <2>1, <3>1 DEF RowAt, Untaken, NextRead
    <3>5. target \in {"open", "closed"} => Len(out) = x \/ Len(out) = world.room
      <4>1. target # "closed"
        BY <2>3, Reader DEF RowsInv
      <4>2. CASE target = "open" /\ Room = 0
        <5>1. world.room \in Nat /\ (0 >= world.room - Len(out) \/ world.room - Len(out) = 0)
          BY <3>3, <4>2, RoomNat, Known DEF RowsInv, Ports
        <5>2. Len(out) <= world.room
          BY DEF WholeInv, OpenInv
        <5> QED
          BY <3>3, <5>1, <5>2, Known
      <4> QED
        BY <3>3, <4>1, <4>2 DEF Reached
    <3> QED
      BY <3>1, <3>3, <3>4, <3>5
  <2> QED
    BY <2>2, <2>3
<1>9. AnnouncedRight' /\ BarFits'
  BY <1>2 DEF WholeInv, AnnouncedRight, BarFits
<1> QED
  BY <1>3, <1>7, <1>8, <1>9 DEF WholeInv

(* What the other steps of the receiver have to show.                      *)
LEMMA WholeRead ==
  ASSUME RowsInv, WholeInv, PortStep, UNCHANGED <<offer, late, sendVars>>,
         late.c # "none" /\ target' = "unset" => hand' = late /\ late.c = "start",
         target' = "failed" <=> target' # "unset" /\ world.target = "fails",
         Len(out') <= world.room,
         EndSeen' => late.c = "end",
         late.c = "end" => /\ UNCHANGED <<received, out>>
                           /\ target' \in {"open", "closed"} => target \in {"open", "closed"},
         target' # "unset" /\ world.size < HalfRange => fileSize' = world.size,
         target' # "unset" /\ Fitting => rxBar' <= 51
  PROVE  WholeInv'
<1>1. /\ LoopInv' /\ UNCHANGED <<txPc, offset, world>>
      /\ port'["tx"] # "gone" => port["tx"] # "gone"
  BY LoopStays
<1>2. OpenInv'
  <2>1. (\A p \in {offer, late} : p.c = "start" => p = Start(world.size))'
    <3>1. \A p \in {offer, late} : p.c = "start" => p = Start(world.size)
      BY DEF WholeInv, OpenInv
    <3>2. Start(world.size)' = Start(world.size)
      BY <1>1
    <3> QED
      BY <3>1, <3>2, Zenon
  <2>2. (offer.c \in {"data", "end"} => late.c # "none")'
    BY DEF WholeInv, OpenInv
  <2>3. (port["tx"] # "gone" /\ txPc \notin {"sendStart", "start"} => late.c # "none")'
    BY <1>1 DEF WholeInv, OpenInv
  <2> QED
    BY <1>1, <2>1, <2>2, <2>3 DEF OpenInv
<1>3. EndInv'
  <2>1. ASSUME late.c = "end"
        PROVE  \E x \in 0 .. offset' :
                 /\ port'["tx"] # "gone" => x = offset'
                 /\ received' = ToInt(x)
                 /\ Len(out') <= x
                 /\ target' \in {"open", "closed"} => Len(out') = x \/ Len(out') = world'.room
    BY <1>1, <2>1 DEF WholeInv, EndInv
  <2> QED
    BY <2>1 DEF EndInv, ToInt
<1>4. AnnouncedRight' /\ BarFits'
  <2>1. txBar' = txBar
    BY DEF sendVars
  <2> QED
    BY <1>1, <2>1 DEF WholeInv, AnnouncedRight, BarFits, Fitting
<1> QED
  BY <1>1, <1>2, <1>3, <1>4 DEF WholeInv

(* What holds between the steps of the receiver.                           *)
LEMMA Reading ==
  ASSUME RowsInv, WholeInv
  PROVE  /\ late.c # "none" /\ target = "unset" => hand = late /\ late.c = "start"
         /\ target = "failed" <=> target # "unset" /\ world.target = "fails"
         /\ Len(out) <= world.room
         /\ EndSeen => late.c = "end"
         /\ target # "unset" /\ world.size < HalfRange => fileSize = world.size
         /\ target # "unset" /\ Fitting => rxBar <= 51
         /\ hand.c \in {"none", "error"} \/ hand = late
BY Reader DEF RowsInv, WholeInv, OpenInv, EndInv, AnnouncedRight, BarFits, Fitting

LEMMA WholeReceive ==
  ASSUME RowsInv, WholeInv, PortStep, Receive
  PROVE  WholeInv'
<1>1. UNCHANGED <<programVars, sendVars, readVars>>
  BY DEF Receive
<1>2. CASE Take
  BY <1>1, <1>2, WholeTake
<1>3. CASE TakeAgain \/ TakeDamaged
  <2>1. UNCHANGED <<signals, offer, taken, late>> /\ hand = NoPacket /\ hand.c = "none"
    BY <1>3 DEF TakeAgain, TakeDamaged, Reads, NoPacket
  <2>2. UNCHANGED <<fileSize, order, received, target, out, rxBar>> /\ (EndSeen' <=> EndSeen)
    BY <1>1 DEF readVars, programVars, EndSeen
  <2>3. late.c # "none" => target # "unset"
    BY <2>1, Reading
  <2> QED
    BY <1>1, <2>1, <2>2, <2>3, Reading, WholeRead
<1> QED
  BY <1>2, <1>3 DEF Receive, llread

-----------------------------------------------------------------------------
(* readDataPackets.                                                        *)

LEMMA WholeReadStart ==
  ASSUME RowsInv, WholeInv, PortStep, ReadStart, UNCHANGED sendVars
  PROVE  WholeInv'
<1>1. /\ hand.c = "start" /\ fileSize' \in Assembled(hand.size)
      /\ target' = IF world.target = "fails" THEN "failed" ELSE "open"
      /\ out' \in {out, <<>>} /\ rxBar' = Columns(fileSize', received)
      /\ UNCHANGED <<offer, late, stage>>
  BY DEF ReadStart, Handles, Done, programVars
<1>2. hand = late /\ late.c = "start"
  BY <1>1, Reading
<1>3. late = Start(world.size)
  BY <1>2 DEF WholeInv, OpenInv
<1>4. hand.size = SizeField(world.size)
  BY <1>2, <1>3 DEF Start
<1>5. world.size < HalfRange => fileSize' = world.size
  BY <1>1, <1>4, Known, SizeAssembled
<1>6. received = 0 /\ out = <<>>
  BY <1>2, Reader DEF RowsInv
<1>7. Fitting => rxBar' <= 51
  <2>1. Fitting => fileSize' = world.size /\ world.size \in Nat /\ world.size > 0 /\ 0 \in 0 .. world.size
    BY <1>5, Known DEF Fitting
  <2> QED
    BY <1>1, <1>6, <2>1, ColumnsFit
<1>8. Len(out') <= world.room
  BY <1>1, <1>6, Reading
<1>9. EndSeen' => EndSeen
  BY <1>1 DEF EndSeen
<1> QED
  BY <1>1, <1>2, <1>5, <1>7, <1>8, <1>9, Reading, WholeRead

LEMMA WholeReadData ==
  ASSUME RowsInv, WholeInv, PortStep, ReadData, UNCHANGED sendVars
  PROVE  WholeInv'
<1>1. /\ UNCHANGED <<offer, late, stage, target, fileSize, world>> /\ Draw(fileSize, received')
  BY DEF ReadData, Done, programVars
<1>2. /\ hand = late /\ late.c = "data"
      /\ Len(out) <= world.room => Len(out') <= world.room
      /\ \A x \in 0 .. offset : RowAt(x) => received' = ToInt(x)
  BY Continued DEF RowsInv
<1>3. target # "unset" /\ Len(out') <= world.room
  BY <1>2, Reading
<1>4. Fitting => rxBar' <= 51
  <2>1. PICK x \in 0 .. offset : RowAt(x)
    BY <1>2 DEF RowsInv, DataInv, RowInv
  <2>2. received' = ToInt(x) /\ offset \in Nat /\ offset <= world.there
    BY <1>2, <2>1, Known, Looping
  <2>3. ASSUME Fitting PROVE received' \in 0 .. world.size
    <3>1. /\ x \in 0 .. world.size /\ world.size < HalfRange /\ HalfRange \in Nat /\ world.size \in Nat
      BY <2>2, <2>3, Known DEF Fitting
    <3>2. x \in IntValue
      BY <3>1 DEF IntValue
    <3> QED
      BY <2>2, <3>1, <3>2, ToIntSmall
  <2> QED
    BY <1>1, <1>3, <2>3, DrawFits DEF WholeInv
<1>5. EndSeen' => EndSeen
  BY <1>1 DEF EndSeen
<1> QED
  BY <1>1, <1>2, <1>3, <1>4, <1>5, Reading, WholeRead

LEMMA WholeReadOthers ==
  ASSUME RowsInv, WholeInv, PortStep, ReadCopy \/ ReadEnd \/ ReadNothing \/ ReadNull, UNCHANGED sendVars
  PROVE  WholeInv'
<1>1. UNCHANGED <<offer, late, received, out, fileSize, world>>
  BY DEF ReadCopy, ReadEnd, ReadNothing, ReadNull, Done, programVars, readVars, linkVars
<1>2. target # "unset" /\ Fitting => rxBar' <= 51
  <2>1. CASE ReadCopy \/ ReadNull
    BY <2>1, Reading DEF ReadCopy, ReadNull, readVars
  <2>2. CASE ReadEnd \/ ReadNothing
    <3>1. Draw(fileSize, received)
      BY <2>2 DEF ReadEnd, ReadNothing
    <3>2. Fitting => received \in 0 .. world.size
      BY ReceivedFits DEF WholeInv
    <3> QED
      BY <3>1, <3>2, DrawFits DEF WholeInv
  <2> QED
    BY <2>1, <2>2
<1>3. CASE ReadEnd
  <2>1. /\ hand.c = "end" /\ target' = IF target = "open" THEN "closed" ELSE target
    BY <1>3 DEF ReadEnd, Handles
  <2>2. late.c = "end"
    BY <2>1, Reading
  <2>3. target # "unset"
    BY <2>2, Reading
  <2> QED
    BY <1>1, <1>2, <2>1, <2>2, <2>3, Reading, WholeRead
<1>4. CASE ReadCopy \/ ReadNothing \/ ReadNull
  <2>1. target' = target /\ hand.c # "start" /\ (EndSeen' => EndSeen)
    <3>1. CASE ReadCopy \/ ReadNothing
      BY <3>1 DEF ReadCopy, ReadNothing, Handles, readVars, programVars, EndSeen
    <3>2. CASE ReadNull
      BY <3>2 DEF ReadNull, Handles, readVars, Goes, EndSeen, RowsInv, Ports, ProgramTypeOK, Program
    <3> QED
      BY <1>4, <3>1, <3>2
  <2>2. late.c # "none" => target # "unset"
    BY <2>1, Reading
  <2> QED
    BY <1>1, <1>2, <2>1, <2>2, Reading, WholeRead
<1> QED
  BY <1>3, <1>4

-----------------------------------------------------------------------------
(* The invariant.                                                          *)

LEMMA WholeInit ==
  ASSUME Init
  PROVE  WholeInv
<1>1. /\ offer = NoPacket /\ late = NoPacket /\ txPc = "sendStart" /\ bytes = 0 /\ offset = 0
      /\ txBar = 0 /\ target = "unset" /\ out = <<>>
      /\ stage = [p \in Program |-> "started"]
  BY DEF Init, ProgramInit, LinkInit, SendInit, ReadInit
<1>2. world.room \in Nat /\ world.there \in Nat
  BY Known, RowsInit
<1>3. NoPacket.c = "none"
  BY DEF NoPacket
<1>4. OpenInv
  BY <1>1, <1>2, <1>3 DEF OpenInv
<1>5. LoopInv
  BY <1>1, <1>2, ToIntZero DEF LoopInv, InFlight
<1>6. EndInv
  BY <1>1, <1>3 DEF EndInv, EndSeen, Program
<1>7. AnnouncedRight /\ BarFits
  BY <1>1 DEF AnnouncedRight, BarFits
<1> QED
  BY <1>4, <1>5, <1>6, <1>7 DEF WholeInv

LEMMA WholeStep ==
  ASSUME RowsInv, WholeInv, PortStep, [Next]_vars
  PROVE  WholeInv'
<1>1. CASE Read
  <2>1. ReadStep /\ UNCHANGED sendVars
    BY <1>1 DEF Read
  <2> QED
    BY <2>1, WholeReadStart, WholeReadData, WholeReadOthers DEF ReadStep
<1>2. CASE UNCHANGED vars
  <2>1. UNCHANGED <<offer, taken, late, hand, sendVars, readVars, programVars>>
    BY <1>2 DEF vars, linkVars
  <2>2. EndSeen' => EndSeen
    BY <2>1 DEF EndSeen, programVars
  <2> QED
    BY <2>1, <2>2, WholeUntouched
<1> QED
  BY <1>1, <1>2, WholeOthers, WholeSend, WholeReceive DEF Next

LEMMA InitInv == Init => IInv
BY RowsInit, WholeInit, Parts

LEMMA NextInv == IInv /\ [Next]_vars => IInv'
<1> SUFFICES ASSUME IInv, [Next]_vars PROVE IInv'
  OBVIOUS
<1>1. RowsInv /\ WholeInv
  BY Parts
<1>2. RowsInv' /\ PortStep
  BY <1>1, RowsStep
<1>3. WholeInv'
  BY <1>1, <1>2, WholeStep
<1> QED
  BY <1>2, <1>3
     DEF IInv, RowsInv, WholeInv, Ports, DataInv, TypeOK, LinkTypes

(* The bytes stand in one row from the input to the output, the counters   *)
(* of both programs are what an int shows of their places, and the output  *)
(* ends where the input or the disk does (app.c:484-676).                  *)
THEOREM Invariant == Spec => []IInv
BY InitInv, NextInv, PTL DEF Spec

-----------------------------------------------------------------------------
(* What follows from it.                                                   *)

(* The size the receiver puts together with shifts is the one fstat gave,  *)
(* when an int can hold it (app.c:425-440, 636-644).                       *)
THEOREM SizeAnnounced == Spec => []AnnouncedRight
<1>1. IInv => AnnouncedRight
  BY DEF IInv
<1> QED
  BY Invariant, <1>1, PTL

(* The bars of both programs keep their width while a file of at least one *)
(* byte is copied that does not grow (app.c:458-477).                      *)
THEOREM BarKept == Spec => []BarFits
<1>1. IInv => BarFits
  BY DEF IInv
<1> QED
  BY Invariant, <1>1, PTL

(* A file that fits the int, the disk and its announcement is there whole. *)
LEMMA CopyableWhole ==
  ASSUME RowsInv, WholeInv, EndSeen, port["tx"] # "gone", Copyable
  PROVE  Len(out) >= world.size
<1>1. late.c = "end" /\ txPc = "end"
  BY Sender DEF WholeInv, EndInv, RowsInv
<1>2. /\ world.size \in Nat /\ offset \in Nat /\ bytes \in Int /\ world.room \in Nat
      /\ total = world.size
  BY <1>1, Known, Looping DEF Copyable
<1>3. offset >= world.size
  <2>1. InFlight = 0 /\ offset - InFlight = offset
    BY <1>1, <1>2 DEF InFlight
  <2>2. bytes = ToInt(offset) /\ bytes >= total
    BY <1>1, <2>1, Looping
  <2> QED
    BY <1>2, <2>2, ToIntBelow
<1>4. target \in {"open", "closed"}
  <2>1. target # "unset"
    BY <1>1, Reading
  <2>2. target # "failed"
    BY Reading DEF Copyable
  <2> QED
    BY <2>1, <2>2 DEF RowsInv, DataInv, ReadTypeOK
<1>5. Len(out) = offset \/ Len(out) = world.room
  BY <1>1, <1>4 DEF WholeInv, EndInv
<1> QED
  BY <1>2, <1>3, <1>5 DEF Copyable

(* And a file that is there whole could be copied, unless it is its own    *)
(* copy or the counter has come round.                                     *)
LEMMA WholeCopyable ==
  ASSUME RowsInv, WholeInv, EndSeen, port["tx"] # "gone", target = "closed", Len(out) >= world.size,
         world.target # "same", ~Rewound
  PROVE  Copyable
<1>1. late.c = "end" /\ txPc = "end"
  BY Sender DEF WholeInv, EndInv, RowsInv
<1>2. /\ world.size \in Nat /\ world.there \in Nat /\ world.room \in Nat /\ offset \in Nat
      /\ bytes \in Int /\ ToInt(world.size) \in Int
      /\ HalfRange \in Nat /\ HalfRange > 0
      /\ total = ToInt(world.size) /\ offset <= world.there
  BY <1>1, Known, Looping
<1>3. Len(out) <= offset /\ Len(out) <= world.room /\ Len(out) \in Nat
  <2>1. Len(out) \in Nat
    BY Reader DEF RowsInv
  <2> QED
    BY <1>1, <1>2, <2>1, Reading DEF WholeInv, EndInv
<1>4. world.target = "opens"
  <2>1. world.target \in {"opens", "fails", "same"}
    BY WorldAssumption DEF RowsInv, Ports, ProgramTypeOK, World
  <2>2. world.target # "fails"
    BY Reading
  <2> QED
    BY <2>1, <2>2
<1>5. world.size < HalfRange
  <2> SUFFICES ASSUME world.size >= HalfRange PROVE FALSE
    BY <1>2
  <2>1. PICK t \in Int, d \in Nat, h \in Nat :
          t = ToInt(world.size) /\ d = world.frame - Header /\ h = HalfRange /\ h > 0 /\ d <= h
    <3>1. world.frame - Header \in Nat /\ world.frame - Header <= MaxFrame - Header
      BY Known, WorldFacts, WorldAssumption DEF RowsInv, Ports
    <3>2. MaxFrame - Header < Base * Base /\ Base * Base \in Nat /\ HalfRange >= Base * Base
          /\ MaxFrame - Header \in Int
      BY WorldAssumption, PacketAssumption
    <3> QED
      BY <1>2, <3>1, <3>2
  <2>2. ToInt(world.size) + world.frame - Header = t + d
    BY <2>1, Known
  <2>3. world.size < 2 * h => t < 0
    BY <1>2, <2>1, ToIntNegative
  <2>4. t + d <= h
    BY <2>1, <2>2, <2>3, <1>2 DEF Rewound
  <2>5. offset = 0 \/ offset < t + d
    BY <1>1, <2>1, <2>2, <2>4, Looping
  <2> QED
    BY <1>2, <1>3, <2>1, <2>4, <2>5
<1> QED
  BY <1>2, <1>3, <1>4, <1>5 DEF Copyable

(* A receiver that has seen the end has the whole file, exactly when the   *)
(* file could be copied (app.c:455, 484-531, 599-676).                     *)
THEOREM FileWhole == Spec => []WholeWhenCopyable
<1>1. IInv => WholeWhenCopyable
  BY Parts, CopyableWhole, WholeCopyable DEF WholeWhenCopyable
<1> QED
  BY Invariant, <1>1, PTL

=============================================================================
