------------------------ MODULE InformationLinkProofs ------------------------
(***************************************************************************)
(* Information frames byte by byte, for every packet, noise, number of     *)
(* frames and content of uninitialised memory: as long as no read times    *)
(* out inside a frame, llread returns what llwrite sent, is back in step   *)
(* after one whole frame, and never answers more often than frames were    *)
(* written.                                                                *)
(***************************************************************************)
EXTENDS InformationLink, SequenceTheorems, WellFoundedInduction, TLAPS

-----------------------------------------------------------------------------
(* Bytes.                                                                  *)

LEMMA Least ==
  ASSUME NEW T, T \subseteq Nat, T # {}
  PROVE  \E x \in T : \A y \in T : x <= y
<1> DEFINE R == OpToRel(<, Nat)
<1>1. \A x, y \in Nat : y < x => <<y, x>> \in R
  BY DEF OpToRel
<1>2. IsWellFoundedOn(R, Nat)
  BY NatLessThanWellFounded, Zenon
<1> HIDE DEF R
<1>3. PICK x \in T : \A y \in T : ~(<<y, x>> \in R)
  BY <1>2, WFMin
<1>4. ASSUME NEW y \in T PROVE x <= y
  <2>1. x \in Nat /\ y \in Nat
    OBVIOUS
  <2>2. ~(y < x)
    BY <1>1, <1>3, <2>1, Zenon
  <2> QED
    BY <2>1, <2>2, SMT
<1> QED
  BY <1>4

(* The bytes the machine tells apart are different.                        *)
LEMMA Bytes ==
  /\ {FLAG, ESCAPE, FlagMark, EscapeMark, AE, CI, Zero} \subseteq Byte
  /\ FLAG # ESCAPE /\ FLAG # FlagMark /\ FLAG # EscapeMark /\ FLAG # AE /\ FLAG # CI
  /\ ESCAPE # AE /\ ESCAPE # CI
  /\ ESCAPE # FlagMark /\ ESCAPE # EscapeMark
  /\ FlagMark # EscapeMark
  /\ Xor(AE, CI) = AE
<1>1. {FLAG, ESCAPE, FlagMark, EscapeMark, AE, CI, Zero} \subseteq Byte
  BY DEF Byte, Bit, FLAG, ESCAPE, FlagMark, EscapeMark, AE, CI, Zero
<1>2. 1 \in FLAG /\ 5 \in FLAG /\ 2 \in FLAG
  BY DEF FLAG
<1>3. 1 \notin ESCAPE /\ 5 \in ESCAPE
  BY DEF ESCAPE
<1>4. 1 \in FlagMark /\ 5 \notin FlagMark
  BY DEF FlagMark
<1>5. 1 \notin EscapeMark /\ 5 \notin EscapeMark
  BY DEF EscapeMark
<1>6. 2 \notin AE /\ 2 \notin CI /\ 2 \in ESCAPE
  BY DEF AE, CI, ESCAPE
<1>7. Xor(AE, CI) = AE
  BY DEF Xor, AE, CI
<1> QED
  BY <1>1, <1>2, <1>3, <1>4, <1>5, <1>6, <1>7

LEMMA XorByte == \A a, b \in Byte : Xor(a, b) \in Byte
  BY DEF Xor, Byte

-----------------------------------------------------------------------------
(* The checksum.                                                           *)

(* The running checksums of a sequence of bytes.                           *)
Running(s, g) ==
  g = [i \in 1 .. Len(s) |-> IF i = 1 THEN s[1] ELSE Xor(g[i - 1], s[i])]

(* They exist, byte by byte, ...                                           *)
LEMMA RunningExists ==
  ASSUME NEW s \in Seq(Byte)
  PROVE  \E g \in [1 .. Len(s) -> Byte] : Running(s, g)
<1> DEFINE Upto(n, g) ==
             \A i \in 1 .. n : g[i] = IF i = 1 THEN s[1] ELSE Xor(g[i - 1], s[i])
           Bad == {n \in 0 .. Len(s) : ~ \E g \in [1 .. n -> Byte] : Upto(n, g)}
<1>0. Len(s) \in Nat /\ \A i \in 1 .. Len(s) : s[i] \in Byte
  OBVIOUS
<1>1. CASE Bad = {}
  <2>1. PICK g \in [1 .. Len(s) -> Byte] : Upto(Len(s), g)
    BY <1>0, <1>1
  <2>2. Running(s, g)
    BY <2>1 DEF Running
  <2> QED
    BY <2>2
<1>2. CASE Bad # {}
  <2>1. PICK n \in Bad : \A k \in Bad : n <= k
    <3>1. Bad \subseteq Nat
      BY <1>0
    <3> QED
      BY <1>2, <3>1, Least
  <2>2. n \in 0 .. Len(s) /\ ~ \E g \in [1 .. n -> Byte] : Upto(n, g)
    BY <2>1
  <2>3. n # 0
    <3>1. [i \in 1 .. 0 |-> Zero] \in [1 .. 0 -> Byte]
      BY Bytes
    <3>2. Upto(0, [i \in 1 .. 0 |-> Zero])
      OBVIOUS
    <3> QED
      BY <2>2, <3>1, <3>2
  <2>4. n - 1 \in 0 .. Len(s) /\ ~(n <= n - 1) /\ n \in 1 .. Len(s)
    BY <1>0, <2>2, <2>3
  <2>5. n - 1 \notin Bad
    BY <2>1, <2>4
  <2>6. PICK g \in [1 .. n - 1 -> Byte] : Upto(n - 1, g)
    BY <2>4, <2>5
  <2> DEFINE last == IF n = 1 THEN s[1] ELSE Xor(g[n - 1], s[n])
             h == [i \in 1 .. n |-> IF i = n THEN last ELSE g[i]]
  <2>7. last \in Byte
    <3>1. n # 1 => n - 1 \in 1 .. n - 1
      BY <2>4
    <3>2. n # 1 => g[n - 1] \in Byte
      BY <3>1
    <3> QED
      BY <1>0, <2>4, <3>2, XorByte
  <2>8. h \in [1 .. n -> Byte]
    <3>1. \A i \in 1 .. n : i # n => i \in 1 .. n - 1
      BY <2>4
    <3> QED
      BY <2>7, <3>1
  <2>9. Upto(n, h)
    <3> SUFFICES ASSUME NEW i \in 1 .. n
                 PROVE  h[i] = IF i = 1 THEN s[1] ELSE Xor(h[i - 1], s[i])
      OBVIOUS
    <3>1. i # 1 => i - 1 \in 1 .. n /\ i - 1 # n
      BY <2>4
    <3>2. i # 1 => h[i - 1] = g[i - 1]
      BY <3>1
    <3>3. CASE i = n
      BY <3>2, <3>3
    <3>4. CASE i # n
      <4>1. i \in 1 .. n - 1
        BY <2>4, <3>4
      <4>2. h[i] = g[i] /\ g[i] = IF i = 1 THEN s[1] ELSE Xor(g[i - 1], s[i])
        BY <2>6, <3>4, <4>1
      <4> QED
        BY <3>2, <4>2
    <3> QED
      BY <3>3, <3>4
  <2> QED
    BY <2>2, <2>8, <2>9
<1> QED
  BY <1>1, <1>2

(* ... and the first ones of two sequences that begin alike are the same.  *)
LEMMA RunningAlike ==
  \A s, t \in Seq(Byte), n \in Nat :
    n <= Len(s) /\ n <= Len(t) /\ (\A i \in 1 .. n : s[i] = t[i]) =>
      \A f, g : Running(s, f) /\ Running(t, g) => \A i \in 1 .. n : f[i] = g[i]
<1> SUFFICES ASSUME NEW s \in Seq(Byte), NEW t \in Seq(Byte), NEW n \in Nat, NEW f, NEW g,
                    n <= Len(s), n <= Len(t), \A i \in 1 .. n : s[i] = t[i],
                    Running(s, f), Running(t, g)
             PROVE  \A i \in 1 .. n : f[i] = g[i]
  OBVIOUS
<1> DEFINE Bad == {i \in 1 .. n : f[i] # g[i]}
<1>0. Len(s) \in Nat /\ Len(t) \in Nat
  OBVIOUS
<1>1. CASE Bad = {}
  BY <1>1
<1>2. CASE Bad # {}
  <2>1. PICK i \in Bad : \A k \in Bad : i <= k
    <3>1. Bad \subseteq Nat
      OBVIOUS
    <3> QED
      BY <1>2, <3>1, Least
  <2>2. i \in 1 .. n /\ i \in 1 .. Len(s) /\ i \in 1 .. Len(t) /\ f[i] # g[i]
    BY <1>0, <2>1
  <2>3. f[i] = IF i = 1 THEN s[1] ELSE Xor(f[i - 1], s[i])
    BY <2>2, Zenon DEF Running
  <2>4. g[i] = IF i = 1 THEN t[1] ELSE Xor(g[i - 1], t[i])
    BY <2>2, Zenon DEF Running
  <2>5. i # 1
    <3>1. i = 1 => s[1] = t[1]
      BY <2>2
    <3> QED
      BY <2>2, <2>3, <2>4, <3>1
  <2>6. i - 1 \in 1 .. n /\ ~(i <= i - 1)
    BY <2>2, <2>5
  <2>7. f[i - 1] = g[i - 1]
    BY <2>1, <2>6
  <2> QED
    BY <2>2, <2>3, <2>4, <2>5, <2>7
<1> QED
  BY <1>1, <1>2

(* getBCC2 returns the last running checksum.                              *)
LEMMA BCC2Running ==
  ASSUME NEW s \in Seq(Byte)
  PROVE  \E g \in [1 .. Len(s) -> Byte] : Running(s, g) /\ getBCC2(s) = g[Len(s)]
<1> DEFINE sum == CHOOSE g : Running(s, g)
<1>1. PICK g \in [1 .. Len(s) -> Byte] : Running(s, g)
  BY RunningExists
<1>2. Running(s, sum)
  BY <1>1
<1>3. getBCC2(s) = sum[Len(s)]
  BY DEF getBCC2, Running
<1>4. sum \in [1 .. Len(s) -> Byte]
  <2>1. \A i \in 1 .. Len(s) : sum[i] = g[i]
    <3> HIDE DEF sum
    <3> QED
      BY <1>1, <1>2, RunningAlike
  <2>2. DOMAIN sum = 1 .. Len(s) /\ sum = [i \in 1 .. Len(s) |-> sum[i]]
    <3> HIDE DEF sum
    <3> QED
      BY <1>2 DEF Running
  <2> HIDE DEF sum
  <2> QED
    BY <1>1, <2>1, <2>2
<1> QED
  BY <1>2, <1>3, <1>4

(* The checksum of the first bytes, from one to the next.                  *)
LEMMA BCC2First ==
  ASSUME NEW s \in Seq(Byte), NEW n \in 1 .. Len(s)
  PROVE  /\ getBCC2(SubSeq(s, 1, n)) \in Byte
         /\ n = 1 => getBCC2(SubSeq(s, 1, n)) = s[1]
         /\ n > 1 => getBCC2(SubSeq(s, 1, n)) = Xor(getBCC2(SubSeq(s, 1, n - 1)), s[n])
<1>0. Len(s) \in Nat /\ n \in Nat
  OBVIOUS
<1> DEFINE S(k) == SubSeq(s, 1, k)
<1>1. ASSUME NEW k \in 1 .. Len(s)
      PROVE  S(k) \in Seq(Byte) /\ Len(S(k)) = k /\ \A i \in 1 .. k : S(k)[i] = s[i]
  <2>1. \A i \in 1 .. k : s[i] \in Byte
    OBVIOUS
  <2>2. /\ S(k) \in Seq(Byte)
        /\ Len(S(k)) = IF 1 <= k THEN k - 1 + 1 ELSE 0
        /\ \A i \in 1 .. k - 1 + 1 : S(k)[i] = s[1 + i - 1]
    BY <2>1, SubSeqProperties
  <2> QED
    BY <2>2
<1> HIDE DEF S
<1>2. PICK g \in [1 .. n -> Byte] : Running(S(n), g) /\ getBCC2(S(n)) = g[n]
  <2>1. S(n) \in Seq(Byte) /\ Len(S(n)) = n
    BY <1>1
  <2> QED
    BY <2>1, BCC2Running
<1>3. \A i \in 1 .. n : g[i] = IF i = 1 THEN S(n)[1] ELSE Xor(g[i - 1], S(n)[i])
  <2>1. Len(S(n)) = n
    BY <1>1
  <2> QED
    BY <1>2, <2>1, Zenon DEF Running
<1>4. S(n)[1] = s[1] /\ S(n)[n] = s[n]
  BY <1>0, <1>1
<1>5. ASSUME n > 1 PROVE getBCC2(S(n - 1)) = g[n - 1]
  <2>1. n - 1 \in 1 .. Len(s) /\ n - 1 \in Nat
    BY <1>0, <1>5
  <2>2. S(n - 1) \in Seq(Byte) /\ Len(S(n - 1)) = n - 1
    BY <1>1, <2>1
  <2>3. PICK f \in [1 .. n - 1 -> Byte] : Running(S(n - 1), f) /\ getBCC2(S(n - 1)) = f[n - 1]
    BY <2>2, BCC2Running
  <2>4. S(n) \in Seq(Byte) /\ Len(S(n)) = n
    BY <1>1
  <2>5. \A i \in 1 .. n - 1 : S(n - 1)[i] = S(n)[i]
    <3>1. \A i \in 1 .. n - 1 : i \in 1 .. n
      BY <1>0
    <3>2. \A i \in 1 .. n - 1 : S(n - 1)[i] = s[i]
      BY <1>1, <2>1
    <3>3. \A i \in 1 .. n : S(n)[i] = s[i]
      BY <1>1
    <3> QED
      BY <3>1, <3>2, <3>3
  <2>6. n - 1 <= Len(S(n - 1)) /\ n - 1 <= Len(S(n))
    BY <1>0, <2>2, <2>4
  <2>7. \A i \in 1 .. n - 1 : f[i] = g[i]
    <3>1. PICK k \in Nat, p \in Seq(Byte), q \in Seq(Byte) : k = n - 1 /\ p = S(n - 1) /\ q = S(n)
      BY <2>1, <2>2, <2>4
    <3>2. Running(p, f) /\ Running(q, g)
      BY <1>2, <2>3, <3>1
    <3>3. k <= Len(p) /\ k <= Len(q) /\ \A i \in 1 .. k : p[i] = q[i]
      BY <2>5, <2>6, <3>1
    <3> HIDE DEF S
    <3>4. \A i \in 1 .. k : f[i] = g[i]
      <4>1. k <= Len(p) /\ k <= Len(q)
        BY <3>3
      <4>2. \A i \in 1 .. k : p[i] = q[i]
        BY <3>3
      <4>3. Running(p, f)
        BY <3>2
      <4>4. Running(q, g)
        BY <3>2
      <4>5. \A u, v : Running(p, u) /\ Running(q, v) => \A i \in 1 .. k : u[i] = v[i]
        BY <4>1, <4>2, RunningAlike, Zenon
      <4> QED
        BY <4>3, <4>4, <4>5, Zenon
    <3> QED
      BY <3>1, <3>4
  <2>8. n - 1 \in 1 .. n - 1
    BY <2>1
  <2> QED
    BY <2>3, <2>7, <2>8
<1>6. n \in 1 .. n /\ g[n] \in Byte
  BY <1>0
<1>7. n > 1 => n # 1
  BY <1>0
<1>8. getBCC2(S(n)) \in Byte
  BY <1>2, <1>6
<1>9. n = 1 => getBCC2(S(n)) = s[1]
  BY <1>2, <1>3, <1>4, <1>6
<1>10. n > 1 => getBCC2(S(n)) = Xor(getBCC2(S(n - 1)), s[n])
  <2> SUFFICES ASSUME n > 1 PROVE getBCC2(S(n)) = Xor(getBCC2(S(n - 1)), s[n])
    OBVIOUS
  <2>1. g[n] = Xor(g[n - 1], S(n)[n])
    BY <1>3, <1>6, <1>7
  <2> QED
    BY <1>2, <1>4, <1>5, <2>1
<1> QED
  BY <1>8, <1>9, <1>10 DEF S

-----------------------------------------------------------------------------
(* The stuffing.                                                           *)

LEMMA Associative ==
  ASSUME NEW x \in Seq(Byte), NEW y \in Seq(Byte), NEW z \in Seq(Byte)
  PROVE  (x \o y) \o z = x \o (y \o z)
  BY ConcatAssociative

LEMMA StuffedByte ==
  ASSUME NEW b \in Byte
  PROVE  /\ Stuffed(b) \in Seq(Byte) /\ Len(Stuffed(b)) > 0
         /\ b = FLAG => Stuffed(b) = <<ESCAPE, FlagMark>>
         /\ b = ESCAPE => Stuffed(b) = <<ESCAPE, EscapeMark>>
         /\ b \notin {FLAG, ESCAPE} => Stuffed(b) = <<b>>
<1>1. ESCAPE \in Byte /\ FlagMark \in Byte /\ EscapeMark \in Byte /\ FLAG # ESCAPE
  BY Bytes
<1>2. CASE b = FLAG
  BY <1>1, <1>2 DEF Stuffed
<1>3. CASE b = ESCAPE
  BY <1>1, <1>3 DEF Stuffed
<1>4. CASE b \notin {FLAG, ESCAPE}
  BY <1>4 DEF Stuffed
<1> QED
  BY <1>2, <1>3, <1>4

(* The stuffed beginnings of a sequence of bytes.                          *)
Stuffing(s, g) ==
  g = [i \in 0 .. Len(s) |-> IF i = 0 THEN <<>> ELSE g[i - 1] \o Stuffed(s[i])]

LEMMA StuffingExists ==
  ASSUME NEW s \in Seq(Byte)
  PROVE  \E g \in [0 .. Len(s) -> Seq(Byte)] : Stuffing(s, g)
<1> DEFINE Upto(n, g) ==
             \A i \in 0 .. n : g[i] = IF i = 0 THEN <<>> ELSE g[i - 1] \o Stuffed(s[i])
           Bad == {n \in 0 .. Len(s) : ~ \E g \in [0 .. n -> Seq(Byte)] : Upto(n, g)}
<1>0. Len(s) \in Nat /\ \A i \in 1 .. Len(s) : s[i] \in Byte
  OBVIOUS
<1>1. CASE Bad = {}
  <2>1. PICK g \in [0 .. Len(s) -> Seq(Byte)] : Upto(Len(s), g)
    <3>1. Len(s) \in 0 .. Len(s) /\ Len(s) \notin Bad
      BY <1>0, <1>1
    <3> QED
      BY <3>1
  <2>2. Stuffing(s, g)
    <3>1. g = [i \in 0 .. Len(s) |-> g[i]]
      OBVIOUS
    <3> QED
      BY <2>1, <3>1, Zenon DEF Stuffing
  <2> QED
    BY <2>2
<1>2. CASE Bad # {}
  <2>1. PICK n \in Bad : \A k \in Bad : n <= k
    <3>1. Bad \subseteq Nat
      BY <1>0
    <3> QED
      BY <1>2, <3>1, Least
  <2>2. n \in 0 .. Len(s) /\ ~ \E g \in [0 .. n -> Seq(Byte)] : Upto(n, g)
    BY <2>1
  <2>3. n # 0
    <3>1. [i \in 0 .. 0 |-> <<>>] \in [0 .. 0 -> Seq(Byte)]
      OBVIOUS
    <3>2. Upto(0, [i \in 0 .. 0 |-> <<>>])
      OBVIOUS
    <3> QED
      BY <2>2, <3>1, <3>2
  <2>4. n - 1 \in 0 .. Len(s) /\ ~(n <= n - 1) /\ n \in 1 .. Len(s) /\ n \in Nat
    BY <1>0, <2>2, <2>3
  <2>5. n - 1 \notin Bad
    BY <2>1, <2>4
  <2>6. PICK g \in [0 .. n - 1 -> Seq(Byte)] : Upto(n - 1, g)
    BY <2>4, <2>5
  <2> DEFINE last == g[n - 1] \o Stuffed(s[n])
             h == [i \in 0 .. n |-> IF i = n THEN last ELSE g[i]]
  <2>7. last \in Seq(Byte)
    <3>1. n - 1 \in 0 .. n - 1
      BY <2>4
    <3>2. g[n - 1] \in Seq(Byte)
      BY <3>1
    <3>3. Stuffed(s[n]) \in Seq(Byte)
      BY <1>0, <2>4, StuffedByte
    <3> QED
      BY <3>2, <3>3
  <2>8. h \in [0 .. n -> Seq(Byte)]
    <3>1. \A i \in 0 .. n : i # n => i \in 0 .. n - 1
      BY <2>4
    <3> HIDE DEF last
    <3> QED
      BY <2>7, <3>1
  <2>9. Upto(n, h)
    <3> SUFFICES ASSUME NEW i \in 0 .. n
                 PROVE  h[i] = IF i = 0 THEN <<>> ELSE h[i - 1] \o Stuffed(s[i])
      OBVIOUS
    <3>1. i # 0 => i - 1 \in 0 .. n /\ i - 1 # n
      BY <2>4
    <3>2. i # 0 => h[i - 1] = g[i - 1]
      BY <3>1
    <3>3. CASE i = n
      <4>1. h[i] = last
        BY <3>3
      <4>2. i # 0
        BY <2>3, <3>3
      <4> QED
        BY <3>2, <3>3, <4>1, <4>2
    <3>4. CASE i # n
      <4>1. i \in 0 .. n - 1
        BY <2>4, <3>4
      <4>2. h[i] = g[i] /\ g[i] = IF i = 0 THEN <<>> ELSE g[i - 1] \o Stuffed(s[i])
        BY <2>6, <3>4, <4>1
      <4> HIDE DEF h
      <4> QED
        BY <3>2, <4>2
    <3> QED
      BY <3>3, <3>4
  <2> QED
    BY <2>2, <2>8, <2>9
<1> QED
  BY <1>1, <1>2

(* getStuffedData returns the last one.                                    *)
LEMMA StuffedData ==
  ASSUME NEW s \in Seq(Byte)
  PROVE  \E g \in [0 .. Len(s) -> Seq(Byte)] :
           /\ getStuffedData(s) = g[Len(s)]
           /\ g[0] = <<>>
           /\ \A i \in 1 .. Len(s) : g[i] = g[i - 1] \o Stuffed(s[i])
<1> DEFINE f == CHOOSE g : Stuffing(s, g)
<1>0. Len(s) \in Nat
  OBVIOUS
<1>1. PICK g \in [0 .. Len(s) -> Seq(Byte)] : Stuffing(s, g)
  BY StuffingExists
<1>2. Stuffing(s, f)
  BY <1>1
<1>3. getStuffedData(s) = f[Len(s)]
  BY DEF getStuffedData, Stuffing
<1> HIDE DEF f
<1>4. /\ \A i \in 0 .. Len(s) : f[i] = IF i = 0 THEN <<>> ELSE f[i - 1] \o Stuffed(s[i])
      /\ \A i \in 0 .. Len(s) : g[i] = IF i = 0 THEN <<>> ELSE g[i - 1] \o Stuffed(s[i])
  BY <1>1, <1>2, Zenon DEF Stuffing
<1>5. f[0] = <<>> /\ \A i \in 1 .. Len(s) : f[i] = f[i - 1] \o Stuffed(s[i])
  <2>1. 0 \in 0 .. Len(s) /\ \A i \in 1 .. Len(s) : i \in 0 .. Len(s) /\ i # 0
    BY <1>0
  <2> QED
    BY <1>4, <2>1, Zenon
<1>6. \A i \in 0 .. Len(s) : f[i] = g[i]
  <2> DEFINE Bad == {i \in 0 .. Len(s) : f[i] # g[i]}
  <2>1. CASE Bad = {}
    BY <2>1
  <2>2. CASE Bad # {}
    <3>1. PICK i \in Bad : \A k \in Bad : i <= k
      <4>1. Bad \subseteq Nat
        BY <1>0
      <4> QED
        BY <2>2, <4>1, Least
    <3>2. i \in 0 .. Len(s) /\ f[i] # g[i]
      BY <3>1
    <3>3. i # 0
      <4>1. i = 0 => f[i] = <<>> /\ g[i] = <<>>
        BY <1>4, <3>2
      <4> QED
        BY <3>2, <4>1
    <3>4. i - 1 \in 0 .. Len(s) /\ ~(i <= i - 1)
      BY <1>0, <3>2, <3>3
    <3>5. f[i - 1] = g[i - 1]
      BY <3>1, <3>4
    <3>6. f[i] = f[i - 1] \o Stuffed(s[i]) /\ g[i] = g[i - 1] \o Stuffed(s[i])
      BY <1>4, <3>2, <3>3, Zenon
    <3> QED
      BY <3>2, <3>5, <3>6, Zenon
  <2> QED
    BY <2>1, <2>2
<1>7. f \in [0 .. Len(s) -> Seq(Byte)]
  <2>1. f = [i \in 0 .. Len(s) |-> f[i]]
    BY <1>2 DEF Stuffing
  <2>2. \A i \in 0 .. Len(s) : f[i] \in Seq(Byte)
    <3>1. \A i \in 0 .. Len(s) : g[i] \in Seq(Byte)
      OBVIOUS
    <3> QED
      BY <1>6, <3>1, Zenon
  <2> QED
    BY <2>1, <2>2, Zenon
<1> QED
  BY <1>3, <1>5, <1>7, Zenon

(* A sequence is stuffed byte by byte, from the first.                     *)
LEMMA StuffedFirst ==
  /\ getStuffedData(<<>>) = <<>>
  /\ \A s \in Seq(Byte) : s # <<>> =>
       getStuffedData(s) = Stuffed(Head(s)) \o getStuffedData(Tail(s))
<1>1. getStuffedData(<<>>) = <<>>
  <2>1. <<>> \in Seq(Byte) /\ Len(<<>>) = 0
    OBVIOUS
  <2>2. PICK g \in [0 .. Len(<<>>) -> Seq(Byte)] : getStuffedData(<<>>) = g[Len(<<>>)] /\ g[0] = <<>>
    BY <2>1, StuffedData
  <2> QED
    BY <2>1, <2>2, Zenon
<1>2. ASSUME NEW s \in Seq(Byte), s # <<>>
      PROVE  getStuffedData(s) = Stuffed(Head(s)) \o getStuffedData(Tail(s))
  <2>1. PICK t \in Seq(Byte), n \in Nat :
          t = Tail(s) /\ n = Len(t) /\ Len(s) = n + 1 /\ \A i \in 1 .. n : t[i] = s[i + 1]
    <3>1. /\ Tail(s) \in Seq(Byte)
          /\ Len(Tail(s)) = Len(s) - 1
          /\ \A i \in 1 .. Len(Tail(s)) : Tail(s)[i] = s[i + 1]
      BY <1>2, HeadTailProperties
    <3>2. PICK t \in Seq(Byte) : t = Tail(s)
      BY <3>1
    <3>3. Len(t) \in Nat /\ Len(s) = Len(t) + 1
      BY <3>1, <3>2
    <3> QED
      BY <3>1, <3>2, <3>3
  <2>2. PICK g \in [0 .. Len(s) -> Seq(Byte)] :
          /\ getStuffedData(s) = g[Len(s)]
          /\ g[0] = <<>>
          /\ \A i \in 1 .. Len(s) : g[i] = g[i - 1] \o Stuffed(s[i])
    BY StuffedData
  <2>3. PICK h \in [0 .. Len(t) -> Seq(Byte)] :
          /\ getStuffedData(t) = h[Len(t)]
          /\ h[0] = <<>>
          /\ \A i \in 1 .. Len(t) : h[i] = h[i - 1] \o Stuffed(t[i])
    BY StuffedData
  <2>4. PICK x \in Seq(Byte) : x = Stuffed(Head(s)) /\ x = Stuffed(s[1])
    <3>1. Head(s) \in Byte /\ Head(s) = s[1]
      BY <1>2
    <3> QED
      BY <3>1, StuffedByte, Zenon
  <2>5. \A i \in 0 .. n : h[i] \in Seq(Byte)
    BY <2>1
  <2>6. \A i \in 0 .. n : g[i + 1] = x \o h[i]
    <3> DEFINE Bad == {i \in 0 .. n : g[i + 1] # x \o h[i]}
    <3>1. CASE Bad = {}
      BY <3>1
    <3>2. CASE Bad # {}
      <4>1. PICK i \in Bad : \A k \in Bad : i <= k
        <5>1. Bad \subseteq Nat
          OBVIOUS
        <5> QED
          BY <3>2, <5>1, Least
      <4>2. i \in 0 .. n /\ g[i + 1] # x \o h[i]
        BY <4>1
      <4>3. i # 0
        <5>1. g[1] = g[0] \o x
          <6>1. 1 \in 1 .. Len(s) /\ 1 - 1 = 0
            BY <2>1
          <6> QED
            BY <2>2, <2>4, <6>1
        <5>2. <<>> \o x = x /\ x \o <<>> = x
          BY ConcatEmptySeq
        <5>3. g[1] = x \o h[0]
          BY <2>2, <2>3, <5>1, <5>2
        <5> QED
          BY <4>2, <5>3
      <4>4. i \in 1 .. n /\ i - 1 \in 0 .. n /\ ~(i <= i - 1) /\ (i - 1) + 1 = i
        BY <4>2, <4>3
      <4>5. g[i] = x \o h[i - 1]
        BY <4>1, <4>4
      <4>6. PICK y \in Seq(Byte) : y = Stuffed(t[i]) /\ t[i] = s[i + 1]
        <5>1. t[i] \in Byte /\ t[i] = s[i + 1]
          BY <2>1, <4>4
        <5> QED
          BY <5>1, StuffedByte
      <4>7. g[i + 1] = g[i] \o y
        <5>1. i + 1 \in 1 .. Len(s) /\ (i + 1) - 1 = i
          BY <2>1, <4>4
        <5>2. g[i + 1] = g[(i + 1) - 1] \o Stuffed(s[i + 1])
          BY <2>2, <5>1
        <5> QED
          BY <4>6, <5>1, <5>2
      <4>8. h[i] = h[i - 1] \o y
        <5>1. i \in 1 .. Len(t)
          BY <2>1, <4>4
        <5> QED
          BY <2>3, <4>6, <5>1
      <4>9. PICK z \in Seq(Byte) : z = h[i - 1]
        BY <2>5, <4>4
      <4>10. (x \o z) \o y = x \o (z \o y)
        BY Associative
      <4>11. g[i + 1] = (x \o z) \o y
        BY <4>5, <4>7, <4>9, Zenon
      <4>12. x \o h[i] = x \o (z \o y)
        BY <4>8, <4>9, Zenon
      <4> QED
        BY <4>2, <4>10, <4>11, <4>12, Zenon
    <3> QED
      BY <3>1, <3>2
  <2>7. n \in 0 .. n
    OBVIOUS
  <2>8. g[n + 1] = x \o h[n]
    BY <2>6, <2>7, Zenon
  <2> QED
    BY <2>1, <2>2, <2>3, <2>4, <2>8
<1> QED
  BY <1>1, <1>2

(* What the stuffing is for: no flag inside a frame, and no frame closes   *)
(* within an escape sequence.                                              *)
NoFlag(s) ==
  /\ \A i \in 1 .. Len(s) : s[i] # FLAG
  /\ s # <<>> => s[Len(s)] # ESCAPE

LEMMA StuffedNoFlag ==
  ASSUME NEW s \in Seq(Byte)
  PROVE  getStuffedData(s) \in Seq(Byte) /\ NoFlag(getStuffedData(s))
<1> DEFINE Good(r) == getStuffedData(r) \in Seq(Byte) /\ NoFlag(getStuffedData(r))
           Bad == {n \in Nat : \E r \in Seq(Byte) : Len(r) = n /\ ~Good(r)}
<1>1. CASE Bad = {}
  <2>1. Len(s) \in Nat /\ Len(s) \notin Bad
    BY <1>1
  <2> QED
    BY <2>1
<1>2. CASE Bad # {}
  <2>1. PICK n \in Bad : \A k \in Bad : n <= k
    BY <1>2, Least
  <2>2. PICK r \in Seq(Byte) : Len(r) = n /\ ~Good(r)
    BY <2>1
  <2>3. r # <<>>
    <3>1. NoFlag(<<>>) /\ <<>> \in Seq(Byte)
      BY DEF NoFlag
    <3> QED
      BY <2>2, <3>1, StuffedFirst
  <2>4. Head(r) \in Byte /\ Tail(r) \in Seq(Byte) /\ Len(Tail(r)) \in Nat /\ ~(n <= Len(Tail(r)))
    BY <2>2, <2>3
  <2>5. Good(Tail(r))
    BY <2>1, <2>4
  <2>6. PICK x \in Seq(Byte) : x = Stuffed(Head(r))
    BY <2>4, StuffedByte
  <2>7. x # <<>> /\ NoFlag(x)
    <3>1. CASE Head(r) = FLAG
      <4>1. x = <<ESCAPE, FlagMark>>
        BY <2>4, <2>6, <3>1, StuffedByte
      <4> QED
        BY <4>1, Bytes DEF NoFlag
    <3>2. CASE Head(r) = ESCAPE
      <4>1. x = <<ESCAPE, EscapeMark>>
        BY <2>4, <2>6, <3>2, StuffedByte
      <4> QED
        BY <4>1, Bytes DEF NoFlag
    <3>3. CASE Head(r) \notin {FLAG, ESCAPE}
      <4>1. x = <<Head(r)>>
        BY <2>4, <2>6, <3>3, StuffedByte
      <4> QED
        <5>1. Head(r) # FLAG /\ Head(r) # ESCAPE
          BY <3>3
        <5>2. PICK b \in Byte : b = Head(r)
          BY <2>4
        <5>3. x = <<b>> /\ b # FLAG /\ b # ESCAPE
          BY <4>1, <5>1, <5>2
        <5> QED
          BY <5>3 DEF NoFlag
    <3> QED
      BY <3>1, <3>2, <3>3
  <2>8. PICK y \in Seq(Byte) : y = getStuffedData(Tail(r))
    BY <2>5
  <2>9. NoFlag(y)
    BY <2>5, <2>8
  <2>10. getStuffedData(r) = x \o y
    BY <2>3, <2>6, <2>8, StuffedFirst
  <2>11. x \o y \in Seq(Byte) /\ Len(x \o y) = Len(x) + Len(y)
    BY ConcatProperties
  <2>12. \A i \in 1 .. Len(x) + Len(y) : (x \o y)[i] = IF i <= Len(x) THEN x[i] ELSE y[i - Len(x)]
    BY ConcatProperties
  <2>13. Len(x) \in Nat \ {0} /\ Len(y) \in Nat /\ (y # <<>> => Len(y) > 0)
    BY <2>7
  <2>14. \A i \in 1 .. Len(x \o y) : (x \o y)[i] # FLAG
    BY <2>7, <2>9, <2>11, <2>12, <2>13 DEF NoFlag
  <2>15. (x \o y)[Len(x \o y)] # ESCAPE
    <3>1. CASE y = <<>>
      BY <2>7, <2>11, <2>12, <2>13, <3>1 DEF NoFlag
    <3>2. CASE y # <<>>
      BY <2>9, <2>11, <2>12, <2>13, <3>2 DEF NoFlag
    <3> QED
      BY <3>1, <3>2
  <2> QED
    BY <2>2, <2>10, <2>11, <2>14, <2>15 DEF NoFlag
<1> QED
  BY <1>1, <1>2

-----------------------------------------------------------------------------
(* What a byte does to the machine.                                        *)

(* The machine of a call that goes on: it collects only after the header,  *)
(* and it is in FLAG because it was fed a flag.                            *)
Shape ==
  /\ machine \in Machine
  /\ byte \in Byte
  /\ machine.state \in {"START", "FLAG", "A", "C", "COLLECTING"}
  /\ machine.state # "COLLECTING" => machine.frame = <<>> /\ machine.escapeFlag = FALSE
  /\ machine.state = "FLAG" => byte = FLAG

(* The call returns and llread is called again.                            *)
Restarted == machine'.state = "START" /\ Shape'

(* The call goes on in a state of the header.                              *)
Advanced(state, b) ==
  /\ machine' = [machine EXCEPT !.state = state]
  /\ machine'.state = state
  /\ byte' = b
  /\ returned' = returned
  /\ answers' = answers

LEMMA CallAgainRestarts ==
  ASSUME NEW b \in Byte, CallAgain(b)
  PROVE  Restarted
<1>1. PICK g \in Byte : machine' = newReceiverStateMachine(g)
  BY InformationAssumption DEF CallAgain
<1>2. byte' \in Byte
  BY InformationAssumption DEF CallAgain
<1>3. /\ machine' = [state |-> "START", frame |-> <<>>, escapeFlag |-> FALSE, bcc2 |-> g]
      /\ machine'.state = "START" /\ machine'.frame = <<>> /\ machine'.escapeFlag = FALSE
  BY <1>1 DEF newReceiverStateMachine
<1>4. machine' \in Machine
  BY <1>3 DEF Machine, State
<1> QED
  BY <1>2, <1>3, <1>4 DEF Restarted, Shape

(* In the header.                                                          *)
LEMMA FeedHeader ==
  ASSUME Shape, NEW b \in Byte, Feed(b), machine.state # "COLLECTING"
  PROVE  \/ /\ machine.state = "START"
            /\ Advanced(IF b = FLAG THEN "FLAG" ELSE "START", b)
         \/ /\ machine.state = "FLAG" /\ b \in {FLAG, AE}
            /\ Advanced(IF b = FLAG THEN "FLAG" ELSE "A", b)
         \/ machine.state = "A" /\ b = CI /\ Advanced("C", b)
         \/ machine.state = "C" /\ b = AE /\ Advanced("COLLECTING", b)
         \/ /\ machine.state = "FLAG" => b \notin {FLAG, AE}
            /\ machine.state = "A" => b # CI
            /\ machine.state = "C" => b # AE
            /\ machine.state # "START"
            /\ Restarted /\ returned' = returned /\ answers' = answers
<1> DEFINE r == interpretChar(machine, b)
           To(state) == [machine EXCEPT !.state = state]
           Stay == r.state \notin {"FINAL", "ERROR"}
           ToError == r = To("ERROR")
<1>0. machine \in Machine /\ FLAG # AE /\ Xor(AE, CI) = AE
  BY Bytes DEF Shape
<1>1. \A state \in State : To(state).state = state
  BY <1>0 DEF Machine
<1>2. machine = To(machine.state)
  BY <1>0 DEF Machine
<1>3. ASSUME NEW state \in State, r = To(state), state \notin {"FINAL", "ERROR"}
      PROVE  Advanced(state, b)
  <2>1. r.state = state
    BY <1>1, <1>3
  <2>2. Continue(r, b)
    BY <1>3, <2>1 DEF Feed, HeaderError, Reject, Accept
  <2> QED
    BY <1>3, <2>1, <2>2 DEF Continue, Advanced
<1>4. ASSUME r = To("ERROR") PROVE Restarted /\ returned' = returned /\ answers' = answers
  <2>1. r.state = "ERROR"
    BY <1>1, <1>4 DEF State
  <2>2. HeaderError(r, b)
    BY <2>1 DEF Feed, Continue, Reject, Accept
  <2> QED
    BY <2>2, CallAgainRestarts DEF HeaderError
<1>5. CASE machine.state = "START"
  <2>1. r = To(IF b = FLAG THEN "FLAG" ELSE "START")
    BY <1>2, <1>5 DEF interpretChar
  <2> HIDE DEF r, To
  <2> QED
    BY <1>3, <1>5, <2>1 DEF State
<1>6. CASE machine.state = "FLAG"
  <2>1. r = To(IF b = FLAG THEN "FLAG" ELSE IF b = AE THEN "A" ELSE "ERROR")
    BY <1>2, <1>6 DEF interpretChar
  <2> HIDE DEF r, To
  <2>2. CASE b \in {FLAG, AE}
    BY <1>3, <1>6, <2>1, <2>2 DEF State
  <2>3. CASE b \notin {FLAG, AE}
    BY <1>4, <1>6, <2>1, <2>3
  <2> QED
    BY <2>2, <2>3
<1>7. CASE machine.state = "A"
  <2>1. r = To(IF b = CI THEN "C" ELSE "ERROR")
    BY <1>7 DEF interpretChar
  <2> HIDE DEF r, To
  <2> QED
    BY <1>3, <1>4, <1>7, <2>1 DEF State
<1>8. CASE machine.state = "C"
  <2>1. r = To(IF b = AE THEN "COLLECTING" ELSE "ERROR")
    BY <1>0, <1>8 DEF interpretChar
  <2> HIDE DEF r, To
  <2> QED
    BY <1>3, <1>4, <1>8, <2>1 DEF State
<1> QED
  BY <1>5, <1>6, <1>7, <1>8 DEF Shape

(* While collecting: the frame grows, ...                                  *)
LEMMA FollowKeeps ==
  ASSUME NEW r \in Machine
  PROVE  /\ Follow(r) \in Machine
         /\ Follow(r).state = r.state /\ Follow(r).frame = r.frame
         /\ Follow(r).escapeFlag = r.escapeFlag
         /\ Follow(r).bcc2 = IF Len(r.frame) = 3 THEN r.frame[1]
                             ELSE IF Len(r.frame) > 3 /\ ~r.escapeFlag
                             THEN Xor(r.bcc2, r.frame[Len(r.frame) - 2]) ELSE r.bcc2
<1>1. /\ r = [state |-> r.state, frame |-> r.frame, escapeFlag |-> r.escapeFlag, bcc2 |-> r.bcc2]
      /\ r.state \in State /\ r.frame \in Seq(Byte) /\ r.escapeFlag \in BOOLEAN /\ r.bcc2 \in Byte
  BY DEF Machine
<1> DEFINE value == IF Len(r.frame) = 3 THEN r.frame[1]
                    ELSE IF Len(r.frame) > 3 /\ ~r.escapeFlag
                    THEN Xor(r.bcc2, r.frame[Len(r.frame) - 2]) ELSE r.bcc2
<1>2. value \in Byte
  <2>1. \A i \in 1 .. Len(r.frame) : r.frame[i] \in Byte
    BY <1>1
  <2>2. Len(r.frame) \in Nat
    BY <1>1
  <2>3. Len(r.frame) = 3 => r.frame[1] \in Byte
    BY <2>1
  <2>4. Len(r.frame) > 3 => r.frame[Len(r.frame) - 2] \in Byte
    BY <2>1, <2>2
  <2> QED
    BY <1>1, <2>3, <2>4, XorByte
<1>3. Follow(r) = [state |-> r.state, frame |-> r.frame, escapeFlag |-> r.escapeFlag, bcc2 |-> value]
  <2>1. CASE Len(r.frame) = 3
    BY <1>1, <2>1 DEF Follow
  <2>2. CASE Len(r.frame) # 3 /\ Len(r.frame) > 3 /\ ~r.escapeFlag
    BY <1>1, <2>2 DEF Follow
  <2>3. CASE Len(r.frame) # 3 /\ ~(Len(r.frame) > 3 /\ ~r.escapeFlag)
    BY <1>1, <2>3 DEF Follow
  <2> QED
    BY <2>1, <2>2, <2>3
<1> HIDE DEF value
<1>4. Follow(r) \in Machine
  BY <1>1, <1>2, <1>3 DEF Machine
<1> QED
  BY <1>3, <1>4 DEF value

(* ... one byte at a time, ...                                             *)
LEMMA CollectedBytes ==
  ASSUME NEW r \in Machine, NEW b \in Byte
  PROVE  Collected(r, b) \in Seq(Byte)
<1>1. FLAG \in Byte /\ ESCAPE \in Byte
  BY Bytes
<1>2. <<>> \in Seq(Byte) /\ <<FLAG>> \in Seq(Byte) /\ <<ESCAPE>> \in Seq(Byte)
      /\ <<ESCAPE, b>> \in Seq(Byte) /\ <<b>> \in Seq(Byte)
  BY <1>1
<1> QED
  BY <1>2 DEF Collected

LEMMA FeedCollecting ==
  ASSUME Shape, NEW b \in Byte, Feed(b), machine.state = "COLLECTING",
         b # FLAG \/ machine.escapeFlag
  PROVE  /\ machine' = Follow([machine EXCEPT !.frame = @ \o Collected(machine, b),
                                              !.escapeFlag = (b = ESCAPE)])
         /\ [machine EXCEPT !.frame = @ \o Collected(machine, b),
                            !.escapeFlag = (b = ESCAPE)] \in Machine
         /\ machine'.state = "COLLECTING"
         /\ machine'.frame = machine.frame \o Collected(machine, b)
         /\ machine'.escapeFlag = (b = ESCAPE)
         /\ byte' = b /\ returned' = returned /\ answers' = answers
         /\ Shape'
<1> DEFINE m == [machine EXCEPT !.frame = @ \o Collected(machine, b),
                                !.escapeFlag = (b = ESCAPE)]
           r == interpretChar(machine, b)
<1>1. machine \in Machine
  BY DEF Shape
<1>2. machine.frame \o Collected(machine, b) \in Seq(Byte)
  <2>1. machine.frame \in Seq(Byte)
    BY <1>1 DEF Machine
  <2> QED
    BY <1>1, <2>1, CollectedBytes
<1>3. /\ m.state = machine.state /\ m.escapeFlag = (b = ESCAPE)
      /\ m.frame = machine.frame \o Collected(machine, b)
  BY <1>1 DEF Machine
<1>4. m \in Machine
  BY <1>1, <1>2 DEF Machine
<1>5. r = Follow(m)
  BY DEF interpretChar, Collect
<1>6. r \in Machine /\ r.state = "COLLECTING" /\ r.escapeFlag = (b = ESCAPE)
      /\ r.frame = machine.frame \o Collected(machine, b)
  <2> HIDE DEF m, r
  <2> QED
    BY <1>3, <1>4, <1>5, FollowKeeps
<1>7. Continue(r, b)
  <2> HIDE DEF m
  <2> QED
    BY <1>6 DEF Feed, HeaderError, Reject, Accept
<1> HIDE DEF m, r
<1>8. machine' = r /\ byte' = b /\ returned' = returned /\ answers' = answers
  BY <1>7 DEF Continue
<1>9. Shape'
  BY <1>6, <1>8 DEF Shape
<1> QED
  BY <1>4, <1>5, <1>6, <1>8, <1>9 DEF m

(* ... until a flag closes it.                                             *)
LEMMA FeedClosing ==
  ASSUME Shape, Feed(FLAG), machine.state = "COLLECTING", ~machine.escapeFlag
  PROVE  /\ Restarted
         /\ \/ returned' = returned /\ answers' = answers
            \/ returned' = returned /\ answers' = Append(answers, "REJ")
            \/ /\ returned' = Append(returned, SubSeq(machine.frame, 1, Len(machine.frame) - 1))
               /\ answers' = Append(answers, "RR")
         /\ /\ Len(machine.frame) > 1
            /\ machine.frame[Len(machine.frame)] =
                 Xor(machine.bcc2, machine.frame[Len(machine.frame) - 1])
            => /\ returned' = Append(returned, SubSeq(machine.frame, 1, Len(machine.frame) - 1))
               /\ answers' = Append(answers, "RR")
<1> DEFINE r == interpretChar(machine, FLAG)
           f == machine.frame
           sum == Xor(machine.bcc2, elementAt(f, Len(f) - 1))
<1>1. machine \in Machine /\ f \in Seq(Byte) /\ FLAG \in Byte
  BY Bytes DEF Shape, Machine
<1>2. CASE f = <<>>
  <2>1. r.state = "ERROR"
    BY <1>1, <1>2 DEF interpretChar, Collect, Machine
  <2>2. HeaderError(r, FLAG)
    BY <2>1 DEF Feed, Continue, Reject, Accept
  <2> QED
    BY <1>1, <1>2, <2>2, CallAgainRestarts DEF HeaderError
<1>3. CASE f # <<>>
  <2>1. r.state = "FINAL" /\ r.frame = f /\ r.bcc2 = sum
    BY <1>1, <1>3 DEF interpretChar, Collect, Machine
  <2> HIDE DEF r
  <2>2. Reject(r, FLAG) \/ Accept(r, FLAG)
    BY <2>1 DEF Feed, Continue, HeaderError, r
  <2>3. Restarted
    BY <1>1, <2>2, CallAgainRestarts DEF Reject, Accept
  <2>4. Accept(r, FLAG) =>
          /\ returned' = Append(returned, SubSeq(f, 1, Len(f) - 1))
          /\ answers' = Append(answers, "RR")
    BY <2>1 DEF Accept, Answer, getDataFrame
  <2>5. Reject(r, FLAG) => returned' = returned /\ answers' = Append(answers, "REJ")
    BY DEF Reject, Answer
  <2>6. ASSUME Len(f) > 1, f[Len(f)] = Xor(machine.bcc2, f[Len(f) - 1]) PROVE Accept(r, FLAG)
    <3>1. Len(f) \in DOMAIN f /\ Len(f) - 1 \in DOMAIN f
      BY <1>1, <2>6
    <3>2. elementAt(f, Len(f)) = f[Len(f)] /\ elementAt(f, Len(f) - 1) = f[Len(f) - 1]
      BY <3>1 DEF elementAt
    <3>3. getSentBCC2(r) = getCalculatedBCC2(r)
      BY <2>1, <2>6, <3>2 DEF getSentBCC2, getCalculatedBCC2
    <3> QED
      BY <2>2, <3>3 DEF Reject
  <2> QED
    BY <2>2, <2>3, <2>4, <2>5, <2>6
<1> QED
  BY <1>2, <1>3

-----------------------------------------------------------------------------
(* The inductive invariant.                                                *)

(* What is collected of a packet, and what is on the wire when its first n *)
(* bytes have been collected.                                              *)
Body(data) == Append(data, getBCC2(data))
Coming(data, n) ==
  getStuffedData(SubSeq(Body(data), n + 1, Len(Body(data)))) \o <<FLAG>>

(* Between two frames.                                                     *)
Between == machine.state \in {"START", "FLAG"}

(* The checksum in the machine is that of the frame but for its last two   *)
(* bytes.                                                                  *)
Summed ==
  Len(machine.frame) >= 3 =>
    machine.bcc2 = getBCC2(SubSeq(machine.frame, 1, Len(machine.frame) - 2))

(* The machine has collected the first n bytes, or is in the middle of the *)
(* escape sequence of the next one.                                        *)
Whole(n) ==
  /\ ~machine.escapeFlag
  /\ wire = Coming(packet, n)

Halved(n) ==
  /\ machine.escapeFlag
  /\ n <= Len(packet)
  /\ \/ Body(packet)[n + 1] = FLAG /\ wire = <<FlagMark>> \o Coming(packet, n + 1)
     \/ Body(packet)[n + 1] = ESCAPE /\ wire = <<EscapeMark>> \o Coming(packet, n + 1)

(* The machine reads the frame that was written from its first byte on.    *)
Opening ==
  \/ machine.state \in {"START", "FLAG"} /\ wire = InformationFrame(packet)
  \/ machine.state = "FLAG" /\ wire = <<AE, CI, AE>> \o Coming(packet, 0)
  \/ machine.state = "A" /\ wire = <<CI, AE>> \o Coming(packet, 0)
  \/ machine.state = "C" /\ wire = <<AE>> \o Coming(packet, 0)

Reading ==
  /\ machine.state = "COLLECTING"
  /\ Summed
  /\ \E n \in 0 .. Len(packet) + 1 :
       machine.frame = SubSeq(Body(packet), 1, n) /\ (Whole(n) \/ Halved(n))

InStep ==
  \/ returned = <<>> /\ (Opening \/ Reading)
  \/ returned = <<packet>> /\ wire = <<>> /\ Between

(* The machine comes in late, or goes on with an earlier frame until the   *)
(* closing flag of this one brings it back.                                *)
Closing(w) ==
  /\ Len(w) > 0 /\ w[Len(w)] = FLAG
  /\ \A i \in 1 .. Len(w) - 1 : w[i] # FLAG
  /\ Len(w) > 1 => w[Len(w) - 1] # ESCAPE

OutOfStep ==
  \/ wire = InformationFrame(packet) /\ returned = <<>>
  \/ /\ Closing(wire)
     /\ machine.state \in {"START", "COLLECTING"}
     /\ Len(wire) = 1 /\ machine.state = "COLLECTING" => ~machine.escapeFlag
  \/ wire = <<>> /\ Between

StepInv ==
  /\ missed \in {0, 1}
  /\ written = 0 => wire = <<>> /\ Between /\ noise = 0 /\ missed = 0
  /\ written > 0 => packet \in Payloads
  /\ written > 0 /\ ~spoiled => InStep \/ (missed = 0 /\ noise > 0 /\ OutOfStep)

QuietInv ==
  noise = 0 =>
    /\ ~spoiled
    /\ answers = [i \in 1 .. (IF wire = <<>> THEN written ELSE written - 1) |-> "RR"]

(* The flags on the wire before its last byte.                             *)
Inner(w) == {i \in 1 .. Len(w) - 1 : w[i] = FLAG}
AtMostOne(w) == \E i \in Nat : Inner(w) \subseteq {i}
AtMostTwo(w) == \E i, j \in Nat : Inner(w) \subseteq {i, j}

(* How often llread may still answer to what is on the wire, counting a    *)
(* frame it has begun and could still answer when the wire is empty.       *)
Begun == machine.state \in {"A", "C", "COLLECTING"}
Due ==
  IF wire = <<>> THEN IF Begun THEN 1 ELSE 0
  ELSE IF machine.state = "START" THEN IF Inner(wire) = {} THEN 0 ELSE 1
  ELSE IF Begun /\ ~AtMostOne(wire) THEN 2 ELSE 1

AnswersInv ==
  /\ Len(answers) + Due <= written
  /\ AtMostTwo(wire)
  /\ machine.state = "FLAG" => AtMostOne(wire) \/ 1 \in Inner(wire)

IInv == TypeOK /\ Shape /\ StepInv /\ QuietInv /\ AnswersInv

-----------------------------------------------------------------------------
(* What is on the wire.                                                    *)

(* The first byte of a concatenation, and the others.                      *)
LEMMA Prefixed ==
  ASSUME NEW a \in Byte, NEW r \in Seq(Byte)
  PROVE  /\ <<a>> \o r \in Seq(Byte) /\ <<a>> \o r # <<>> /\ Len(<<a>> \o r) = Len(r) + 1
         /\ Head(<<a>> \o r) = a /\ Tail(<<a>> \o r) = r
<1>1. <<a>> \in Seq(Byte) /\ Len(<<a>>) = 1 /\ <<a>>[1] = a
  OBVIOUS
<1>2. PICK u \in Seq(Byte) : u = <<a>> \o r
  <2>1. <<a>> \o r \in Seq(Byte)
    BY <1>1, ConcatProperties
  <2> QED
    BY <2>1
<1>3. Len(u) = Len(r) + 1 /\ Len(r) \in Nat
      /\ \A i \in 1 .. Len(r) + 1 : u[i] = IF i <= 1 THEN a ELSE r[i - 1]
  <2>1. /\ Len(u) = Len(<<a>>) + Len(r)
        /\ \A i \in 1 .. Len(<<a>>) + Len(r) :
             u[i] = IF i <= Len(<<a>>) THEN <<a>>[i] ELSE r[i - Len(<<a>>)]
    BY <1>1, <1>2, ConcatProperties
  <2> QED
    BY <1>1, <2>1
<1>4. u # <<>> /\ Head(u) = a
  BY <1>3
<1>5. Tail(u) \in Seq(Byte) /\ Len(Tail(u)) = Len(r) /\ \A i \in 1 .. Len(r) : Tail(u)[i] = r[i]
  BY <1>3, <1>4
<1>6. Tail(u) = r
  BY <1>5, SeqEqual
<1> QED
  BY <1>2, <1>3, <1>4, <1>6

LEMMA Prefixes ==
  ASSUME NEW a \in Byte, NEW b \in Byte, NEW c \in Byte, NEW d \in Byte, NEW r \in Seq(Byte)
  PROVE  /\ <<a, b>> \o r = <<a>> \o (<<b>> \o r)
         /\ <<a, b, c>> \o r = <<a>> \o (<<b, c>> \o r)
         /\ <<a, b, c, d>> \o r = <<a>> \o (<<b, c, d>> \o r)
<1>1. /\ <<a>> \in Seq(Byte) /\ <<b>> \in Seq(Byte)
      /\ <<b, c>> \in Seq(Byte) /\ <<b, c, d>> \in Seq(Byte)
  OBVIOUS
<1>2. <<a, b>> = <<a>> \o <<b>> /\ <<a, b, c>> = <<a>> \o <<b, c>>
      /\ <<a, b, c, d>> = <<a>> \o <<b, c, d>>
  <2>1. ASSUME NEW s \in Seq(Byte), NEW t \in Seq(Byte), Len(t) = Len(s) + 1, t[1] = a,
               \A i \in 1 .. Len(s) : t[i + 1] = s[i]
        PROVE  t = <<a>> \o s
    <3>1. <<a>> \o s \in Seq(Byte) /\ Len(<<a>> \o s) = Len(<<a>>) + Len(s)
          /\ \A i \in 1 .. Len(<<a>>) + Len(s) :
               (<<a>> \o s)[i] = IF i <= Len(<<a>>) THEN <<a>>[i] ELSE s[i - Len(<<a>>)]
      BY <1>1, ConcatProperties
    <3>2. Len(<<a>>) = 1 /\ <<a>>[1] = a /\ Len(s) \in Nat
      OBVIOUS
    <3>3. PICK v \in Seq(Byte) : v = <<a>> \o s
      BY <3>1
    <3>4. Len(v) = Len(t)
          /\ \A i \in 1 .. Len(t) : v[i] = IF i <= 1 THEN a ELSE s[i - 1]
      BY <2>1, <3>1, <3>2, <3>3
    <3>5. \A i \in 1 .. Len(t) : t[i] = v[i]
      <4> SUFFICES ASSUME NEW i \in 1 .. Len(t) PROVE t[i] = v[i]
        OBVIOUS
      <4>1. CASE i = 1
        BY <2>1, <3>4, <4>1
      <4>2. CASE i # 1
        <5>1. i - 1 \in 1 .. Len(s) /\ (i - 1) + 1 = i /\ ~(i <= 1)
          BY <2>1, <3>2, <4>2
        <5> QED
          BY <2>1, <3>4, <5>1
      <4> QED
        BY <4>1, <4>2
    <3> QED
      BY <3>3, <3>4, <3>5, SeqEqual
  <2>2. /\ Len(<<b>>) = 1 /\ Len(<<b, c>>) = 2 /\ Len(<<b, c, d>>) = 3
        /\ Len(<<a, b>>) = 2 /\ Len(<<a, b, c>>) = 3 /\ Len(<<a, b, c, d>>) = 4
    OBVIOUS
  <2>3. <<a, b>> \in Seq(Byte) /\ <<a, b, c>> \in Seq(Byte) /\ <<a, b, c, d>> \in Seq(Byte)
    OBVIOUS
  <2>4. <<a, b>> = <<a>> \o <<b>>
    <3>1. \A i \in 1 .. Len(<<b>>) : i = 1
      BY <2>2
    <3>2. <<a, b>>[1] = a /\ <<a, b>>[1 + 1] = b /\ <<b>>[1] = b
      OBVIOUS
    <3>3. \A i \in 1 .. Len(<<b>>) : <<a, b>>[i + 1] = <<b>>[i]
      BY <3>1, <3>2
    <3>4. Len(<<a, b>>) = Len(<<b>>) + 1
      BY <2>2
    <3>5. <<b>> \in Seq(Byte)
      BY <1>1
    <3> QED
      BY <2>1, <2>3, <3>2, <3>3, <3>4, <3>5
  <2>5. <<a, b, c>> = <<a>> \o <<b, c>>
    BY <1>1, <2>1, <2>2, <2>3
  <2>6. <<a, b, c, d>> = <<a>> \o <<b, c, d>>
    BY <1>1, <2>1, <2>2, <2>3
  <2> QED
    BY <2>4, <2>5, <2>6
<1>3. /\ (<<a>> \o <<b>>) \o r = <<a>> \o (<<b>> \o r)
      /\ (<<a>> \o <<b, c>>) \o r = <<a>> \o (<<b, c>> \o r)
      /\ (<<a>> \o <<b, c, d>>) \o r = <<a>> \o (<<b, c, d>> \o r)
  BY <1>1, Associative
<1> QED
  BY <1>2, <1>3

(* The body of a frame: the packet and its checksum.                       *)
LEMMA BodyBytes ==
  ASSUME NEW p \in Payloads
  PROVE  /\ p \in Seq(Byte) /\ Len(p) \in Nat /\ Len(p) >= 2
         /\ Body(p) \in Seq(Byte) /\ Len(Body(p)) = Len(p) + 1
         /\ SubSeq(Body(p), 1, Len(p)) = p
         /\ Body(p)[Len(p) + 1] = getBCC2(p)
         /\ \A i \in 1 .. Len(p) + 1 : Body(p)[i] \in Byte
<1>1. p \in Seq(Byte) /\ Len(p) \in Nat /\ Len(p) >= 2
  BY InformationAssumption
<1>2. SubSeq(p, 1, Len(p)) = p
  BY <1>1, SubSeqFull
<1>3. getBCC2(p) \in Byte
  <2>1. Len(p) \in 1 .. Len(p)
    BY <1>1
  <2> QED
    BY <1>1, <1>2, <2>1, BCC2First
<1>4. PICK b \in Byte : b = getBCC2(p)
  BY <1>3
<1>5. /\ Append(p, b) \in Seq(Byte) /\ Len(Append(p, b)) = Len(p) + 1
      /\ \A i \in 1 .. Len(p) : Append(p, b)[i] = p[i]
      /\ Append(p, b)[Len(p) + 1] = b
  BY <1>1, AppendProperties
<1>6. PICK x \in Seq(Byte) : x = Append(p, b)
  BY <1>5
<1>7. SubSeq(x, 1, Len(p)) = p
  <2>1. \A i \in 1 .. Len(p) : x[i] \in Byte
    BY <1>5, <1>6
  <2>2. /\ SubSeq(x, 1, Len(p)) \in Seq(Byte)
        /\ Len(SubSeq(x, 1, Len(p))) = IF 1 <= Len(p) THEN Len(p) - 1 + 1 ELSE 0
        /\ \A i \in 1 .. Len(p) - 1 + 1 : SubSeq(x, 1, Len(p))[i] = x[1 + i - 1]
    BY <1>1, <2>1, SubSeqProperties
  <2>3. Len(SubSeq(x, 1, Len(p))) = Len(p)
        /\ \A i \in 1 .. Len(p) : SubSeq(x, 1, Len(p))[i] = p[i]
    BY <1>1, <1>5, <1>6, <2>2
  <2> QED
    BY <1>1, <2>2, <2>3, SeqEqual
<1>8. \A i \in 1 .. Len(p) + 1 : x[i] \in Byte
  BY <1>5, <1>6
<1> QED
  BY <1>1, <1>4, <1>5, <1>6, <1>7, <1>8 DEF Body

(* What is to come: the flag, or the next byte, stuffed, and the others.   *)
LEMMA ComingBytes ==
  ASSUME NEW p \in Payloads, NEW n \in 0 .. Len(p) + 1
  PROVE  /\ Coming(p, n) \in Seq(Byte) /\ Coming(p, n) # <<>>
         /\ n = Len(p) + 1 => Coming(p, n) = <<FLAG>>
         /\ n <= Len(p) =>
              /\ n + 1 \in 0 .. Len(p) + 1 /\ n + 1 \in 1 .. Len(p) + 1
              /\ Coming(p, n) = Stuffed(Body(p)[n + 1]) \o Coming(p, n + 1)
<1> DEFINE x == Body(p)
           R(k) == SubSeq(x, k + 1, Len(x))
<1>1. /\ Len(p) \in Nat /\ x \in Seq(Byte) /\ Len(x) = Len(p) + 1
      /\ \A i \in 1 .. Len(p) + 1 : x[i] \in Byte
  BY BodyBytes
<1> HIDE DEF x
<1>2. FLAG \in Byte /\ <<FLAG>> \in Seq(Byte)
  BY Bytes
<1>3. ASSUME NEW k \in 0 .. Len(p) + 1 PROVE R(k) \in Seq(Byte)
  BY <1>1
<1>4. ASSUME NEW k \in 0 .. Len(p) + 1 PROVE getStuffedData(R(k)) \in Seq(Byte)
  BY <1>3, StuffedNoFlag
<1>5. Coming(p, n) = getStuffedData(R(n)) \o <<FLAG>>
  BY DEF Coming, x
<1>6. Coming(p, n) \in Seq(Byte) /\ Coming(p, n) # <<>>
  <2>1. PICK u \in Seq(Byte) : u = getStuffedData(R(n))
    BY <1>4
  <2>2. u \o <<FLAG>> \in Seq(Byte) /\ u \o <<FLAG>> # <<>>
    BY <1>2, ConcatEqualIffEmpty
  <2> HIDE DEF R
  <2> QED
    BY <1>5, <2>1, <2>2
<1>7. ASSUME n = Len(p) + 1 PROVE Coming(p, n) = <<FLAG>>
  <2>1. R(n) = <<>>
    BY <1>1, <1>7, SubSeqEmpty
  <2>2. <<>> \o <<FLAG>> = <<FLAG>>
    BY <1>2, ConcatEmptySeq
  <2> HIDE DEF R
  <2> QED
    BY <1>5, <2>1, <2>2, StuffedFirst
<1>8. ASSUME n <= Len(p)
      PROVE  /\ n + 1 \in 0 .. Len(p) + 1 /\ n + 1 \in 1 .. Len(p) + 1
             /\ Coming(p, n) = Stuffed(x[n + 1]) \o Coming(p, n + 1)
  <2>1. n + 1 \in 0 .. Len(p) + 1 /\ n + 1 \in 1 .. Len(p) + 1 /\ n + 1 \in 1 .. Len(x)
        /\ Len(x) \in n + 1 .. Len(x)
    BY <1>1, <1>8
  <2>2. Head(R(n)) = x[n + 1] /\ Tail(R(n)) = R(n + 1)
    BY <1>1, <2>1, HeadTailOfSubSeq
  <2>3. R(n) \in Seq(Byte) /\ R(n) # <<>>
    <3>1. Len(R(n)) = Len(x) - (n + 1) + 1
      BY <1>1, <2>1
    <3>2. Len(R(n)) # 0
      <4> HIDE DEF R
      <4> QED
        BY <1>1, <2>1, <3>1
    <3>3. R(n) \in Seq(Byte)
      BY <1>3
    <3> HIDE DEF R
    <3> QED
      BY <3>2, <3>3
  <2>4. getStuffedData(R(n)) = Stuffed(x[n + 1]) \o getStuffedData(R(n + 1))
    <3> HIDE DEF R
    <3> QED
      BY <2>2, <2>3, StuffedFirst
  <2>5. Stuffed(x[n + 1]) \in Seq(Byte)
    BY <1>1, <2>1, StuffedByte
  <2>6. Coming(p, n + 1) = getStuffedData(R(n + 1)) \o <<FLAG>>
    BY DEF Coming, x
  <2>7. getStuffedData(R(n + 1)) \in Seq(Byte)
    BY <1>4, <2>1
  <2>8. (Stuffed(x[n + 1]) \o getStuffedData(R(n + 1))) \o <<FLAG>>
          = Stuffed(x[n + 1]) \o (getStuffedData(R(n + 1)) \o <<FLAG>>)
    <3> HIDE DEF R
    <3> QED
      BY <1>2, <2>5, <2>7, Associative
  <2> HIDE DEF R
  <2>9. Coming(p, n) = Stuffed(x[n + 1]) \o Coming(p, n + 1)
    BY <1>5, <2>4, <2>6, <2>8, Zenon
  <2> QED
    BY <2>1, <2>9
<1> QED
  BY <1>6, <1>7, <1>8 DEF x

(* A frame is its header and what is to come then; it has one flag before  *)
(* the closing one.                                                        *)
LEMMA FrameBytes ==
  ASSUME NEW p \in Payloads
  PROVE  /\ InformationFrame(p) \in Seq(Byte)
         /\ InformationFrame(p) # <<>>
         /\ Coming(p, 0) \in Seq(Byte)
         /\ InformationFrame(p) = <<FLAG, AE, CI, AE>> \o Coming(p, 0)
         /\ Head(InformationFrame(p)) = FLAG
         /\ Tail(InformationFrame(p)) = <<AE, CI, AE>> \o Coming(p, 0)
         /\ Tail(InformationFrame(p)) # <<>>
<1> DEFINE h == <<FLAG, AE, CI, AE>>
           d == getStuffedData(Body(p))
<1>1. FLAG \in Byte /\ AE \in Byte /\ CI \in Byte /\ h \in Seq(Byte) /\ <<FLAG>> \in Seq(Byte)
      /\ <<AE, CI, AE>> \in Seq(Byte)
  BY Bytes
<1>2. d \in Seq(Byte)
  BY BodyBytes, StuffedNoFlag
<1>3. Coming(p, 0) = d \o <<FLAG>>
  <2>1. SubSeq(Body(p), 1, Len(Body(p))) = Body(p)
    BY BodyBytes, SubSeqFull
  <2>2. 0 + 1 = 1
    OBVIOUS
  <2> QED
    BY <2>1, <2>2 DEF Coming
<1>4. Coming(p, 0) \in Seq(Byte)
  BY <1>1, <1>2, <1>3
<1>5. InformationFrame(p) = (h \o d) \o <<FLAG>>
  BY Bytes DEF InformationFrame, Body
<1> HIDE DEF d, h
<1>6. InformationFrame(p) = h \o Coming(p, 0)
  <2>1. (h \o d) \o <<FLAG>> = h \o (d \o <<FLAG>>)
    BY <1>1, <1>2, Associative
  <2> QED
    BY <1>3, <1>5, <2>1, Zenon
<1>7. PICK r \in Seq(Byte) : r = <<AE, CI, AE>> \o Coming(p, 0) /\ r # <<>>
  <2>1. <<AE, CI, AE>> \o Coming(p, 0) \in Seq(Byte)
    BY <1>1, <1>4, ConcatProperties
  <2>2. Len(<<AE, CI, AE>> \o Coming(p, 0)) = 3 + Len(Coming(p, 0)) /\ Len(Coming(p, 0)) \in Nat
    BY <1>1, <1>4, ConcatProperties
  <2>3. PICK r \in Seq(Byte) : r = <<AE, CI, AE>> \o Coming(p, 0)
    BY <2>1
  <2>4. Len(r) # 0
    BY <2>2, <2>3
  <2>5. r # <<>>
    BY <2>4
  <2> QED
    BY <2>3, <2>5, Zenon
<1>8. h \o Coming(p, 0) = <<FLAG>> \o r
  <2>0. FLAG \in Byte /\ AE \in Byte /\ CI \in Byte
    BY <1>1
  <2>1. <<FLAG, AE, CI, AE>> \o Coming(p, 0) = <<FLAG>> \o (<<AE, CI, AE>> \o Coming(p, 0))
    <3>1. PICK f \in Byte, a \in Byte, c \in Byte, w \in Seq(Byte) :
            f = FLAG /\ a = AE /\ c = CI /\ w = Coming(p, 0)
      BY <1>4, <2>0
    <3>2. <<f, a, c, a>> \o w = <<f>> \o (<<a, c, a>> \o w)
      BY Prefixes
    <3> QED
      BY <3>1, <3>2, Zenon
  <2> QED
    BY <1>7, <2>1, Zenon DEF h
<1>9. <<FLAG>> \o r \in Seq(Byte) /\ <<FLAG>> \o r # <<>>
      /\ Head(<<FLAG>> \o r) = FLAG /\ Tail(<<FLAG>> \o r) = r
  BY <1>1, Prefixed
<1> QED
  BY <1>4, <1>6, <1>7, <1>8, <1>9 DEF h

-----------------------------------------------------------------------------
(* The machine reads a frame.                                              *)

(* A part of the header leaves the rest of the machine alone.              *)
LEMMA AdvancedShape ==
  ASSUME Shape, NEW b \in Byte,
         NEW state \in {"START", "FLAG", "A", "C", "COLLECTING"},
         Advanced(state, b), machine.state # "COLLECTING", state = "FLAG" => b = FLAG
  PROVE  /\ Shape'
         /\ machine'.frame = <<>> /\ ~machine'.escapeFlag
<1>1. machine \in Machine /\ machine.frame = <<>> /\ machine.escapeFlag = FALSE
  BY DEF Shape
<1>2. machine' \in Machine
  <2>1. state \in State
    BY DEF State
  <2> QED
    BY <1>1, <2>1 DEF Advanced, Machine
<1>3. machine'.frame = <<>> /\ machine'.escapeFlag = FALSE
  BY <1>1 DEF Advanced, Machine
<1>4. machine'.state = state /\ byte' = b
  BY DEF Advanced
<1> QED
  BY <1>2, <1>3, <1>4 DEF Shape

(* The header, one byte after the other.                                   *)
LEMMA OpeningRead ==
  ASSUME Shape, packet \in Payloads, Opening, ReadByte
  PROVE  /\ Shape' /\ (Opening' \/ Reading')
         /\ wire' # <<>> /\ returned' = returned /\ answers' = answers
<1> DEFINE C == Coming(packet, 0)
<1>0. /\ packet' = packet /\ wire' = Tail(wire) /\ Feed(Head(wire))
      /\ FLAG \in Byte /\ AE \in Byte /\ CI \in Byte /\ FLAG # AE
  BY Bytes DEF ReadByte
<1>1. C \in Seq(Byte) /\ Coming(packet, 0)' = C
  BY <1>0, FrameBytes
<1>2. C # <<>>
  <2>1. 0 \in 0 .. Len(packet) + 1
    BY BodyBytes
  <2> QED
    BY <2>1, ComingBytes
<1> HIDE DEF C
<1>3. CASE machine.state \in {"START", "FLAG"} /\ wire = InformationFrame(packet)
  <2>1. Head(wire) = FLAG /\ wire' = <<AE, CI, AE>> \o C /\ wire' # <<>>
    BY <1>0, <1>3, FrameBytes DEF C
  <2>2. Advanced("FLAG", FLAG)
    BY <1>0, <1>3, <2>1, FeedHeader
  <2>3. Shape'
    BY <1>0, <1>3, <2>2, AdvancedShape
  <2>4. Opening'
    BY <1>1, <2>1, <2>2 DEF Opening, Advanced
  <2> QED
    BY <2>1, <2>2, <2>3, <2>4 DEF Advanced
<1>4. CASE machine.state = "FLAG" /\ wire = <<AE, CI, AE>> \o C
  <2>1. wire = <<AE>> \o (<<CI, AE>> \o C)
    <3>1. <<AE, CI, AE>> \o C = <<AE>> \o (<<CI, AE>> \o C)
      BY <1>0, <1>1, Prefixes
    <3> QED
      BY <1>4, <3>1, Zenon
  <2>2. PICK r \in Seq(Byte) : r = <<CI, AE>> \o C /\ r # <<>>
    <3>1. <<CI, AE>> \o C = <<CI>> \o (<<AE>> \o C) /\ <<AE>> \o C \in Seq(Byte)
      BY <1>0, <1>1, Prefixes, Prefixed
    <3> QED
      BY <1>0, <3>1, Prefixed
  <2>3. Head(wire) = AE /\ wire' = r
    BY <1>0, <2>1, <2>2, Prefixed
  <2>4. Advanced("A", AE)
    BY <1>0, <1>4, <2>3, FeedHeader
  <2>5. Shape'
    BY <1>0, <1>4, <2>4, AdvancedShape
  <2>6. Opening'
    BY <1>1, <2>2, <2>3, <2>4 DEF Opening, Advanced
  <2> QED
    BY <2>2, <2>3, <2>4, <2>5, <2>6 DEF Advanced
<1>5. CASE machine.state = "A" /\ wire = <<CI, AE>> \o C
  <2>1. wire = <<CI>> \o (<<AE>> \o C)
    BY <1>0, <1>1, <1>5, Prefixes
  <2>2. PICK r \in Seq(Byte) : r = <<AE>> \o C /\ r # <<>>
    BY <1>0, <1>1, Prefixed
  <2>3. Head(wire) = CI /\ wire' = r
    BY <1>0, <2>1, <2>2, Prefixed
  <2>4. Advanced("C", CI)
    BY <1>0, <1>5, <2>3, FeedHeader
  <2>5. Shape'
    BY <1>0, <1>5, <2>4, AdvancedShape
  <2>6. Opening'
    BY <1>1, <2>2, <2>3, <2>4 DEF Opening, Advanced
  <2> QED
    BY <2>2, <2>3, <2>4, <2>5, <2>6 DEF Advanced
<1>6. CASE machine.state = "C" /\ wire = <<AE>> \o C
  <2>1. Head(wire) = AE /\ wire' = C
    BY <1>0, <1>1, <1>6, Prefixed
  <2>2. Advanced("COLLECTING", AE)
    BY <1>0, <1>6, <2>1, FeedHeader
  <2>3. Shape' /\ machine'.frame = <<>> /\ ~machine'.escapeFlag
    BY <1>0, <1>6, <2>2, AdvancedShape
  <2>4. Reading'
    <3>1. 0 \in 0 .. Len(packet') + 1
      BY <1>0, BodyBytes
    <3>2. SubSeq(Body(packet'), 1, 0) = <<>>
      BY SubSeqEmpty
    <3>3. Whole(0)'
      BY <1>0, <2>1, <2>3 DEF Whole, C
    <3>4. Summed'
      BY <2>3 DEF Summed
    <3> QED
      BY <2>2, <2>3, <3>1, <3>2, <3>3, <3>4 DEF Reading, Advanced
  <2> QED
    BY <1>2, <2>1, <2>2, <2>3, <2>4 DEF Advanced
<1> QED
  BY <1>3, <1>4, <1>5, <1>6 DEF Opening, C

(* The first n bytes of a sequence.                                        *)
LEMMA FirstBytes ==
  ASSUME NEW x \in Seq(Byte), NEW n \in 0 .. Len(x), NEW f, f = SubSeq(x, 1, n)
  PROVE  /\ f \in Seq(Byte) /\ Len(f) = n
         /\ \A i \in 1 .. n : f[i] = x[i]
         /\ n < Len(x) => f \o <<x[n + 1]>> = SubSeq(x, 1, n + 1)
         /\ n >= 2 => SubSeq(f, 1, n - 1) = SubSeq(x, 1, n - 1)
         /\ n >= 3 => SubSeq(f, 1, n - 2) = SubSeq(x, 1, n - 2)
<1>0. Len(x) \in Nat /\ n \in Nat /\ \A i \in 1 .. Len(x) : x[i] \in Byte
  OBVIOUS
<1>1. f \in Seq(Byte) /\ Len(f) = n /\ \A i \in 1 .. n : f[i] = x[i]
  <2>1. \A i \in 1 .. n : x[i] \in Byte
    BY <1>0
  <2>2. /\ SubSeq(x, 1, n) \in Seq(Byte)
        /\ Len(SubSeq(x, 1, n)) = IF 1 <= n THEN n - 1 + 1 ELSE 0
        /\ \A i \in 1 .. n - 1 + 1 : SubSeq(x, 1, n)[i] = x[1 + i - 1]
    BY <1>0, <2>1, SubSeqProperties
  <2> QED
    BY <1>0, <2>2
<1>2. n < Len(x) => f \o <<x[n + 1]>> = SubSeq(x, 1, n + 1)
  <2> SUFFICES ASSUME n < Len(x) PROVE f \o <<x[n + 1]>> = SubSeq(x, 1, n + 1)
    OBVIOUS
  <2>1. 1 \in 1 .. Len(x) /\ n + 1 \in 1 .. Len(x) /\ (n + 1) - 1 = n
    BY <1>0
  <2>2. SubSeq(x, 1, n + 1) = SubSeq(x, 1, (n + 1) - 1) \o <<x[n + 1]>>
    BY <2>1, SubSeqRecursiveSecond
  <2> QED
    BY <2>1, <2>2
<1>3. ASSUME NEW k \in 1 .. n PROVE SubSeq(f, 1, k) = SubSeq(x, 1, k)
  <2>1. \A i \in 1 .. k : x[i] \in Byte /\ f[i] \in Byte /\ f[i] = x[i]
    BY <1>0, <1>1
  <2>2. /\ SubSeq(x, 1, k) \in Seq(Byte)
        /\ Len(SubSeq(x, 1, k)) = IF 1 <= k THEN k - 1 + 1 ELSE 0
        /\ \A i \in 1 .. k - 1 + 1 : SubSeq(x, 1, k)[i] = x[1 + i - 1]
    BY <1>0, <2>1, SubSeqProperties
  <2>3. /\ SubSeq(f, 1, k) \in Seq(Byte)
        /\ Len(SubSeq(f, 1, k)) = IF 1 <= k THEN k - 1 + 1 ELSE 0
        /\ \A i \in 1 .. k - 1 + 1 : SubSeq(f, 1, k)[i] = f[1 + i - 1]
    BY <1>0, <2>1, SubSeqProperties
  <2>4. PICK u \in Seq(Byte), v \in Seq(Byte) : u = SubSeq(f, 1, k) /\ v = SubSeq(x, 1, k)
    BY <2>2, <2>3
  <2>5. Len(u) = k /\ Len(v) = k
    BY <1>0, <2>2, <2>3, <2>4
  <2>6. \A i \in 1 .. k : u[i] = f[i] /\ v[i] = x[i]
    <3>1. k - 1 + 1 = k /\ \A i \in 1 .. k : 1 + i - 1 = i
      BY <1>0
    <3> QED
      BY <2>2, <2>3, <2>4, <3>1
  <2>7. \A i \in 1 .. Len(u) : u[i] = v[i]
    BY <2>1, <2>5, <2>6
  <2> QED
    BY <2>4, <2>5, <2>7, SeqEqual
<1>4. n >= 2 => n - 1 \in 1 .. n
  BY <1>0
<1>5. n >= 3 => n - 2 \in 1 .. n
  BY <1>0
<1> QED
  BY <1>1, <1>2, <1>3, <1>4, <1>5

(* The checksum follows: the frame has been x up to its byte n and is x up *)
(* to its byte k now.                                                      *)
LEMMA SumFollows ==
  ASSUME NEW x \in Seq(Byte), NEW n \in 0 .. Len(x), NEW k \in {n, n + 1}, k <= Len(x),
         NEW m \in Machine, m.frame = SubSeq(x, 1, k),
         n >= 3 => m.bcc2 = getBCC2(SubSeq(x, 1, n - 2)),
         m.escapeFlag <=> k = n
  PROVE  k >= 3 => Follow(m).bcc2 = getBCC2(SubSeq(x, 1, k - 2))
<1> SUFFICES ASSUME k >= 3 PROVE Follow(m).bcc2 = getBCC2(SubSeq(x, 1, k - 2))
  OBVIOUS
<1>0. Len(x) \in Nat /\ n \in Nat /\ k \in Nat /\ k \in 0 .. Len(x)
  OBVIOUS
<1>1. Len(m.frame) = k /\ \A i \in 1 .. k : m.frame[i] = x[i]
  BY <1>0, FirstBytes
<1>2. Follow(m).bcc2 = IF k = 3 THEN m.frame[1]
                       ELSE IF k > 3 /\ ~m.escapeFlag
                       THEN Xor(m.bcc2, m.frame[k - 2]) ELSE m.bcc2
  BY <1>1, FollowKeeps
<1>3. CASE k = 3
  <2>1. 1 \in 1 .. Len(x) /\ k - 2 = 1 /\ 1 \in 1 .. k
    BY <1>0, <1>3
  <2>2. getBCC2(SubSeq(x, 1, 1)) = x[1]
    BY <2>1, BCC2First
  <2> QED
    BY <1>1, <1>2, <1>3, <2>1, <2>2
<1>4. CASE k > 3 /\ k = n
  BY <1>0, <1>2, <1>4
<1>5. CASE k > 3 /\ k # n
  <2>1. n = k - 1 /\ n >= 3 /\ n - 2 = (k - 2) - 1 /\ k - 2 \in 1 .. Len(x) /\ k - 2 > 1
        /\ k - 2 \in 1 .. k /\ k # 3
    BY <1>0, <1>5
  <2>2. m.bcc2 = getBCC2(SubSeq(x, 1, (k - 2) - 1))
    BY <2>1
  <2>3. getBCC2(SubSeq(x, 1, k - 2)) = Xor(getBCC2(SubSeq(x, 1, (k - 2) - 1)), x[k - 2])
    BY <2>1, BCC2First
  <2>4. Follow(m).bcc2 = Xor(m.bcc2, m.frame[k - 2])
    BY <1>2, <1>5, <2>1
  <2>5. m.frame[k - 2] = x[k - 2]
    BY <1>1, <2>1
  <2> QED
    BY <2>2, <2>3, <2>4, <2>5
<1> QED
  BY <1>0, <1>3, <1>4, <1>5

(* The machine collects what it is fed, and its checksum follows.          *)
LEMMA CollectingRead ==
  ASSUME Shape, packet \in Payloads, ReadByte, machine.state = "COLLECTING", Summed,
         NEW n \in 0 .. Len(packet) + 1, machine.frame = SubSeq(Body(packet), 1, n),
         NEW k \in {n, n + 1}, k <= Len(packet) + 1,
         NEW b \in Byte, b = Head(wire), b # FLAG \/ machine.escapeFlag, b = ESCAPE <=> k = n,
         Collected(machine, b) = IF k = n THEN <<>> ELSE <<Body(packet)[n + 1]>>
  PROVE  /\ Shape' /\ machine'.state = "COLLECTING" /\ Summed'
         /\ machine'.frame = SubSeq(Body(packet), 1, k)
         /\ machine'.escapeFlag <=> b = ESCAPE
         /\ packet' = packet /\ returned' = returned /\ answers' = answers
<1> DEFINE x == Body(packet)
           m == [machine EXCEPT !.frame = @ \o Collected(machine, b),
                                !.escapeFlag = (b = ESCAPE)]
<1>0. x \in Seq(Byte) /\ Len(x) = Len(packet) + 1 /\ Len(packet) \in Nat /\ n \in 0 .. Len(x)
      /\ n \in Nat /\ k <= Len(x) /\ k \in 0 .. Len(x)
  BY BodyBytes
<1>1. Feed(b) /\ packet' = packet
  BY DEF ReadByte
<1>2. /\ machine' = Follow(m) /\ m \in Machine /\ machine'.state = "COLLECTING"
      /\ machine'.frame = machine.frame \o Collected(machine, b)
      /\ machine'.escapeFlag = (b = ESCAPE)
      /\ returned' = returned /\ answers' = answers /\ Shape'
  BY <1>1, FeedCollecting
<1>3. machine.frame \o Collected(machine, b) = SubSeq(x, 1, k)
  <2>1. machine.frame \in Seq(Byte) /\ (n < Len(x) => machine.frame \o <<x[n + 1]>> = SubSeq(x, 1, n + 1))
    BY <1>0, FirstBytes
  <2>2. CASE k = n
    <3>1. machine.frame \o <<>> = machine.frame
      BY <2>1, ConcatEmptySeq
    <3>2. Collected(machine, b) = <<>>
      BY <2>2
    <3> QED
      BY <2>2, <3>1, <3>2
  <2>3. CASE k # n
    <3>1. k = n + 1 /\ n < Len(x)
      BY <1>0, <2>3
    <3>2. Collected(machine, b) = <<x[n + 1]>>
      BY <2>3
    <3> QED
      BY <2>1, <3>1, <3>2
  <2> QED
    BY <2>2, <2>3
<1>4. m.frame = SubSeq(x, 1, k) /\ (m.escapeFlag <=> k = n) /\ m.bcc2 = machine.bcc2
  <2>1. machine \in Machine
    BY DEF Shape
  <2>2. m.frame = machine.frame \o Collected(machine, b) /\ (m.escapeFlag <=> b = ESCAPE)
        /\ m.bcc2 = machine.bcc2
    BY <2>1 DEF Machine
  <2> HIDE DEF m, x
  <2> QED
    BY <1>3, <2>2
<1>5. n >= 3 => machine.bcc2 = getBCC2(SubSeq(x, 1, n - 2))
  <2>1. Len(machine.frame) = n /\ (n >= 3 => SubSeq(machine.frame, 1, n - 2) = SubSeq(x, 1, n - 2))
    BY <1>0, FirstBytes
  <2> QED
    BY <2>1 DEF Summed
<1> HIDE DEF m, x
<1>6. k >= 3 => Follow(m).bcc2 = getBCC2(SubSeq(x, 1, k - 2))
  BY <1>0, <1>2, <1>4, <1>5, SumFollows
<1>7. Summed'
  <2>1. machine'.frame = SubSeq(x, 1, k)
    BY <1>2, <1>3
  <2>2. Len(machine'.frame) = k /\ (k >= 3 => SubSeq(machine'.frame, 1, k - 2) = SubSeq(x, 1, k - 2))
    BY <1>0, <2>1, FirstBytes
  <2> QED
    BY <1>2, <1>6, <2>2 DEF Summed
<1> QED
  BY <1>1, <1>2, <1>3, <1>7 DEF x

(* A byte of the packet, or the first one of its escape sequence.          *)
LEMMA WholeRead ==
  ASSUME Shape, packet \in Payloads, ReadByte, machine.state = "COLLECTING", Summed,
         NEW n \in 0 .. Len(packet), machine.frame = SubSeq(Body(packet), 1, n), Whole(n)
  PROVE  /\ Shape' /\ Reading'
         /\ wire' # <<>> /\ returned' = returned /\ answers' = answers
<1> DEFINE b == Body(packet)[n + 1]
<1>1. /\ n \in 0 .. Len(packet) + 1 /\ n + 1 \in 0 .. Len(packet) + 1 /\ n + 1 \in {n, n + 1}
      /\ n \in {n, n + 1} /\ n <= Len(packet) /\ n <= Len(packet) + 1 /\ n + 1 <= Len(packet) + 1
      /\ n + 1 # n /\ n + 1 \in 1 .. Len(packet) + 1 /\ n + 1 > 0
  BY BodyBytes
<1>2. b \in Byte /\ FLAG \in Byte /\ ESCAPE \in Byte /\ FlagMark \in Byte /\ EscapeMark \in Byte
      /\ FLAG # ESCAPE
  BY <1>1, Bytes, BodyBytes
<1>3. PICK r \in Seq(Byte) : r = Coming(packet, n + 1)
  BY <1>1, ComingBytes
<1>4. wire = Stuffed(b) \o r /\ wire' = Tail(wire) /\ packet' = packet
  BY <1>1, <1>3, ComingBytes DEF Whole, ReadByte
<1>5. ~machine.escapeFlag
  BY DEF Whole
<1>6. n \in 0 .. Len(packet') + 1 /\ n + 1 \in 0 .. Len(packet') + 1 /\ n <= Len(packet')
  BY <1>1, <1>4
<1>7. ASSUME NEW mark \in {FlagMark, EscapeMark}, Stuffed(b) = <<ESCAPE, mark>>,
             (b = FLAG /\ mark = FlagMark) \/ (b = ESCAPE /\ mark = EscapeMark)
      PROVE  Shape' /\ Reading' /\ wire' # <<>> /\ returned' = returned /\ answers' = answers
  <2>1. wire = <<ESCAPE>> \o (<<mark>> \o r)
    BY <1>2, <1>4, <1>7, Prefixes
  <2>2. PICK t \in Seq(Byte) : t = <<mark>> \o r /\ t # <<>>
    BY <1>2, Prefixed
  <2>3. Head(wire) = ESCAPE /\ wire' = t
    BY <1>2, <1>4, <2>1, <2>2, Prefixed
  <2>4. Collected(machine, ESCAPE) = <<>>
    BY Bytes DEF Collected
  <2>5. /\ Shape' /\ machine'.state = "COLLECTING" /\ Summed'
        /\ machine'.frame = SubSeq(Body(packet), 1, n) /\ machine'.escapeFlag
        /\ returned' = returned /\ answers' = answers
    BY <1>1, <1>2, <2>3, <2>4, CollectingRead
  <2>6. Halved(n)'
    <3>1. (b = FLAG /\ t = <<FlagMark>> \o r) \/ (b = ESCAPE /\ t = <<EscapeMark>> \o r)
      BY <1>7, <2>2
    <3>2. Body(packet')[n + 1] = b /\ Coming(packet', n + 1) = r
      BY <1>3, <1>4
    <3> HIDE DEF b
    <3> QED
      BY <1>6, <2>3, <2>5, <3>1, <3>2 DEF Halved
  <2>7. Reading'
    BY <1>4, <1>6, <2>5, <2>6 DEF Reading
  <2> QED
    BY <2>2, <2>3, <2>5, <2>7
<1>8. CASE b \in {FLAG, ESCAPE}
  <2>1. b = FLAG => Stuffed(b) = <<ESCAPE, FlagMark>>
    BY <1>2, StuffedByte
  <2>2. b = ESCAPE => Stuffed(b) = <<ESCAPE, EscapeMark>>
    BY <1>2, StuffedByte
  <2>3. CASE b = FLAG
    BY <1>7, <2>1, <2>3
  <2>4. CASE b = ESCAPE
    BY <1>7, <2>2, <2>4
  <2> QED
    BY <1>8, <2>3, <2>4
<1>9. CASE b \notin {FLAG, ESCAPE}
  <2>1. wire = <<b>> \o r
    BY <1>2, <1>4, <1>9, StuffedByte
  <2>2. Head(wire) = b /\ wire' = r
    BY <1>2, <1>4, <2>1, Prefixed
  <2>3. Collected(machine, b) = <<b>> /\ b # FLAG /\ b # ESCAPE
    BY <1>5, <1>9 DEF Collected
  <2>4. /\ Shape' /\ machine'.state = "COLLECTING" /\ Summed'
        /\ machine'.frame = SubSeq(Body(packet), 1, n + 1) /\ ~machine'.escapeFlag
        /\ returned' = returned /\ answers' = answers
    BY <1>1, <1>2, <2>2, <2>3, CollectingRead
  <2>5. Whole(n + 1)'
    BY <1>3, <1>4, <2>2, <2>4 DEF Whole
  <2>6. Reading'
    BY <1>4, <1>6, <2>4, <2>5 DEF Reading
  <2>7. r # <<>>
    BY <1>1, <1>3, ComingBytes
  <2> QED
    BY <2>2, <2>4, <2>6, <2>7
<1> QED
  BY <1>8, <1>9

(* The second byte of an escape sequence.                                  *)
LEMMA HalvedRead ==
  ASSUME Shape, packet \in Payloads, ReadByte, machine.state = "COLLECTING", Summed,
         NEW n \in 0 .. Len(packet) + 1, machine.frame = SubSeq(Body(packet), 1, n), Halved(n)
  PROVE  /\ Shape' /\ Reading'
         /\ returned' = returned /\ answers' = answers /\ wire' = Coming(packet, n + 1)
<1>1. /\ n <= Len(packet) /\ n + 1 \in 0 .. Len(packet) + 1 /\ n + 1 \in {n, n + 1}
      /\ n + 1 <= Len(packet) + 1 /\ n + 1 # n
  BY BodyBytes DEF Halved
<1>2. machine.escapeFlag = TRUE
  BY DEF Halved, Shape, Machine
<1>3. PICK mark \in {FlagMark, EscapeMark} :
        /\ wire = <<mark>> \o Coming(packet, n + 1)
        /\ \/ mark = FlagMark /\ Body(packet)[n + 1] = FLAG
           \/ mark = EscapeMark /\ Body(packet)[n + 1] = ESCAPE
  <2>1. CASE Body(packet)[n + 1] = FLAG /\ wire = <<FlagMark>> \o Coming(packet, n + 1)
    BY <2>1
  <2>2. CASE Body(packet)[n + 1] = ESCAPE /\ wire = <<EscapeMark>> \o Coming(packet, n + 1)
    BY <2>2
  <2> QED
    BY <2>1, <2>2 DEF Halved
<1>4. mark \in Byte /\ mark # ESCAPE /\ mark # FLAG /\ FlagMark # EscapeMark
  BY Bytes
<1>5. Coming(packet, n + 1) \in Seq(Byte)
  BY <1>1, ComingBytes
<1>6. Head(wire) = mark /\ wire' = Coming(packet, n + 1) /\ packet' = packet
  <2>1. Head(wire) = mark /\ Tail(wire) = Coming(packet, n + 1)
    BY <1>3, <1>4, <1>5, Prefixed
  <2> QED
    BY <2>1 DEF ReadByte
<1>7. Collected(machine, mark) = <<Body(packet)[n + 1]>>
  <2>1. CASE mark = FlagMark
    BY <1>2, <1>3, <1>4, <2>1 DEF Collected
  <2>2. CASE mark = EscapeMark
    BY <1>2, <1>3, <1>4, <2>2 DEF Collected
  <2> QED
    BY <2>1, <2>2
<1>8. /\ Shape' /\ machine'.state = "COLLECTING" /\ Summed'
      /\ machine'.frame = SubSeq(Body(packet), 1, n + 1) /\ ~machine'.escapeFlag
      /\ returned' = returned /\ answers' = answers
  BY <1>1, <1>2, <1>4, <1>6, <1>7, CollectingRead
<1>9. Whole(n + 1)'
  BY <1>6, <1>8 DEF Whole
<1>10. n + 1 \in 0 .. Len(packet') + 1
  BY <1>1, <1>6
<1>11. Reading'
  BY <1>6, <1>8, <1>9, <1>10 DEF Reading
<1> QED
  BY <1>6, <1>8, <1>11

(* The closing flag: the checksum is right.                                *)
LEMMA ClosingRead ==
  ASSUME Shape, packet \in Payloads, ReadByte, machine.state = "COLLECTING", Summed,
         machine.frame = Body(packet), wire = <<FLAG>>, ~machine.escapeFlag, returned = <<>>
  PROVE  /\ Shape' /\ Between'
         /\ returned' = <<packet>> /\ wire' = <<>> /\ answers' = Append(answers, "RR")
<1> DEFINE f == machine.frame
           p == packet
<1>1. /\ p \in Seq(Byte) /\ Len(p) \in Nat /\ Len(p) >= 2 /\ f \in Seq(Byte)
      /\ Len(f) = Len(p) + 1 /\ SubSeq(f, 1, Len(p)) = p /\ f[Len(p) + 1] = getBCC2(p)
  BY BodyBytes
<1>2. Len(f) >= 3 /\ Len(f) > 1 /\ Len(f) - 1 = Len(p) /\ Len(f) - 2 = Len(p) - 1
  BY <1>1
<1>3. machine.bcc2 = getBCC2(SubSeq(f, 1, Len(p) - 1))
  BY <1>2 DEF Summed
<1>4. f[Len(f)] = Xor(machine.bcc2, f[Len(f) - 1])
  <2>1. Len(p) \in 1 .. Len(f) /\ Len(p) > 1
    BY <1>1
  <2>2. getBCC2(SubSeq(f, 1, Len(p))) = Xor(getBCC2(SubSeq(f, 1, Len(p) - 1)), f[Len(p)])
    BY <1>1, <2>1, BCC2First
  <2> QED
    BY <1>1, <1>2, <1>3, <2>2
<1>5. Feed(FLAG) /\ wire' = <<>> /\ packet' = packet
  BY DEF ReadByte
<1>6. /\ Restarted
      /\ returned' = Append(returned, SubSeq(f, 1, Len(f) - 1))
      /\ answers' = Append(answers, "RR")
  BY <1>2, <1>4, <1>5, FeedClosing
<1>7. returned' = <<packet>>
  BY <1>1, <1>2, <1>6
<1> QED
  BY <1>5, <1>6, <1>7 DEF Restarted, Between

(* In step, a byte leads on, and the last one to the answer.               *)
LEMMA InStepRead ==
  ASSUME Shape, packet \in Payloads, InStep, ReadByte
  PROVE  /\ Shape' /\ InStep'
         /\ IF wire' = <<>> THEN answers' = Append(answers, "RR") ELSE answers' = answers
<1>1. returned = <<>> /\ (Opening \/ Reading) /\ packet' = packet
  BY DEF InStep, ReadByte
<1>2. CASE Opening
  BY <1>1, <1>2, OpeningRead DEF InStep
<1>3. CASE Reading
  <2>1. PICK n \in 0 .. Len(packet) + 1 :
          machine.frame = SubSeq(Body(packet), 1, n) /\ (Whole(n) \/ Halved(n))
    BY <1>3 DEF Reading
  <2>2. machine.state = "COLLECTING" /\ Summed
    BY <1>3 DEF Reading
  <2>3. CASE Whole(n) /\ n <= Len(packet)
    <3>1. n \in 0 .. Len(packet)
      BY <2>3, BodyBytes
    <3> QED
      BY <1>1, <2>1, <2>2, <2>3, <3>1, WholeRead DEF InStep
  <2>4. CASE Whole(n) /\ ~(n <= Len(packet))
    <3>1. n = Len(packet) + 1
      BY <2>4, BodyBytes
    <3>2. wire = <<FLAG>> /\ ~machine.escapeFlag
      BY <2>4, <3>1, ComingBytes DEF Whole
    <3>3. machine.frame = Body(packet)
      BY <2>1, <3>1, BodyBytes, SubSeqFull
    <3> QED
      BY <1>1, <2>2, <3>2, <3>3, ClosingRead DEF InStep
  <2>5. CASE Halved(n)
    <3>1. /\ Shape' /\ Reading' /\ returned' = returned /\ answers' = answers
          /\ wire' = Coming(packet, n + 1)
      BY <2>1, <2>2, <2>5, HalvedRead
    <3>2. wire' # <<>>
      <4>1. n + 1 \in 0 .. Len(packet) + 1
        BY <2>5, BodyBytes DEF Halved
      <4> QED
        BY <3>1, <4>1, ComingBytes
    <3> QED
      BY <1>1, <3>1, <3>2 DEF InStep
  <2> QED
    BY <2>1, <2>3, <2>4, <2>5
<1> QED
  BY <1>1, <1>2, <1>3

(* Where the flags of a frame are.                                         *)
Framed(w) ==
  /\ w \in Seq(Byte) /\ Len(w) \in Nat /\ Len(w) >= 5
  /\ w[1] = FLAG /\ w[Len(w)] = FLAG
  /\ \A i \in 2 .. Len(w) - 1 : w[i] # FLAG
  /\ w[Len(w) - 1] # ESCAPE

LEMMA FrameFlags ==
  ASSUME NEW p \in Payloads
  PROVE  Framed(InformationFrame(p))
<1> DEFINE h == <<FLAG, AE, CI, AE>>
<1>1. FLAG \in Byte /\ AE \in Byte /\ CI \in Byte /\ h \in Seq(Byte) /\ <<FLAG>> \in Seq(Byte)
      /\ FLAG # AE /\ FLAG # CI /\ AE # ESCAPE
  BY Bytes
<1>2. PICK d \in Seq(Byte) : d = getStuffedData(Body(p)) /\ NoFlag(d)
  BY BodyBytes, StuffedNoFlag
<1>3. InformationFrame(p) = (h \o d) \o <<FLAG>>
  BY <1>2, Bytes DEF InformationFrame, Body
<1>4. Len(h) = 4 /\ h[1] = FLAG /\ h[2] = AE /\ h[3] = CI /\ h[4] = AE
  OBVIOUS
<1> HIDE DEF h
<1>5. PICK u \in Seq(Byte) : u = h \o d
  BY <1>1, <1>2, ConcatProperties
<1>6. /\ Len(u) = 4 + Len(d) /\ Len(d) \in Nat
      /\ \A i \in 1 .. 4 + Len(d) : u[i] = IF i <= 4 THEN h[i] ELSE d[i - 4]
  <2>1. /\ Len(u) = Len(h) + Len(d)
        /\ \A i \in 1 .. Len(h) + Len(d) : u[i] = IF i <= Len(h) THEN h[i] ELSE d[i - Len(h)]
    BY <1>1, <1>5, ConcatProperties
  <2> QED
    BY <1>4, <2>1
<1>7. PICK w \in Seq(Byte) : w = u \o <<FLAG>>
  BY <1>1, ConcatProperties
<1>8. /\ Len(w) = Len(u) + 1
      /\ \A i \in 1 .. Len(u) : w[i] = u[i]
      /\ w[Len(u) + 1] = FLAG
  <2>1. Len(<<FLAG>>) = 1 /\ <<FLAG>>[1] = FLAG /\ Len(u) \in Nat
    OBVIOUS
  <2>2. /\ Len(w) = Len(u) + 1
        /\ \A i \in 1 .. Len(u) + 1 : w[i] = IF i <= Len(u) THEN u[i] ELSE <<FLAG>>[i - Len(u)]
    BY <1>1, <1>7, <2>1, ConcatProperties
  <2> QED
    BY <2>1, <2>2
<1>9. w[1] = FLAG /\ w[Len(w)] = FLAG
  BY <1>4, <1>6, <1>8
<1>10. ASSUME NEW i \in 2 .. Len(w) - 1 PROVE w[i] # FLAG
  <2>1. w[i] = IF i <= 4 THEN h[i] ELSE d[i - 4]
    BY <1>6, <1>8
  <2>2. CASE i <= 4
    <3>1. i = 2 \/ i = 3 \/ i = 4
      BY <2>2
    <3> QED
      BY <1>1, <1>4, <2>1, <2>2, <3>1
  <2>3. CASE ~(i <= 4)
    <3>1. i - 4 \in 1 .. Len(d)
      BY <1>6, <1>8, <2>3
    <3> QED
      BY <1>2, <2>1, <2>3, <3>1 DEF NoFlag
  <2> QED
    BY <2>2, <2>3
<1>11. w[Len(w) - 1] # ESCAPE
  <2>1. Len(w) - 1 = Len(u) /\ Len(u) \in 1 .. Len(u)
    BY <1>6, <1>8
  <2>2. w[Len(w) - 1] = IF Len(u) <= 4 THEN h[Len(u)] ELSE d[Len(u) - 4]
    BY <1>6, <1>8, <2>1
  <2>3. CASE d = <<>>
    <3>1. Len(u) = 4
      BY <1>6, <2>3
    <3> QED
      BY <1>1, <1>4, <2>2, <3>1
  <2>4. CASE d # <<>>
    <3>1. ~(Len(u) <= 4) /\ Len(u) - 4 = Len(d)
      BY <1>6, <2>4
    <3> QED
      BY <1>2, <2>2, <2>4, <3>1 DEF NoFlag
  <2> QED
    BY <2>3, <2>4
<1>12. Len(w) \in Nat /\ Len(w) >= 5
  BY <1>6, <1>8
<1>13. InformationFrame(p) = w
  BY <1>3, <1>5, <1>7
<1> QED
  BY <1>9, <1>10, <1>11, <1>12, <1>13 DEF Framed

(* What is left of a frame when its opening flag has been read ends with   *)
(* its closing flag.                                                       *)
LEMMA ClosingFrame ==
  ASSUME NEW w, Framed(w)
  PROVE  Closing(Tail(w)) /\ Len(Tail(w)) > 1 /\ Head(w) = FLAG /\ w # <<>>
<1>1. w \in Seq(Byte) /\ w # <<>> /\ Len(w) \in Nat /\ Len(w) >= 5
  BY DEF Framed
<1>2. PICK t \in Seq(Byte) : t = Tail(w) /\ Len(t) = Len(w) - 1 /\ \A i \in 1 .. Len(t) : t[i] = w[i + 1]
  <2>1. Tail(w) \in Seq(Byte) /\ Len(Tail(w)) = Len(w) - 1
        /\ \A i \in 1 .. Len(Tail(w)) : Tail(w)[i] = w[i + 1]
    BY <1>1, HeadTailProperties
  <2> QED
    BY <2>1
<1>3. Len(t) \in 1 .. Len(t) /\ Len(t) - 1 \in 1 .. Len(t) /\ Len(t) + 1 = Len(w)
      /\ (Len(t) - 1) + 1 = Len(w) - 1 /\ Len(t) > 1
  BY <1>1, <1>2
<1>4. t[Len(t)] = FLAG /\ t[Len(t) - 1] # ESCAPE
  BY <1>2, <1>3 DEF Framed
<1>5. \A i \in 1 .. Len(t) - 1 : t[i] # FLAG
  <2>1. \A i \in 1 .. Len(t) - 1 : i \in 1 .. Len(t) /\ i + 1 \in 2 .. Len(w) - 1
    BY <1>1, <1>2
  <2> QED
    BY <1>2, <2>1 DEF Framed
<1> QED
  BY <1>1, <1>2, <1>3, <1>4, <1>5 DEF Closing, Framed

LEMMA ClosingTail ==
  ASSUME NEW w \in Seq(Byte), Closing(w)
  PROVE  /\ w # <<>>
         /\ Len(w) = 1 => Head(w) = FLAG /\ Tail(w) = <<>>
         /\ Len(w) # 1 => /\ Head(w) # FLAG /\ Closing(Tail(w))
                          /\ Len(Tail(w)) = 1 => Head(w) # ESCAPE
<1>1. w # <<>> /\ Len(w) \in Nat /\ Len(w) > 0 /\ Head(w) = w[1]
  BY DEF Closing
<1>2. PICK t \in Seq(Byte) : t = Tail(w) /\ Len(t) = Len(w) - 1 /\ \A i \in 1 .. Len(t) : t[i] = w[i + 1]
  <2>1. Tail(w) \in Seq(Byte) /\ Len(Tail(w)) = Len(w) - 1
        /\ \A i \in 1 .. Len(Tail(w)) : Tail(w)[i] = w[i + 1]
    BY <1>1, HeadTailProperties
  <2> QED
    BY <2>1
<1>3. CASE Len(w) = 1
  BY <1>1, <1>2, <1>3 DEF Closing
<1>4. CASE Len(w) # 1
  <2>1. Len(w) > 1 /\ 1 \in 1 .. Len(w) - 1 /\ Len(t) \in 1 .. Len(t) /\ Len(t) > 0
        /\ Len(t) + 1 = Len(w)
    BY <1>1, <1>2, <1>4
  <2>2. Head(w) # FLAG
    BY <1>1, <2>1 DEF Closing
  <2>3. t[Len(t)] = FLAG
    BY <1>2, <2>1 DEF Closing
  <2>4. \A i \in 1 .. Len(t) - 1 : t[i] # FLAG
    <3>1. \A i \in 1 .. Len(t) - 1 : i \in 1 .. Len(t) /\ i + 1 \in 1 .. Len(w) - 1
      BY <1>1, <1>2
    <3> QED
      BY <1>2, <3>1 DEF Closing
  <2>5. ASSUME Len(t) > 1 PROVE t[Len(t) - 1] # ESCAPE
    <3>1. Len(t) - 1 \in 1 .. Len(t) /\ (Len(t) - 1) + 1 = Len(w) - 1
      BY <1>2, <2>1, <2>5
    <3> QED
      BY <1>2, <2>1, <3>1 DEF Closing
  <2>6. Closing(t)
    BY <2>1, <2>3, <2>4, <2>5 DEF Closing
  <2>7. Len(t) = 1 => Head(w) # ESCAPE
    <3>1. Len(t) = 1 => Len(w) - 1 = 1
      BY <2>1
    <3> QED
      BY <1>1, <2>1, <3>1 DEF Closing
  <2> QED
    BY <1>1, <1>2, <1>4, <2>2, <2>6, <2>7
<1> QED
  BY <1>1, <1>3, <1>4

(* A byte read is a flag less when it is a flag that is not the last byte. *)
LEMMA InnerTail ==
  ASSUME NEW w \in Seq(Byte), w # <<>>
  PROVE  /\ Inner(w) = {} => Inner(Tail(w)) = {}
         /\ AtMostOne(w) => AtMostOne(Tail(w))
         /\ AtMostTwo(w) => AtMostTwo(Tail(w))
         /\ 1 \in Inner(w) <=> Head(w) = FLAG /\ Tail(w) # <<>>
         /\ 1 \in Inner(w) /\ AtMostOne(w) => Inner(Tail(w)) = {}
         /\ 1 \in Inner(w) /\ AtMostTwo(w) => AtMostOne(Tail(w))
         /\ Tail(w) = <<>> => Inner(w) = {} /\ Inner(Tail(w)) = {} /\ AtMostOne(Tail(w))
<1>1. Len(w) \in Nat /\ Len(w) > 0 /\ Head(w) = w[1]
  OBVIOUS
<1>2. PICK t \in Seq(Byte) : t = Tail(w) /\ Len(t) = Len(w) - 1 /\ \A i \in 1 .. Len(t) : t[i] = w[i + 1]
  <2>1. Tail(w) \in Seq(Byte) /\ Len(Tail(w)) = Len(w) - 1
        /\ \A i \in 1 .. Len(Tail(w)) : Tail(w)[i] = w[i + 1]
    BY HeadTailProperties
  <2> QED
    BY <2>1
<1>3. \A i \in Inner(t) : i \in Nat /\ i # 0 /\ i + 1 \in Inner(w) /\ i + 1 # 1
  BY <1>1, <1>2 DEF Inner
<1>4. 1 \in Inner(w) <=> Head(w) = FLAG /\ t # <<>>
  <2>1. t # <<>> <=> Len(t) # 0
    OBVIOUS
  <2>2. Len(t) # 0 <=> 1 \in 1 .. Len(w) - 1
    BY <1>1, <1>2
  <2> QED
    BY <1>1, <2>1, <2>2 DEF Inner
<1>5. Inner(w) = {} => Inner(t) = {}
  BY <1>3
<1>6. ASSUME NEW i \in Nat, NEW j \in Nat, Inner(w) \subseteq {i, j}
      PROVE  \E k, l \in Nat : Inner(t) \subseteq {k, l} /\ (i = j => k = l)
  <2> DEFINE Before(x) == IF x = 0 THEN 0 ELSE x - 1
  <2>1. Before(i) \in Nat /\ Before(j) \in Nat
    OBVIOUS
  <2>2. Inner(t) \subseteq {Before(i), Before(j)}
    BY <1>3, <1>6
  <2> QED
    BY <2>1, <2>2
<1>7. AtMostOne(w) => AtMostOne(t)
  <2> SUFFICES ASSUME NEW i \in Nat, Inner(w) \subseteq {i} PROVE AtMostOne(t)
    BY DEF AtMostOne
  <2>1. PICK k, l \in Nat : Inner(t) \subseteq {k, l} /\ k = l
    <3>1. Inner(w) \subseteq {i, i}
      OBVIOUS
    <3> QED
      BY <1>6, <3>1
  <2> QED
    BY <2>1 DEF AtMostOne
<1>8. AtMostTwo(w) => AtMostTwo(t)
  BY <1>6 DEF AtMostTwo
<1>9. 1 \in Inner(w) /\ AtMostOne(w) => Inner(t) = {}
  BY <1>3 DEF AtMostOne
<1>10. 1 \in Inner(w) /\ AtMostTwo(w) => AtMostOne(t)
  <2> SUFFICES ASSUME NEW i \in Nat, NEW j \in Nat, Inner(w) \subseteq {i, j}, 1 \in Inner(w)
               PROVE  \E k \in Nat : Inner(t) \subseteq {k}
    BY DEF AtMostOne, AtMostTwo
  <2> DEFINE x == IF i = 1 THEN j ELSE i
             k == IF x = 0 THEN 0 ELSE x - 1
  <2>1. k \in Nat
    OBVIOUS
  <2>2. Inner(t) \subseteq {k}
    BY <1>3
  <2> QED
    BY <2>1, <2>2
<1>11. t = <<>> => Inner(w) = {} /\ Inner(t) = {} /\ AtMostOne(t)
  <2> SUFFICES ASSUME t = <<>> PROVE Inner(w) = {} /\ Inner(t) = {} /\ AtMostOne(t)
    OBVIOUS
  <2>1. Len(w) = 1
    BY <1>1, <1>2
  <2>2. Inner(w) = {}
    BY <2>1 DEF Inner
  <2> QED
    BY <1>5, <2>2 DEF AtMostOne
<1> QED
  BY <1>2, <1>4, <1>5, <1>7, <1>8, <1>9, <1>10, <1>11

(* Between its first and its last byte a frame, spoiled or not, has at     *)
(* most one flag more than the opening one.                                *)
LEMMA SpoiltFlags ==
  ASSUME NEW f, Framed(f), NEW w \in Spoilt(f, NoiseBytes) \cup {f}
  PROVE  /\ w \in Seq(Byte) /\ w # <<>>
         /\ AtMostTwo(w)
         /\ AtMostOne(w) \/ 1 \in Inner(w)
<1>1. /\ f \in Seq(Byte) /\ Len(f) \in Nat /\ Len(f) >= 5
      /\ DOMAIN f = 1 .. Len(f)
      /\ \A i \in 1 .. Len(f) : f[i] \in Byte
      /\ f[1] = FLAG /\ \A i \in 2 .. Len(f) - 1 : f[i] # FLAG
  BY DEF Framed
<1>2. NoiseBytes \subseteq Byte
  BY InformationAssumption
<1>3. ASSUME NEW s \in Seq(Byte), NEW i \in Nat, Inner(s) \subseteq {1, i}, 1 \in Inner(s)
      PROVE  AtMostTwo(s) /\ (AtMostOne(s) \/ 1 \in Inner(s))
  BY <1>3 DEF AtMostTwo
<1>4. ASSUME NEW s \in Seq(Byte), NEW i \in Nat, Inner(s) \subseteq {i}
      PROVE  AtMostTwo(s) /\ (AtMostOne(s) \/ 1 \in Inner(s))
  BY <1>4 DEF AtMostOne, AtMostTwo
<1>5. CASE w = f
  <2>1. Inner(f) \subseteq {1} /\ f # <<>>
    BY <1>1 DEF Inner
  <2> QED
    BY <1>1, <1>4, <1>5, <2>1
<1>6. ASSUME NEW i \in 1 .. Len(f), w = Without(f, i)
      PROVE  /\ w \in Seq(Byte) /\ w # <<>>
             /\ AtMostTwo(w) /\ (AtMostOne(w) \/ 1 \in Inner(w))
  <2>1. \A j \in 1 .. Len(f) - 1 : j \in 1 .. Len(f) /\ j + 1 \in 1 .. Len(f)
    BY <1>1
  <2>2. w = [j \in 1 .. Len(f) - 1 |-> IF j < i THEN f[j] ELSE f[j + 1]]
    BY <1>6 DEF Without
  <2>3. \A j \in 1 .. Len(f) - 1 : w[j] \in Byte /\ w[j] = IF j < i THEN f[j] ELSE f[j + 1]
    BY <1>1, <2>1, <2>2
  <2>4. w \in [1 .. Len(f) - 1 -> Byte]
    BY <2>2, <2>3
  <2>5. Len(f) - 1 \in Nat
    BY <1>1
  <2>6. w \in Seq(Byte) /\ Len(w) = Len(f) - 1
    BY <2>4, <2>5, SeqDef, LenProperties
  <2>7. w # <<>>
    BY <1>1, <2>6
  <2>8. Inner(w) \subseteq {1}
    <3> SUFFICES ASSUME NEW j \in 1 .. Len(f) - 2, j # 1 PROVE w[j] # FLAG
      BY <2>6 DEF Inner
    <3>1. j \in 1 .. Len(f) - 1 /\ j \in 2 .. Len(f) - 1 /\ j + 1 \in 2 .. Len(f) - 1
      BY <1>1
    <3> QED
      BY <1>1, <2>3, <3>1
  <2> QED
    BY <1>4, <2>6, <2>7, <2>8
<1>7. ASSUME NEW i \in 1 .. Len(f), NEW b \in NoiseBytes, w = [f EXCEPT ![i] = b]
      PROVE  /\ w \in Seq(Byte) /\ w # <<>>
             /\ AtMostTwo(w) /\ (AtMostOne(w) \/ 1 \in Inner(w))
  <2>1. w \in Seq(Byte) /\ Len(w) = Len(f) /\ w # <<>>
        /\ \A j \in 1 .. Len(f) : w[j] = IF j = i THEN b ELSE f[j]
    BY <1>1, <1>2, <1>7
  <2>2. Inner(w) \subseteq {1, i}
    BY <1>1, <2>1 DEF Inner
  <2>3. CASE i = 1
    BY <1>4, <2>1, <2>2, <2>3
  <2>4. CASE i # 1
    <3>1. 1 \in Inner(w)
      BY <1>1, <2>1, <2>4 DEF Inner
    <3> QED
      BY <1>3, <2>1, <2>2, <3>1
  <2> QED
    BY <2>1, <2>3, <2>4
<1>8. ASSUME NEW i \in 1 .. Len(f), NEW b \in NoiseBytes, w = With(f, i, b)
      PROVE  /\ w \in Seq(Byte) /\ w # <<>>
             /\ AtMostTwo(w) /\ (AtMostOne(w) \/ 1 \in Inner(w))
  <2>1. \A j \in 1 .. Len(f) + 1 : /\ j # i /\ j < i => j \in 1 .. Len(f)
                                   /\ j # i /\ ~(j < i) => j - 1 \in 1 .. Len(f)
    BY <1>1
  <2>2. w = [j \in 1 .. Len(f) + 1 |-> IF j < i THEN f[j] ELSE IF j = i THEN b ELSE f[j - 1]]
    BY <1>8 DEF With
  <2>3. \A j \in 1 .. Len(f) + 1 :
          w[j] \in Byte /\ w[j] = IF j < i THEN f[j] ELSE IF j = i THEN b ELSE f[j - 1]
    BY <1>1, <1>2, <2>1, <2>2
  <2>4. w \in [1 .. Len(f) + 1 -> Byte]
    BY <2>2, <2>3
  <2>5. Len(f) + 1 \in Nat
    BY <1>1
  <2>6. w \in Seq(Byte) /\ Len(w) = Len(f) + 1
    BY <2>4, <2>5, SeqDef, LenProperties
  <2>7. w # <<>>
    BY <1>1, <2>6
  <2>8. CASE i = 1
    <3>1. \A j \in 1 .. Len(f) : j # 1 /\ j # 2 => w[j] # FLAG
      <4> SUFFICES ASSUME NEW j \in 1 .. Len(f), j # 1, j # 2 PROVE w[j] # FLAG
        OBVIOUS
      <4>1. j \in 1 .. Len(f) + 1 /\ ~(j < i) /\ j # i /\ j - 1 \in 2 .. Len(f) - 1
        BY <1>1, <2>8
      <4> QED
        BY <1>1, <2>3, <4>1
    <3>2. Inner(w) \subseteq {1, 2}
      BY <2>5, <2>6, <3>1 DEF Inner
    <3>3. CASE 1 \in Inner(w)
      BY <1>3, <2>6, <2>7, <3>2, <3>3
    <3>4. CASE 1 \notin Inner(w)
      BY <1>4, <2>6, <2>7, <3>2, <3>4
    <3> QED
      BY <3>3, <3>4
  <2>9. CASE i # 1
    <3>1. \A j \in 1 .. Len(f) : j # 1 /\ j # i => w[j] # FLAG
      <4> SUFFICES ASSUME NEW j \in 1 .. Len(f), j # 1, j # i PROVE w[j] # FLAG
        OBVIOUS
      <4>1. j \in 1 .. Len(f) + 1
        BY <1>1
      <4>2. j < i => j \in 2 .. Len(f) - 1
        BY <1>1
      <4>3. ~(j < i) => j - 1 \in 2 .. Len(f) - 1
        BY <1>1, <2>9
      <4> QED
        BY <1>1, <2>3, <4>1, <4>2, <4>3
    <3>2. Inner(w) \subseteq {1, i}
      BY <2>5, <2>6, <3>1 DEF Inner
    <3>3. 1 \in Inner(w)
      <4>1. 1 \in 1 .. Len(f) + 1 /\ 1 < i /\ 1 \in 1 .. Len(w) - 1
        BY <1>1, <2>6, <2>9
      <4> QED
        BY <1>1, <2>3, <4>1 DEF Inner
    <3> QED
      BY <1>3, <2>6, <2>7, <3>2, <3>3
  <2> QED
    BY <2>8, <2>9
<1>9. CASE w \in Spoilt(f, NoiseBytes)
  <2>1. \/ \E i \in 1 .. Len(f) : w = Without(f, i)
        \/ \E i \in 1 .. Len(f), b \in NoiseBytes : w = [f EXCEPT ![i] = b]
        \/ \E i \in 1 .. Len(f), b \in NoiseBytes : w = With(f, i, b)
    BY <1>1, <1>9 DEF Spoilt
  <2> QED
    BY <1>6, <1>7, <1>8, <2>1
<1> QED
  BY <1>5, <1>9

-----------------------------------------------------------------------------
(* A byte in general: the call goes on, or it ends with an answer when an  *)
(* unescaped flag closes what it collected.                                *)
Continued == returned' = returned /\ answers' = answers
Answered ==
  /\ machine.state = "COLLECTING" /\ ~machine.escapeFlag
  /\ \E k \in {"RR", "REJ"} : answers' = Append(answers, k)
  /\ returned' = returned \/ \E s \in Seq(Byte) : returned' = Append(returned, s)

LEMMA Fed ==
  ASSUME Shape, NEW b \in Byte, Feed(b)
  PROVE  /\ Shape'
         /\ Continued \/ (Answered /\ b = FLAG)
         /\ machine.state = "START" => machine'.state = IF b = FLAG THEN "FLAG" ELSE "START"
         /\ machine.state = "FLAG" =>
              machine'.state = IF b = FLAG THEN "FLAG" ELSE IF b = AE THEN "A" ELSE "START"
         /\ machine.state \in {"A", "C"} =>
              machine'.state \in {"START", "C", "COLLECTING"} /\ (b = FLAG => machine'.state = "START")
         /\ machine.state = "COLLECTING" =>
              IF b = FLAG /\ ~machine.escapeFlag THEN machine'.state = "START"
              ELSE machine'.state = "COLLECTING" /\ machine'.escapeFlag = (b = ESCAPE) /\ Continued
<1>0. FLAG # AE /\ FLAG # CI
  BY Bytes
<1>1. CASE machine.state # "COLLECTING"
  <2>1. ASSUME NEW state \in {"START", "FLAG", "A", "C", "COLLECTING"}, Advanced(state, b),
               state = "FLAG" => b = FLAG
        PROVE  Shape' /\ Continued /\ machine'.state = state
    BY <1>1, <2>1, AdvancedShape DEF Advanced, Continued
  <2>2. CASE machine.state = "START"
    <3>1. Advanced(IF b = FLAG THEN "FLAG" ELSE "START", b)
      BY <1>1, <2>2, FeedHeader
    <3> QED
      BY <2>1, <2>2, <3>1
  <2>3. CASE machine.state = "FLAG"
    <3>1. \/ b \in {FLAG, AE} /\ Advanced(IF b = FLAG THEN "FLAG" ELSE "A", b)
          \/ b \notin {FLAG, AE} /\ Restarted /\ returned' = returned /\ answers' = answers
      BY <1>1, <2>3, FeedHeader
    <3> QED
      BY <1>0, <2>1, <2>3, <3>1 DEF Restarted, Continued
  <2>4. CASE machine.state = "A"
    <3>1. \/ b = CI /\ Advanced("C", b)
          \/ Restarted /\ returned' = returned /\ answers' = answers
      BY <1>1, <2>4, FeedHeader
    <3> QED
      BY <1>0, <2>1, <2>4, <3>1 DEF Restarted, Continued
  <2>5. CASE machine.state = "C"
    <3>1. \/ b = AE /\ Advanced("COLLECTING", b)
          \/ Restarted /\ returned' = returned /\ answers' = answers
      BY <1>1, <2>5, FeedHeader
    <3> QED
      BY <1>0, <2>1, <2>5, <3>1 DEF Restarted, Continued
  <2> QED
    BY <1>1, <2>2, <2>3, <2>4, <2>5 DEF Shape
<1>2. CASE machine.state = "COLLECTING" /\ (b # FLAG \/ machine.escapeFlag)
  BY <1>2, FeedCollecting DEF Continued
<1>3. CASE machine.state = "COLLECTING" /\ b = FLAG /\ ~machine.escapeFlag
  <2>1. SubSeq(machine.frame, 1, Len(machine.frame) - 1) \in Seq(Byte)
    <3>1. machine.frame \in Seq(Byte) /\ Len(machine.frame) \in Nat
          /\ \A i \in 1 .. Len(machine.frame) : machine.frame[i] \in Byte
      BY DEF Shape, Machine
    <3>2. \A i \in 1 .. Len(machine.frame) - 1 : machine.frame[i] \in Byte
      BY <3>1
    <3> QED
      BY <3>1, <3>2, SubSeqProperties
  <2>2. Restarted /\ (Continued \/ Answered)
    BY <1>3, <2>1, FeedClosing DEF Continued, Answered
  <2> QED
    BY <1>3, <2>2 DEF Restarted
<1> QED
  BY <1>1, <1>2, <1>3

-----------------------------------------------------------------------------
(* Types.                                                                  *)

LEMMA InitTypes ==
  ASSUME Init
  PROVE  TypeOK /\ Shape
<1>1. PICK g \in Byte : machine = newReceiverStateMachine(g)
  BY InformationAssumption DEF Init
<1>2. /\ machine = [state |-> "START", frame |-> <<>>, escapeFlag |-> FALSE, bcc2 |-> g]
      /\ machine.state = "START" /\ machine.frame = <<>> /\ machine.escapeFlag = FALSE
  BY <1>1 DEF newReceiverStateMachine
<1>3. machine \in Machine
  BY <1>2 DEF Machine, State
<1>4. byte \in Byte
  BY InformationAssumption DEF Init
<1>5. Shape
  BY <1>2, <1>3, <1>4 DEF Shape
<1>6. wire \in Seq(Byte) /\ returned \in Seq(Seq(Byte)) /\ answers \in Seq({"RR", "REJ"})
  BY DEF Init
<1>7. written \in 0 .. NFrames /\ noise \in 0 .. MaxNoise /\ missed \in Nat
  BY InformationAssumption DEF Init
<1>8. packet \in Payloads \cup {<<>>} /\ spoiled \in BOOLEAN
  BY DEF Init
<1> QED
  BY <1>3, <1>4, <1>5, <1>6, <1>7, <1>8 DEF TypeOK

LEMMA FedTypes ==
  ASSUME TypeOK, Shape, NEW b \in Byte, Feed(b),
         UNCHANGED <<packet, spoiled, written, noise, missed>>, wire' \in Seq(Byte)
  PROVE  TypeOK' /\ Shape'
<1>1. Shape' /\ (Continued \/ Answered)
  BY Fed
<1>2. returned' \in Seq(Seq(Byte)) /\ answers' \in Seq({"RR", "REJ"})
  <2>1. returned \in Seq(Seq(Byte)) /\ answers \in Seq({"RR", "REJ"})
    BY DEF TypeOK
  <2>2. CASE Continued
    BY <2>1, <2>2 DEF Continued
  <2>3. CASE Answered
    <3>1. answers' \in Seq({"RR", "REJ"})
      BY <2>1, <2>3, AppendProperties DEF Answered
    <3>2. returned' \in Seq(Seq(Byte))
      BY <2>1, <2>3, AppendProperties DEF Answered
    <3> QED
      BY <3>1, <3>2
  <2> QED
    BY <1>1, <2>2, <2>3
<1> QED
  BY <1>1, <1>2 DEF TypeOK, Shape

LEMMA WriteWire ==
  ASSUME NEW data \in Payloads, Write(data)
  PROVE  /\ wire' \in Seq(Byte) /\ wire' # <<>>
         /\ AtMostTwo(wire') /\ (AtMostOne(wire') \/ 1 \in Inner(wire'))
<1>1. Framed(InformationFrame(data))
  BY FrameFlags
<1>2. wire' \in Spoilt(InformationFrame(data), NoiseBytes) \cup {InformationFrame(data)}
  BY DEF Write
<1> QED
  BY <1>1, <1>2, SpoiltFlags

LEMMA StepTypes ==
  ASSUME TypeOK, Shape, [Next]_infoVars
  PROVE  TypeOK' /\ Shape'
<1>1. ASSUME NEW data \in Payloads, Write(data) PROVE TypeOK' /\ Shape'
  <2>1. wire' \in Seq(Byte)
    BY <1>1, WriteWire
  <2>2. packet' = data /\ spoiled' \in BOOLEAN
    BY <1>1 DEF Write
  <2>3. written' \in 0 .. NFrames /\ noise' \in 0 .. MaxNoise /\ missed' \in Nat
    BY <1>1, InformationAssumption DEF Write, TypeOK
  <2>4. returned' \in Seq(Seq(Byte))
    BY <1>1 DEF Write
  <2>5. UNCHANGED <<machine, byte, answers>>
    BY <1>1 DEF Write
  <2> QED
    BY <2>1, <2>2, <2>3, <2>4, <2>5 DEF TypeOK, Shape
<1>2. CASE ReadByte
  <2>1. wire \in Seq(Byte) /\ wire # <<>>
    BY <1>2 DEF TypeOK, ReadByte
  <2>2. Head(wire) \in Byte /\ Tail(wire) \in Seq(Byte)
    BY <2>1
  <2> QED
    BY <1>2, <2>2, FedTypes DEF ReadByte
<1>3. CASE ReadTimeout
  BY <1>3, FedTypes DEF ReadTimeout, TypeOK
<1>4. CASE UNCHANGED infoVars
  BY <1>4 DEF infoVars, TypeOK, Shape
<1> QED
  BY <1>1, <1>2, <1>3, <1>4 DEF Next

-----------------------------------------------------------------------------
(* Answers.                                                                *)

LEMMA InnerEmpty == Inner(<<>>) = {} /\ AtMostOne(<<>>) /\ AtMostTwo(<<>>)
<1>1. Inner(<<>>) = {}
  BY DEF Inner
<1> QED
  BY <1>1 DEF AtMostOne, AtMostTwo

(* What a byte adds to the answers it takes from those that are due.       *)
LEMMA FedAnswers ==
  ASSUME TypeOK, Shape, AnswersInv, NEW b \in Byte, Feed(b), written' = written,
         Answered => Due' + 1 <= Due, ~Answered => Due' <= Due,
         Continued \/ Answered
  PROVE  Len(answers') + Due' <= written'
<1>1. answers \in Seq({"RR", "REJ"}) /\ Len(answers) \in Nat /\ written \in Nat
  BY DEF TypeOK
<1>2. Due \in 0 .. 2 /\ Due' \in 0 .. 2
  BY DEF Due
<1>3. Answered => Len(answers') = Len(answers) + 1
  BY <1>1, AppendProperties DEF Answered
<1>4. Continued => answers' = answers
  BY DEF Continued
<1>5. Len(answers) + Due <= written
  BY DEF AnswersInv
<1>6. PICK d \in 0 .. 2, e \in 0 .. 2, n \in Nat, m \in Nat :
        d = Due /\ e = Due' /\ n = Len(answers) /\ m = written /\ m = written'
  BY <1>1, <1>2
<1>7. CASE Answered
  <2>1. e + 1 <= d
    BY <1>6, <1>7
  <2>2. Len(answers') = n + 1
    BY <1>3, <1>6, <1>7
  <2>3. n + d <= m
    BY <1>5, <1>6
  <2>4. (n + 1) + e <= m
    BY <2>1, <2>3
  <2> QED
    BY <1>6, <2>2, <2>4
<1>8. CASE ~Answered
  <2>1. e <= d
    BY <1>6, <1>8
  <2>2. answers' = answers
    BY <1>4, <1>8
  <2> QED
    BY <1>1, <1>5, <1>6, <2>1, <2>2
<1> QED
  BY <1>7, <1>8

LEMMA AnswersRead ==
  ASSUME TypeOK, Shape, AnswersInv, ReadByte
  PROVE  AnswersInv'
<1> DEFINE b == Head(wire)
<1>1. wire \in Seq(Byte) /\ wire # <<>> /\ wire' = Tail(wire) /\ written' = written
      /\ Feed(b) /\ b \in Byte
  BY DEF TypeOK, ReadByte
<1> HIDE DEF b
<1>2. /\ Inner(wire) = {} => Inner(wire') = {}
      /\ AtMostOne(wire) => AtMostOne(wire')
      /\ AtMostTwo(wire')
      /\ 1 \in Inner(wire) <=> b = FLAG /\ wire' # <<>>
      /\ 1 \in Inner(wire) /\ AtMostOne(wire) => Inner(wire') = {}
      /\ 1 \in Inner(wire) => AtMostOne(wire')
      /\ wire' = <<>> => Inner(wire) = {} /\ Inner(wire') = {} /\ AtMostOne(wire')
  BY <1>1, InnerTail DEF AnswersInv, b
<1>3. /\ Shape'
      /\ Continued \/ (Answered /\ b = FLAG)
      /\ machine.state = "START" => machine'.state = IF b = FLAG THEN "FLAG" ELSE "START"
      /\ machine.state = "FLAG" =>
           machine'.state = IF b = FLAG THEN "FLAG" ELSE IF b = AE THEN "A" ELSE "START"
      /\ machine.state \in {"A", "C"} => machine'.state \in {"START", "C", "COLLECTING"}
      /\ machine.state = "COLLECTING" =>
           machine'.state = IF b = FLAG /\ ~machine.escapeFlag THEN "START" ELSE "COLLECTING"
  BY <1>1, Fed
<1>4. Answered => machine.state = "COLLECTING" /\ ~machine.escapeFlag
  BY DEF Answered
<1>5. machine.state \in {"START", "FLAG", "A", "C", "COLLECTING"}
  BY DEF Shape
<1>6. machine.state = "FLAG" => AtMostOne(wire) \/ b = FLAG
  BY <1>2 DEF AnswersInv
<1>7. machine'.state = "FLAG" => AtMostOne(wire')
  <2>1. machine'.state = "FLAG" => b = FLAG
    BY <1>3, <1>5
  <2>2. b = FLAG => 1 \in Inner(wire) \/ wire' = <<>>
    BY <1>2
  <2> QED
    BY <1>2, <2>1, <2>2
<1>8. ASSUME ~Answered \/ b = FLAG PROVE (Answered => Due' + 1 <= Due) /\ (~Answered => Due' <= Due)
  <2>1. CASE machine.state = "START"
    <3>1. ~Answered /\ machine'.state \in {"START", "FLAG"} /\ ~Begun' /\ ~Begun
      BY <1>3, <1>4, <2>1 DEF Begun
    <3>2. CASE b = FLAG /\ wire' # <<>>
      <4>1. Due = 1
        BY <1>1, <1>2, <2>1, <3>2 DEF Due
      <4>2. Due' = 0 \/ Due' = 1
        BY <3>1 DEF Due
      <4>3. Due' <= Due
        BY <4>1, <4>2
      <4> QED
        BY <3>1, <4>3
    <3>3. CASE wire' = <<>>
      <4>1. Due' = 0 /\ Due \in {0, 1, 2}
        BY <3>1, <3>3 DEF Due
      <4> QED
        BY <3>1, <4>1
    <3>4. CASE b # FLAG
      <4>1. machine'.state = "START" /\ Due \in {0, 1}
        BY <1>3, <2>1, <3>1, <3>4 DEF Due
      <4>2. Due' = IF wire' = <<>> \/ Inner(wire') = {} THEN 0 ELSE 1
        BY <3>1, <4>1 DEF Due
      <4>3. Due = IF Inner(wire) = {} THEN 0 ELSE 1
        BY <1>1, <2>1 DEF Due
      <4> QED
        BY <1>2, <3>1, <4>2, <4>3
    <3> QED
      BY <3>2, <3>3, <3>4
  <2>2. CASE machine.state = "FLAG"
    <3>1. ~Answered /\ machine'.state \in {"START", "FLAG", "A"} /\ Due = 1
      BY <1>1, <1>3, <1>4, <2>2 DEF Due, Begun
    <3>2. Begun' => AtMostOne(wire')
      BY <1>2, <1>3, <1>6, <2>2 DEF Begun
    <3>3. Due' = 0 \/ Due' = 1
      BY <3>2 DEF Due
    <3>4. Due' <= Due
      BY <3>1, <3>3
    <3> QED
      BY <3>1, <3>4
  <2>3. CASE machine.state \in {"A", "C"}
    <3>1. ~Answered /\ Due = IF AtMostOne(wire) THEN 1 ELSE 2
      BY <1>1, <1>4, <2>3 DEF Due, Begun
    <3>2. Due' \in {0, 1} \/ (Due' = 2 /\ ~AtMostOne(wire'))
      BY DEF Due
    <3> QED
      BY <1>2, <3>1, <3>2
  <2>4. CASE machine.state = "COLLECTING" /\ b = FLAG /\ ~machine.escapeFlag
    <3>1. machine'.state = "START" /\ ~Begun'
      BY <1>3, <2>4 DEF Begun
    <3>2. Due = IF AtMostOne(wire) THEN 1 ELSE 2
      BY <1>1, <2>4 DEF Due, Begun
    <3>3. Due' = IF wire' = <<>> \/ Inner(wire') = {} THEN 0 ELSE 1
      BY <3>1 DEF Due
    <3>4. AtMostOne(wire) => wire' = <<>> \/ Inner(wire') = {}
      BY <1>2, <2>4
    <3>5. Due' + 1 <= Due
      BY <3>2, <3>3, <3>4
    <3> QED
      BY <3>2, <3>3, <3>5
  <2>5. CASE machine.state = "COLLECTING" /\ ~(b = FLAG /\ ~machine.escapeFlag)
    <3>1. ~Answered /\ Due = IF AtMostOne(wire) THEN 1 ELSE 2
      BY <1>1, <1>4, <1>8, <2>5 DEF Due, Begun
    <3>2. Due' \in {0, 1} \/ (Due' = 2 /\ ~AtMostOne(wire'))
      BY DEF Due
    <3> QED
      BY <1>2, <3>1, <3>2
  <2> QED
    BY <1>5, <2>1, <2>2, <2>3, <2>4, <2>5
<1>9. ~Continued \/ ~Answered
  <2>1. Len(answers) \in Nat /\ answers \in Seq({"RR", "REJ"})
    BY DEF TypeOK
  <2>2. Answered => Len(answers') = Len(answers) + 1
    BY <2>1, AppendProperties DEF Answered
  <2> QED
    BY <2>1, <2>2 DEF Continued
<1>10. Len(answers') + Due' <= written'
  <2>1. ~Answered \/ b = FLAG
    BY <1>3, <1>9
  <2> QED
    BY <1>1, <1>3, <1>8, <2>1, FedAnswers
<1> QED
  BY <1>2, <1>7, <1>10 DEF AnswersInv

LEMMA AnswersTimeout ==
  ASSUME TypeOK, Shape, AnswersInv, ReadTimeout, ~Pauses
  PROVE  AnswersInv'
<1>1. wire = <<>> /\ wire' = <<>> /\ written' = written /\ Feed(byte) /\ byte \in Byte
  BY DEF TypeOK, ReadTimeout
<1>2. /\ Continued \/ Answered
      /\ machine.state = "START" => machine'.state \in {"START", "FLAG"}
      /\ machine.state = "FLAG" => machine'.state = "FLAG"
      /\ machine.state = "COLLECTING" =>
           IF byte = FLAG /\ ~machine.escapeFlag THEN machine'.state = "START"
           ELSE Continued
  BY <1>1, Fed DEF Shape
<1>3. Due = (IF Begun THEN 1 ELSE 0) /\ Due' = IF Begun' THEN 1 ELSE 0
  BY <1>1 DEF Due
<1>4. ~Continued \/ ~Answered
  <2>1. Len(answers) \in Nat /\ answers \in Seq({"RR", "REJ"})
    BY DEF TypeOK
  <2>2. Answered => Len(answers') = Len(answers) + 1
    BY <2>1, AppendProperties DEF Answered
  <2> QED
    BY <2>1, <2>2 DEF Continued
<1>5. Answered => Begun /\ ~Begun'
  BY <1>2, <1>4 DEF Answered, Begun
<1>6. Begun' => Begun
  BY <1>2 DEF Begun, Shape
<1>7. (Answered => Due' + 1 <= Due) /\ (~Answered => Due' <= Due)
  BY <1>3, <1>5, <1>6
<1>8. Len(answers') + Due' <= written'
  BY <1>1, <1>2, <1>7, FedAnswers
<1>9. AtMostOne(wire') /\ AtMostTwo(wire')
  BY <1>1, InnerEmpty
<1> QED
  BY <1>8, <1>9 DEF AnswersInv

LEMMA AnswersWrite ==
  ASSUME TypeOK, Shape, AnswersInv, NEW data \in Payloads, Write(data)
  PROVE  AnswersInv'
<1>1. /\ wire = <<>> /\ written' = written + 1 /\ answers' = answers /\ machine' = machine
      /\ written \in Nat /\ Len(answers) \in Nat
  BY DEF Write, TypeOK
<1>2. wire' # <<>> /\ AtMostTwo(wire') /\ (AtMostOne(wire') \/ 1 \in Inner(wire'))
  BY WriteWire
<1>3. Begun' <=> Begun
  BY <1>1 DEF Begun
<1>4. Due = (IF Begun THEN 1 ELSE 0) /\ Len(answers) + Due <= written
  BY <1>1 DEF Due, AnswersInv
<1>5. Due' \in {0, 1} \/ (Due' = 2 /\ Begun)
  BY <1>3 DEF Due
<1>6. Len(answers') + Due' <= written'
  BY <1>1, <1>4, <1>5
<1> QED
  BY <1>2, <1>6 DEF AnswersInv

-----------------------------------------------------------------------------
(* Steps.                                                                  *)

(* An empty wire means that the frame has been read.                       *)
LEMMA WhenRead ==
  ASSUME packet \in Payloads, wire = <<>>
  PROVE  /\ InStep => returned = <<packet>> /\ Between
         /\ OutOfStep => Between
<1>0. FLAG \in Byte /\ AE \in Byte /\ CI \in Byte /\ FlagMark \in Byte /\ EscapeMark \in Byte
  BY Bytes
<1>1. InformationFrame(packet) # <<>> /\ Coming(packet, 0) \in Seq(Byte)
  BY FrameBytes
<1>2. PICK c \in Seq(Byte) : c = Coming(packet, 0)
  BY <1>1
<1>3. <<AE>> \o c # <<>> /\ <<AE>> \o c \in Seq(Byte)
  BY <1>0, Prefixed
<1>4. <<CI, AE>> \o c # <<>> /\ <<CI, AE>> \o c \in Seq(Byte)
  <2>1. <<CI, AE>> \o c = <<CI>> \o (<<AE>> \o c)
    BY <1>0, Prefixes
  <2>2. PICK r \in Seq(Byte) : r = <<AE>> \o c
    BY <1>3
  <2>3. <<CI>> \o r # <<>> /\ <<CI>> \o r \in Seq(Byte)
    BY <1>0, Prefixed
  <2> QED
    BY <2>1, <2>2, <2>3, Zenon
<1>5. <<AE, CI, AE>> \o c # <<>>
  <2>1. <<AE, CI, AE>> \o c = <<AE>> \o (<<CI, AE>> \o c)
    <3>1. CI \in Byte /\ AE \in Byte
      BY <1>0
    <3> QED
      BY <3>1, Prefixes
  <2>2. PICK r \in Seq(Byte) : r = <<CI, AE>> \o c
    BY <1>4
  <2>3. <<AE>> \o r # <<>>
    BY <1>0, Prefixed
  <2> QED
    BY <2>1, <2>2, <2>3, Zenon
<1>6. ~Opening
  BY <1>1, <1>2, <1>3, <1>4, <1>5 DEF Opening
<1>7. \A n \in 0 .. Len(packet) + 1 : ~Whole(n)
  BY ComingBytes DEF Whole
<1>8. \A n \in 0 .. Len(packet) + 1 : ~Halved(n)
  <2> SUFFICES ASSUME NEW n \in 0 .. Len(packet) + 1, Halved(n) PROVE FALSE
    OBVIOUS
  <2>1. n + 1 \in 0 .. Len(packet) + 1
    BY BodyBytes DEF Halved
  <2>2. PICK r \in Seq(Byte) : r = Coming(packet, n + 1)
    BY <2>1, ComingBytes
  <2>3. <<FlagMark>> \o r # <<>> /\ <<EscapeMark>> \o r # <<>>
    BY <1>0, Prefixed
  <2> QED
    BY <2>2, <2>3 DEF Halved
<1>9. ~Reading
  BY <1>7, <1>8 DEF Reading
<1>10. ~Closing(wire)
  BY DEF Closing
<1> QED
  BY <1>1, <1>6, <1>9, <1>10 DEF InStep, OutOfStep

(* Out of step, the next flag but one brings the machine back.             *)
LEMMA OutOfStepRead ==
  ASSUME Shape, TypeOK, packet \in Payloads, OutOfStep, ReadByte
  PROVE  InStep' \/ OutOfStep'
<1> DEFINE b == Head(wire)
<1>0. /\ wire \in Seq(Byte) /\ wire # <<>> /\ b \in Byte
      /\ packet' = packet /\ wire' = Tail(wire) /\ Feed(b)
      /\ FLAG # ESCAPE /\ FLAG # AE
  BY Bytes DEF ReadByte, TypeOK
<1> HIDE DEF b
<1>1. /\ machine.state = "START" => machine'.state = IF b = FLAG THEN "FLAG" ELSE "START"
      /\ machine.state \in {"A", "C"} /\ b = FLAG => machine'.state = "START"
      /\ machine.state = "COLLECTING" =>
           IF b = FLAG /\ ~machine.escapeFlag THEN machine'.state = "START"
           ELSE machine'.state = "COLLECTING" /\ machine'.escapeFlag = (b = ESCAPE)
  BY <1>0, Fed
<1>2. CASE wire = InformationFrame(packet) /\ returned = <<>>
  <2>1. CASE machine.state \in {"START", "FLAG"}
    <3>1. InStep
      BY <1>2, <2>1 DEF InStep, Opening
    <3> QED
      BY <3>1, InStepRead
  <2>2. CASE machine.state \in {"A", "C", "COLLECTING"}
    <3>1. Framed(wire)
      BY <1>2, FrameFlags
    <3>2. b = FLAG /\ Closing(wire') /\ Len(wire') > 1
      BY <1>0, <3>1, ClosingFrame DEF b
    <3>3. machine'.state \in {"START", "COLLECTING"}
      BY <1>1, <2>2, <3>2
    <3>4. ~(Len(wire') = 1)
      <4>1. PICK t \in Seq(Byte) : t = wire'
        BY <1>0
      <4>2. Len(t) \in Nat /\ Len(t) > 1
        BY <3>2, <4>1
      <4>3. \A n \in Nat : n > 1 => n # 1
        OBVIOUS
      <4> QED
        BY <4>1, <4>2, <4>3, Zenon
    <3> QED
      BY <3>2, <3>3, <3>4 DEF OutOfStep
  <2> QED
    BY <2>1, <2>2 DEF Shape
<1>3. CASE /\ Closing(wire)
           /\ machine.state \in {"START", "COLLECTING"}
           /\ Len(wire) = 1 /\ machine.state = "COLLECTING" => ~machine.escapeFlag
  <2>1. CASE Len(wire) = 1
    <3>1. b = FLAG /\ wire' = <<>>
      BY <1>0, <1>3, <2>1, ClosingTail DEF b
    <3>2. machine'.state \in {"START", "FLAG"}
      BY <1>1, <1>3, <2>1, <3>1
    <3> QED
      BY <3>1, <3>2 DEF OutOfStep, Between
  <2>2. CASE Len(wire) # 1
    <3>1. b # FLAG /\ Closing(wire') /\ (Len(wire') = 1 => b # ESCAPE)
      BY <1>0, <1>3, <2>2, ClosingTail DEF b
    <3>2. /\ machine'.state \in {"START", "COLLECTING"}
          /\ machine'.state = "COLLECTING" => machine'.escapeFlag = (b = ESCAPE)
      BY <1>1, <1>3, <3>1
    <3> QED
      BY <3>1, <3>2 DEF OutOfStep
  <2> QED
    BY <2>1, <2>2
<1> QED
  BY <1>0, <1>2, <1>3 DEF OutOfStep

LEMMA StepRead ==
  ASSUME TypeOK, Shape, StepInv, QuietInv, ReadByte
  PROVE  StepInv' /\ QuietInv'
<1>1. /\ UNCHANGED <<packet, spoiled, written, noise, missed>>
      /\ wire # <<>> /\ written > 0 /\ written \in Nat /\ packet \in Payloads
  <2>1. written \in Nat /\ wire # <<>>
    BY DEF TypeOK, ReadByte
  <2>2. written # 0
    BY <2>1 DEF StepInv
  <2>3. written > 0
    BY <2>1, <2>2
  <2> QED
    BY <2>1, <2>3 DEF StepInv, ReadByte
<1>2. InStep =>
        /\ InStep'
        /\ IF wire' = <<>> THEN answers' = Append(answers, "RR") ELSE answers' = answers
  BY <1>1, InStepRead
<1>3. OutOfStep => InStep' \/ OutOfStep'
  BY <1>1, OutOfStepRead
<1>4. StepInv'
  BY <1>1, <1>2, <1>3 DEF StepInv
<1>5. QuietInv'
  <2> SUFFICES ASSUME noise = 0
               PROVE  /\ ~spoiled
                      /\ answers' = [i \in 1 .. (IF wire' = <<>> THEN written ELSE written - 1) |-> "RR"]
    BY <1>1 DEF QuietInv
  <2>1. ~spoiled /\ answers = [i \in 1 .. written - 1 |-> "RR"]
    BY <1>1 DEF QuietInv
  <2>2. InStep
    <3>1. ~(noise > 0)
      OBVIOUS
    <3> QED
      BY <1>1, <2>1, <3>1 DEF StepInv
  <2>3. CASE wire' = <<>>
    <3>1. answers' = Append(answers, "RR")
      BY <1>2, <2>2, <2>3
    <3>2. written - 1 \in Nat /\ (written - 1) + 1 = written
      BY <1>1
    <3>3. \A n \in Nat : Append([i \in 1 .. n |-> "RR"], "RR") = [i \in 1 .. n + 1 |-> "RR"]
      OBVIOUS
    <3>4. answers' = [i \in 1 .. written |-> "RR"]
      BY <2>1, <3>1, <3>2, <3>3
    <3> QED
      BY <2>1, <2>3, <3>4
  <2>4. CASE wire' # <<>>
    BY <1>2, <2>1, <2>2, <2>4
  <2> QED
    BY <2>3, <2>4
<1> QED
  BY <1>4, <1>5

(* Between frames a timeout only feeds the flag again.                     *)
LEMMA StepTimeout ==
  ASSUME TypeOK, Shape, StepInv, QuietInv, ReadTimeout, ~Pauses
  PROVE  StepInv' /\ QuietInv'
<1>1. /\ wire = <<>> /\ UNCHANGED <<wire, packet, spoiled, written, noise, missed>>
      /\ Feed(byte) /\ byte \in Byte /\ written \in Nat
  BY DEF TypeOK, ReadTimeout
<1>2. Between => Between' /\ returned' = returned /\ answers' = answers
  <2> SUFFICES ASSUME Between PROVE Between' /\ returned' = returned /\ answers' = answers
    OBVIOUS
  <2>1. machine.state \in {"START", "FLAG"} /\ (machine.state = "FLAG" => byte = FLAG)
    BY DEF Between, Shape
  <2>2. Continued \/ Answered
    BY <1>1, Fed
  <2>3. ~Answered
    BY <2>1 DEF Answered
  <2>4. machine'.state \in {"START", "FLAG"}
    BY <1>1, <2>1, Fed
  <2> QED
    BY <2>2, <2>3, <2>4 DEF Between, Continued
<1>3. written > 0 =>
        /\ InStep => returned = <<packet>> /\ Between
        /\ OutOfStep => Between
  BY <1>1, WhenRead DEF StepInv
<1>4. InStep /\ written > 0 => InStep'
  BY <1>1, <1>2, <1>3 DEF InStep
<1>5. OutOfStep /\ written > 0 => OutOfStep'
  BY <1>1, <1>2, <1>3 DEF OutOfStep
<1>6. StepInv'
  BY <1>1, <1>2, <1>4, <1>5 DEF StepInv
<1>7. QuietInv'
  <2> SUFFICES ASSUME noise = 0 PROVE answers' = answers /\ ~spoiled
    BY <1>1 DEF QuietInv
  <2>1. ~spoiled /\ ~(noise > 0)
    BY DEF QuietInv
  <2>2. CASE written = 0
    BY <1>2, <2>1, <2>2 DEF StepInv
  <2>3. CASE written # 0
    <3>1. written > 0
      BY <1>1, <2>3
    <3> QED
      BY <1>2, <1>3, <2>1, <3>1 DEF StepInv
  <2> QED
    BY <2>2, <2>3
<1> QED
  BY <1>6, <1>7

LEMMA StepWrite ==
  ASSUME TypeOK, Shape, StepInv, QuietInv, NEW data \in Payloads, Write(data)
  PROVE  StepInv' /\ QuietInv'
<1>1. /\ wire = <<>> /\ packet' = data /\ written' = written + 1 /\ returned' = <<>>
      /\ missed' = (IF Missed THEN missed + 1 ELSE 0)
      /\ machine' = machine /\ answers' = answers
      /\ written \in Nat /\ noise \in Nat /\ written' > 0 /\ spoiled \in BOOLEAN
  BY DEF Write, TypeOK
<1>2. written > 0 =>
        /\ packet \in Payloads
        /\ InStep => returned = <<packet>> /\ Between
        /\ OutOfStep => Between
  BY <1>1, WhenRead DEF StepInv
<1>3. Missed => missed = 0
  BY <1>2 DEF Missed, StepInv
<1>4. missed' \in {0, 1}
  BY <1>1, <1>3
<1>5. ASSUME ~spoiled'
      PROVE  InStep' \/ (missed' = 0 /\ noise' > 0 /\ OutOfStep')
  <2>1. wire' = InformationFrame(packet') /\ noise' = noise
    BY <1>1, <1>5 DEF Write
  <2>2. Between => InStep'
    BY <1>1, <2>1 DEF Between, InStep, Opening
  <2>3. CASE written = 0
    BY <2>2, <2>3 DEF StepInv
  <2>4. CASE written > 0 /\ ~spoiled
    BY <1>2, <2>2, <2>4 DEF StepInv
  <2>5. CASE spoiled
    <3>1. missed' = 0
      BY <1>1, <2>5 DEF Missed
    <3>2. noise # 0
      BY <2>5 DEF QuietInv
    <3>3. noise' > 0
      BY <1>1, <2>1, <3>2
    <3> QED
      BY <1>1, <2>1, <3>1, <3>3 DEF OutOfStep
  <2> QED
    BY <1>1, <2>3, <2>4, <2>5
<1>6. StepInv'
  BY <1>1, <1>4, <1>5 DEF StepInv
<1>7. QuietInv'
  <2> SUFFICES ASSUME noise' = 0
               PROVE  ~spoiled' /\ wire' # <<>> /\ answers' = [i \in 1 .. written' - 1 |-> "RR"]
    BY DEF QuietInv
  <2>1. noise = 0 /\ ~spoiled'
    BY <1>1 DEF Write
  <2>2. wire' # <<>>
    BY WriteWire
  <2>3. answers = [i \in 1 .. written |-> "RR"]
    BY <1>1, <2>1 DEF QuietInv
  <2>4. written' - 1 = written
    BY <1>1
  <2> QED
    BY <1>1, <2>1, <2>2, <2>3, <2>4
<1> QED
  BY <1>6, <1>7

LEMMA InitStep ==
  ASSUME Init
  PROVE  IInv
<1>1. TypeOK /\ Shape
  BY InitTypes
<1>2. wire = <<>> /\ written = 0 /\ noise = 0 /\ missed = 0 /\ answers = <<>> /\ ~spoiled
      /\ machine.state = "START"
  BY DEF Init, newReceiverStateMachine
<1>3. StepInv
  BY <1>2 DEF StepInv, Between
<1>4. QuietInv
  BY <1>2 DEF QuietInv
<1>5. AnswersInv
  <2>1. Due = 0
    BY <1>2 DEF Due, Begun
  <2> QED
    BY <1>2, <2>1, InnerEmpty DEF AnswersInv
<1> QED
  BY <1>1, <1>3, <1>4, <1>5 DEF IInv

LEMMA NextStep ==
  ASSUME ~Pauses, IInv, [Next]_infoVars
  PROVE  IInv'
<1>1. TypeOK /\ Shape /\ StepInv /\ QuietInv /\ AnswersInv
  BY DEF IInv
<1>2. TypeOK' /\ Shape'
  BY <1>1, StepTypes
<1>3. ASSUME NEW data \in Payloads, Write(data) PROVE StepInv' /\ QuietInv' /\ AnswersInv'
  BY <1>1, <1>3, StepWrite, AnswersWrite
<1>4. CASE ReadByte
  BY <1>1, <1>2, <1>4, StepRead, AnswersRead DEF IInv
<1>5. CASE ReadTimeout
  BY <1>1, <1>2, <1>5, StepTimeout, AnswersTimeout DEF IInv
<1>6. CASE UNCHANGED infoVars
  <2>1. /\ wire' = wire /\ packet' = packet /\ spoiled' = spoiled /\ written' = written
        /\ noise' = noise /\ machine' = machine /\ byte' = byte /\ returned' = returned
        /\ answers' = answers /\ missed' = missed
    BY <1>6 DEF infoVars
  <2>2. InStep' <=> InStep
    BY <2>1 DEF InStep, Opening, Reading, Whole, Halved, Summed, Between
  <2>3. OutOfStep' <=> OutOfStep
    BY <2>1 DEF OutOfStep, Between
  <2>4. StepInv'
    BY <1>1, <2>1, <2>2, <2>3 DEF StepInv, Between
  <2>5. QuietInv'
    BY <1>1, <2>1 DEF QuietInv
  <2>6. AnswersInv'
    BY <1>1, <2>1 DEF AnswersInv, Due, Begun
  <2> QED
    BY <1>2, <2>4, <2>5, <2>6 DEF IInv
<1> QED
  BY <1>2, <1>3, <1>4, <1>5, <1>6 DEF Next, IInv

-----------------------------------------------------------------------------
(* The theorems.                                                           *)

(* Every variable keeps its type, pauses or not: whatever bytes llread     *)
(* reads or feeds again, its machine is in one of its states with a frame  *)
(* of bytes.                                                               *)
THEOREM Types == Spec => []TypeOK
<1>1. Init => TypeOK /\ Shape
  BY InitTypes
<1>2. TypeOK /\ Shape /\ [Next]_infoVars => (TypeOK /\ Shape)'
  BY StepTypes
<1> QED
  BY <1>1, <1>2, PTL DEF Spec

(* The inductive invariant, where no read times out inside a frame: llread *)
(* is in step with llwrite, or behind by the spoiled frame, and answers at *)
(* most what is due.                                                       *)
THEOREM Invariant ==
  ASSUME ~Pauses
  PROVE  Spec => []IInv
<1>1. Init => IInv
  BY InitStep
<1>2. IInv /\ [Next]_infoVars => IInv'
  BY NextStep
<1> QED
  BY <1>1, <1>2, PTL DEF Spec

(* Stuffing and checksum are transparent: llread returns every frame       *)
(* llwrite writes on a line without noise as it was sent, and answers it   *)
(* with one RR, whatever the bytes and whatever malloc left in memory.     *)
THEOREM FramesTransparent ==
  ASSUME ~Pauses
  PROVE  Spec => []Transparent
<1>1. IInv => Transparent
  <2> SUFFICES ASSUME IInv, wire = <<>>, written > 0, noise = 0
               PROVE  returned = <<packet>> /\ answers = [i \in 1 .. written |-> "RR"]
    BY DEF Transparent, FrameRead
  <2>1. ~spoiled /\ answers = [i \in 1 .. written |-> "RR"]
    BY DEF IInv, QuietInv
  <2>2. ~(noise > 0)
    OBVIOUS
  <2>3. InStep /\ packet \in Payloads
    BY <2>1, <2>2 DEF IInv, StepInv
  <2> QED
    BY <2>1, <2>3, WhenRead
<1> QED
  BY <1>1, Invariant, PTL

(* The checksum the machine computes two bytes behind the last one is the  *)
(* checksum of the frame but for these two bytes.                          *)
THEOREM ChecksumTwoBehind ==
  ASSUME ~Pauses
  PROVE  Spec => []ChecksumFollows
<1>1. IInv => ChecksumFollows
  <2> SUFFICES ASSUME IInv, noise = 0, machine.state = "COLLECTING" PROVE Summed
    BY DEF ChecksumFollows, Summed
  <2>1. ~spoiled /\ ~(noise > 0) /\ written \in Nat
    BY DEF IInv, QuietInv, TypeOK
  <2>2. written # 0
    BY DEF IInv, StepInv, Between
  <2>3. written > 0
    BY <2>1, <2>2
  <2>4. InStep
    BY <2>1, <2>3 DEF IInv, StepInv
  <2> QED
    BY <2>4 DEF InStep, Opening, Reading, Between
<1> QED
  BY <1>1, Invariant, PTL

(* A spoiled frame costs llread at most one whole frame after it.          *)
THEOREM OneFrameMissed ==
  ASSUME ~Pauses
  PROVE  Spec => []BackInStep
<1>1. IInv => BackInStep
  <2> SUFFICES ASSUME IInv PROVE BackInStep
    OBVIOUS
  <2>1. missed \in {0, 1}
    BY DEF IInv, StepInv
  <2>2. FrameRead /\ Missed => missed = 0
    <3> SUFFICES ASSUME wire = <<>>, written > 0, ~spoiled, returned # <<packet>>
                 PROVE  missed = 0
      BY DEF FrameRead, Missed
    <3>1. packet \in Payloads
      BY DEF IInv, StepInv
    <3>2. ~InStep
      BY <3>1, WhenRead
    <3> QED
      BY <3>2 DEF IInv, StepInv
  <2> QED
    BY <2>1, <2>2 DEF BackInStep
<1> QED
  BY <1>1, Invariant, PTL

(* llread never answers more often than llwrite has written frames,        *)
(* although a lost closing flag delays an answer into the next frame.      *)
THEOREM AnsweredOnce ==
  ASSUME ~Pauses
  PROVE  Spec => []OneAnswer
<1>1. IInv => OneAnswer
  <2> SUFFICES ASSUME IInv PROVE Len(answers) <= written
    BY DEF OneAnswer
  <2>1. Len(answers) \in Nat /\ written \in Nat
    BY DEF IInv, TypeOK
  <2>2. PICK d \in 0 .. 2 : d = Due
    BY DEF Due
  <2>3. Len(answers) + d <= written
    BY <2>2 DEF IInv, AnswersInv
  <2> QED
    BY <2>1, <2>2, <2>3
<1> QED
  BY <1>1, Invariant, PTL

=============================================================================
