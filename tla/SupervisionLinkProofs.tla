------------------------ MODULE SupervisionLinkProofs ------------------------
(***************************************************************************)
(* A supervision frame is taken only when exactly its five bytes have been *)
(* fed, whatever the line, the timed-out reads and the resends do.         *)
(***************************************************************************)
EXTENDS SupervisionLink, SequenceTheorems, TLAPS

(* A machine in a state has been fed the bytes that lead there, and no     *)
(* others in between.                                                      *)
Fed(st, a, k, l) ==
  /\ st = "FLAG" => l[1] = FLAG
  /\ st = "A" => l[1] = a /\ l[2] = FLAG
  /\ st = "C" => l[1] = k /\ l[2] = a /\ l[3] = FLAG
  /\ st = "BCC" => l[1] = Xor(a, k) /\ l[2] = k /\ l[3] = a /\ l[4] = FLAG
  /\ st = "FINAL" =>
       l[1] = FLAG /\ l[2] = Xor(a, k) /\ l[3] = k /\ l[4] = a /\ l[5] = FLAG

A(k) == expectedAbyte(Reader(caller), k)

FedInv ==
  /\ DOMAIN state = Awaited(caller)
  /\ last = [i \in 1 .. 5 |-> last[i]]
  /\ \A k \in Awaited(caller) : state[k] \in States /\ Fed(state[k], A(k), k, last)

(* The bytes of the protocol that must differ for interpretSignal to have  *)
(* one case per byte.                                                      *)
LEMMA NotFlag ==
  /\ \A c, k : expectedAbyte(Reader(c), k) # FLAG
  /\ \A k \in Control : k # FLAG
<1>1. 7 \notin FLAG /\ 0 \notin FLAG
  BY DEF FLAG
<1>2. 0 \in AR /\ 0 \in AE
  BY DEF AR, AE
<1>3. \A k \in Control : 0 \in k
  BY DEF Control, SET, DISC, UA, RR1, REJ1
<1> QED
  BY <1>1, <1>2, <1>3 DEF expectedAbyte

(* Every call awaits supervision frames.                                    *)
LEMMA AwaitedControl == \A c : Awaited(c) \subseteq Control
  BY DEF Awaited, Control

(* One byte leads a machine from the bytes it was fed to those and one     *)
(* more.                                                                   *)
LEMMA FedStep ==
  ASSUME NEW st \in States, NEW a, NEW k, NEW s, NEW l, NEW m,
         a # FLAG, k # FLAG, Fed(st, a, k, l),
         m = [i \in 1 .. 5 |-> IF i = 1 THEN s ELSE l[i - 1]]
  PROVE  /\ interpretSignal(st, a, k, s) \in States
         /\ Fed(interpretSignal(st, a, k, s), a, k, m)
<1>1. m[1] = s /\ m[2] = l[1] /\ m[3] = l[2] /\ m[4] = l[3] /\ m[5] = l[4]
  OBVIOUS
<1>2. CASE st = "START"
  BY <1>1, <1>2 DEF Fed, interpretSignal, States
<1>3. CASE st = "FLAG"
  BY <1>1, <1>3 DEF Fed, interpretSignal, States
<1>4. CASE st = "A"
  BY <1>1, <1>4 DEF Fed, interpretSignal, States
<1>5. CASE st = "C"
  BY <1>1, <1>5 DEF Fed, interpretSignal, States
<1>6. CASE st = "BCC"
  BY <1>1, <1>6 DEF Fed, interpretSignal, States
<1>7. CASE st = "FINAL"
  BY <1>1, <1>7 DEF Fed, interpretSignal, States
<1> QED
  BY <1>2, <1>3, <1>4, <1>5, <1>6, <1>7 DEF States

(* New machines have been fed nothing.                                      *)
LEMMA FedInit == Init => FedInv
  BY DEF Init, FedInv, Fresh, NoBytes, States, Fed

(* Feeding a byte keeps what the machines know; starting over clears it.   *)
LEMMA FeedKeeps ==
  ASSUME FedInv, NEW s, Feed(s)
  PROVE  FedInv'
<1>1. caller' = caller /\ state' = Interpreted(s)
  BY DEF Feed
<1>2. last' = [i \in 1 .. 5 |-> IF i = 1 THEN s ELSE last[i - 1]]
  BY DEF Feed, Remember
<1>3. DOMAIN state' = Awaited(caller')
  BY <1>1 DEF Interpreted
<1>4. last' = [i \in 1 .. 5 |-> last'[i]]
  BY <1>2
<1>5. ASSUME NEW k \in Awaited(caller')
      PROVE  state'[k] \in States /\ Fed(state'[k], A(k)', k, last')
  <2>1. k \in Awaited(caller) /\ A(k)' = A(k)
    BY <1>1, <1>5 DEF A
  <2>2. state'[k] = interpretSignal(state[k], A(k), k, s)
    BY <1>1, <2>1 DEF Interpreted, A
  <2>3. state[k] \in States /\ Fed(state[k], A(k), k, last)
    BY <2>1 DEF FedInv
  <2>4. A(k) # FLAG /\ k # FLAG
    BY <2>1, NotFlag, AwaitedControl DEF A
  <2> QED
    BY <1>2, <2>1, <2>2, <2>3, <2>4, FedStep
<1> QED
  BY <1>3, <1>4, <1>5 DEF FedInv

(* Machines that start over have been fed nothing.                          *)
LEMMA FreshKeeps ==
  ASSUME caller' = caller, state' = Fresh, last' = NoBytes
  PROVE  FedInv'
<1>1. DOMAIN state' = Awaited(caller')
  BY DEF Fresh
<1>2. last' = [i \in 1 .. 5 |-> last'[i]]
  BY DEF NoBytes
<1>3. \A k \in Awaited(caller') : state'[k] = "START"
  BY DEF Fresh
<1>4. \A k \in Awaited(caller') : state'[k] \in States /\ Fed(state'[k], A(k)', k, last')
  BY <1>3 DEF Fed, States
<1> QED
  BY <1>1, <1>2, <1>4 DEF FedInv

(* Every step keeps what the machines were fed.                             *)
LEMMA FedNext == FedInv /\ [Next]_supVars => FedInv'
<1> SUFFICES ASSUME FedInv, [Next]_supVars PROVE FedInv'
  OBVIOUS
<1> USE DEF FedInv, A
<1>1. CASE \E k \in Writes(Writer(caller)) : WriteSupervision(k)
  BY <1>1 DEF WriteSupervision, PutOnWire
<1>2. CASE \E f \in OtherFrames : WriteOther(f)
  BY <1>2 DEF WriteOther, PutOnWire
<1>3. CASE ReadByte
  BY <1>3, FeedKeeps DEF ReadByte
<1>4. CASE ReadTimeout
  BY <1>4, FeedKeeps DEF ReadTimeout
<1>5. CASE NextFrame
  BY <1>5, FreshKeeps DEF NextFrame
<1>6. CASE Resend
  BY <1>6, FreshKeeps DEF Resend
<1>7. CASE UNCHANGED supVars
  BY <1>7 DEF supVars
<1> QED
  BY <1>1, <1>2, <1>3, <1>4, <1>5, <1>6, <1>7 DEF Next

(* Five bytes make a frame.                                                *)
LEMMA FedHeard == FedInv => HeardExactly
<1> SUFFICES ASSUME FedInv, NEW k \in Final
             PROVE  last = <<FLAG, Xor(A(k), k), k, A(k), FLAG>>
  BY DEF HeardExactly, A
<1>1. k \in Awaited(caller) /\ state[k] = "FINAL"
  BY DEF Final
<1>2. /\ last[1] = FLAG /\ last[2] = Xor(A(k), k) /\ last[3] = k
      /\ last[4] = A(k) /\ last[5] = FLAG
  BY <1>1 DEF FedInv, Fed
<1>3. last = [i \in 1 .. 5 |-> last[i]]
  BY DEF FedInv
<1> QED
  BY <1>2, <1>3

(* waitForData and llwrite take a supervision frame only when the last     *)
(* five bytes they fed are that frame, from the other side.                *)
THEOREM TakenExactly == Spec => []HeardExactly
<1>1. Spec => []FedInv
  BY FedInit, FedNext, PTL DEF Spec
<1> QED
  BY <1>1, FedHeard, PTL

-----------------------------------------------------------------------------
(* The bytes of supervision frames.                                        *)

LEMMA SupervisionBytes ==
  /\ FLAG \in Byte /\ Zero \in Byte /\ Zero # FLAG
  /\ Control \subseteq Byte /\ CI \notin Control /\ NoControl \notin Control
  /\ \A c, k : expectedAbyte(Reader(c), k) \in Byte /\ expectedAbyte(Reader(c), k) # Zero
               /\ expectedAbyte(Reader(c), k) # FLAG
  /\ \A k \in Control : k # FLAG /\ k # Zero
  /\ \A c, k : Address(Writer(c), k) = expectedAbyte(Reader(c), k)
  /\ \A c : \A k \in Control :
       /\ Xor(expectedAbyte(Reader(c), k), k) \in Byte
       /\ Xor(expectedAbyte(Reader(c), k), k) # FLAG
       /\ 0 \notin Xor(expectedAbyte(Reader(c), k), k)
<1>1. FLAG \in Byte /\ Zero \in Byte /\ AE \in Byte /\ AR \in Byte
  BY DEF Byte, Bit, FLAG, Zero, AE, AR
<1>2. 6 \in FLAG /\ 0 \notin FLAG /\ 0 \notin Zero /\ 6 \notin Zero
  BY DEF FLAG, Zero
<1>3. \A a \in {AE, AR} : 0 \in a /\ 6 \notin a
  BY DEF AE, AR
<1>4. \A k \in Control : k \in Byte /\ 0 \in k /\ 6 \notin k
  BY DEF Control, SET, DISC, UA, RR1, REJ1, Byte, Bit
<1>5. 0 \notin CI /\ 0 \notin NoControl
  BY DEF CI, NoControl
<1>6. \A c, k : expectedAbyte(Reader(c), k) \in {AE, AR}
  BY DEF expectedAbyte
<1>7. \A c, k : Address(Writer(c), k) = expectedAbyte(Reader(c), k)
  BY DEF Address, Writer, Reader, expectedAbyte
<1>8. \A a \in {AE, AR}, k \in Control : Xor(a, k) \in Byte /\ 0 \notin Xor(a, k) /\ 6 \notin Xor(a, k)
  <2> SUFFICES ASSUME NEW a \in {AE, AR}, NEW k \in Control
               PROVE  Xor(a, k) \in Byte /\ 0 \notin Xor(a, k) /\ 6 \notin Xor(a, k)
    OBVIOUS
  <2>1. a \in Byte /\ k \in Byte /\ 0 \in a /\ 0 \in k /\ 6 \notin a /\ 6 \notin k
    BY <1>1, <1>3, <1>4
  <2>2. Xor(a, k) = (a \ k) \cup (k \ a)
    BY DEF Xor
  <2> QED
    BY <2>1, <2>2 DEF Byte
<1>9. \A c, k : expectedAbyte(Reader(c), k) \in Byte /\ expectedAbyte(Reader(c), k) # Zero
               /\ expectedAbyte(Reader(c), k) # FLAG
  BY <1>1, <1>2, <1>3, <1>6
<1>10. \A c : \A k \in Control :
         /\ Xor(expectedAbyte(Reader(c), k), k) \in Byte
         /\ Xor(expectedAbyte(Reader(c), k), k) # FLAG
         /\ 0 \notin Xor(expectedAbyte(Reader(c), k), k)
  BY <1>2, <1>6, <1>8
<1>11. Zero # FLAG /\ Control \subseteq Byte /\ CI \notin Control /\ NoControl \notin Control
       /\ \A k \in Control : k # FLAG /\ k # Zero
  <2>1. Zero # FLAG
    BY <1>2
  <2>2. Control \subseteq Byte /\ \A k \in Control : k # FLAG /\ k # Zero
    <3>1. \A k \in Control : k # FLAG /\ k # Zero
      BY <1>2, <1>4, Zenon
    <3> QED
      BY <1>4, <3>1, Zenon
  <2>3. CI \notin Control /\ NoControl \notin Control
    BY <1>4, <1>5
  <2> QED
    BY <2>1, <2>2, <2>3
<1> QED
  BY <1>1, <1>7, <1>9, <1>10, <1>11, Zenon

(* A frame of one byte more or less, or with another byte.                 *)
LEMMA SpoiltBytes ==
  ASSUME NEW f \in Seq(Byte), NEW w \in Spoilt(f, NoiseBytes)
  PROVE  w \in Seq(Byte)
<1>1. /\ Len(f) \in Nat /\ DOMAIN f = 1 .. Len(f)
      /\ \A i \in 1 .. Len(f) : f[i] \in Byte
      /\ NoiseBytes \subseteq Byte
  BY SupervisionAssumption
<1>2. ASSUME NEW i \in 1 .. Len(f), w = Without(f, i) PROVE w \in Seq(Byte)
  <2>1. \A j \in 1 .. Len(f) - 1 : j \in 1 .. Len(f) /\ j + 1 \in 1 .. Len(f)
    BY <1>1
  <2>2. w = [j \in 1 .. Len(f) - 1 |-> IF j < i THEN f[j] ELSE f[j + 1]]
    BY <1>2 DEF Without
  <2>3. \A j \in 1 .. Len(f) - 1 : w[j] \in Byte
    BY <1>1, <2>1, <2>2
  <2>4. Len(f) - 1 \in Nat
    BY <1>1, <1>2
  <2> QED
    BY <2>2, <2>3, <2>4, SeqDef
<1>3. ASSUME NEW i \in 1 .. Len(f), NEW b \in NoiseBytes, w = [f EXCEPT ![i] = b]
      PROVE  w \in Seq(Byte)
  BY <1>1, <1>3
<1>4. ASSUME NEW i \in 1 .. Len(f), NEW b \in NoiseBytes, w = With(f, i, b)
      PROVE  w \in Seq(Byte)
  <2>1. \A j \in 1 .. Len(f) + 1 : /\ j < i => j \in 1 .. Len(f)
                                   /\ j # i /\ ~(j < i) => j - 1 \in 1 .. Len(f)
    BY <1>1
  <2>2. w = [j \in 1 .. Len(f) + 1 |-> IF j < i THEN f[j] ELSE IF j = i THEN b ELSE f[j - 1]]
    BY <1>4 DEF With
  <2>3. \A j \in 1 .. Len(f) + 1 : w[j] \in Byte
    BY <1>1, <2>1, <2>2
  <2>4. Len(f) + 1 \in Nat
    BY <1>1
  <2> QED
    BY <2>2, <2>3, <2>4, SeqDef
<1>5. \/ \E i \in 1 .. Len(f) : w = Without(f, i)
      \/ \E i \in 1 .. Len(f), b \in NoiseBytes : w = [f EXCEPT ![i] = b]
      \/ \E i \in 1 .. Len(f), b \in NoiseBytes : w = With(f, i, b)
  BY <1>1 DEF Spoilt
<1> QED
  BY <1>2, <1>3, <1>4, <1>5

(* The frame of a control byte, as the machine that awaits it expects it.  *)
LEMMA FrameOf ==
  ASSUME NEW k \in Control
  PROVE  /\ SupervisionFrame(Writer(caller), k) = <<FLAG, A(k), k, Xor(A(k), k), FLAG>>
         /\ SupervisionFrame(Writer(caller), k) \in Seq(Byte)
<1>1. SupervisionFrame(Writer(caller), k) = <<FLAG, A(k), k, Xor(A(k), k), FLAG>>
  BY SupervisionBytes DEF SupervisionFrame, A
<1>2. FLAG \in Byte /\ A(k) \in Byte /\ k \in Byte /\ Xor(A(k), k) \in Byte
  BY SupervisionBytes DEF A
<1> QED
  BY <1>1, <1>2

-----------------------------------------------------------------------------
(* Types.                                                                  *)

LEMMA WritesControl == \A w : Writes(w) \subseteq Control
  BY DEF Writes, Control

(* What is put on the wire: a frame that ends with a flag, or a spoiled   *)
(* one.                                                                    *)
LEMMA Written ==
  ASSUME TypeOK, NEW f \in Seq(Byte), NEW k \in Control \cup {CI}, PutOnWire(f, k)
  PROVE  TypeOK'
<1>1. wire' \in Seq(Byte)
  BY SpoiltBytes DEF PutOnWire
<1>2. written' \in 0 .. NFrames /\ noise' \in 0 .. MaxNoise /\ missed' \in Nat
  BY SupervisionAssumption DEF PutOnWire, TypeOK
<1>3. control' \in Control \cup {CI, NoControl} /\ before' \in Control \cup {CI, NoControl}
      /\ broken' \in BOOLEAN /\ heard' \in SUBSET Control
  BY DEF PutOnWire, TypeOK
<1>4. UNCHANGED <<caller, state, byte, last>>
  BY DEF PutOnWire
<1> QED
  BY <1>1, <1>2, <1>3, <1>4 DEF TypeOK

LEMMA FedTypes ==
  ASSUME TypeOK, FedInv, NEW s \in Byte, Feed(s), wire' \in Seq(Byte), broken' \in BOOLEAN
  PROVE  TypeOK'
<1>1. /\ UNCHANGED <<caller, control, before, written, noise, missed>>
      /\ byte' = s /\ state' = Interpreted(s)
      /\ last' = [i \in 1 .. 5 |-> IF i = 1 THEN s ELSE last[i - 1]]
      /\ heard' \subseteq heard \cup Awaited(caller)
  BY DEF Feed, Remember
<1>2. state' \in [Awaited(caller) -> States]
  <2>1. DOMAIN state' = Awaited(caller') /\ \A k \in Awaited(caller') : state'[k] \in States
    BY FeedKeeps DEF FedInv
  <2>2. state' = [k \in Awaited(caller) |-> state'[k]]
    BY <1>1 DEF Interpreted
  <2> QED
    BY <1>1, <2>1, <2>2
<1>3. last' \in [1 .. 5 -> Byte]
  <2>1. \A i \in 1 .. 5 : i # 1 => i - 1 \in 1 .. 5
    OBVIOUS
  <2>2. \A i \in 1 .. 5 : last[i] \in Byte
    BY DEF TypeOK
  <2> QED
    BY <1>1, <2>1, <2>2
<1>4. heard' \subseteq Control
  BY <1>1, AwaitedControl DEF TypeOK
<1> QED
  BY <1>1, <1>2, <1>3, <1>4 DEF TypeOK

LEMMA FreshTypes ==
  ASSUME TypeOK, state' = Fresh, last' = NoBytes, byte' \in Garbage \cup {byte},
         broken' \in BOOLEAN,
         UNCHANGED <<caller, wire, control, before, written, noise, heard, missed>>
  PROVE  TypeOK'
<1>1. Fresh \in [Awaited(caller) -> States]
  BY DEF Fresh, States
<1>2. NoBytes \in [1 .. 5 -> Byte]
  BY SupervisionBytes DEF NoBytes
<1>3. byte' \in Byte
  BY SupervisionAssumption DEF TypeOK
<1> QED
  BY <1>1, <1>2, <1>3 DEF TypeOK

LEMMA InitTypes ==
  ASSUME Init
  PROVE  TypeOK
<1>1. Fresh \in [Awaited(caller) -> States]
  BY DEF Fresh, States
<1>2. NoBytes \in [1 .. 5 -> Byte]
  BY SupervisionBytes DEF NoBytes
<1>3. wire \in Seq(Byte) /\ byte \in Byte
  BY SupervisionAssumption DEF Init
<1>4. written \in 0 .. NFrames /\ noise \in 0 .. MaxNoise /\ missed \in Nat
  BY SupervisionAssumption DEF Init
<1> QED
  BY <1>1, <1>2, <1>3, <1>4 DEF Init, TypeOK

LEMMA StepTypes ==
  ASSUME TypeOK, FedInv, [Next]_supVars
  PROVE  TypeOK'
<1>1. CASE \E k \in Writes(Writer(caller)) : WriteSupervision(k)
  BY <1>1, WritesControl, FrameOf, Written DEF WriteSupervision
<1>2. CASE \E f \in OtherFrames : WriteOther(f)
  BY <1>2, SupervisionAssumption, Written DEF WriteOther
<1>3. CASE ReadByte
  <2>1. Head(wire) \in Byte /\ wire' \in Seq(Byte) /\ broken' \in BOOLEAN
    BY <1>3 DEF ReadByte, TypeOK
  <2> QED
    BY <1>3, <2>1, FedTypes DEF ReadByte
<1>4. CASE ReadTimeout
  <2>1. /\ (IF caller = "llwrite" THEN byte ELSE Zero) \in Byte /\ wire' \in Seq(Byte)
        /\ broken' \in BOOLEAN
    BY <1>4, SupervisionBytes DEF ReadTimeout, TypeOK
  <2> QED
    BY <1>4, <2>1, FedTypes DEF ReadTimeout
<1>5. CASE NextFrame
  <2>1. broken' \in BOOLEAN /\ byte' \in Garbage \cup {byte}
    BY <1>5 DEF NextFrame, TypeOK
  <2> QED
    BY <1>5, <2>1, FreshTypes DEF NextFrame
<1>6. CASE Resend
  <2>1. broken' \in BOOLEAN /\ byte' \in Garbage \cup {byte}
    BY <1>6 DEF Resend, TypeOK
  <2> QED
    BY <1>6, <2>1, FreshTypes DEF Resend
<1>7. CASE UNCHANGED supVars
  BY <1>7 DEF supVars, TypeOK
<1> QED
  BY <1>1, <1>2, <1>3, <1>4, <1>5, <1>6, <1>7 DEF Next

(* Every variable keeps its type, whatever reaches the waiting call.       *)
THEOREM Types == Spec => []TypeOK
<1>1. Init => TypeOK /\ FedInv
  BY InitTypes, FedInit
<1>2. TypeOK /\ FedInv /\ [Next]_supVars => (TypeOK /\ FedInv)'
  BY StepTypes, FedNext
<1> QED
  BY <1>1, <1>2, PTL DEF Spec

-----------------------------------------------------------------------------
(* The inductive invariant of the awaited frames.                          *)

(* No machine is inside a frame.                                           *)
Between == \A k \in Awaited(caller) : state[k] \in {"START", "FLAG", "FINAL"}

(* The last byte on the wire is a flag, and it leaves no machine inside.   *)
Ends == IF wire = <<>> THEN Between ELSE wire[Len(wire)] = FLAG

(* The frame on the wire is read byte by byte by the machine that awaits   *)
(* it, and no other machine follows.                                       *)
Check(k) == Xor(A(k), k)
Only(st) == \A k \in Awaited(caller) : state[k] = IF k = control THEN st ELSE "START"

Track ==
  \/ wire = <<FLAG, A(control), control, Check(control), FLAG>> /\ Between
  \/ /\ wire = <<A(control), control, Check(control), FLAG>>
     /\ \A k \in Awaited(caller) : state[k] = "FLAG"
  \/ /\ wire = <<control, Check(control), FLAG>>
     /\ state[control] = "A" /\ \A k \in Awaited(caller) : state[k] \in {"START", "A"}
  \/ wire = <<Check(control), FLAG>> /\ Only("C")
  \/ wire = <<FLAG>> /\ Only("BCC")
  \/ wire = <<>> /\ control \in heard

InStep == control \in Awaited(caller) => Track

(* A machine that has got anywhere was fed the byte that is still in       *)
(* bytesStream.                                                            *)
ByteInv == \A k \in Awaited(caller) : state[k] # "START" => byte = last[1]

StepInv ==
  /\ missed \in {0, 1}
  /\ ~broken \/ noise = 0 => Ends
  /\ ~broken => InStep \/ (missed = 0 /\ noise > 0)

IInv == TypeOK /\ FedInv /\ ByteInv /\ StepInv

(* What one machine does with a byte.                                      *)
LEMMA Signal ==
  ASSUME NEW st \in States, NEW a, NEW k, NEW s,
         a # FLAG, k # FLAG, Xor(a, k) # FLAG
  PROVE  /\ s = FLAG => interpretSignal(st, a, k, s) \in {"START", "FLAG", "FINAL"}
         /\ s = FLAG /\ st \in {"START", "FLAG"} => interpretSignal(st, a, k, s) = "FLAG"
         /\ s = FLAG /\ st = "BCC" => interpretSignal(st, a, k, s) = "FINAL"
         /\ interpretSignal(st, a, k, s) = "FLAG" => s = FLAG
         /\ s # FLAG /\ st = "START" => interpretSignal(st, a, k, s) = "START"
         /\ s # FLAG /\ st = "FLAG" => interpretSignal(st, a, k, s) = IF s = a THEN "A" ELSE "START"
         /\ s # FLAG /\ st = "A" => interpretSignal(st, a, k, s) = IF s = k THEN "C" ELSE "START"
         /\ s = Xor(a, k) /\ st = "C" => interpretSignal(st, a, k, s) = "BCC"
<1>1. CASE st = "START"
  BY <1>1 DEF interpretSignal
<1>2. CASE st = "FLAG"
  BY <1>2 DEF interpretSignal
<1>3. CASE st = "A"
  BY <1>3 DEF interpretSignal
<1>4. CASE st = "C"
  BY <1>4 DEF interpretSignal
<1>5. CASE st = "BCC"
  BY <1>5 DEF interpretSignal
<1>6. CASE st = "FINAL"
  BY <1>6 DEF interpretSignal
<1> QED
  BY <1>1, <1>2, <1>3, <1>4, <1>5, <1>6 DEF States

(* The same for the machines of a call.                                    *)
LEMMA Signals ==
  ASSUME TypeOK, FedInv, NEW s \in Byte, Feed(s), NEW k \in Awaited(caller)
  PROVE  /\ state[k] \in {"START", "FLAG", "A", "C", "BCC"}
         /\ s = FLAG => state'[k] \in {"START", "FLAG", "FINAL"}
         /\ s = FLAG /\ state[k] \in {"START", "FLAG"} => state'[k] = "FLAG"
         /\ s = FLAG /\ state[k] = "BCC" => state'[k] = "FINAL"
         /\ state'[k] = "FLAG" => s = FLAG
         /\ s # FLAG /\ state[k] = "START" => state'[k] = "START"
         /\ s # FLAG /\ state[k] = "FLAG" => state'[k] = IF s = A(k) THEN "A" ELSE "START"
         /\ s # FLAG /\ state[k] = "A" => state'[k] = IF s = k THEN "C" ELSE "START"
         /\ s = Check(k) /\ state[k] = "C" => state'[k] = "BCC"
<1>1. state[k] \in States /\ state[k] # "FINAL"
  BY DEF FedInv, Feed, Final
<1>2. state'[k] = interpretSignal(state[k], A(k), k, s)
  BY DEF Feed, Interpreted, A
<1>3. A(k) # FLAG /\ k # FLAG /\ Xor(A(k), k) # FLAG
  BY AwaitedControl, SupervisionBytes DEF A
<1>4. state[k] \in {"START", "FLAG", "A", "C", "BCC"}
  BY <1>1 DEF States
<1>5. /\ s = FLAG => interpretSignal(state[k], A(k), k, s) \in {"START", "FLAG", "FINAL"}
      /\ s = FLAG /\ state[k] \in {"START", "FLAG"} =>
           interpretSignal(state[k], A(k), k, s) = "FLAG"
      /\ s = FLAG /\ state[k] = "BCC" => interpretSignal(state[k], A(k), k, s) = "FINAL"
      /\ interpretSignal(state[k], A(k), k, s) = "FLAG" => s = FLAG
      /\ s # FLAG /\ state[k] = "START" => interpretSignal(state[k], A(k), k, s) = "START"
      /\ s # FLAG /\ state[k] = "FLAG" =>
           interpretSignal(state[k], A(k), k, s) = IF s = A(k) THEN "A" ELSE "START"
      /\ s # FLAG /\ state[k] = "A" =>
           interpretSignal(state[k], A(k), k, s) = IF s = k THEN "C" ELSE "START"
      /\ s = Xor(A(k), k) /\ state[k] = "C" => interpretSignal(state[k], A(k), k, s) = "BCC"
  BY <1>1, <1>3, Signal
<1> QED
  BY <1>2, <1>4, <1>5 DEF Check

-----------------------------------------------------------------------------
(* Steps.                                                                  *)

LEMMA ByteStep ==
  ASSUME TypeOK, FedInv, ByteInv, [Next]_supVars
  PROVE  ByteInv'
<1>1. ASSUME NEW s \in Byte, Feed(s) PROVE ByteInv'
  <2>1. byte' = s /\ last'[1] = s
    BY <1>1 DEF Feed, Remember
  <2> QED
    BY <2>1 DEF ByteInv
<1>2. ASSUME caller' = caller, state' = Fresh PROVE ByteInv'
  BY <1>2 DEF Fresh, ByteInv
<1>3. ASSUME UNCHANGED <<caller, state, byte, last>> PROVE ByteInv'
  BY <1>3 DEF ByteInv
<1>4. CASE \E k \in Writes(Writer(caller)) : WriteSupervision(k)
  BY <1>3, <1>4 DEF WriteSupervision, PutOnWire
<1>5. CASE \E f \in OtherFrames : WriteOther(f)
  BY <1>3, <1>5 DEF WriteOther, PutOnWire
<1>6. CASE ReadByte
  <2>1. Head(wire) \in Byte
    BY <1>6 DEF ReadByte, TypeOK
  <2> QED
    BY <1>1, <1>6, <2>1 DEF ReadByte
<1>7. CASE ReadTimeout
  <2>1. (IF caller = "llwrite" THEN byte ELSE Zero) \in Byte
    BY SupervisionBytes DEF TypeOK
  <2> QED
    BY <1>1, <1>7, <2>1 DEF ReadTimeout
<1>8. CASE NextFrame
  BY <1>2, <1>8 DEF NextFrame
<1>9. CASE Resend
  BY <1>2, <1>9 DEF Resend
<1>10. CASE UNCHANGED supVars
  BY <1>3, <1>10 DEF supVars
<1> QED
  BY <1>4, <1>5, <1>6, <1>7, <1>8, <1>9, <1>10 DEF Next

(* A read that times out leaves no machine inside a frame.                 *)
LEMMA BetweenTimeout ==
  ASSUME TypeOK, FedInv, ByteInv, Between, ReadTimeout
  PROVE  Between'
<1> DEFINE s == IF caller = "llwrite" THEN byte ELSE Zero
<1>1. s \in Byte /\ Feed(s) /\ caller' = caller
  BY SupervisionBytes DEF ReadTimeout, Feed, TypeOK
<1>2. ASSUME NEW k \in Awaited(caller) PROVE state'[k] \in {"START", "FLAG", "FINAL"}
  <2>1. state[k] \in {"START", "FLAG"}
    BY <1>1, <1>2, Signals DEF Between
  <2>2. CASE s = FLAG
    BY <1>1, <1>2, <2>2, Signals
  <2>3. CASE s # FLAG
    <3>1. state[k] = "START" => state'[k] = "START"
      BY <1>1, <1>2, <2>3, Signals
    <3>2. state[k] = "FLAG" => state'[k] = IF s = A(k) THEN "A" ELSE "START"
      BY <1>1, <1>2, <2>3, Signals
    <3>3. state[k] = "FLAG" => s = Zero
      BY <1>2, <2>3 DEF ByteInv, FedInv, Fed
    <3>4. A(k) # Zero
      BY SupervisionBytes DEF A
    <3> QED
      BY <2>1, <3>1, <3>2, <3>3, <3>4
  <2> QED
    BY <2>2, <2>3
<1> QED
  BY <1>1, <1>2 DEF Between

(* A byte of a frame that ends with a flag.                                *)
LEMMA EndsRead ==
  ASSUME TypeOK, FedInv, Ends, ReadByte
  PROVE  Ends'
<1>1. wire \in Seq(Byte) /\ wire # <<>> /\ wire' = Tail(wire) /\ Feed(Head(wire))
      /\ Head(wire) \in Byte /\ wire[Len(wire)] = FLAG /\ caller' = caller
  BY DEF TypeOK, ReadByte, Feed, Ends
<1>2. PICK t \in Seq(Byte) : t = Tail(wire) /\ Len(t) = Len(wire) - 1
                             /\ \A i \in 1 .. Len(t) : t[i] = wire[i + 1]
  <2>1. Tail(wire) \in Seq(Byte) /\ Len(Tail(wire)) = Len(wire) - 1
        /\ \A i \in 1 .. Len(Tail(wire)) : Tail(wire)[i] = wire[i + 1]
    BY <1>1, HeadTailProperties
  <2> QED
    BY <2>1
<1>3. CASE t = <<>>
  <2>1. Head(wire) = FLAG
    <3>1. PICK n \in Nat : n = Len(wire)
      BY <1>1
    <3>2. Len(t) = 0
      BY <1>3
    <3>3. Len(t) = n - 1
      BY <1>2, <3>1
    <3>4. n = 1
      BY <3>2, <3>3
    <3>5. wire[1] = FLAG
      BY <1>1, <3>1, <3>4
    <3>6. Head(wire) = wire[1]
      BY <1>1, HeadTailProperties
    <3> QED
      BY <3>5, <3>6
  <2>2. \A k \in Awaited(caller) : state'[k] \in {"START", "FLAG", "FINAL"}
    BY <1>1, <2>1, Signals
  <2> QED
    BY <1>1, <1>2, <1>3, <2>2 DEF Ends, Between
<1>4. CASE t # <<>>
  <2>1. Len(t) \in 1 .. Len(t) /\ Len(t) + 1 = Len(wire)
    BY <1>1, <1>2, <1>4
  <2>2. t[Len(t)] = FLAG
    BY <1>1, <1>2, <2>1
  <2> QED
    BY <1>1, <1>2, <1>4, <2>2 DEF Ends
<1> QED
  BY <1>3, <1>4

(* The awaited frame, one byte after the other.                            *)
LEMMA TrackRead ==
  ASSUME TypeOK, FedInv, control \in Awaited(caller), Track, ReadByte
  PROVE  Track'
<1> DEFINE a == A(control)
           x == Check(control)
           s == Head(wire)
<1>1. /\ wire \in Seq(Byte) /\ wire # <<>> /\ wire' = Tail(wire) /\ Feed(s) /\ s \in Byte
      /\ caller' = caller /\ control' = control /\ A(control)' = a /\ Check(control)' = x
  BY DEF TypeOK, ReadByte, Feed, A, Check
<1>2. a # FLAG /\ control # FLAG /\ x # FLAG /\ a \in Byte /\ control \in Byte /\ x \in Byte
      /\ FLAG \in Byte
  BY AwaitedControl, SupervisionBytes DEF A, Check
<1>3. ASSUME NEW k \in Awaited(caller)
      PROVE  /\ state[k] \in {"START", "FLAG", "A", "C", "BCC"}
             /\ s = FLAG /\ state[k] \in {"START", "FLAG"} => state'[k] = "FLAG"
             /\ s = FLAG /\ state[k] = "BCC" => state'[k] = "FINAL"
             /\ s # FLAG /\ state[k] = "START" => state'[k] = "START"
             /\ s # FLAG /\ state[k] = "FLAG" => state'[k] = IF s = A(k) THEN "A" ELSE "START"
             /\ s # FLAG /\ state[k] = "A" => state'[k] = IF s = k THEN "C" ELSE "START"
             /\ s = Check(k) /\ state[k] = "C" => state'[k] = "BCC"
  BY <1>1, <1>3, Signals
<1> HIDE DEF a, x, s
<1>4. CASE wire = <<FLAG, a, control, x, FLAG>> /\ Between
  <2>1. s = FLAG /\ wire' = <<a, control, x, FLAG>>
    BY <1>1, <1>2, <1>4 DEF s
  <2>2. \A k \in Awaited(caller) : state[k] \in {"START", "FLAG"}
    BY <1>3, <1>4 DEF Between
  <2>3. \A k \in Awaited(caller) : state'[k] = "FLAG"
    BY <1>3, <2>1, <2>2
  <2> QED
    BY <1>1, <2>1, <2>3 DEF Track
<1>5. CASE /\ wire = <<a, control, x, FLAG>>
           /\ \A k \in Awaited(caller) : state[k] = "FLAG"
  <2>1. s = a /\ wire' = <<control, x, FLAG>>
    BY <1>1, <1>2, <1>5 DEF s
  <2>2. \A k \in Awaited(caller) : state'[k] = IF s = A(k) THEN "A" ELSE "START"
    BY <1>2, <1>3, <1>5, <2>1
  <2>3. state'[control] = "A" /\ \A k \in Awaited(caller) : state'[k] \in {"START", "A"}
    BY <2>1, <2>2 DEF a
  <2> QED
    BY <1>1, <2>1, <2>3 DEF Track
<1>6. CASE /\ wire = <<control, x, FLAG>>
           /\ state[control] = "A" /\ \A k \in Awaited(caller) : state[k] \in {"START", "A"}
  <2>1. s = control /\ wire' = <<x, FLAG>>
    BY <1>1, <1>2, <1>6 DEF s
  <2>2. \A k \in Awaited(caller) : state'[k] = IF k = control THEN "C" ELSE "START"
    BY <1>2, <1>3, <1>6, <2>1
  <2> QED
    BY <1>1, <2>1, <2>2 DEF Track, Only
<1>7. CASE wire = <<x, FLAG>> /\ Only("C")
  <2>1. s = x /\ wire' = <<FLAG>>
    BY <1>1, <1>2, <1>7 DEF s
  <2>2. \A k \in Awaited(caller) : state'[k] = IF k = control THEN "BCC" ELSE "START"
    BY <1>2, <1>3, <1>7, <2>1 DEF Only, x
  <2> QED
    BY <1>1, <2>1, <2>2 DEF Track, Only
<1>8. CASE wire = <<FLAG>> /\ Only("BCC")
  <2>1. s = FLAG /\ wire' = <<>>
    BY <1>1, <1>2, <1>8 DEF s
  <2>2. state'[control] = "FINAL"
    BY <1>3, <1>8, <2>1 DEF Only
  <2>3. control \in heard'
    BY <1>1, <2>2 DEF Feed
  <2> QED
    BY <1>1, <2>1, <2>3 DEF Track
<1> QED
  BY <1>1, <1>4, <1>5, <1>6, <1>7, <1>8 DEF Track, a, x

(* A frame put on the wire.                                                *)
LEMMA StepWritten ==
  ASSUME IInv, NEW f \in Seq(Byte), NEW k \in Control \cup {CI}, PutOnWire(f, k),
         f # <<>>, f[Len(f)] = FLAG,
         k \in Control => f = SupervisionFrame(Writer(caller), k)
  PROVE  StepInv'
<1>1. /\ wire = <<>> /\ control' = k /\ caller' = caller /\ state' = state
      /\ missed' = (IF broken \/ control \in heard THEN 0
                    ELSE IF Missed THEN missed + 1 ELSE missed)
      /\ noise \in Nat /\ broken \in BOOLEAN /\ missed \in {0, 1}
      /\ \/ wire' = f /\ ~broken' /\ noise' = noise
         \/ broken' /\ noise' = noise + 1
  <2>1. noise \in Nat /\ broken \in BOOLEAN /\ missed \in {0, 1}
    BY SupervisionAssumption DEF IInv, TypeOK, StepInv
  <2>2. \/ wire' = f /\ ~broken' /\ noise' = noise
        \/ broken' /\ noise' = noise + 1
    BY DEF PutOnWire
  <2> QED
    BY <2>1, <2>2 DEF PutOnWire
<1>2. Missed => missed = 0
  <2> SUFFICES ASSUME Missed PROVE missed = 0
    OBVIOUS
  <2>1. ~broken /\ control \in Awaited(caller) /\ control \notin heard
    BY DEF Missed
  <2>2. ~Track
    BY <1>1, <2>1 DEF Track
  <2> QED
    BY <2>1, <2>2 DEF IInv, StepInv, InStep
<1>3. missed' \in {0, 1}
  <2>1. missed = 0 => missed + 1 = 1
    OBVIOUS
  <2> QED
    BY <1>1, <1>2, <2>1
<1>4. ~broken' \/ noise' = 0 => wire' = f /\ ~broken' /\ noise' = noise
  <2>1. noise + 1 # 0
    BY <1>1
  <2> QED
    BY <1>1, <2>1
<1>5. ~broken' \/ noise' = 0 => Ends'
  BY <1>4 DEF Ends
<1>6. ASSUME ~broken' PROVE InStep' \/ (missed' = 0 /\ noise' > 0)
  <2>1. wire' = f /\ noise' = noise
    BY <1>4, <1>6
  <2>2. CASE ~broken \/ noise = 0
    <3>1. Between'
      BY <1>1, <2>2 DEF IInv, StepInv, Ends, Between
    <3>2. ASSUME k \in Awaited(caller) PROVE Track'
      <4>1. k \in Control
        BY <3>2, AwaitedControl
      <4>2. f = <<FLAG, A(k), k, Check(k), FLAG>>
        BY <4>1, FrameOf DEF Check
      <4>3. A(control)' = A(k) /\ Check(control)' = Check(k)
        BY <1>1 DEF A, Check
      <4> QED
        BY <1>1, <2>1, <3>1, <4>2, <4>3 DEF Track
    <3> QED
      BY <1>1, <3>2 DEF InStep
  <2>3. CASE broken /\ noise # 0
    <3>1. missed' = 0 /\ noise' > 0
      BY <1>1, <2>1, <2>3
    <3> QED
      BY <3>1
  <2> QED
    BY <1>1, <2>2, <2>3
<1> QED
  BY <1>3, <1>5, <1>6 DEF StepInv

LEMMA StepRead ==
  ASSUME IInv, ReadByte
  PROVE  StepInv'
<1>1. UNCHANGED <<caller, control, broken, noise, missed>>
  BY DEF ReadByte, Feed
<1>2. Ends => Ends'
  BY EndsRead DEF IInv
<1>3. InStep => InStep'
  BY <1>1, TrackRead DEF IInv, InStep
<1> QED
  BY <1>1, <1>2, <1>3 DEF IInv, StepInv

LEMMA StepTimeout ==
  ASSUME IInv, ReadTimeout
  PROVE  StepInv'
<1>1. /\ UNCHANGED <<caller, control, noise, missed, wire>>
      /\ broken' = (broken \/ wire # <<>>) /\ heard \subseteq heard'
  BY DEF ReadTimeout, Feed
<1>2. Ends => Ends'
  BY <1>1, BetweenTimeout DEF IInv, Ends
<1>3. InStep /\ ~broken' => InStep'
  <2> SUFFICES ASSUME control \in Awaited(caller), Track, ~broken' PROVE Track'
    BY <1>1 DEF InStep
  <2>1. wire = <<>>
    BY <1>1
  <2>2. control \in heard
    BY <2>1 DEF Track
  <2> QED
    BY <1>1, <2>1, <2>2 DEF Track
<1>4. ~broken' => ~broken
  BY <1>1
<1>5. ~broken' \/ noise' = 0 => Ends'
  BY <1>1, <1>2, <1>4 DEF IInv, StepInv
<1>6. ~broken' => InStep' \/ (missed' = 0 /\ noise' > 0)
  BY <1>1, <1>3, <1>4 DEF IInv, StepInv
<1> QED
  BY <1>1, <1>5, <1>6 DEF IInv, StepInv

(* New machines in the place of those that took a frame, or a resend: a    *)
(* frame that is being read is not taken then.                             *)
LEMMA StepFresh ==
  ASSUME IInv, state' = Fresh,
         UNCHANGED <<caller, wire, control, noise, heard, missed>>,
         \/ broken' = broken /\ Final # {}
         \/ broken' = (broken \/ wire # <<>>)
  PROVE  StepInv'
<1>1. Between'
  BY DEF Fresh, Between
<1>2. Ends => Ends'
  BY <1>1 DEF Ends
<1>3. InStep /\ ~broken' => InStep'
  <2> SUFFICES ASSUME control \in Awaited(caller), Track, ~broken' PROVE Track'
    BY DEF InStep
  <2>1. A(control)' = A(control) /\ Check(control)' = Check(control)
    BY DEF A, Check
  <2>2. CASE wire = <<>> \/ (wire = <<FLAG, A(control), control, Check(control), FLAG>> /\ Between)
    <3>1. wire = <<>> => control \in heard
      BY DEF Track
    <3> QED
      BY <1>1, <2>1, <2>2, <3>1 DEF Track
  <2>3. CASE ~(wire = <<>> \/ (wire = <<FLAG, A(control), control, Check(control), FLAG>> /\ Between))
    <3>1. Final # {}
      BY <2>3
    <3>2. Final = {}
      BY <2>3 DEF Track, Final, Only
    <3> QED
      BY <3>1, <3>2
  <2> QED
    BY <2>2, <2>3
<1>4. ~broken' => ~broken
  OBVIOUS
<1>5. ~broken' \/ noise' = 0 => Ends'
  BY <1>2, <1>4 DEF IInv, StepInv
<1>6. ~broken' => InStep' \/ (missed' = 0 /\ noise' > 0)
  BY <1>3, <1>4 DEF IInv, StepInv
<1> QED
  BY <1>5, <1>6 DEF IInv, StepInv

LEMMA InitStep ==
  ASSUME Init
  PROVE  IInv
<1>1. TypeOK /\ FedInv
  BY InitTypes, FedInit
<1>2. /\ wire = <<>> /\ state = Fresh /\ ~broken /\ noise = 0 /\ missed = 0
      /\ control = NoControl
  BY DEF Init
<1>3. ByteInv /\ Between
  BY <1>2 DEF ByteInv, Between, Fresh
<1>4. InStep
  BY <1>2, AwaitedControl, SupervisionBytes DEF InStep
<1> QED
  BY <1>1, <1>2, <1>3, <1>4 DEF IInv, StepInv, Ends

LEMMA NextStep ==
  ASSUME IInv, [Next]_supVars
  PROVE  IInv'
<1>1. TypeOK' /\ FedInv' /\ ByteInv'
  BY StepTypes, FedNext, ByteStep DEF IInv
<1>2. CASE \E k \in Writes(Writer(caller)) : WriteSupervision(k)
  <2>1. PICK k \in Control : PutOnWire(SupervisionFrame(Writer(caller), k), k)
    BY <1>2, WritesControl DEF WriteSupervision
  <2>2. PICK f \in Seq(Byte) : f = SupervisionFrame(Writer(caller), k)
                               /\ f = <<FLAG, A(k), k, Xor(A(k), k), FLAG>>
    BY FrameOf
  <2>3. f # <<>> /\ f[Len(f)] = FLAG
    BY <2>2
  <2> QED
    BY <1>1, <2>1, <2>2, <2>3, StepWritten DEF IInv
<1>3. CASE \E f \in OtherFrames : WriteOther(f)
  <2>1. PICK f \in OtherFrames : PutOnWire(f, CI)
    BY <1>3 DEF WriteOther
  <2>2. f \in Seq(Byte) /\ f # <<>> /\ f[Len(f)] = FLAG /\ CI \notin Control
    BY SupervisionAssumption, SupervisionBytes
  <2> QED
    BY <1>1, <2>1, <2>2, StepWritten DEF IInv
<1>4. CASE ReadByte
  BY <1>1, <1>4, StepRead DEF IInv
<1>5. CASE ReadTimeout
  BY <1>1, <1>5, StepTimeout DEF IInv
<1>6. CASE NextFrame
  BY <1>1, <1>6, StepFresh DEF IInv, NextFrame
<1>7. CASE Resend
  BY <1>1, <1>7, StepFresh DEF IInv, Resend
<1>8. CASE UNCHANGED supVars
  <2>1. /\ caller' = caller /\ wire' = wire /\ control' = control /\ broken' = broken
        /\ noise' = noise /\ state' = state /\ heard' = heard /\ missed' = missed
    BY <1>8 DEF supVars
  <2>2. InStep' <=> InStep
    BY <2>1 DEF InStep, Track, Only, Between, Check, A
  <2>3. Ends' <=> Ends
    BY <2>1 DEF Ends, Between
  <2>4. StepInv'
    BY <2>1, <2>2, <2>3 DEF IInv, StepInv
  <2> QED
    BY <1>1, <2>4 DEF IInv
<1> QED
  BY <1>2, <1>3, <1>4, <1>5, <1>6, <1>7, <1>8 DEF Next

THEOREM Invariant == Spec => []IInv
<1>1. Init => IInv
  BY InitStep
<1>2. IInv /\ [Next]_supVars => IInv'
  BY NextStep
<1> QED
  BY <1>1, <1>2, PTL DEF Spec

(* On a line without noise every awaited frame that was read with no pause *)
(* and no resend inside it has been taken, whatever was read before it: a  *)
(* pause or a resend inside a frame costs no other frame.                  *)
THEOREM QuietTaken == Spec => []NothingMissed
<1>1. IInv => NothingMissed
  <2> SUFFICES ASSUME IInv, wire = <<>>, noise = 0, Missed PROVE FALSE
    BY DEF NothingMissed
  <2>1. ~broken /\ control \in Awaited(caller) /\ control \notin heard /\ ~(noise > 0)
    BY DEF Missed
  <2> QED
    BY <2>1 DEF IInv, StepInv, InStep, Track
<1> QED
  BY <1>1, Invariant, PTL

(* With noise, broken frames, however many, cost a waiting call at most    *)
(* one unbroken awaited frame after them.                                  *)
THEOREM OneFrameMissed == Spec => []BackInStep
<1>1. IInv => BackInStep
  <2> SUFFICES ASSUME IInv PROVE BackInStep
    OBVIOUS
  <2>1. missed \in {0, 1}
    BY DEF IInv, StepInv
  <2>2. wire = <<>> /\ Missed => missed = 0
    <3> SUFFICES ASSUME wire = <<>>, Missed PROVE missed = 0
      OBVIOUS
    <3>1. ~broken /\ control \in Awaited(caller) /\ control \notin heard
      BY DEF Missed
    <3> QED
      BY <3>1 DEF IInv, StepInv, InStep, Track
  <2> QED
    BY <2>1, <2>2 DEF BackInStep
<1> QED
  BY <1>1, Invariant, PTL

-----------------------------------------------------------------------------
(* No frame is taken for another.                                          *)

(* The bytes of w after place i are those that a machine in a state waits  *)
(* for, and w ends before the last of them.                                *)
CutBcc(w, i) == Len(w) = i
CutC(w, i, a, k) == Len(w) = i \/ (w[i + 1] = Xor(a, k) /\ CutBcc(w, i + 1))
CutA(w, i, a, k) == Len(w) = i \/ (w[i + 1] = k /\ CutC(w, i + 1, a, k))
CutFlag(w, i, a, k) == Len(w) > i /\ w[i + 1] = a /\ CutA(w, i + 1, a, k)

Cut(st, w, i, a, k) ==
  \/ st = "FLAG" /\ CutFlag(w, i, a, k)
  \/ st = "A" /\ CutA(w, i, a, k)
  \/ st = "C" /\ CutC(w, i, a, k)
  \/ st = "BCC" /\ CutBcc(w, i)

(* They are all there, but for a check byte that a pause may supply.       *)
DoneBcc(w, i) == Len(w) > i /\ w[i + 1] = FLAG
DoneC(w, i, a, k) ==
  \/ Len(w) > i /\ w[i + 1] = Xor(a, k) /\ DoneBcc(w, i + 1)
  \/ Xor(a, k) = Zero /\ DoneBcc(w, i)
DoneA(w, i, a, k) == Len(w) > i /\ w[i + 1] = k /\ DoneC(w, i + 1, a, k)
DoneFlag(w, i, a, k) == Len(w) > i /\ w[i + 1] = a /\ DoneA(w, i + 1, a, k)

Done(st, w, i, a, k) ==
  \/ st = "FLAG" /\ DoneFlag(w, i, a, k)
  \/ st = "A" /\ DoneA(w, i, a, k)
  \/ st = "C" /\ DoneC(w, i, a, k)
  \/ st = "BCC" /\ DoneBcc(w, i)

(* A flag at place i is not the first of a frame, whole or cut.            *)
NoneAt(w, i, a, k) == ~CutFlag(w, i, a, k) /\ ~DoneFlag(w, i, a, k)

Ahead(k) == \A i \in 1 .. Len(wire) : wire[i] = FLAG => NoneAt(wire, i, A(k), k)

(* What is to be read lets no machine take a frame but the last two        *)
(* written, and leaves none inside a frame but the last.                   *)
ApartInv ==
  /\ heard \subseteq {control, before}
  /\ \A k \in Awaited(caller) \ {control} :
       /\ Ahead(k)
       /\ ~Cut(state[k], wire, 0, A(k), k)
       /\ caller = "llwrite" /\ byte = FLAG => NoneAt(wire, 0, A(k), k)
  /\ \A k \in Awaited(caller) \ {control, before} : ~Done(state[k], wire, 0, A(k), k)

(* Two frames with the same address and check byte are one.                *)
LEMMA XorInjective == \A a, b, c : Xor(a, b) = Xor(a, c) => b = c
<1> SUFFICES ASSUME NEW a, NEW b, NEW c, Xor(a, b) = Xor(a, c) PROVE b = c
  OBVIOUS
<1>1. \A e : e \in Xor(a, b) <=> ~(e \in a <=> e \in b)
  BY DEF Xor
<1>2. \A e : e \in Xor(a, c) <=> ~(e \in a <=> e \in c)
  BY DEF Xor
<1>3. \A e : e \in b <=> e \in c
  BY <1>1, <1>2
<1> QED
  BY <1>3

(* The bytes of a written frame and of one that is not.                    *)
LEMMA TwoFrames ==
  ASSUME NEW c \in Control, NEW k \in Control, c # k
  PROVE  /\ A(c) # FLAG /\ A(k) # FLAG /\ c # FLAG /\ k # FLAG
         /\ Xor(A(c), c) # FLAG /\ Xor(A(k), k) # FLAG
         /\ Xor(A(k), k) # A(c) /\ Xor(A(k), k) # c
         /\ Xor(A(c), c) # A(k) /\ Xor(A(c), c) # k
         /\ A(c) = A(k) => Xor(A(c), c) # Xor(A(k), k)
<1>1. \A b \in Control : 0 \in b /\ b # FLAG
  <2>1. \A b \in Control : 0 \in b
    BY DEF Control, SET, DISC, UA, RR1, REJ1
  <2> QED
    BY <2>1, SupervisionBytes
<1>2. \A b : 0 \in A(b) /\ A(b) # FLAG
  <2>1. 0 \in AE /\ 0 \in AR
    BY DEF AE, AR
  <2>2. \A b : 0 \in A(b)
    BY <2>1 DEF A, expectedAbyte
  <2> QED
    BY <2>2, SupervisionBytes DEF A
<1>3. \A b \in Control : 0 \notin Xor(A(b), b) /\ Xor(A(b), b) # FLAG
  BY SupervisionBytes DEF A
<1>4. A(c) = A(k) => Xor(A(c), c) # Xor(A(k), k)
  BY XorInjective
<1> QED
  BY <1>1, <1>2, <1>3, <1>4, Zenon

(* What a frame must hold for a flag before it, or in it, to begin another.*)
LEMMA ClearNone ==
  ASSUME NEW w \in Seq(Byte), NEW a, NEW k, Clear(w, a, k)
  PROVE  /\ Len(w) >= 4
         /\ NoneAt(w, 0, a, k)
         /\ \A i \in 1 .. Len(w) : w[i] = FLAG => NoneAt(w, i, a, k)
<1>1. PICK n \in Nat : n = Len(w)
  OBVIOUS
<1>2. n >= 4
  BY <1>1 DEF Clear
<1>3. ASSUME NEW i \in 0 .. n - 1, i = 0 \/ w[i] = FLAG PROVE NoneAt(w, i, a, k)
  <2>1. \A rest \in Rests(a, k) : ~Follows(w, i, rest)
    BY <1>1, <1>3 DEF Clear
  <2>2. ASSUME w[i + 1] = a,
               i + 2 <= n => w[i + 2] = k,
               i + 3 <= n => w[i + 3] = Xor(a, k),
               i + 4 <= n => w[i + 4] = FLAG
        PROVE  FALSE
    <3>1. PICK rest : rest = <<a, k, Xor(a, k), FLAG>>
      OBVIOUS
    <3>2. Len(rest) = 4 /\ rest[1] = a /\ rest[2] = k /\ rest[3] = Xor(a, k) /\ rest[4] = FLAG
      BY <3>1
    <3>3. ASSUME NEW j \in 1 .. 4, i + j <= n PROVE w[i + j] = rest[j]
      <4>1. j = 1 \/ j = 2 \/ j = 3 \/ j = 4
        BY <3>3
      <4> QED
        BY <2>2, <3>2, <3>3, <4>1
    <3>4. Follows(w, i, rest)
      BY <1>1, <3>2, <3>3 DEF Follows
    <3>5. rest \in Rests(a, k)
      BY <3>1 DEF Rests
    <3> QED
      BY <2>1, <3>4, <3>5
  <2>3. ASSUME Xor(a, k) = Zero, w[i + 1] = a,
               i + 2 <= n => w[i + 2] = k,
               i + 3 <= n => w[i + 3] = FLAG
        PROVE  FALSE
    <3>1. PICK rest : rest = <<a, k, FLAG>>
      OBVIOUS
    <3>2. Len(rest) = 3 /\ rest[1] = a /\ rest[2] = k /\ rest[3] = FLAG
      BY <3>1
    <3>3. ASSUME NEW j \in 1 .. 3, i + j <= n PROVE w[i + j] = rest[j]
      <4>1. j = 1 \/ j = 2 \/ j = 3
        BY <3>3
      <4> QED
        BY <2>3, <3>2, <3>3, <4>1
    <3>4. Follows(w, i, rest)
      BY <1>1, <3>2, <3>3 DEF Follows
    <3>5. rest \in Rests(a, k)
      BY <2>3, <3>1 DEF Rests
    <3> QED
      BY <2>1, <3>4, <3>5
  <2>4. /\ (i + 1) + 1 = i + 2 /\ (i + 2) + 1 = i + 3 /\ (i + 3) + 1 = i + 4
        /\ ((i + 1) + 1) + 1 = i + 3 /\ (((i + 1) + 1) + 1) + 1 = i + 4
    OBVIOUS
  <2>5. ~CutFlag(w, i, a, k)
    BY <1>1, <2>2, <2>4 DEF CutFlag, CutA, CutC, CutBcc
  <2>6. ~DoneFlag(w, i, a, k)
    BY <1>1, <2>2, <2>3, <2>4 DEF DoneFlag, DoneA, DoneC, DoneBcc
  <2> QED
    BY <2>5, <2>6 DEF NoneAt
<1>4. NoneAt(w, n, a, k)
  BY <1>1 DEF NoneAt, CutFlag, DoneFlag
<1>5. 0 \in 0 .. n - 1 /\ \A i \in 1 .. n : i \in 0 .. n - 1 \/ i = n
  BY <1>2
<1> QED
  BY <1>1, <1>2, <1>3, <1>4, <1>5

(* A frame in which no flag is followed by a, k and the check byte or a    *)
(* flag.                                                                   *)
Begins(w, n, i, a, k) ==
  /\ w[i + 1] = a
  /\ i + 2 <= n => w[i + 2] = k
  /\ i + 3 <= n => w[i + 3] \in {Xor(a, k), FLAG}

LEMMA ClearBy ==
  ASSUME NEW w, NEW a, NEW k, NEW n \in Nat, Len(w) = n, n >= 4,
         \A i \in 0 .. n - 1 : i = 0 \/ w[i] = FLAG => ~Begins(w, n, i, a, k)
  PROVE  Clear(w, a, k)
<1>1. ASSUME NEW i \in 0 .. n - 1, NEW rest \in Rests(a, k), Follows(w, i, rest)
      PROVE  Begins(w, n, i, a, k)
  <2>1. Len(rest) >= 3 /\ rest[1] = a /\ rest[2] = k /\ rest[3] \in {Xor(a, k), FLAG}
    <3>1. rest = <<a, k, Xor(a, k), FLAG>> \/ rest = <<a, k, FLAG>>
      BY DEF Rests
    <3> QED
      BY <3>1
  <2>2. \A j \in 1 .. Len(rest) : i + j <= n => w[i + j] = rest[j]
    BY <1>1 DEF Follows
  <2>3. /\ i + 1 <= n => w[i + 1] = rest[1]
        /\ i + 2 <= n => w[i + 2] = rest[2]
        /\ i + 3 <= n => w[i + 3] = rest[3]
    <3>1. PICK m \in {3, 4} : Len(rest) = m
      BY DEF Rests
    <3>2. 1 \in 1 .. Len(rest) /\ 2 \in 1 .. Len(rest) /\ 3 \in 1 .. Len(rest)
      BY <3>1
    <3> QED
      BY <2>2, <3>2
  <2>4. i + 1 <= n
    OBVIOUS
  <2> QED
    BY <2>1, <2>3, <2>4 DEF Begins
<1> QED
  BY <1>1 DEF Clear

(* What is written when the frame is whole.                                *)
LEMMA WholeClear ==
  ASSUME NEW c \in Control, NEW k \in Control, c # k,
         NEW w, w = <<FLAG, A(c), c, Xor(A(c), c), FLAG>>
  PROVE  Clear(w, A(k), k)
<1>1. Len(w) = 5 /\ w[1] = FLAG /\ w[2] = A(c) /\ w[3] = c /\ w[4] = Xor(A(c), c) /\ w[5] = FLAG
  OBVIOUS
<1>2. ASSUME NEW i \in 0 .. 4, i = 0 \/ w[i] = FLAG PROVE ~Begins(w, 5, i, A(k), k)
  <2>1. i = 0 \/ i = 1
    <3>1. i = 0 \/ i = 1 \/ i = 2 \/ i = 3 \/ i = 4
      OBVIOUS
    <3> QED
      BY <1>1, <1>2, <3>1, TwoFrames
  <2> QED
    BY <1>1, <2>1, TwoFrames DEF Begins
<1>3. 5 \in Nat /\ 5 >= 4 /\ 5 - 1 = 4
  OBVIOUS
<1> QED
  BY <1>1, <1>2, <1>3, ClearBy

(* A frame that has lost a byte.                                           *)
LEMMA LostClear ==
  ASSUME NEW c \in Control, NEW k \in Control, c # k,
         NEW i \in 1 .. 5, NEW w,
         w = Without(<<FLAG, A(c), c, Xor(A(c), c), FLAG>>, i)
  PROVE  Clear(w, A(k), k)
<1> DEFINE f == <<FLAG, A(c), c, Xor(A(c), c), FLAG>>
<1>1. Len(f) = 5 /\ f[1] = FLAG /\ f[2] = A(c) /\ f[3] = c /\ f[4] = Xor(A(c), c) /\ f[5] = FLAG
  OBVIOUS
<1>2. w = [j \in 1 .. 4 |-> IF j < i THEN f[j] ELSE f[j + 1]]
  BY DEF Without
<1> HIDE DEF f
<1>3. Len(w) = 4
  BY <1>2
<1>4. /\ w[1] = IF i > 1 THEN f[1] ELSE f[2]
      /\ w[2] = IF i > 2 THEN f[2] ELSE f[3]
      /\ w[3] = IF i > 3 THEN f[3] ELSE f[4]
      /\ w[4] = IF i > 4 THEN f[4] ELSE f[5]
  BY <1>2
<1>5. i = 1 \/ i = 2 \/ i = 3 \/ i = 4 \/ i = 5
  OBVIOUS
<1>6. ASSUME NEW j \in 0 .. 3, j = 0 \/ w[j] = FLAG PROVE ~Begins(w, 4, j, A(k), k)
  <2>1. j = 0 \/ j = 1 \/ j = 2 \/ j = 3
    OBVIOUS
  <2>2. CASE j = 0
    BY <1>1, <1>4, <1>5, <1>6, <2>2, TwoFrames DEF Begins
  <2>3. CASE j = 1
    BY <1>1, <1>4, <1>5, <1>6, <2>3, TwoFrames DEF Begins
  <2>4. CASE j = 2
    BY <1>1, <1>4, <1>5, <1>6, <2>4, TwoFrames DEF Begins
  <2>5. CASE j = 3
    BY <1>1, <1>4, <1>5, <1>6, <2>5, TwoFrames DEF Begins
  <2> QED
    BY <2>1, <2>2, <2>3, <2>4, <2>5
<1>7. 4 \in Nat /\ 4 >= 4 /\ 4 - 1 = 3
  OBVIOUS
<1> QED
  BY <1>3, <1>6, <1>7, ClearBy

(* A frame with a byte changed.                                            *)
LEMMA ChangedClear ==
  ASSUME NEW c \in Control, NEW k \in Control, c # k,
         NEW i \in 1 .. 5, NEW b, NEW w,
         w = [<<FLAG, A(c), c, Xor(A(c), c), FLAG>> EXCEPT ![i] = b]
  PROVE  Clear(w, A(k), k)
<1> DEFINE f == <<FLAG, A(c), c, Xor(A(c), c), FLAG>>
<1>1. /\ f[1] = FLAG /\ f[2] = A(c) /\ f[3] = c /\ f[4] = Xor(A(c), c) /\ f[5] = FLAG
      /\ DOMAIN f = 1 .. 5
  OBVIOUS
<1>2. w = [j \in 1 .. 5 |-> IF j = i THEN b ELSE f[j]]
  BY <1>1
<1> HIDE DEF f
<1>3. Len(w) = 5
  BY <1>2
<1>4. /\ i # 1 => w[1] = FLAG
      /\ i # 2 => w[2] = A(c)
      /\ i # 3 => w[3] = c
      /\ i # 4 => w[4] = Xor(A(c), c)
      /\ i # 5 => w[5] = FLAG
  BY <1>1, <1>2
<1>5. i = 1 \/ i = 2 \/ i = 3 \/ i = 4 \/ i = 5
  OBVIOUS
<1>6. ASSUME NEW j \in 0 .. 4, j = 0 \/ w[j] = FLAG PROVE ~Begins(w, 5, j, A(k), k)
  <2>1. j = 0 \/ j = 1 \/ j = 2 \/ j = 3 \/ j = 4
    OBVIOUS
  <2>2. CASE j = 0
    BY <1>4, <1>5, <1>6, <2>2, TwoFrames DEF Begins
  <2>3. CASE j = 1
    BY <1>4, <1>5, <1>6, <2>3, TwoFrames DEF Begins
  <2>4. CASE j = 2
    BY <1>4, <1>5, <1>6, <2>4, TwoFrames DEF Begins
  <2>5. CASE j = 3
    BY <1>4, <1>5, <1>6, <2>5, TwoFrames DEF Begins
  <2>6. CASE j = 4
    BY <1>4, <1>5, <1>6, <2>6, TwoFrames DEF Begins
  <2> QED
    BY <2>1, <2>2, <2>3, <2>4, <2>5, <2>6
<1>7. 5 \in Nat /\ 5 >= 4 /\ 5 - 1 = 4
  OBVIOUS
<1> QED
  BY <1>3, <1>6, <1>7, ClearBy

(* A frame with a byte more.                                               *)
LEMMA InsertedClear ==
  ASSUME NEW c \in Control, NEW k \in Control, c # k,
         NEW i \in 1 .. 5, NEW b, NEW w,
         w = With(<<FLAG, A(c), c, Xor(A(c), c), FLAG>>, i, b)
  PROVE  Clear(w, A(k), k)
<1> DEFINE f == <<FLAG, A(c), c, Xor(A(c), c), FLAG>>
<1>1. Len(f) = 5 /\ f[1] = FLAG /\ f[2] = A(c) /\ f[3] = c /\ f[4] = Xor(A(c), c) /\ f[5] = FLAG
  OBVIOUS
<1>2. w = [j \in 1 .. 6 |-> IF j < i THEN f[j] ELSE IF j = i THEN b ELSE f[j - 1]]
  BY DEF With
<1> HIDE DEF f
<1>3. Len(w) = 6
  BY <1>2
<1>4. /\ w[1] = IF i > 1 THEN FLAG ELSE b
      /\ w[2] = IF i > 2 THEN A(c) ELSE IF i = 2 THEN b ELSE FLAG
      /\ w[3] = IF i > 3 THEN c ELSE IF i = 3 THEN b ELSE A(c)
      /\ w[4] = IF i > 4 THEN Xor(A(c), c) ELSE IF i = 4 THEN b ELSE c
      /\ w[5] = IF i = 5 THEN b ELSE Xor(A(c), c)
      /\ w[6] = FLAG
  BY <1>1, <1>2
<1>5. i = 1 \/ i = 2 \/ i = 3 \/ i = 4 \/ i = 5
  OBVIOUS
<1>6. ASSUME NEW j \in 0 .. 5, j = 0 \/ w[j] = FLAG PROVE ~Begins(w, 6, j, A(k), k)
  <2>1. j = 0 \/ j = 1 \/ j = 2 \/ j = 3 \/ j = 4 \/ j = 5
    OBVIOUS
  <2>2. CASE j = 0
    BY <1>4, <1>5, <1>6, <2>2, TwoFrames DEF Begins
  <2>3. CASE j = 1
    BY <1>4, <1>5, <1>6, <2>3, TwoFrames DEF Begins
  <2>4. CASE j = 2
    BY <1>4, <1>5, <1>6, <2>4, TwoFrames DEF Begins
  <2>5. CASE j = 3
    BY <1>4, <1>5, <1>6, <2>5, TwoFrames DEF Begins
  <2>6. CASE j = 4
    BY <1>4, <1>5, <1>6, <2>6, TwoFrames DEF Begins
  <2>7. CASE j = 5
    BY <1>4, <1>5, <1>6, <2>7, TwoFrames DEF Begins
  <2> QED
    BY <2>1, <2>2, <2>3, <2>4, <2>5, <2>6, <2>7
<1>7. 6 \in Nat /\ 6 >= 4 /\ 6 - 1 = 5
  OBVIOUS
<1> QED
  BY <1>3, <1>6, <1>7, ClearBy

(* What reaches the other side holds no frame with another control byte.   *)
LEMMA WrittenClear ==
  ASSUME NEW c \in Control, NEW k \in Control, c # k,
         NEW f, f = SupervisionFrame(Writer(caller), c),
         NEW w \in Spoilt(f, NoiseBytes) \cup {f}
  PROVE  Clear(w, A(k), k)
<1>1. f = <<FLAG, A(c), c, Xor(A(c), c), FLAG>> /\ DOMAIN f = 1 .. 5
  BY FrameOf
<1>2. \/ w = f
      \/ \E i \in 1 .. 5 : w = Without(f, i)
      \/ \E i \in 1 .. 5, b \in NoiseBytes : w = [f EXCEPT ![i] = b]
      \/ \E i \in 1 .. 5, b \in NoiseBytes : w = With(f, i, b)
  BY <1>1 DEF Spoilt
<1>3. CASE w = f
  BY <1>1, <1>3, WholeClear
<1>4. CASE \E i \in 1 .. 5 : w = Without(f, i)
  BY <1>1, <1>4, LostClear
<1>5. CASE \E i \in 1 .. 5, b \in NoiseBytes : w = [f EXCEPT ![i] = b]
  BY <1>1, <1>5, ChangedClear
<1>6. CASE \E i \in 1 .. 5, b \in NoiseBytes : w = With(f, i, b)
  BY <1>1, <1>6, InsertedClear
<1> QED
  BY <1>2, <1>3, <1>4, <1>5, <1>6

(* A byte read leaves the rest of the wire one place further on.           *)
LEMMA Shift ==
  ASSUME NEW w \in Seq(Byte), w # <<>>, NEW t, t = Tail(w), NEW a, NEW k
  PROVE  /\ t \in Seq(Byte) /\ Len(w) \in Nat /\ Len(w) > 0 /\ Len(t) = Len(w) - 1
         /\ \A i \in 1 .. Len(t) : t[i] = w[i + 1]
         /\ \A i \in 0 .. Len(t) :
              /\ CutBcc(t, i) => CutBcc(w, i + 1)
              /\ CutC(t, i, a, k) => CutC(w, i + 1, a, k)
              /\ CutA(t, i, a, k) => CutA(w, i + 1, a, k)
              /\ DoneBcc(t, i) => DoneBcc(w, i + 1)
              /\ DoneC(t, i, a, k) => DoneC(w, i + 1, a, k)
              /\ DoneA(t, i, a, k) => DoneA(w, i + 1, a, k)
              /\ NoneAt(w, i + 1, a, k) => NoneAt(t, i, a, k)
<1>1. PICK n \in Nat : n = Len(w) /\ n > 0
  OBVIOUS
<1>2. t \in Seq(Byte) /\ Len(t) = n - 1 /\ \A i \in 1 .. n - 1 : t[i] = w[i + 1]
  <2>1. /\ Tail(w) \in Seq(Byte) /\ Len(Tail(w)) = Len(w) - 1
        /\ \A i \in 1 .. Len(Tail(w)) : Tail(w)[i] = w[i + 1]
    BY HeadTailProperties
  <2>2. Len(Tail(w)) = n - 1
    BY <1>1, <2>1
  <2>3. \A i \in 1 .. n - 1 : Tail(w)[i] = w[i + 1]
    BY <2>1, <2>2, Zenon
  <2> QED
    BY <2>1, <2>2, <2>3
<1>3. ASSUME NEW i \in 0 .. n - 1 PROVE CutBcc(t, i) => CutBcc(w, i + 1)
  BY <1>1, <1>2 DEF CutBcc
<1>4. ASSUME NEW i \in 0 .. n - 1 PROVE CutC(t, i, a, k) => CutC(w, i + 1, a, k)
  BY <1>1, <1>2 DEF CutC, CutBcc
<1>5. ASSUME NEW i \in 0 .. n - 1 PROVE CutA(t, i, a, k) => CutA(w, i + 1, a, k)
  BY <1>1, <1>2 DEF CutA, CutC, CutBcc
<1>6. ASSUME NEW i \in 0 .. n - 1 PROVE CutFlag(t, i, a, k) => CutFlag(w, i + 1, a, k)
  BY <1>1, <1>2 DEF CutFlag, CutA, CutC, CutBcc
<1>7. ASSUME NEW i \in 0 .. n - 1 PROVE DoneBcc(t, i) => DoneBcc(w, i + 1)
  BY <1>1, <1>2 DEF DoneBcc
<1>8. ASSUME NEW i \in 0 .. n - 1 PROVE DoneC(t, i, a, k) => DoneC(w, i + 1, a, k)
  BY <1>1, <1>2 DEF DoneC, DoneBcc
<1>9. ASSUME NEW i \in 0 .. n - 1 PROVE DoneA(t, i, a, k) => DoneA(w, i + 1, a, k)
  BY <1>1, <1>2 DEF DoneA, DoneC, DoneBcc
<1>10. ASSUME NEW i \in 0 .. n - 1 PROVE DoneFlag(t, i, a, k) => DoneFlag(w, i + 1, a, k)
  BY <1>1, <1>2 DEF DoneFlag, DoneA, DoneC, DoneBcc
<1> QED
  BY <1>1, <1>2, <1>3, <1>4, <1>5, <1>6, <1>7, <1>8, <1>9, <1>10 DEF NoneAt

(* What a machine waits for after a byte it waited for before, unless the  *)
(* byte is a flag, with which it begins again.                             *)
LEMMA Advance ==
  ASSUME NEW w \in Seq(Byte), w # <<>>, NEW st \in States, NEW a, NEW k, NEW u,
         a # FLAG, k # FLAG, Xor(a, k) # FLAG,
         u = interpretSignal(st, a, k, Head(w)),
         w[1] = FLAG => NoneAt(w, 1, a, k)
  PROVE  /\ Cut(u, Tail(w), 0, a, k) => Cut(st, w, 0, a, k)
         /\ Done(u, Tail(w), 0, a, k) => Done(st, w, 0, a, k)
         /\ u = "FINAL" => Done(st, w, 0, a, k)
<1>1. PICK t : t = Tail(w)
  OBVIOUS
<1>2. /\ Len(w) \in Nat /\ Len(w) > 0 /\ Len(t) \in Nat /\ Head(w) = w[1]
      /\ CutBcc(t, 0) => CutBcc(w, 1)
      /\ CutC(t, 0, a, k) => CutC(w, 1, a, k)
      /\ CutA(t, 0, a, k) => CutA(w, 1, a, k)
      /\ DoneBcc(t, 0) => DoneBcc(w, 1)
      /\ DoneC(t, 0, a, k) => DoneC(w, 1, a, k)
      /\ DoneA(t, 0, a, k) => DoneA(w, 1, a, k)
      /\ NoneAt(w, 1, a, k) => NoneAt(t, 0, a, k)
  <2>1. 0 \in 0 .. Len(t) /\ 0 + 1 = 1
    BY <1>1, Shift
  <2>2. /\ Len(w) \in Nat /\ Len(w) > 0 /\ Len(t) \in Nat
    BY <1>1, Shift
  <2>3. /\ CutBcc(t, 0) => CutBcc(w, 0 + 1)
        /\ CutC(t, 0, a, k) => CutC(w, 0 + 1, a, k)
        /\ CutA(t, 0, a, k) => CutA(w, 0 + 1, a, k)
        /\ DoneBcc(t, 0) => DoneBcc(w, 0 + 1)
        /\ DoneC(t, 0, a, k) => DoneC(w, 0 + 1, a, k)
        /\ DoneA(t, 0, a, k) => DoneA(w, 0 + 1, a, k)
        /\ NoneAt(w, 0 + 1, a, k) => NoneAt(t, 0, a, k)
    BY <1>1, <2>1, Shift
  <2>4. Head(w) = w[1]
    BY HeadTailProperties
  <2> QED
    BY <2>1, <2>2, <2>3, <2>4
<1>3. u \in {"START", "FLAG", "A", "C", "BCC", "FINAL"}
  BY DEF interpretSignal
<1>4. CASE u = "START"
  BY <1>1, <1>4 DEF Cut, Done
<1>5. CASE u = "FLAG"
  <2>1. w[1] = FLAG
    BY <1>2, <1>5, Signal
  <2>2. NoneAt(t, 0, a, k)
    BY <1>2, <2>1
  <2> QED
    BY <1>1, <1>5, <2>2 DEF NoneAt, Cut, Done
<1>6. CASE u = "A"
  <2>1. st = "FLAG" /\ w[1] = a
    BY <1>2, <1>6 DEF interpretSignal, States
  <2>2. CutA(t, 0, a, k) => CutFlag(w, 0, a, k)
    BY <1>2, <2>1 DEF CutFlag
  <2>3. DoneA(t, 0, a, k) => DoneFlag(w, 0, a, k)
    BY <1>2, <2>1 DEF DoneFlag
  <2> QED
    BY <1>1, <1>6, <2>1, <2>2, <2>3 DEF Cut, Done
<1>7. CASE u = "C"
  <2>1. st = "A" /\ w[1] = k
    BY <1>2, <1>7 DEF interpretSignal, States
  <2>2. CutC(t, 0, a, k) => CutA(w, 0, a, k)
    BY <1>2, <2>1 DEF CutA
  <2>3. DoneC(t, 0, a, k) => DoneA(w, 0, a, k)
    BY <1>2, <2>1 DEF DoneA
  <2> QED
    BY <1>1, <1>7, <2>1, <2>2, <2>3 DEF Cut, Done
<1>8. CASE u = "BCC"
  <2>1. st = "C" /\ w[1] = Xor(a, k)
    BY <1>2, <1>8 DEF interpretSignal, States
  <2>2. CutBcc(t, 0) => CutC(w, 0, a, k)
    BY <1>2, <2>1 DEF CutC
  <2>3. DoneBcc(t, 0) => DoneC(w, 0, a, k)
    BY <1>2, <2>1 DEF DoneC
  <2> QED
    BY <1>1, <1>8, <2>1, <2>2, <2>3 DEF Cut, Done
<1>9. CASE u = "FINAL"
  <2>1. st = "BCC" /\ w[1] = FLAG
    BY <1>2, <1>9 DEF interpretSignal, States
  <2>2. DoneBcc(w, 0)
    BY <1>2, <2>1 DEF DoneBcc
  <2> QED
    BY <1>1, <1>9, <2>1, <2>2 DEF Cut, Done
<1> QED
  BY <1>3, <1>4, <1>5, <1>6, <1>7, <1>8, <1>9

(* A byte read.                                                            *)
LEMMA ApartRead ==
  ASSUME TypeOK, FedInv, ApartInv, ReadByte
  PROVE  ApartInv'
<1>1. /\ wire \in Seq(Byte) /\ wire # <<>> /\ wire' = Tail(wire) /\ Feed(Head(wire))
      /\ caller' = caller /\ control' = control /\ before' = before
      /\ byte' = Head(wire)
      /\ heard' = heard \cup {k \in Awaited(caller) : state'[k] = "FINAL"}
  BY DEF TypeOK, ReadByte, Feed
<1>2. \A k : A(k)' = A(k)
  BY <1>1 DEF A
<1>3. /\ Len(wire) \in Nat /\ Len(wire) > 0 /\ Len(wire') = Len(wire) - 1 /\ Head(wire) = wire[1]
      /\ \A i \in 1 .. Len(wire') : wire'[i] = wire[i + 1]
      /\ \A a, k : \A i \in 0 .. Len(wire') :
           NoneAt(wire, i + 1, a, k) => NoneAt(wire', i, a, k)
  <2>1. Len(wire) \in Nat /\ Len(wire) > 0 /\ Len(wire') = Len(wire) - 1
        /\ \A i \in 1 .. Len(wire') : wire'[i] = wire[i + 1]
    BY <1>1, Shift
  <2>2. \A a, k : \A i \in 0 .. Len(wire') :
          NoneAt(wire, i + 1, a, k) => NoneAt(wire', i, a, k)
    BY <1>1, Shift
  <2>3. Head(wire) = wire[1]
    BY <1>1, HeadTailProperties
  <2> QED
    BY <2>1, <2>2, <2>3
<1>4. ASSUME NEW k \in Awaited(caller) \ {control}
      PROVE  /\ Cut(state'[k], wire', 0, A(k), k) => Cut(state[k], wire, 0, A(k), k)
             /\ Done(state'[k], wire', 0, A(k), k) => Done(state[k], wire, 0, A(k), k)
             /\ state'[k] = "FINAL" => Done(state[k], wire, 0, A(k), k)
  <2>1. state[k] \in States /\ state'[k] = interpretSignal(state[k], A(k), k, Head(wire))
    BY <1>1 DEF FedInv, Feed, Interpreted, A
  <2>2. A(k) # FLAG /\ k # FLAG /\ Xor(A(k), k) # FLAG
    BY AwaitedControl, SupervisionBytes DEF A
  <2>3. wire[1] = FLAG => NoneAt(wire, 1, A(k), k)
    <3>1. 1 \in 1 .. Len(wire)
      BY <1>3
    <3> QED
      BY <3>1 DEF ApartInv, Ahead
  <2> QED
    BY <1>1, <2>1, <2>2, <2>3, Advance
<1>5. ASSUME NEW k \in Awaited(caller) \ {control}, NEW i \in 1 .. Len(wire'), wire'[i] = FLAG
      PROVE  NoneAt(wire', i, A(k), k)
  <2>1. i + 1 \in 1 .. Len(wire) /\ wire[i + 1] = FLAG /\ i \in 0 .. Len(wire')
    BY <1>3, <1>5
  <2>2. NoneAt(wire, i + 1, A(k), k)
    BY <2>1 DEF ApartInv, Ahead
  <2> QED
    BY <1>3, <2>1, <2>2
<1>6. ASSUME NEW k \in Awaited(caller) \ {control}, byte' = FLAG
      PROVE  NoneAt(wire', 0, A(k), k)
  <2>1. 1 \in 1 .. Len(wire) /\ wire[1] = FLAG /\ 0 \in 0 .. Len(wire') /\ 0 + 1 = 1
    BY <1>1, <1>3, <1>6
  <2>2. NoneAt(wire, 0 + 1, A(k), k)
    BY <2>1 DEF ApartInv, Ahead
  <2> QED
    BY <1>3, <2>1, <2>2
<1>7. heard' \subseteq {control, before}
  <2>1. \A k \in Awaited(caller) \ {control, before} : state'[k] # "FINAL"
    BY <1>4 DEF ApartInv
  <2> QED
    BY <1>1, <2>1 DEF ApartInv
<1>8. \A k \in Awaited(caller) \ {control} : Ahead(k)'
  BY <1>2, <1>5 DEF Ahead
<1>9. \A k \in Awaited(caller) \ {control} : ~Cut(state'[k], wire', 0, A(k)', k)
  BY <1>2, <1>4 DEF ApartInv
<1>10. \A k \in Awaited(caller) \ {control, before} : ~Done(state'[k], wire', 0, A(k)', k)
  BY <1>2, <1>4 DEF ApartInv
<1>11. \A k \in Awaited(caller) \ {control} : byte' = FLAG => NoneAt(wire', 0, A(k)', k)
  BY <1>2, <1>6
<1> QED
  BY <1>1, <1>7, <1>8, <1>9, <1>10, <1>11 DEF ApartInv

(* What a machine does with the byte a pause feeds: it starts over, but a  *)
(* flag may be fed again and a zero may stand for the check byte.          *)
LEMMA Paused ==
  ASSUME TypeOK, FedInv, ByteInv, ReadTimeout, NEW k \in Awaited(caller)
  PROVE  \/ state'[k] = "START"
         \/ state'[k] = "FLAG" /\ (state[k] = "FLAG" \/ (caller = "llwrite" /\ byte = FLAG))
         \/ state'[k] = "BCC" /\ state[k] = "C" /\ Xor(A(k), k) = Zero
<1> DEFINE s == IF caller = "llwrite" THEN byte ELSE Zero
<1>1. Feed(s) /\ state[k] \in States /\ state[k] # "FINAL"
      /\ state'[k] = interpretSignal(state[k], A(k), k, s)
  BY DEF ReadTimeout, Feed, Interpreted, A, Final, FedInv
<1>2. /\ A(k) # FLAG /\ A(k) # Zero /\ k # FLAG /\ k # Zero /\ FLAG # Zero
      /\ Xor(A(k), k) # FLAG
  BY AwaitedControl, SupervisionBytes DEF A
<1>3. CASE caller # "llwrite"
  <2>1. s = Zero
    BY <1>3
  <2> HIDE DEF s
  <2> QED
    BY <1>1, <1>2, <2>1 DEF interpretSignal, States
<1>4. CASE caller = "llwrite"
  <2>1. s = byte /\ (state[k] # "START" => s = last[1])
    BY <1>4 DEF ByteInv
  <2>2. k # A(k) /\ k # Xor(A(k), k)
    <3>1. k \in {RR1, REJ1} /\ A(k) \in {AE, AR} /\ 0 \notin Xor(A(k), k)
      BY <1>4, AwaitedControl, SupervisionBytes DEF Awaited, A, expectedAbyte
    <3>2. 7 \in RR1 /\ 7 \in REJ1 /\ 7 \notin AE /\ 7 \notin AR /\ 0 \in RR1 /\ 0 \in REJ1
      BY DEF RR1, REJ1, AE, AR
    <3> QED
      BY <3>1, <3>2
  <2>3. Fed(state[k], A(k), k, last)
    BY DEF FedInv
  <2>4. /\ state[k] = "FLAG" => s = FLAG
        /\ state[k] = "A" => s = A(k)
        /\ state[k] = "C" => s = k
        /\ state[k] = "BCC" => s = Xor(A(k), k)
    BY <2>1, <2>3 DEF Fed
  <2> HIDE DEF s
  <2>5. CASE state[k] = "START"
    BY <1>1, <1>4, <2>1, <2>5 DEF interpretSignal
  <2>6. CASE state[k] = "FLAG"
    BY <1>1, <1>2, <2>4, <2>6 DEF interpretSignal
  <2>7. CASE state[k] = "A"
    BY <1>1, <1>2, <2>2, <2>4, <2>7 DEF interpretSignal
  <2>8. CASE state[k] = "C"
    BY <1>1, <1>2, <2>2, <2>4, <2>8 DEF interpretSignal
  <2>9. CASE state[k] = "BCC"
    BY <1>1, <1>2, <2>4, <2>9 DEF interpretSignal
  <2> QED
    BY <1>1, <2>5, <2>6, <2>7, <2>8, <2>9 DEF States
<1> QED
  BY <1>3, <1>4

(* A read that timed out.                                                  *)
LEMMA ApartTimeout ==
  ASSUME TypeOK, FedInv, ByteInv, ApartInv, ReadTimeout
  PROVE  ApartInv'
<1>1. /\ wire' = wire /\ caller' = caller /\ control' = control /\ before' = before
      /\ caller = "llwrite" => byte' = byte
      /\ heard' = heard \cup {k \in Awaited(caller) : state'[k] = "FINAL"}
      /\ wire \in Seq(Byte)
  BY DEF ReadTimeout, Feed, TypeOK
<1>2. \A k : A(k)' = A(k)
  BY <1>1 DEF A
<1>3. ASSUME NEW k \in Awaited(caller) \ {control}
      PROVE  /\ ~Cut(state'[k], wire, 0, A(k), k)
             /\ ~Done(state[k], wire, 0, A(k), k) => ~Done(state'[k], wire, 0, A(k), k)
  <2>1. ~Cut(state[k], wire, 0, A(k), k)
    BY DEF ApartInv
  <2>2. CASE state'[k] = "START"
    BY <2>2 DEF Cut, Done
  <2>3. CASE state'[k] = "FLAG" /\ state[k] = "FLAG"
    BY <2>1, <2>3
  <2>4. CASE state'[k] = "FLAG" /\ caller = "llwrite" /\ byte = FLAG
    <3>1. NoneAt(wire, 0, A(k), k)
      BY <2>4 DEF ApartInv
    <3> QED
      BY <2>4, <3>1 DEF NoneAt, Cut, Done
  <2>5. CASE state'[k] = "BCC" /\ state[k] = "C" /\ Xor(A(k), k) = Zero
    <3>1. CutBcc(wire, 0) => CutC(wire, 0, A(k), k)
      BY DEF CutBcc, CutC
    <3>2. DoneBcc(wire, 0) => DoneC(wire, 0, A(k), k)
      BY <2>5 DEF DoneC
    <3> QED
      BY <2>1, <2>5, <3>1, <3>2 DEF Cut, Done
  <2> QED
    BY <2>2, <2>3, <2>4, <2>5, Paused
<1>4. heard' = heard
  <2>1. \A k \in Awaited(caller) : state'[k] # "FINAL"
    BY Paused
  <2> QED
    BY <1>1, <2>1
<1>5. \A k : Ahead(k)' <=> Ahead(k)
  BY <1>1, <1>2 DEF Ahead
<1>6. \A k \in Awaited(caller) \ {control} : ~Cut(state'[k], wire', 0, A(k)', k)
  BY <1>1, <1>2, <1>3
<1>7. \A k \in Awaited(caller) \ {control, before} : ~Done(state'[k], wire', 0, A(k)', k)
  BY <1>1, <1>2, <1>3 DEF ApartInv
<1>8. \A k \in Awaited(caller) \ {control} :
        caller = "llwrite" /\ byte' = FLAG => NoneAt(wire', 0, A(k)', k)
  BY <1>1, <1>2 DEF ApartInv
<1> QED
  BY <1>1, <1>4, <1>5, <1>6, <1>7, <1>8 DEF ApartInv

(* Any frame that holds no other.                                          *)
LEMMA ApartPut ==
  ASSUME TypeOK, FedInv, ApartInv, NEW f \in Seq(Byte), NEW c, PutOnWire(f, c),
         \A w \in Spoilt(f, NoiseBytes) \cup {f}, k \in Awaited(caller) \ {c} :
           Clear(w, A(k), k)
  PROVE  ApartInv'
<1>1. /\ wire = <<>> /\ caller' = caller /\ state' = state /\ byte' = byte /\ heard' = {}
      /\ control' = c /\ before' = control /\ wire' \in Spoilt(f, NoiseBytes) \cup {f}
  BY DEF PutOnWire
<1>2. wire' \in Seq(Byte)
  BY <1>1, SpoiltBytes
<1>3. \A k : A(k)' = A(k)
  BY <1>1 DEF A
<1>4. ASSUME NEW k \in Awaited(caller) \ {c}
      PROVE  /\ Len(wire') >= 4 /\ NoneAt(wire', 0, A(k), k)
             /\ \A i \in 1 .. Len(wire') : wire'[i] = FLAG => NoneAt(wire', i, A(k), k)
  BY <1>1, <1>2, ClearNone
<1>5. ASSUME NEW k \in Awaited(caller) \ {c}
      PROVE  ~Cut(state[k], wire', 0, A(k), k)
  <2>1. PICK n \in Nat : n = Len(wire') /\ n >= 4
    BY <1>2, <1>4
  <2>2. ~CutBcc(wire', 0) /\ ~CutC(wire', 0, A(k), k) /\ ~CutA(wire', 0, A(k), k)
    BY <2>1 DEF CutBcc, CutC, CutA
  <2>3. ~CutFlag(wire', 0, A(k), k)
    BY <1>4 DEF NoneAt
  <2> QED
    BY <2>2, <2>3 DEF Cut
<1>6. ASSUME NEW k \in Awaited(caller) \ {c, control}
      PROVE  ~Done(state[k], wire', 0, A(k), k)
  <2>1. ~Cut(state[k], wire, 0, A(k), k)
    BY DEF ApartInv
  <2>2. Len(wire) = 0
    BY <1>1
  <2>3. state[k] # "A" /\ state[k] # "C" /\ state[k] # "BCC"
    BY <2>1, <2>2 DEF Cut, CutA, CutC, CutBcc
  <2>4. ~DoneFlag(wire', 0, A(k), k)
    BY <1>4 DEF NoneAt
  <2> QED
    BY <2>3, <2>4 DEF Done
<1>7. \A k \in Awaited(caller) \ {c} : Ahead(k)'
  BY <1>3, <1>4 DEF Ahead
<1>8. \A k \in Awaited(caller) \ {c} : ~Cut(state'[k], wire', 0, A(k)', k)
  BY <1>1, <1>3, <1>5
<1>9. \A k \in Awaited(caller) \ {c, control} : ~Done(state'[k], wire', 0, A(k)', k)
  BY <1>1, <1>3, <1>6
<1>10. \A k \in Awaited(caller) \ {c} : NoneAt(wire', 0, A(k)', k)
  BY <1>3, <1>4
<1> QED
  BY <1>1, <1>7, <1>8, <1>9, <1>10 DEF ApartInv

(* Machines that start over wait for nothing yet.                          *)
LEMMA ApartFresh ==
  ASSUME ApartInv, state' = Fresh, UNCHANGED <<caller, wire, control, before, heard>>,
         byte' = FLAG => byte = FLAG
  PROVE  ApartInv'
<1>1. \A k : A(k)' = A(k) /\ (Ahead(k)' <=> Ahead(k))
  BY DEF A, Ahead
<1>2. \A k \in Awaited(caller) : state'[k] = "START"
  BY DEF Fresh
<1>3. \A k \in Awaited(caller) :
        ~Cut(state'[k], wire', 0, A(k)', k) /\ ~Done(state'[k], wire', 0, A(k)', k)
  BY <1>2 DEF Cut, Done
<1>4. \A k \in Awaited(caller) \ {control} :
        caller = "llwrite" /\ byte' = FLAG => NoneAt(wire', 0, A(k)', k)
  BY <1>1 DEF ApartInv
<1> QED
  BY <1>1, <1>3, <1>4 DEF ApartInv

LEMMA ApartInit ==
  ASSUME Init
  PROVE  ApartInv
<1>1. wire = <<>> /\ heard = {} /\ \A k \in Awaited(caller) : state[k] = "START"
  BY DEF Init, Fresh
<1>2. Len(wire) = 0
  BY <1>1
<1>3. \A k : Ahead(k) /\ NoneAt(wire, 0, A(k), k)
  BY <1>2 DEF Ahead, NoneAt, CutFlag, DoneFlag
<1>4. \A k \in Awaited(caller) :
        ~Cut(state[k], wire, 0, A(k), k) /\ ~Done(state[k], wire, 0, A(k), k)
  BY <1>1 DEF Cut, Done
<1> QED
  BY <1>1, <1>3, <1>4 DEF ApartInv

LEMMA ApartStep ==
  ASSUME TypeOK, FedInv, ByteInv, ApartInv, [Next]_supVars,
         \A f \in OtherFrames : Harmless(f)
  PROVE  ApartInv'
<1>1. CASE \E k \in Writes(Writer(caller)) : WriteSupervision(k)
  <2>1. PICK c \in Control : PutOnWire(SupervisionFrame(Writer(caller), c), c)
    BY <1>1, WritesControl DEF WriteSupervision
  <2>2. PICK f \in Seq(Byte) : f = SupervisionFrame(Writer(caller), c)
    BY FrameOf
  <2>3. \A w \in Spoilt(f, NoiseBytes) \cup {f}, k \in Awaited(caller) \ {c} : Clear(w, A(k), k)
    BY <2>2, AwaitedControl, WrittenClear
  <2> QED
    BY <2>1, <2>2, <2>3, ApartPut
<1>2. CASE \E f \in OtherFrames : WriteOther(f)
  <2>1. PICK f \in OtherFrames : PutOnWire(f, CI) /\ Writer(caller) = "transmitter"
    BY <1>2 DEF WriteOther
  <2>2. f \in Seq(Byte) /\ Reader(caller) = "receiver"
    BY <2>1, SupervisionAssumption DEF Writer, Reader
  <2>3. \A w \in Spoilt(f, NoiseBytes) \cup {f}, k \in Awaited(caller) \ {CI} : Clear(w, A(k), k)
    BY <2>2, AwaitedControl DEF Harmless, A
  <2> QED
    BY <2>1, <2>2, <2>3, ApartPut
<1>3. CASE ReadByte
  BY <1>3, ApartRead
<1>4. CASE ReadTimeout
  BY <1>4, ApartTimeout
<1>5. CASE NextFrame
  <2>1. PICK k \in Awaited(caller) : state[k] = "FINAL"
    BY <1>5 DEF NextFrame, Final
  <2>2. byte = FLAG
    BY <2>1 DEF ByteInv, FedInv, Fed
  <2> QED
    BY <1>5, <2>2, ApartFresh DEF NextFrame
<1>6. CASE Resend
  BY <1>6, ApartFresh DEF Resend
<1>7. CASE UNCHANGED supVars
  <2>1. /\ caller' = caller /\ wire' = wire /\ control' = control /\ before' = before
        /\ state' = state /\ byte' = byte /\ heard' = heard
    BY <1>7 DEF supVars
  <2>2. \A k : A(k)' = A(k) /\ (Ahead(k)' <=> Ahead(k))
    BY <2>1 DEF A, Ahead
  <2> QED
    BY <2>1, <2>2 DEF ApartInv
<1> QED
  BY <1>1, <1>2, <1>3, <1>4, <1>5, <1>6, <1>7 DEF Next

(* No supervision frame is taken for another, whatever one wrong byte in   *)
(* each frame and pauses between any two bytes do; the information frames  *)
(* that reach a waiting receiver must not hold such a frame themselves.    *)
THEOREM NoneInvented ==
  ASSUME \A f \in OtherFrames : Harmless(f)
  PROVE  Spec => []NothingInvented
<1>1. Init => IInv /\ ApartInv
  BY InitStep, ApartInit
<1>2. IInv /\ ApartInv /\ [Next]_supVars => (IInv /\ ApartInv)'
  BY NextStep, ApartStep DEF IInv
<1>3. ApartInv => NothingInvented
  BY DEF ApartInv, NothingInvented
<1> QED
  BY <1>1, <1>2, <1>3, PTL DEF Spec

=============================================================================
