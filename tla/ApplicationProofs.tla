-------------------------- MODULE ApplicationProofs --------------------------
(***************************************************************************)
(* Proofs about Application, for every set of worlds, every size of bytes, *)
(* ints and frames: a program that changed the serial port puts it back    *)
(* (PortKept); the bytes stand in one row (RowsInv); and the output file   *)
(* grows only by the bytes that come next in the input (FileCopied).       *)
(***************************************************************************)
EXTENDS Application, SequenceTheorems, TLAPS

-----------------------------------------------------------------------------
(* The stages and the ports of the two programs.                           *)

PortStep ==
  /\ \A p \in Program :
       stage[p] \notin {"started", "opened"} /\ stage'[p] = "ended" /\ stage[p] # "ended"
         => port'[p] \in {"found", "gone"}
  /\ port["tx"] = "gone" => port'["tx"] = "gone"
  /\ stage'["tx"] \in Early => stage["tx"] \in Early
  /\ stage'["tx"] = "transfer" => stage["tx"] \in {"connecting", "transfer"}
  /\ UNCHANGED world

Ports == ProgramTypeOK /\ PortInv

LEMMA GoesOn ==
  ASSUME Ports, NEW p \in Program, NEW from, NEW to \in Stage, Goes(p, from, to)
  PROVE  /\ stage' \in [Program -> Stage]
         /\ stage[p] = from /\ stage'[p] = to
         /\ \A q \in Program : q # p => stage'[q] = stage[q]
BY DEF Ports, ProgramTypeOK, Goes

LEMMA ResetPort ==
  ASSUME Ports, NEW p \in Program, Reset(p)
  PROVE  /\ port' \in [Program -> {"found", "raw", "garbage", "gone"}]
         /\ port'[p] \in {"found", "gone"}
         /\ port[p] = "gone" => port'[p] = "gone"
         /\ port[p] = "found" => port'[p] = "found"
         /\ \A q \in Program : q # p => port'[q] = port[q]
BY DEF Ports, ProgramTypeOK, Reset

(* A step of the program p alone: what it needs for Ports and PortStep.    *)
LEMMA OneProgram ==
  ASSUME Ports, NEW p \in Program, UNCHANGED world,
         stage' \in [Program -> Stage],
         port' \in [Program -> {"found", "raw", "garbage", "gone"}],
         \A q \in Program : q # p => stage'[q] = stage[q] /\ port'[q] = port[q],
         stage'[p] \in {"started", "opened", "saved", "asked"} => port'[p] = "found",
         stage[p] \notin {"started", "opened"} /\ stage'[p] = "ended" /\ stage[p] # "ended"
           => port'[p] \in {"found", "gone"},
         port[p] = "gone" => port'[p] = "gone",
         stage'[p] \in Early => stage[p] \in Early,
         stage'[p] = "transfer" => stage[p] \in {"connecting", "transfer"}
  PROVE  Ports' /\ PortStep
<1>1. ProgramTypeOK'
  BY DEF Ports, ProgramTypeOK
<1>2. PortInv'
  BY DEF Ports, PortInv
<1>3. PortStep
  <2>1. \A q \in Program :
          stage[q] \notin {"started", "opened"} /\ stage'[q] = "ended" /\ stage[q] # "ended"
            => port'[q] \in {"found", "gone"}
    OBVIOUS
  <2>2. /\ port["tx"] = "gone" => port'["tx"] = "gone"
        /\ stage'["tx"] \in Early => stage["tx"] \in Early
        /\ stage'["tx"] = "transfer" => stage["tx"] \in {"connecting", "transfer"}
    BY DEF Program
  <2> QED
    BY <2>1, <2>2 DEF PortStep
<1> QED
  BY <1>1, <1>2, <1>3 DEF Ports

(* A program that goes on without touching its port.                       *)
LEMMA PortUntouched ==
  ASSUME Ports, NEW p \in Program, NEW from, NEW to \in Stage, Goes(p, from, to),
         UNCHANGED <<world, port>>,
         to \in {"started", "opened", "saved", "asked"} => port[p] = "found",
         to = "ended" => from = "started" \/ from = "opened" \/ port[p] \in {"found", "gone"},
         to \in Early => from \in Early,
         to = "transfer" => from = "connecting"
  PROVE  Ports' /\ PortStep
<1>1. port' \in [Program -> {"found", "raw", "garbage", "gone"}]
  BY DEF Ports, ProgramTypeOK
<1> QED
  BY GoesOn, OneProgram, <1>1 DEF Early

LEMMA ProgramMoves ==
  ASSUME Ports, NEW p \in Program, ProgramStep(p)
  PROVE  Ports' /\ PortStep
<1>0. stage[p] \in {"started", "opened", "saved", "asked"} => port[p] = "found"
  BY DEF Ports, PortInv
<1>1. ASSUME NEW from, NEW call, NEW to \in {"opened", "saved", "asked"},
             from \in {"started", "opened", "saved"}, Passes(p, from, call, to)
      PROVE  Ports' /\ PortStep
  <2> DEFINE there == IF call \in world.refuses THEN "ended" ELSE to
  <2>1. there \in Stage /\ there # "transfer" /\ Goes(p, from, there) /\ UNCHANGED <<world, port>>
    BY <1>1 DEF Passes, Stage
  <2>2. stage[p] = from
    BY <2>1 DEF Goes
  <2>3. port[p] = "found"
    BY <1>0, <1>1, <2>2
  <2> HIDE DEF there
  <2> QED
    BY <1>1, <2>1, <2>3, PortUntouched DEF Early
<1>2. CASE analyseArgs(p)
  BY <1>1, <1>2 DEF analyseArgs
<1>3. CASE getOldAttributes(p)
  BY <1>1, <1>3 DEF getOldAttributes
<1>4. CASE configureLinkLayer(p)
  <2> DEFINE call == IF p = "tx" THEN "input" ELSE "none"
  <2>1. Passes(p, "saved", call, "asked")
    BY <1>4 DEF configureLinkLayer
  <2> HIDE DEF call
  <2> QED
    BY <1>1, <2>1
<1>5. CASE serialPortSetup(p)
  <2>1. CASE "tcsetattr" \in world.refuses
    <3>1. Goes(p, "asked", "ended") /\ UNCHANGED <<world, port>>
      BY <1>5, <2>1 DEF serialPortSetup
    <3>2. port[p] = "found"
      BY <1>0, <3>1 DEF Goes
    <3> QED
      BY <3>1, <3>2, PortUntouched DEF Stage, Early
  <2>2. CASE "tcsetattr" \notin world.refuses
    <3>1. Goes(p, "asked", "raw") /\ UNCHANGED world /\ port' = [port EXCEPT ![p] = "raw"]
      BY <1>5, <2>2 DEF serialPortSetup
    <3>2. port' \in [Program -> {"found", "raw", "garbage", "gone"}] /\ port[p] = "found"
             /\ \A q \in Program : q # p => port'[q] = port[q]
      BY <1>0, <3>1 DEF Ports, ProgramTypeOK, Goes
    <3>3. /\ stage' \in [Program -> Stage] /\ stage'[p] = "raw"
          /\ \A q \in Program : q # p => stage'[q] = stage[q]
      BY <3>1, GoesOn DEF Stage
    <3> QED
      BY <3>1, <3>2, <3>3, GoesOn, OneProgram DEF Early
  <2> QED
    BY <2>1, <2>2
<1>6. CASE initializeStateMachine(p)
  <2> DEFINE there == IF world.heap = "dirty" THEN "crashed" ELSE "connecting"
  <2>1. /\ Goes(p, "raw", there) /\ UNCHANGED <<world, port>>
        /\ there \in Stage /\ there \in {"crashed", "connecting"}
    BY <1>6 DEF initializeStateMachine, Stage
  <2> HIDE DEF there
  <2> QED
    BY <2>1, PortUntouched DEF Early
<1>7. CASE Restore(p)
  <2>1. Goes(p, "restoring", "ended") /\ Reset(p) /\ UNCHANGED world
    BY <1>7 DEF Restore
  <2>2. /\ stage' \in [Program -> Stage] /\ stage'[p] = "ended"
        /\ \A q \in Program : q # p => stage'[q] = stage[q]
    BY <2>1, GoesOn DEF Stage
  <2> QED
    BY <2>1, <2>2, ResetPort, OneProgram DEF Early
<1> QED
  BY <1>2, <1>3, <1>4, <1>5, <1>6, <1>7 DEF ProgramStep

LEMMA Interrupted ==
  ASSUME Ports, NEW p \in Program, sigint_handler(p)
  PROVE  Ports' /\ PortStep
<1>1. stage' \in [Program -> Stage] /\ stage'[p] \in Over
  BY DEF Ports, ProgramTypeOK, sigint_handler, Stage, Over
<1>2. \A q \in Program : q # p => stage'[q] = stage[q]
  BY DEF Ports, ProgramTypeOK, sigint_handler
<1>3. /\ stage'[p] \notin {"started", "opened", "saved", "asked"} /\ UNCHANGED world
      /\ stage'[p] \notin Early /\ stage'[p] # "transfer"
  BY <1>1 DEF Over, sigint_handler, Early
<1>4. CASE stage[p] = "started"
  <2>1. UNCHANGED port /\ port' \in [Program -> {"found", "raw", "garbage", "gone"}]
    BY <1>4 DEF sigint_handler, Ports, ProgramTypeOK
  <2> QED
    BY <1>1, <1>2, <1>3, <1>4, <2>1, OneProgram DEF Early
<1>5. CASE stage[p] = "opened"
  <2>1. port' = [port EXCEPT ![p] = "garbage"] /\ port[p] = "found"
    BY <1>5 DEF sigint_handler, Ports, PortInv
  <2>2. /\ port' \in [Program -> {"found", "raw", "garbage", "gone"}]
        /\ \A q \in Program : q # p => port'[q] = port[q]
    BY <2>1 DEF Ports, ProgramTypeOK
  <2> QED
    BY <1>1, <1>2, <1>3, <1>5, <2>1, <2>2, OneProgram DEF Early
<1>6. CASE stage[p] \notin {"started", "opened"}
  <2>1. Reset(p)
    BY <1>6 DEF sigint_handler
  <2> QED
    BY <1>1, <1>2, <1>3, <2>1, ResetPort, OneProgram DEF Early
<1> QED
  BY <1>4, <1>5, <1>6

LEMMA PortGone ==
  ASSUME Ports, PortDies
  PROVE  Ports' /\ PortStep
<1>1. /\ port' \in [Program -> {"found", "raw", "garbage", "gone"}]
      /\ port'["tx"] = "gone"
      /\ UNCHANGED <<world, stage>>
      /\ stage["tx"] \in {"transfer", "closing"}
      /\ \A q \in Program : q # "tx" => port'[q] = port[q]
  BY DEF PortDies, Ports, ProgramTypeOK, Program
<1>2. stage' \in [Program -> Stage] /\ "tx" \in Program
  BY <1>1 DEF Ports, ProgramTypeOK, Program
<1> QED
  BY <1>1, <1>2, OneProgram DEF Early

LEMMA NothingMoves ==
  ASSUME Ports, UNCHANGED programVars
  PROVE  Ports' /\ PortStep
BY DEF Ports, PortStep, ProgramTypeOK, PortInv, programVars

LEMMA LinkMoves ==
  ASSUME Ports, LinkStep
  PROVE  Ports' /\ PortStep
<1>0. "tx" \in Program /\ "rx" \in Program
  BY DEF Program
<1>1. CASE txCalls
  BY <1>1, NothingMoves DEF txCalls, Calls
<1>2. CASE llopen
  <2>1. Goes("tx", "connecting", "transfer") /\ UNCHANGED <<world, port>>
    BY <1>2 DEF llopen
  <2> QED
    BY <1>0, <2>1, PortUntouched DEF Stage, Early
<1>3. CASE createConnectionFails
  <2>1. Goes("tx", "connecting", "ended") /\ Reset("tx") /\ UNCHANGED world
    BY <1>3 DEF createConnectionFails
  <2>2. /\ stage' \in [Program -> Stage] /\ stage'["tx"] = "ended"
        /\ \A q \in Program : q # "tx" => stage'[q] = stage[q]
    BY <1>0, <2>1, GoesOn DEF Stage
  <2> QED
    BY <1>0, <2>1, <2>2, ResetPort, OneProgram DEF Early
<1>4. CASE llclose \/ llcloseFails
  <2>1. Goes("tx", "closing", "restoring") /\ UNCHANGED <<world, port>>
    BY <1>4 DEF llclose, llcloseFails
  <2> QED
    BY <1>0, <2>1, PortUntouched DEF Stage, Early
<1>5. CASE rxOpens
  <2>1. Goes("rx", "connecting", "transfer") /\ UNCHANGED <<world, port>>
    BY <1>5 DEF rxOpens, Answers
  <2> QED
    BY <1>0, <2>1, PortUntouched DEF Stage, Early
<1>6. CASE rxDisc
  <2>1. Goes("rx", "closing", "parting") /\ UNCHANGED <<world, port>>
    BY <1>6 DEF rxDisc, Answers
  <2> QED
    BY <1>0, <2>1, PortUntouched DEF Stage, Early
<1>7. CASE rxUa
  <2>1. Goes("rx", "parting", "restoring") /\ UNCHANGED <<world, port>>
    BY <1>7 DEF rxUa
  <2> QED
    BY <1>0, <2>1, PortUntouched DEF Stage, Early
<1> QED
  BY <1>1, <1>2, <1>3, <1>4, <1>5, <1>6, <1>7 DEF LinkStep

LEMMA SendMoves ==
  ASSUME Ports, NEW n, SendStep(n)
  PROVE  Ports' /\ PortStep
<1>1. CASE EndSent
  <2>1. Goes("tx", "transfer", "closing") /\ UNCHANGED <<world, port>>
    BY <1>1 DEF EndSent
  <2> QED
    BY <2>1, PortUntouched DEF Stage, Program, Early
<1>2. CASE SendStart \/ StartSent \/ ReadChunk(n) \/ ReadFails(n) \/ ChunkSent
             \/ ChunkNotSent \/ DataDone \/ SendEnd
  <2>1. UNCHANGED programVars
    BY <1>2 DEF SendStart, StartSent, ReadChunk, ReadFails, ChunkSent, ChunkNotSent, DataDone, SendEnd
  <2> QED
    BY <2>1, NothingMoves
<1> QED
  BY <1>1, <1>2 DEF SendStep

LEMMA ReadMoves ==
  ASSUME Ports, ReadStep
  PROVE  Ports' /\ PortStep
<1>0. "rx" \in Program
  BY DEF Program
<1>1. CASE ReadEnd
  <2>1. Goes("rx", "transfer", "closing") /\ UNCHANGED <<world, port>>
    BY <1>1 DEF ReadEnd
  <2> QED
    BY <1>0, <2>1, PortUntouched DEF Stage, Early
<1>2. CASE ReadNull
  <2>1. Goes("rx", "transfer", "crashed") /\ UNCHANGED <<world, port>>
    BY <1>2 DEF ReadNull
  <2> QED
    BY <1>0, <2>1, PortUntouched DEF Stage, Early
<1>3. CASE ReadStart \/ ReadData \/ ReadCopy \/ ReadNothing
  <2>1. UNCHANGED programVars
    BY <1>3 DEF ReadStart, ReadData, ReadCopy, ReadNothing
  <2> QED
    BY <2>1, NothingMoves
<1> QED
  BY <1>1, <1>2, <1>3 DEF ReadStep

LEMMA PortsKept ==
  ASSUME Ports, [Next]_vars
  PROVE  Ports' /\ PortStep
<1>1. ASSUME NEW p \in Program, Main(p) PROVE Ports' /\ PortStep
  BY <1>1, ProgramMoves DEF Main
<1>2. CASE Link
  BY <1>2, LinkMoves DEF Link
<1>3. CASE Send
  BY <1>3, SendMoves DEF Send
<1>4. CASE Receive
  BY <1>4, NothingMoves DEF Receive
<1>5. CASE Read
  BY <1>5, ReadMoves DEF Read
<1>6. CASE Environment
  BY <1>6, Interrupted, PortGone DEF Environment
<1>7. CASE UNCHANGED vars
  BY <1>7, NothingMoves DEF vars
<1> QED
  BY <1>1, <1>2, <1>3, <1>4, <1>5, <1>6, <1>7 DEF Next

LEMMA PortsInit == Init => Ports
<1> SUFFICES ASSUME Init PROVE Ports
  OBVIOUS
<1>1. ProgramInit
  BY DEF Init
<1> QED
  BY <1>1 DEF ProgramInit, Ports, ProgramTypeOK, PortInv, Stage

(* A program that has changed the serial port, or only saved its settings, *)
(* does not exit without putting them back (app.c:213-219, 746-755, 790).  *)
THEOREM PortKept == Spec => PortRestored
<1>1. Ports /\ [Next]_vars => Ports'
  BY PortsKept
<1>2. Ports /\ [Next]_vars =>
        [\A p \in Program :
           stage[p] \notin {"started", "opened"} /\ stage'[p] = "ended" /\ stage[p] # "ended"
             => port'[p] \in {"found", "gone"}]_vars
  BY PortsKept DEF PortStep
<1> QED
  BY PortsInit, <1>1, <1>2, PTL DEF Spec, PortRestored

-----------------------------------------------------------------------------
(* Numbers, packets and chunks.                                            *)

LEMMA LengthKept ==
  ASSUME NEW k \in Nat, k < Base * Base
  PROVE  Base * L2(k) + L1(k) = k /\ L2(k) \in Byte /\ L1(k) \in Byte
<1>1. Base \in Nat /\ Base > 0
  BY PacketAssumption
<1>2. \A a \in Nat, b \in Nat : b > 0 => a = b * (a \div b) + (a % b) /\ a % b \in 0 .. b - 1 /\ a \div b \in Nat
  OBVIOUS
<1> DEFINE q == k \div Base
           r == k % Base
<1>3. k = Base * q + r /\ r \in 0 .. Base - 1 /\ q \in Nat
  BY <1>1, <1>2
<1> HIDE DEF q, r
<1>4. q < Base
  BY <1>1, <1>3
<1>5. q % Base = q
  BY <1>1, <1>3, <1>4
<1> QED
  BY <1>1, <1>3, <1>4, <1>5 DEF L1, L2, Byte, q, r

LEMMA SuccDiffers ==
  ASSUME NEW n \in Byte
  PROVE  Succ(n) \in Byte /\ Succ(n) # n
BY PacketAssumption DEF Succ, Byte

LEMMA ToIntRange ==
  ASSUME NEW n \in Int
  PROVE  ToInt(n) \in IntValue
<1>1. HalfRange \in Nat /\ HalfRange > 0
  BY PacketAssumption
<1>2. \A h \in Nat : h > 0 => (n + h) % (2 * h) \in 0 .. (2 * h) - 1
  OBVIOUS
<1>3. (n + HalfRange) % (2 * HalfRange) \in 0 .. (2 * HalfRange) - 1
  BY <1>1, <1>2
<1> QED
  BY <1>1, <1>3 DEF ToInt, IntValue

LEMMA DivUnique ==
  ASSUME NEW m \in Nat, m > 0, NEW q \in Int, NEW r \in 0 .. m - 1, NEW n \in Int, n = m * q + r
  PROVE  n % m = r /\ n \div m = q
OBVIOUS

LEMMA DivMod ==
  ASSUME NEW m \in Nat, m > 0, NEW n \in Int
  PROVE  n = m * (n \div m) + (n % m) /\ n % m \in 0 .. m - 1 /\ n \div m \in Int
OBVIOUS

LEMMA ModSum ==
  ASSUME NEW m \in Nat, m > 0, NEW a \in Int, NEW b \in Int
  PROVE  ((a % m) + b) % m = (a + b) % m
<1>1. PICK q \in Int, u \in 0 .. m - 1 : a = m * q + u /\ a % m = u
  BY DivMod
<1>2. u + b \in Int
  OBVIOUS
<1>3. PICK p \in Int, r \in 0 .. m - 1 : u + b = m * p + r /\ (u + b) % m = r
  BY <1>2, DivMod
<1>4. m * (q + p) = m * q + m * p /\ m * q \in Int /\ m * p \in Int /\ q + p \in Int
  OBVIOUS
<1>5. PICK s \in Int, n \in Int : s = q + p /\ n = a + b
  OBVIOUS
<1>6. n = m * s + r
  BY <1>1, <1>3, <1>4, <1>5
<1>7. n % m = r
  BY <1>6, DivUnique
<1> QED
  BY <1>1, <1>3, <1>5, <1>7, Zenon

(* The wrapped sum of a wrapped number is the wrapped sum.                 *)
LEMMA ToIntSum ==
  ASSUME NEW a \in Int, NEW b \in Int
  PROVE  ToInt(ToInt(a) + b) = ToInt(a + b)
<1>1. PICK h \in Nat : h = HalfRange /\ h > 0
  BY PacketAssumption
<1>2. PICK m \in Nat : m = 2 * h /\ m > 0
  BY <1>1
<1>3. \A n : ToInt(n) = ((n + h) % m) - h
  BY <1>1, <1>2 DEF ToInt
<1>4. PICK n \in Int : n = a + h
  OBVIOUS
<1>5. PICK r \in Int : r = n % m
  BY <1>2
<1>6. (r + b) % m = (n + b) % m
  BY <1>2, <1>5, ModSum
<1>7. n + b = (a + b) + h
  BY <1>4
<1>8. ToInt(ToInt(a) + b) = (((ToInt(a) + b) + h) % m) - h
  BY <1>3
<1>9. (ToInt(a) + b) + h = r + b
  BY <1>3, <1>4, <1>5
<1>10. ToInt(a + b) = (((a + b) + h) % m) - h
  BY <1>3
<1> QED
  BY <1>6, <1>7, <1>8, <1>9, <1>10, Zenon

LEMMA ToIntSmall ==
  ASSUME NEW n \in IntValue
  PROVE  ToInt(n) = n
<1>1. PICK h \in Nat : h = HalfRange /\ h > 0
  BY PacketAssumption
<1>2. n \in -h .. h - 1
  BY <1>1 DEF IntValue
<1>3. (n + h) % (2 * h) = n + h
  BY <1>1, <1>2
<1> QED
  BY <1>1, <1>2, <1>3 DEF ToInt

LEMMA ToIntZero == ToInt(0) = 0
<1>1. 0 \in IntValue
  BY PacketAssumption DEF IntValue
<1> QED
  BY <1>1, ToIntSmall

LEMMA QuotientInt ==
  ASSUME NEW a \in Int, NEW b \in Int, b # 0
  PROVE  Quotient(a, b) \in Int
<1>1. Abs(a) \in Nat /\ Abs(b) \in Nat /\ Abs(b) > 0
  BY DEF Abs
<1>2. \A m \in Nat, n \in Nat : n > 0 => m \div n \in Nat
  OBVIOUS
<1>3. Abs(a) \div Abs(b) \in Nat
  BY <1>1, <1>2
<1> QED
  BY <1>3 DEF Quotient

LEMMA ColumnsInt ==
  ASSUME NEW s \in Int, NEW d \in Int
  PROVE  Columns(s, d) \in Int
<1> DEFINE share == IF s = 0 THEN 0 ELSE Quotient(100 * d, s)
           length == Quotient(share, 2)
<1>1. share \in Int
  <2>1. 100 * d \in Int
    OBVIOUS
  <2> QED
    BY <2>1, QuotientInt
<1> HIDE DEF share
<1>2. length \in Int
  BY <1>1, QuotientInt
<1> HIDE DEF length
<1>3. Endless \in Int
  BY DEF Endless
<1>4. Columns(s, d) = CASE s = 0 -> Endless
        [] length > 50  -> length
        [] length <= 50 -> 51 - length + (IF length > 0 THEN length - 1 ELSE 0)
  BY DEF Columns, length, share
<1>5. CASE s = 0
  BY <1>3, <1>4, <1>5, <1>2
<1>6. CASE s # 0 /\ length > 50
  BY <1>4, <1>6, <1>2
<1>7. CASE s # 0 /\ length <= 50
  BY <1>4, <1>7, <1>2
<1> QED
  BY <1>2, <1>5, <1>6, <1>7

LEMMA Smaller ==
  ASSUME NEW a \in Int, NEW b \in Int
  PROVE  Min({a, b}) = IF a <= b THEN a ELSE b
<1>1. CASE a <= b
  BY <1>1 DEF Min
<1>2. CASE ~(a <= b)
  BY <1>2 DEF Min
<1> QED
  BY <1>1, <1>2

LEMMA Larger ==
  ASSUME NEW a \in Int, NEW b \in Int
  PROVE  Max({a, b}) = IF a >= b THEN a ELSE b
<1>1. CASE a >= b
  BY <1>1 DEF Max
<1>2. CASE ~(a >= b)
  BY <1>2 DEF Max
<1> QED
  BY <1>1, <1>2

LEMMA WorldFacts ==
  ASSUME ProgramTypeOK
  PROVE  /\ world.size \in Nat /\ world.there \in Nat /\ world.room \in Nat
         /\ world.frame \in MinFrame .. MaxFrame
BY WorldAssumption DEF ProgramTypeOK, World

LEMMA ChunkFits ==
  ASSUME ProgramTypeOK, offset \in Nat, NEW n \in Nat
  PROVE  Chunk(n) \in Nat /\ Chunk(n) < Base * Base
<1>1. Max({0, n - offset}) \in Nat
  BY Larger
<1> DEFINE m == Max({0, n - offset})
           k == world.frame - Header
<1>2. k \in Nat /\ k <= MaxFrame - Header /\ MaxFrame - Header < Base * Base
  BY WorldFacts, WorldAssumption
<1> HIDE DEF m, k
<1>3. m \in Nat
  BY <1>1 DEF m
<1>4. Chunk(n) = Min({k, m})
  BY DEF Chunk, k, m
<1>5. Chunk(n) \in Nat /\ Chunk(n) <= k
  BY <1>2, <1>3, <1>4, Smaller
<1>6. Base * Base \in Nat /\ MaxFrame - Header \in Int
  BY PacketAssumption, WorldAssumption
<1> QED
  BY <1>2, <1>5, <1>6

LEMMA BytesText ==
  ASSUME NEW from \in Nat, NEW k \in Nat
  PROVE  Bytes(from, k) \in Seq(Nat \ {0}) /\ Len(Bytes(from, k)) = k
BY DEF Bytes

LEMMA PacketKinds ==
  ASSUME NEW p, IsPacket(p)
  PROVE  /\ p.c \in {"none", "end", "start", "data"}
         /\ p.c = "none" => p = NoPacket
         /\ p.c = "end" => p = End
         /\ p.c = "start" => p \in StartPacket
         /\ p.c = "data" => p \in DataPacket
BY DEF IsPacket, NoPacket, End, StartPacket, DataPacket

LEMMA DataFields ==
  ASSUME NEW p \in DataPacket
  PROVE  /\ p.c = "data" /\ p.seq \in Byte /\ p.bytes \in Seq(Nat \ {0})
         /\ LengthOf(p) \in Nat /\ Len(p.bytes) \in Nat
BY PacketAssumption DEF DataPacket, LengthOf, Byte

LEMMA StartTyped ==
  ASSUME NEW s \in Nat
  PROVE  IsPacket(Start(s)) /\ Start(s).c = "start"
<1>1. \A i \in 0 .. SizeDigits - 1 : (s \div Base ^ i) % Base \in Byte
  <2> TAKE i \in 0 .. SizeDigits - 1
  <2>1. i \in 0 .. SizeDigits
    BY PacketAssumption
  <2>2. Base ^ i \in Nat /\ Base ^ i > 0
    BY <2>1, PacketAssumption
  <2>3. \A p \in Nat, b \in Nat : p > 0 /\ b > 0 => (s \div p) % b \in 0 .. b - 1
    OBVIOUS
  <2>4. Base \in Nat /\ Base > 0
    BY PacketAssumption
  <2> QED
    BY <2>2, <2>3, <2>4 DEF Byte
<1>2. SizeField(s) \in [0 .. SizeDigits - 1 -> Byte]
  BY <1>1 DEF SizeField
<1> QED
  BY <1>2 DEF Start, IsPacket, StartPacket

LEMMA DataTyped ==
  ASSUME NEW n \in Byte, NEW from \in Nat, NEW k \in Nat, k < Base * Base
  PROVE  LET p == Data(n, from, k)
         IN  /\ IsPacket(p) /\ p.c = "data" /\ p.seq = n
             /\ p.bytes = Bytes(from, k) /\ Len(p.bytes) = k /\ LengthOf(p) = k
<1>1. L2(k) \in Byte /\ L1(k) \in Byte /\ Base * L2(k) + L1(k) = k
  BY LengthKept
<1>2. Bytes(from, k) \in Seq(Nat \ {0}) /\ Len(Bytes(from, k)) = k
  BY BytesText
<1> QED
  BY <1>1, <1>2 DEF Data, IsPacket, DataPacket, LengthOf

-----------------------------------------------------------------------------
(* The invariant in two halves: what the link and sendFile touch, and what *)
(* readDataPackets does.                                                   *)

LinkTypes ==
  /\ signals \subseteq Signal
  /\ taken \in BOOLEAN
  /\ IsPacket(offer) /\ IsPacket(late)
  /\ IsPacket(hand) \/ hand = Damaged

DataInv == SendTypeOK /\ ReadTypeOK /\ LinkTypes /\ PacketInv /\ OutIsPrefix /\ RowInv

RowsInv == Ports /\ DataInv

(* Steps of main, of the connection and of the environment.                *)
LEMMA DataUntouched ==
  ASSUME DataInv, PortStep, UNCHANGED <<offer, taken, late, hand>>, signals' \subseteq Signal,
         UNCHANGED <<sendVars, readVars>>
  PROVE  DataInv'
<1>1. SendTypeOK' /\ ReadTypeOK'
  BY DEF DataInv, SendTypeOK, ReadTypeOK, sendVars, readVars
<1>2. LinkTypes'
  BY DEF DataInv, LinkTypes, IsPacket
<1>3. UNCHANGED <<txPc, offset, nSeq, order, received, target, out, world>>
  BY DEF sendVars, readVars, PortStep
<1>4. PacketInv'
  <2>1. stage'["tx"] \in Early => txPc' = "sendStart"
    BY <1>3 DEF DataInv, PacketInv, PortStep
  <2>2. stage'["tx"] = "transfer" /\ txPc' \in {"start", "data", "end"} => offer'.c = txPc'
    BY <1>3 DEF DataInv, PacketInv, PortStep, Early
  <2>3. \A p : LengthOf(p)' = LengthOf(p)
    BY DEF LengthOf
  <2> QED
    BY <1>3, <2>1, <2>2, <2>3 DEF DataInv, PacketInv
<1>5. OutIsPrefix'
  BY <1>3 DEF DataInv, OutIsPrefix
<1>6. RowInv'
  <2>1. ASSUME NEW x, RowAt(x) PROVE RowAt(x)'
    <3>1. /\ InHand(x)' <=> InHand(x)
          /\ Handled(x)' <=> Handled(x)
          /\ OnItsWay(x)' <=> OnItsWay(x)
          /\ NextRead(x)' <=> NextRead(x)
          /\ Untaken' <=> Untaken
      BY <1>3 DEF InHand, Handled, OnItsWay, NextRead, Untaken, Reached, Room, NextSeq
    <3> QED
      BY <2>1, <3>1 DEF RowAt, PortStep
  <2> QED
    BY <1>3, <2>1 DEF DataInv, RowInv
<1> QED
  BY <1>1, <1>2, <1>4, <1>5, <1>6 DEF DataInv

LEMMA MainKeeps ==
  ASSUME DataInv, PortStep, NEW p \in Program, Main(p)
  PROVE  DataInv'
<1>1. UNCHANGED <<offer, taken, late, hand, signals, sendVars, readVars>>
  BY DEF Main, linkVars
<1>2. signals' \subseteq Signal
  BY <1>1 DEF DataInv, LinkTypes
<1> QED
  BY <1>1, <1>2, DataUntouched

LEMMA EnvironmentKeeps ==
  ASSUME DataInv, PortStep, Environment
  PROVE  DataInv'
<1>1. UNCHANGED <<offer, taken, late, hand, signals, sendVars, readVars>>
  BY DEF Environment, linkVars
<1>2. signals' \subseteq Signal
  BY <1>1 DEF DataInv, LinkTypes
<1> QED
  BY <1>1, <1>2, DataUntouched

LEMMA LinkKeeps ==
  ASSUME DataInv, PortStep, Link
  PROVE  DataInv'
<1>1. signals \subseteq Signal /\ LinkStep /\ UNCHANGED <<sendVars, readVars>>
  BY DEF DataInv, LinkTypes, Link
<1>2. CASE txCalls
  <2>1. UNCHANGED <<offer, taken, late, hand>> /\ signals' \subseteq Signal
    BY <1>1, <1>2 DEF txCalls, Calls, PacketsUnchanged, Signal
  <2> QED
    BY <1>1, <2>1, DataUntouched
<1>3. CASE llopen \/ createConnectionFails \/ llcloseFails \/ rxUa
  <2>1. UNCHANGED <<offer, taken, late, hand>> /\ signals' \subseteq Signal
    BY <1>1, <1>3 DEF llopen, createConnectionFails, llcloseFails, rxUa, linkVars
  <2> QED
    BY <1>1, <2>1, DataUntouched
<1>4. CASE llclose \/ rxOpens \/ rxDisc
  <2>1. UNCHANGED <<offer, taken, late, hand>> /\ signals' \subseteq Signal
    BY <1>1, <1>4 DEF llclose, rxOpens, rxDisc, Answers, Signals, PacketsUnchanged, Signal
  <2> QED
    BY <1>1, <2>1, DataUntouched
<1> QED
  BY <1>1, <1>2, <1>3, <1>4 DEF LinkStep

-----------------------------------------------------------------------------
(* The steps of sendFile.                                                  *)

(* What every one of them has to show.                                     *)
LEMMA Sent ==
  ASSUME DataInv, PortStep, UNCHANGED <<signals, late, hand, readVars>>,
         stage["tx"] = "transfer", stage'["tx"] \in {"transfer", "closing"},
         SendTypeOK', IsPacket(offer)', offset \in Nat, offset' \in Nat, offset <= offset',
         taken' = FALSE \/ UNCHANGED <<offer, taken>>,
         offer'.c # "none" => offer'.c = txPc',
         stage'["tx"] = "transfer" /\ txPc' \in {"start", "data", "end"} => offer'.c = txPc',
         late.c \in {"data", "end"} => txPc' \notin {"sendStart", "start"},
         late.c = "end" => txPc' = "end",
         offer'.c = "data" => LengthOf(offer)' = Len(offer.bytes)',
         \A x \in 0 .. offset : late.c # "end" /\ RowAt(x) =>
           /\ Untaken' => OnItsWay(x)'
           /\ ~Untaken' /\ port'["tx"] # "gone" => NextRead(x)'
  PROVE  DataInv'
<1>1. UNCHANGED <<order, received, target, out, fileSize, rxBar, world>>
  BY DEF readVars, PortStep
<1>2. ReadTypeOK' /\ OutIsPrefix'
  BY <1>1 DEF DataInv, ReadTypeOK, OutIsPrefix
<1>3. LinkTypes'
  <2>1. taken' \in BOOLEAN
    BY DEF DataInv, LinkTypes
  <2>2. IsPacket(late)' /\ (IsPacket(hand) \/ hand = Damaged)' /\ signals' \subseteq Signal
    BY DEF DataInv, LinkTypes, IsPacket
  <2> QED
    BY <2>1, <2>2 DEF LinkTypes
<1>4. PacketInv'
  <2>1. stage'["tx"] \notin Early
    BY DEF Early
  <2>2. taken' => late' = offer' /\ offer'.c # "none"
    BY DEF DataInv, PacketInv
  <2>3. hand'.c \in {"none", "error"} \/ hand' = late'
    BY DEF DataInv, PacketInv
  <2>4. late'.c \in {"none", "start"} => order' = 0 /\ received' = 0 /\ out' = <<>>
    BY <1>1 DEF DataInv, PacketInv
  <2>5. target' = "closed" => late'.c = "end"
    BY <1>1 DEF DataInv, PacketInv
  <2>6. late.c = "data" => LengthOf(late) = Len(late.bytes)
    BY DEF DataInv, PacketInv
  <2>7. \A p : LengthOf(p)' = LengthOf(p)
    BY DEF LengthOf
  <2>8. late'.c = "data" => LengthOf(late)' = Len(late.bytes)'
    BY <2>6 DEF LengthOf
  <2>9. (\A p \in {offer, late} : p.c = "data" => LengthOf(p) = Len(p.bytes))'
    BY <2>8
  <2> HIDE DEF LengthOf
  <2> QED
    BY <2>1, <2>2, <2>3, <2>4, <2>5, <2>9 DEF PacketInv
<1>5. RowInv'
  <2> SUFFICES ASSUME late'.c # "end" PROVE \E x \in 0 .. offset' : RowAt(x)'
    BY DEF RowInv
  <2>1. PICK x \in 0 .. offset : RowAt(x)
    BY DEF DataInv, RowInv
  <2>2. x \in 0 .. offset'
    OBVIOUS
  <2>3. (InHand(x)' <=> InHand(x)) /\ (Handled(x)' <=> Handled(x))
    BY <1>1 DEF InHand, Handled, Reached, Room
  <2>4. RowAt(x)'
    BY <2>1, <2>3 DEF RowAt
  <2> QED
    BY <2>2, <2>4
<1> QED
  BY <1>2, <1>3, <1>4, <1>5 DEF DataInv

(* llwrite has failed or gone: the place of the next read is not asked for. *)
LEMMA NotSent ==
  ASSUME DataInv, PortStep, NotWritten, UNCHANGED readVars,
         stage["tx"] = "transfer", stage'["tx"] \in {"transfer", "closing"},
         SendTypeOK', offset \in Nat, offset' \in Nat, offset <= offset',
         stage'["tx"] = "transfer" => txPc' \notin {"start", "data", "end"},
         late.c \in {"data", "end"} => txPc' \notin {"sendStart", "start"},
         late.c = "end" => txPc' = "end"
  PROVE  DataInv'
<1>1. /\ offer' = NoPacket /\ taken' = FALSE /\ UNCHANGED <<signals, late, hand>>
      /\ port'["tx"] = "gone"
  BY DEF NotWritten, PortStep
<1>2. offer'.c = "none" /\ IsPacket(offer)'
  BY <1>1 DEF NoPacket, IsPacket
<1>3. ~Untaken'
  BY <1>2 DEF Untaken
<1> QED
  BY <1>1, <1>2, <1>3, Sent

LEMMA Sender ==
  ASSUME DataInv
  PROVE  /\ offset \in Nat /\ nSeq \in Byte /\ total \in IntValue /\ bytes \in IntValue
         /\ txBar \in Int
         /\ offer.c \in {"none", "end", "start", "data"} /\ late.c \in {"none", "end", "start", "data"}
         /\ offer.c # "none" => offer.c = txPc
         /\ stage["tx"] = "transfer" /\ txPc \in {"start", "data", "end"} => offer.c = txPc
         /\ taken => late = offer /\ offer.c # "none"
         /\ late.c \in {"data", "end"} => txPc \notin {"sendStart", "start"}
         /\ late.c = "end" => txPc = "end"
BY PacketKinds DEF DataInv, SendTypeOK, PacketInv, LinkTypes

LEMMA SendStartKeeps ==
  ASSUME DataInv, Ports, PortStep, SendStart, UNCHANGED readVars
  PROVE  DataInv'
<1>1. /\ stage["tx"] = "transfer" /\ txPc = "sendStart" /\ UNCHANGED <<stage, port>>
      /\ UNCHANGED <<bytes, offset, nSeq, txBar>>
  BY DEF SendStart, Sending, programVars
<1>2. offset \in Nat /\ offset' \in Nat /\ offset <= offset'
  BY <1>1, Sender
<1>3. late.c \notin {"data", "end"} /\ offer.c = "none"
  BY <1>1, Sender
<1>4. CASE llwrite(Start(world.size)) /\ SendGoes("start") /\ UNCHANGED total
  <2>1. /\ offer' = Start(world.size) /\ taken' = FALSE /\ UNCHANGED <<signals, late, hand>>
        /\ txPc' = "start"
    BY <1>4 DEF llwrite, SendGoes
  <2>2. IsPacket(offer)' /\ offer'.c = "start"
    BY <2>1, StartTyped, WorldFacts DEF IsPacket, Ports
  <2>3. SendTypeOK'
    BY <1>1, <1>4, <2>1 DEF DataInv, SendTypeOK
  <2>4. ~Untaken /\ ~Untaken'
    BY <1>3, <2>2 DEF Untaken
  <2>5. ASSUME NEW x \in 0 .. offset, RowAt(x) PROVE port'["tx"] # "gone" => NextRead(x)'
    BY <1>1, <1>3, <2>1, <2>2, <2>4, <2>5 DEF RowAt, NextRead, NextSeq
  <2> QED
    BY <1>1, <1>2, <1>3, <2>1, <2>2, <2>3, <2>4, <2>5, Sent
<1>5. CASE NotWritten /\ SendGoes("loop") /\ total' = 1
  <2>1. 1 \in IntValue
    <3>1. HalfRange \in Nat /\ HalfRange > 1
      BY PacketAssumption
    <3> QED
      BY <3>1 DEF IntValue
  <2>2. txPc' = "loop" /\ SendTypeOK'
    BY <1>1, <1>5, <2>1 DEF DataInv, SendTypeOK, SendGoes
  <2> QED
    BY <1>1, <1>2, <1>3, <1>5, <2>2, NotSent
<1> QED
  BY <1>4, <1>5 DEF SendStart

(* llwrite has returned the packet that readDataPackets has in its hands.  *)
LEMMA StartSentKeeps ==
  ASSUME DataInv, Ports, PortStep, StartSent, UNCHANGED readVars
  PROVE  DataInv'
<1>1. /\ stage["tx"] = "transfer" /\ txPc = "start" /\ UNCHANGED <<stage, port>>
      /\ UNCHANGED <<bytes, offset, nSeq, txBar>> /\ txPc' = "loop"
  BY DEF StartSent, Sending, SendGoes, programVars
<1>2. offset \in Nat /\ offset' \in Nat /\ offset <= offset'
  BY <1>1, Sender
<1>3. late.c \notin {"data", "end"} /\ offer.c = "start"
  BY <1>1, Sender
<1>4. SendTypeOK'
  <2>1. 1 \in IntValue
    <3>1. HalfRange \in Nat /\ HalfRange > 1
      BY PacketAssumption
    <3> QED
      BY <3>1 DEF IntValue
  <2>2. ToInt(world.size) \in IntValue
    BY ToIntRange, WorldFacts DEF Ports
  <2>3. total' \in IntValue
    BY <2>1, <2>2 DEF StartSent
  <2> QED
    BY <1>1, <2>3 DEF DataInv, SendTypeOK
<1>5. CASE Written
  <2>1. /\ offer' = NoPacket /\ taken' = FALSE /\ UNCHANGED <<signals, late, hand>>
    BY <1>5 DEF Written
  <2>2. IsPacket(offer)' /\ offer'.c = "none"
    BY <2>1 DEF IsPacket, NoPacket
  <2>3. ~Untaken /\ ~Untaken'
    BY <1>3, <2>2 DEF Untaken
  <2>4. ASSUME NEW x \in 0 .. offset, RowAt(x) PROVE port'["tx"] # "gone" => NextRead(x)'
    BY <1>1, <1>3, <2>1, <2>2, <2>3, <2>4 DEF RowAt, NextRead, NextSeq
  <2> QED
    BY <1>1, <1>2, <1>3, <1>4, <2>1, <2>2, <2>3, <2>4, Sent
<1>6. CASE NotWritten
  BY <1>1, <1>2, <1>3, <1>4, <1>6, NotSent
<1> QED
  BY <1>5, <1>6 DEF StartSent

LEMMA ReadChunkKeeps ==
  ASSUME DataInv, Ports, PortStep, NEW n \in Nat, ReadChunk(n), UNCHANGED readVars
  PROVE  DataInv'
<1> DEFINE k == Chunk(n)
<1>1. /\ stage["tx"] = "transfer" /\ txPc = "loop" /\ UNCHANGED <<stage, port>>
      /\ UNCHANGED <<total, bytes, nSeq, txBar>> /\ offset' = offset + k
  BY DEF ReadChunk, Sending, programVars
<1>2. offset \in Nat /\ k \in Nat /\ k < Base * Base
  BY Sender, ChunkFits DEF Ports
<1> HIDE DEF k
<1>3. offset' \in Nat /\ offset <= offset'
  BY <1>1, <1>2
<1>4. late.c # "end" /\ offer.c = "none" /\ nSeq \in Byte
  BY <1>1, Sender
<1>5. CASE llwrite(Data(nSeq, offset, k)) /\ SendGoes("data")
  <2>1. /\ offer' = Data(nSeq, offset, k) /\ taken' = FALSE /\ UNCHANGED <<signals, late, hand>>
        /\ txPc' = "data" /\ port["tx"] # "gone"
    BY <1>5 DEF llwrite, SendGoes
  <2> DEFINE p == Data(nSeq, offset, k)
  <2>2. /\ IsPacket(p) /\ p.c = "data" /\ p.seq = nSeq
        /\ p.bytes = Bytes(offset, k) /\ Len(p.bytes) = k /\ LengthOf(p) = k
    BY <1>2, <1>4, DataTyped
  <2> HIDE DEF p
  <2>3. offer' = p
    BY <2>1 DEF p
  <2>4. IsPacket(offer)' /\ offer'.c = "data" /\ LengthOf(offer)' = Len(offer.bytes)'
    BY <2>2, <2>3 DEF IsPacket, LengthOf
  <2>5. SendTypeOK'
    BY <1>1, <1>3, <2>1 DEF DataInv, SendTypeOK
  <2>6. ~Untaken /\ Untaken'
    BY <1>4, <2>1, <2>4 DEF Untaken
  <2>7. ASSUME NEW x \in 0 .. offset, RowAt(x) PROVE OnItsWay(x)'
    <3>1. offset = x /\ nSeq = NextSeq
      BY <1>4, <2>1, <2>6, <2>7 DEF RowAt, NextRead
    <3>2. nSeq' = NextSeq'
      BY <1>1, <2>1, <3>1 DEF NextSeq
    <3>3. offer'.seq = nSeq' /\ Len(offer'.bytes) = k /\ offer'.bytes = Bytes(x, k)
      BY <1>1, <2>2, <2>3, <3>1
    <3>4. offset' = x + Len(offer'.bytes)
      BY <1>1, <3>1, <3>3
    <3>5. offer'.bytes = Bytes(x, Len(offer'.bytes))
      BY <3>3
    <3> QED
      BY <3>2, <3>3, <3>4, <3>5 DEF OnItsWay, Bytes
  <2> QED
    BY <1>1, <1>2, <1>3, <1>4, <2>1, <2>4, <2>5, <2>6, <2>7, Sent
<1>6. CASE NotWritten /\ SendGoes("sendEnd")
  <2>1. txPc' = "sendEnd" /\ SendTypeOK'
    BY <1>1, <1>3, <1>6 DEF DataInv, SendTypeOK, SendGoes
  <2> QED
    BY <1>1, <1>2, <1>3, <1>4, <1>6, <2>1, NotSent
<1> QED
  BY <1>5, <1>6 DEF ReadChunk, k

LEMMA ChunkSentKeeps ==
  ASSUME DataInv, Ports, PortStep, ChunkSent, UNCHANGED readVars
  PROVE  DataInv'
<1>1. /\ stage["tx"] = "transfer" /\ txPc = "data" /\ UNCHANGED <<stage, port>>
      /\ UNCHANGED <<total, offset>> /\ txPc' = "loop" /\ nSeq' = Succ(nSeq)
      /\ offer' = NoPacket /\ taken' = FALSE /\ UNCHANGED <<signals, late, hand>>
      /\ taken /\ port["tx"] # "gone"
  BY DEF ChunkSent, Sending, SendGoes, programVars, Written, Succ
<1>2. offset \in Nat /\ offset' \in Nat /\ offset <= offset'
  BY <1>1, Sender
<1>3. late.c = "data" /\ offer.c = "data"
  BY <1>1, Sender
<1>4. SendTypeOK'
  <2>1. nSeq' \in Byte
    BY <1>1, Sender, SuccDiffers
  <2>2. Len(offer.bytes) \in Nat
    BY <1>3, PacketKinds, DataFields DEF DataInv, LinkTypes
  <2>3. bytes \in Int /\ total \in Int
    BY Sender DEF IntValue
  <2> DEFINE sum == bytes + Len(offer.bytes)
  <2>4. sum \in Int
    BY <2>2, <2>3
  <2> HIDE DEF sum
  <2>5. bytes' = ToInt(sum) /\ txBar' = Columns(total, bytes')
    BY DEF ChunkSent, sum
  <2>6. bytes' \in IntValue
    BY <2>4, <2>5, ToIntRange
  <2>7. bytes' \in Int
    BY <2>6 DEF IntValue
  <2>8. txBar' \in Int
    BY <2>3, <2>5, <2>7, ColumnsInt
  <2>9. txPc' = "loop" /\ total' \in IntValue /\ offset' \in Nat
    BY <1>1, <1>2, Sender
  <2> QED
    BY <2>1, <2>6, <2>8, <2>9 DEF SendTypeOK
<1>5. IsPacket(offer)' /\ offer'.c = "none"
  BY <1>1 DEF IsPacket, NoPacket
<1>6. ~Untaken /\ ~Untaken'
  BY <1>1, <1>5 DEF Untaken
<1>7. ASSUME NEW x \in 0 .. offset, RowAt(x) PROVE NextRead(x)'
  <2>1. offset = x /\ late.seq = nSeq
    BY <1>1, <1>3, <1>6, <1>7 DEF RowAt, NextRead
  <2>2. NextSeq' = nSeq'
    BY <1>1, <1>3, <2>1 DEF NextSeq, Succ
  <2> QED
    BY <1>1, <1>5, <2>1, <2>2 DEF NextRead
<1> QED
  BY <1>1, <1>2, <1>3, <1>4, <1>5, <1>6, <1>7, Sent

LEMMA EndKeeps ==
  ASSUME DataInv, Ports, PortStep, ChunkNotSent \/ DataDone \/ SendEnd \/ EndSent, UNCHANGED readVars
  PROVE  DataInv'
<1>0. offset \in Nat
  BY Sender
<1>1. CASE ChunkNotSent
  <2>1. /\ stage["tx"] = "transfer" /\ txPc = "data" /\ UNCHANGED <<stage, port>>
        /\ UNCHANGED <<total, bytes, offset, nSeq, txBar>> /\ txPc' = "sendEnd" /\ NotWritten
    BY <1>1 DEF ChunkNotSent, Sending, SendGoes, programVars
  <2>2. SendTypeOK' /\ late.c # "end"
    BY <2>1, Sender DEF DataInv, SendTypeOK
  <2> QED
    BY <1>0, <2>1, <2>2, NotSent
<1>2. CASE DataDone
  <2>1. /\ stage["tx"] = "transfer" /\ txPc = "loop" /\ UNCHANGED <<stage, port>>
        /\ UNCHANGED <<total, bytes, offset, nSeq, txBar>> /\ txPc' = "sendEnd"
        /\ UNCHANGED <<signals, offer, taken, late, hand>>
    BY <1>2 DEF DataDone, Sending, SendGoes, programVars, linkVars
  <2>2. SendTypeOK' /\ late.c # "end" /\ offer.c = "none"
    BY <2>1, Sender DEF DataInv, SendTypeOK
  <2>3. IsPacket(offer)'
    BY <2>1 DEF DataInv, LinkTypes, IsPacket
  <2>4. ~Untaken /\ ~Untaken'
    BY <2>1, <2>2 DEF Untaken
  <2>5. ASSUME NEW x \in 0 .. offset, RowAt(x) PROVE port'["tx"] # "gone" => NextRead(x)'
    BY <2>1, <2>4, <2>5 DEF RowAt, NextRead, NextSeq
  <2> QED
    BY <1>0, <2>1, <2>2, <2>3, <2>4, <2>5, Sent
<1>3. CASE SendEnd
  <2>1. /\ stage["tx"] = "transfer" /\ txPc = "sendEnd" /\ UNCHANGED <<stage, port>>
        /\ UNCHANGED <<total, bytes, offset, nSeq, txBar>> /\ txPc' = "end"
        /\ offer' = End /\ taken' = FALSE /\ UNCHANGED <<signals, late, hand>>
    BY <1>3 DEF SendEnd, Sending, SendGoes, programVars, llwrite
  <2>2. SendTypeOK' /\ late.c # "end" /\ offer.c = "none"
    BY <2>1, Sender DEF DataInv, SendTypeOK
  <2>3. IsPacket(offer)' /\ offer'.c = "end"
    BY <2>1 DEF IsPacket, End
  <2>4. ~Untaken /\ ~Untaken'
    BY <2>2, <2>3 DEF Untaken
  <2>5. ASSUME NEW x \in 0 .. offset, RowAt(x) PROVE port'["tx"] # "gone" => NextRead(x)'
    BY <2>1, <2>2, <2>3, <2>4, <2>5 DEF RowAt, NextRead, NextSeq
  <2>6. /\ offset' \in Nat /\ offset <= offset'
        /\ stage'["tx"] = "transfer" /\ offer'.c = txPc' /\ txPc' \notin {"sendStart", "start"}
        /\ offer'.c # "data"
    BY <1>0, <2>1, <2>3
  <2> QED
    BY <1>0, <2>1, <2>2, <2>3, <2>4, <2>5, <2>6, Sent
<1>4. CASE EndSent
  <2>1. /\ stage["tx"] = "transfer" /\ txPc \in {"sendEnd", "end"} /\ UNCHANGED sendVars
        /\ stage'["tx"] = "closing"
    BY <1>4 DEF EndSent, Sending, Goes, Ports, ProgramTypeOK, Program
  <2>2. UNCHANGED <<txPc, total, bytes, offset, nSeq, txBar>>
    BY <2>1 DEF sendVars
  <2>3. SendTypeOK'
    BY <2>2 DEF DataInv, SendTypeOK
  <2>4. CASE NotWritten
    <3>1. /\ late.c \in {"data", "end"} => txPc' \notin {"sendStart", "start"}
          /\ late.c = "end" => txPc' = "end"
      BY <2>1, <2>2, Sender
    <3> QED
      BY <1>0, <2>1, <2>2, <2>3, <2>4, <3>1, NotSent
  <2>5. CASE Written /\ txPc = "end"
    <3>1. /\ offer' = NoPacket /\ taken' = FALSE /\ UNCHANGED <<signals, late, hand>> /\ taken
      BY <2>5 DEF Written
    <3>2. late.c = "end"
      BY <2>1, <2>5, <3>1, Sender
    <3>3. IsPacket(offer)' /\ offer'.c = "none"
      BY <3>1 DEF IsPacket, NoPacket
    <3>4. offset' \in Nat /\ offset <= offset' /\ txPc' = "end"
      BY <1>0, <2>2, <2>5
    <3> QED
      BY <1>0, <2>1, <2>3, <3>1, <3>2, <3>3, <3>4, Sent
  <2> QED
    BY <1>4, <2>4, <2>5 DEF EndSent, Sending
<1> QED
  BY <1>1, <1>2, <1>3, <1>4

LEMMA SendKeeps ==
  ASSUME DataInv, Ports, PortStep, Send
  PROVE  DataInv'
<1>1. Readable \in Nat
  <2>1. out \in Seq(Nat \ {0}) /\ world.there \in Nat
    BY WorldFacts DEF DataInv, ReadTypeOK, Ports
  <2> QED
    BY <2>1 DEF Readable
<1>2. SendStep(Readable) /\ UNCHANGED readVars
  BY DEF Send
<1>3. CASE ReadFails(Readable)
  <2>1. UNCHANGED <<offer, taken, late, hand, signals, sendVars, readVars>>
    BY <1>2, <1>3 DEF ReadFails, linkVars
  <2>2. signals' \subseteq Signal
    BY <2>1 DEF DataInv, LinkTypes
  <2> QED
    BY <2>1, <2>2, DataUntouched
<1> QED
  BY <1>1, <1>2, <1>3, SendStartKeeps, StartSentKeeps, ReadChunkKeeps, ChunkSentKeeps, EndKeeps
     DEF SendStep

-----------------------------------------------------------------------------
(* llread.                                                                 *)

LEMMA Reader ==
  ASSUME DataInv
  PROVE  /\ order \in Byte /\ out \in Seq(Nat \ {0}) /\ Len(out) \in Nat
         /\ fileSize \in Int /\ received \in Int
         /\ late.c = "data" => late \in DataPacket /\ late.seq \in Byte /\ Len(late.bytes) \in Nat
         /\ hand.c \in {"none", "error"} \/ hand = late
         /\ hand = NoPacket => hand.c = "none"
         /\ late.c \in {"none", "start"} => order = 0 /\ received = 0 /\ out = <<>>
         /\ late.c = "data" => LengthOf(late) = Len(late.bytes)
         /\ offer.c = "data" => offer \in DataPacket /\ LengthOf(offer) = Len(offer.bytes)
         /\ target = "closed" => late.c = "end"
BY PacketKinds, DataFields DEF DataInv, ReadTypeOK, PacketInv, LinkTypes, IntValue, NoPacket

(* The packet is handled when llread is called again.                      *)
LEMMA AllHandled ==
  ASSUME DataInv, hand.c # late.c, late.c = "data", NEW x, RowAt(x)
  PROVE  Handled(x)
BY DEF RowAt, InHand

LEMMA TakeKeeps ==
  ASSUME DataInv, PortStep, Take, UNCHANGED <<programVars, sendVars, readVars>>
  PROVE  DataInv'
<1>1. /\ hand = NoPacket /\ hand.c = "none" /\ offer # NoPacket /\ taken = FALSE /\ taken' = TRUE
      /\ late' = offer /\ hand' = offer /\ UNCHANGED <<signals, offer>>
  BY DEF Take, Reads, DataInv, LinkTypes, NoPacket
<1>2. /\ UNCHANGED <<world, stage, port>> /\ UNCHANGED <<txPc, total, bytes, offset, nSeq, txBar>>
      /\ UNCHANGED <<fileSize, order, received, target, out, rxBar>>
  BY DEF programVars, sendVars, readVars
<1>3. SendTypeOK' /\ ReadTypeOK' /\ OutIsPrefix'
  BY <1>2 DEF DataInv, SendTypeOK, ReadTypeOK, OutIsPrefix
<1>4. LinkTypes'
  BY <1>1 DEF DataInv, LinkTypes, IsPacket
<1>5. offer.c \in {"start", "data", "end"} /\ offer.c = txPc
  BY <1>1, PacketKinds, Sender DEF DataInv, LinkTypes
<1>6. late.c = "end" => offer.c = "end"
  BY <1>5, Sender
<1>7. offer.c = "start" => late.c \in {"none", "start"}
  BY <1>5, Sender
<1>8. PacketInv'
  <2>1. stage'["tx"] \in Early => txPc' = "sendStart"
    BY <1>2 DEF DataInv, PacketInv
  <2>2. stage'["tx"] = "transfer" /\ txPc' \in {"start", "data", "end"} => offer'.c = txPc'
    BY <1>1, <1>2, <1>5
  <2>3. late'.c \in {"none", "start"} => order' = 0 /\ received' = 0 /\ out' = <<>>
    BY <1>1, <1>2, <1>5, <1>7, Reader
  <2>4. target' = "closed" => late'.c = "end"
    BY <1>1, <1>2, <1>6, Reader
  <2>5. \A p : LengthOf(p)' = LengthOf(p)
    BY DEF LengthOf
  <2>6. (\A p \in {offer, late} : p.c = "data" => LengthOf(p) = Len(p.bytes))'
    BY <1>1, <2>5, Reader
  <2> HIDE DEF LengthOf
  <2> QED
    BY <1>1, <1>2, <1>5, <2>1, <2>2, <2>3, <2>4, <2>6 DEF PacketInv
<1>9. RowInv'
  <2> SUFFICES ASSUME late'.c # "end" PROVE \E x \in 0 .. offset' : RowAt(x)'
    BY DEF RowInv
  <2>1. PICK x \in 0 .. offset : RowAt(x)
    BY <1>1, <1>6 DEF DataInv, RowInv
  <2>2. ~Untaken'
    BY <1>1 DEF Untaken
  <2>3. CASE offer.c = "start"
    <3>1. late.c # "data" /\ x = 0 /\ ~Untaken
      BY <1>7, <2>1, <2>3 DEF RowAt, Untaken
    <3>2. port'["tx"] # "gone" => NextRead(x)'
      BY <1>1, <1>2, <2>1, <2>3, <3>1 DEF RowAt, NextRead, NextSeq
    <3>3. RowAt(x)'
      BY <1>1, <2>2, <2>3, <3>1, <3>2 DEF RowAt
    <3>4. x \in 0 .. offset'
      BY <1>2
    <3> QED
      BY <3>3, <3>4
  <2>4. CASE offer.c = "data"
    <3>1. Untaken /\ OnItsWay(x)
      BY <1>1, <2>1, <2>4 DEF RowAt, Untaken
    <3>2. Len(offer.bytes) \in Nat /\ offset \in Nat
      BY <2>4, Reader, DataFields, Sender
    <3>0. PICK y \in Nat : y = offset
      BY <3>2
    <3>3. /\ y = offset /\ Len(offer.bytes) <= y /\ y - Len(offer.bytes) = x
      BY <3>0, <3>1, <3>2 DEF OnItsWay
    <3>4. offer.bytes = Bytes(y - Len(offer.bytes), Len(offer.bytes))
      BY <3>1, <3>3 DEF OnItsWay
    <3>5. offer.seq = nSeq /\ nSeq = NextSeq
      BY <3>1 DEF OnItsWay
    <3>6. offer.seq = order /\ Reached(x) /\ received = ToInt(x)
      <4>1. CASE late.c = "data"
        <5>1. Handled(x)
          BY <1>1, <2>1, <4>1, AllHandled
        <5> QED
          BY <3>5, <4>1, <5>1 DEF Handled, NextSeq
      <4>2. CASE late.c # "data"
        <5>1. late.c \in {"none", "start"} /\ x = 0
          BY <1>6, <2>1, <2>4, <4>2, Sender DEF RowAt
        <5>2. order = 0 /\ received = 0 /\ out = <<>>
          BY <5>1, Reader
        <5> QED
          BY <3>5, <4>2, <5>1, <5>2, ToIntZero DEF NextSeq, Reached
      <4> QED
        BY <4>1, <4>2
    <3>7. Reached(x)'
      BY <1>2, <3>6 DEF Reached, Room
    <3>8. InHand(y)'
      <4>1. hand' = late' /\ late'.seq = order'
        BY <1>1, <1>2, <3>6
      <4>2. y - Len(late'.bytes) = x /\ Len(late'.bytes) <= y
        BY <1>1, <3>3
      <4>3. late'.bytes = Bytes(y - Len(late'.bytes), Len(late'.bytes))
        BY <1>1, <3>4
      <4>4. Reached(y - Len(late.bytes))'
        BY <3>7, <4>2 DEF Reached
      <4>5. received' = ToInt(y - Len(late'.bytes))
        BY <1>2, <3>6, <4>2
      <4> QED
        BY <4>1, <4>2, <4>3, <4>4, <4>5 DEF InHand, Bytes, ToInt
    <3>9. NextRead(y)'
      BY <1>1, <1>2, <2>4, <3>3, <3>5 DEF NextRead
    <3>10. RowAt(y)'
      BY <1>1, <2>2, <2>4, <3>8, <3>9 DEF RowAt
    <3>11. y \in 0 .. offset'
      BY <1>2, <3>2, <3>3
    <3> QED
      BY <3>10, <3>11
  <2> QED
    BY <1>1, <1>5, <2>3, <2>4
<1> QED
  BY <1>3, <1>4, <1>8, <1>9 DEF DataInv

(* The hand is emptied, or filled with a copy of the last packet or with a *)
(* damaged frame.                                                          *)
LEMMA HandChanges ==
  ASSUME DataInv, PortStep, UNCHANGED <<signals, offer, taken, late>>, UNCHANGED sendVars,
         stage'["tx"] = stage["tx"], hand' \in {NoPacket, Damaged, late},
         ReadTypeOK', OutIsPrefix',
         late.c \in {"none", "start"} => order' = 0 /\ received' = 0 /\ out' = <<>>,
         target' = "closed" => late.c = "end",
         \A x \in 0 .. offset : late.c = "data" /\ RowAt(x) => Handled(x)'
  PROVE  DataInv'
<1>1. UNCHANGED <<txPc, total, bytes, offset, nSeq, txBar>> /\ UNCHANGED world
  BY DEF sendVars, PortStep
<1>2. SendTypeOK'
  BY <1>1 DEF DataInv, SendTypeOK
<1>3. LinkTypes'
  BY DEF DataInv, LinkTypes, IsPacket
<1>4. PacketInv'
  <2>1. stage'["tx"] \in Early => txPc' = "sendStart"
    BY <1>1 DEF DataInv, PacketInv
  <2>2. stage'["tx"] = "transfer" /\ txPc' \in {"start", "data", "end"} => offer'.c = txPc'
    BY <1>1 DEF DataInv, PacketInv
  <2>3. hand'.c \in {"none", "error"} \/ hand' = late'
    BY DEF NoPacket, Damaged
  <2>4. \A p : LengthOf(p)' = LengthOf(p)
    BY DEF LengthOf
  <2> QED
    BY <1>1, <2>1, <2>2, <2>3, <2>4 DEF DataInv, PacketInv
<1>5. RowInv'
  <2> SUFFICES ASSUME late'.c # "end" PROVE \E x \in 0 .. offset' : RowAt(x)'
    BY DEF RowInv
  <2>1. PICK x \in 0 .. offset : RowAt(x)
    BY DEF DataInv, RowInv
  <2>2. /\ OnItsWay(x)' <=> OnItsWay(x)
        /\ NextRead(x)' <=> NextRead(x)
        /\ Untaken' <=> Untaken
    BY <1>1 DEF OnItsWay, NextRead, Untaken, NextSeq
  <2>3. late.c = "data" => Handled(x)'
    BY <2>1
  <2>4. RowAt(x)'
    BY <2>1, <2>2, <2>3 DEF RowAt, PortStep
  <2> QED
    BY <1>1, <2>4
<1> QED
  BY <1>2, <1>3, <1>4, <1>5 DEF DataInv

LEMMA ReceiveKeeps ==
  ASSUME DataInv, PortStep, Receive
  PROVE  DataInv'
<1>1. UNCHANGED <<programVars, sendVars, readVars>>
  BY DEF Receive
<1>2. CASE Take
  BY <1>1, <1>2, TakeKeeps
<1>3. CASE TakeAgain \/ TakeDamaged
  <2>1. UNCHANGED <<signals, offer, taken, late>> /\ hand = NoPacket /\ hand' \in {NoPacket, Damaged, late}
    BY <1>3 DEF TakeAgain, TakeDamaged, Reads
  <2>2. UNCHANGED <<order, received, target, out, world>> /\ UNCHANGED stage /\ ReadTypeOK' /\ OutIsPrefix'
    BY <1>1 DEF DataInv, ReadTypeOK, OutIsPrefix, readVars, programVars
  <2>3. hand.c = "none"
    BY <2>1 DEF NoPacket
  <2>4. ASSUME NEW x \in 0 .. offset, late.c = "data", RowAt(x) PROVE Handled(x)'
    <3>1. Handled(x)
      BY <2>3, <2>4, AllHandled
    <3> QED
      BY <2>1, <2>2, <3>1 DEF Handled, Reached, Room
  <2>5. /\ late.c \in {"none", "start"} => order' = 0 /\ received' = 0 /\ out' = <<>>
        /\ target' = "closed" => late.c = "end"
    BY <2>2, Reader
  <2> QED
    BY <1>1, <2>1, <2>2, <2>4, <2>5, HandChanges
<1> QED
  BY <1>2, <1>3 DEF Receive, llread

-----------------------------------------------------------------------------
(* readDataPackets.                                                        *)

LEMMA Grown ==
  ASSUME NEW n \in Nat, NEW from \in Nat, NEW k \in Nat, NEW m \in 0 .. k, m > 0 => n = from
  PROVE  Bytes(0, n) \o SubSeq(Bytes(from, k), 1, m) = Bytes(0, n + m)
<1> DEFINE S == Nat \ {0}
           s == Bytes(0, n)
           t == SubSeq(Bytes(from, k), 1, m)
<1>1. /\ s \in Seq(S) /\ Len(s) = n
      /\ \A i \in 1 .. n : s[i] = i
  BY DEF Bytes
<1>2. \A i \in 1 .. m : Bytes(from, k)[i] = from + i
  BY DEF Bytes
<1>3. \A i \in 1 .. m : Bytes(from, k)[i] \in S
  BY <1>2
<1>4. m \in Int
  OBVIOUS
<1>5. /\ t \in Seq(S)
      /\ Len(t) = IF 1 <= m THEN m - 1 + 1 ELSE 0
      /\ \A i \in 1 .. m - 1 + 1 : t[i] = Bytes(from, k)[1 + i - 1]
  BY <1>3, <1>4, SubSeqProperties
<1>6. Len(t) = m /\ \A i \in 1 .. m : t[i] = from + i
  BY <1>2, <1>5
<1>7. Bytes(0, n + m) \in Seq(S) /\ Len(Bytes(0, n + m)) = n + m /\ \A i \in 1 .. n + m : Bytes(0, n + m)[i] = i
  BY DEF Bytes
<1>8. /\ s \o t \in Seq(S)
      /\ Len(s \o t) = Len(s) + Len(t)
      /\ \A i \in 1 .. Len(s) + Len(t) : (s \o t)[i] = IF i <= Len(s) THEN s[i] ELSE t[i - Len(s)]
  BY <1>1, <1>5, ConcatProperties
<1> HIDE DEF s, t
<1>9. \A i \in 1 .. n + m : (s \o t)[i] = Bytes(0, n + m)[i]
  <2> TAKE i \in 1 .. n + m
  <2>1. CASE i <= n
    BY <1>1, <1>6, <1>7, <1>8, <2>1
  <2>2. CASE ~(i <= n)
    <3>1. i - n \in 1 .. m /\ n = from
      BY <2>2
    <3>2. t[i - n] = from + (i - n)
      BY <1>6, <3>1
    <3>3. from + (i - n) = i
      BY <3>1
    <3>4. (s \o t)[i] = t[i - n]
      BY <1>1, <1>6, <1>8, <2>2
    <3> QED
      BY <1>7, <3>2, <3>3, <3>4
  <2> QED
    BY <2>1, <2>2
<1>10. s \o t = Bytes(0, n + m)
  <2> DEFINE u == s \o t
             v == Bytes(0, n + m)
  <2>1. /\ u \in Seq(S) /\ v \in Seq(S) /\ Len(u) = n + m /\ Len(v) = n + m
        /\ \A i \in 1 .. n + m : u[i] = v[i]
    BY <1>1, <1>6, <1>7, <1>8, <1>9
  <2> HIDE DEF u, v
  <2>2. u = v
    BY <2>1
  <2> QED
    BY <2>2 DEF u, v
<1> QED
  BY <1>10 DEF s, t

LEMMA WholeSubSeq ==
  ASSUME NEW S, NEW s \in Seq(S)
  PROVE  SubSeq(s, 1, Len(s)) = s
<1>1. Len(s) \in Int /\ Len(s) \in Nat /\ \A i \in 1 .. Len(s) : s[i] \in S
  OBVIOUS
<1>2. /\ SubSeq(s, 1, Len(s)) \in Seq(S)
      /\ Len(SubSeq(s, 1, Len(s))) = IF 1 <= Len(s) THEN Len(s) - 1 + 1 ELSE 0
      /\ \A i \in 1 .. Len(s) - 1 + 1 : SubSeq(s, 1, Len(s))[i] = s[1 + i - 1]
  BY <1>1, SubSeqProperties
<1>3. Len(SubSeq(s, 1, Len(s))) = Len(s)
  BY <1>1, <1>2
<1>4. \A i \in 1 .. Len(s) : SubSeq(s, 1, Len(s))[i] = s[i]
  BY <1>1, <1>2
<1> QED
  BY <1>2, <1>3, <1>4

LEMMA RoomNat ==
  ASSUME ProgramTypeOK, Len(out) \in Nat
  PROVE  /\ Room \in Nat
         /\ target = "open" => Room = IF 0 >= world.room - Len(out) THEN 0 ELSE world.room - Len(out)
         /\ target # "open" => Room = 0
<1>1. world.room \in Nat
  BY WorldFacts
<1>2. world.room - Len(out) \in Int
  BY <1>1
<1>3. Max({0, world.room - Len(out)}) = IF 0 >= world.room - Len(out) THEN 0 ELSE world.room - Len(out)
  BY <1>2, Larger
<1> QED
  BY <1>2, <1>3 DEF Room

LEMMA DrawInt ==
  ASSUME NEW s \in Int, NEW d \in Int, Draw(s, d)
  PROVE  rxBar' \in Int
<1>1. Endless \in Int /\ Columns(s, d) \in Int
  BY ColumnsInt DEF Endless
<1> QED
  BY <1>1 DEF Draw

LEMMA ReadStartKeeps ==
  ASSUME DataInv, PortStep, ReadStart, UNCHANGED sendVars
  PROVE  DataInv'
<1>1. /\ hand.c = "start" /\ hand' = NoPacket /\ UNCHANGED <<signals, offer, taken, late>>
      /\ UNCHANGED <<stage, order, received>>
      /\ fileSize' \in IntValue /\ target' \in {"failed", "open"} /\ rxBar' = Columns(fileSize', received)
      /\ out' \in {out, <<>>}
  BY DEF ReadStart, Handles, Done, programVars, Assembled
<1>2. hand = late /\ late.c = "start" /\ order = 0 /\ received = 0 /\ out = <<>>
  BY <1>1, Reader
<1>3. rxBar' \in Int
  <2>1. fileSize' \in Int /\ received \in Int
    BY <1>1, Reader DEF IntValue
  <2> QED
    BY <1>1, <2>1, ColumnsInt
<1>4. ReadTypeOK' /\ OutIsPrefix'
  BY <1>1, <1>2, <1>3 DEF DataInv, ReadTypeOK, OutIsPrefix
<1> QED
  BY <1>1, <1>2, <1>4, HandChanges

(* The bytes of a packet in its turn continue the output, as far as the    *)
(* disk takes them.                                                        *)
LEMMA Continued ==
  ASSUME DataInv, Ports, ReadData
  PROVE  /\ hand = late /\ late.c = "data" /\ order' = Succ(late.seq)
         /\ out' = Bytes(0, Len(out')) /\ Len(out') \in Nat /\ Len(out) <= Len(out')
         /\ target # "open" => out' = out
         /\ Len(out) <= world.room => Len(out') <= world.room
         /\ \A x \in 0 .. offset : RowAt(x) => Reached(x)' /\ received' = ToInt(x)
<1>1. /\ hand.c = "data" /\ hand.seq = order /\ order' = (order + 1) % Base
      /\ out' = Wrote(SubSeq(hand.bytes, 1, LengthOf(hand)))
      /\ received' = ToInt(received + LengthOf(hand))
      /\ UNCHANGED <<world, target>>
  BY DEF ReadData, Handles, programVars
<1>2. /\ hand = late /\ late.c = "data" /\ late.seq \in Byte /\ late.bytes \in Seq(Nat \ {0})
      /\ Len(late.bytes) \in Nat /\ LengthOf(late) = Len(late.bytes)
      /\ Len(out) \in Nat /\ out = Bytes(0, Len(out))
  BY <1>1, Reader, DataFields DEF DataInv, OutIsPrefix
<1>3. order' = Succ(late.seq) /\ Succ(late.seq) # late.seq
  BY <1>1, <1>2, SuccDiffers DEF Succ
<1>4. SubSeq(hand.bytes, 1, LengthOf(hand)) = late.bytes
  BY <1>2, WholeSubSeq
<1>5. /\ Room \in Nat
      /\ target = "open" => Room = IF 0 >= world.room - Len(out) THEN 0 ELSE world.room - Len(out)
      /\ target # "open" => Room = 0
  BY <1>2, RoomNat DEF Ports
<1>6. PICK n \in Nat, k \in Nat, m \in Nat :
        n = Len(out) /\ k = Len(late.bytes) /\ m = Min({k, Room})
  <2>1. Min({Len(late.bytes), Room}) \in Nat
    BY <1>2, <1>5, Smaller
  <2> QED
    BY <1>2, <2>1
<1>7. m = IF k <= Room THEN k ELSE Room
  BY <1>5, <1>6, Smaller
<1>8. out' = out \o SubSeq(late.bytes, 1, m)
  BY <1>1, <1>4, <1>6 DEF Wrote
<1>9. ASSUME NEW x \in 0 .. offset, RowAt(x)
      PROVE  InHand(x)
  BY <1>1, <1>2, <1>3, <1>9 DEF RowAt, Handled
<1>10. \E x \in 0 .. offset : RowAt(x)
  BY <1>2 DEF DataInv, RowInv
<1>11. ASSUME NEW x \in 0 .. offset, RowAt(x)
       PROVE  /\ k <= x /\ x \in Nat
              /\ late.bytes = Bytes(x - k, k)
              /\ n = x - k \/ (Room = 0 /\ n <= x - k)
              /\ received = ToInt(x - k)
  BY <1>6, <1>9, <1>11, Sender DEF InHand, Reached
<1>12. out' = Bytes(0, n + m)
  <2>1. PICK x \in 0 .. offset : RowAt(x)
    BY <1>10
  <2>2. k <= x /\ x \in Nat /\ late.bytes = Bytes(x - k, k)
    BY <1>11, <2>1
  <2>3. n = x - k \/ (Room = 0 /\ n <= x - k)
    BY <1>11, <2>1
  <2>4. m \in 0 .. k /\ (m > 0 => n = x - k) /\ x - k \in Nat
    BY <1>5, <1>7, <2>2, <2>3
  <2>5. Bytes(0, n) \o SubSeq(Bytes(x - k, k), 1, m) = Bytes(0, n + m)
    BY <2>4, Grown
  <2> QED
    BY <1>2, <1>6, <1>8, <2>2, <2>5
<1>13. PICK l \in Nat : l = n + m
  OBVIOUS
<1>14. out' = Bytes(0, l) /\ Len(out') = l
  BY <1>12, <1>13, BytesText
<1>15. target # "open" => out' = out
  BY <1>2, <1>5, <1>6, <1>7, <1>12
<1>16. ASSUME NEW x \in 0 .. offset, RowAt(x)
       PROVE  Reached(x)' /\ received' = ToInt(x)
  <2>0. received' = ToInt(x)
    <3>1. received' = ToInt(ToInt(x - k) + k)
      BY <1>1, <1>2, <1>6, <1>11, <1>16
    <3>2. x \in Int /\ k \in Int /\ x - k \in Int /\ (x - k) + k = x
      OBVIOUS
    <3> QED
      BY <3>1, <3>2, ToIntSum
  <2>1. k <= x /\ x \in Nat
    BY <1>11, <1>16
  <2>2. n = x - k \/ (Room = 0 /\ n <= x - k)
    BY <1>11, <1>16
  <2>3. CASE n = x - k /\ m = k
    <3>1. l = x
      BY <1>13, <2>1, <2>3
    <3> QED
      BY <1>14, <2>0, <3>1 DEF Reached
  <2>4. CASE m # k \/ Room = 0
    <3>1. m = Room /\ l <= x
      BY <1>5, <1>7, <1>13, <2>1, <2>2, <2>4
    <3>2. CASE target = "open"
      <4>1. world.room \in Nat
        BY WorldFacts DEF Ports
      <4>2. world.room - l \in Int /\ 0 >= world.room - l
        BY <1>5, <1>6, <1>13, <3>1, <3>2, <4>1
      <4>3. Max({0, world.room - l}) = 0
        BY <4>2, Larger
      <4>4. Room' = 0
        BY <1>1, <1>14, <3>2, <4>3 DEF Room
      <4> QED
        BY <1>14, <2>0, <3>1, <4>4 DEF Reached
    <3>3. CASE target # "open"
      <4>1. Room' = 0
        BY <1>1, <3>3 DEF Room
      <4> QED
        BY <1>14, <2>0, <3>1, <4>1 DEF Reached
    <3> QED
      BY <3>2, <3>3
  <2> QED
    BY <2>2, <2>3, <2>4
<1>17. Len(out) <= Len(out')
  BY <1>6, <1>13, <1>14
<1>18. Len(out) <= world.room => Len(out') <= world.room
  <2>1. world.room \in Nat
    BY WorldFacts DEF Ports
  <2> QED
    BY <1>5, <1>6, <1>7, <1>13, <1>14, <2>1
<1> QED
  BY <1>2, <1>3, <1>14, <1>15, <1>16, <1>17, <1>18

LEMMA ReadDataKeeps ==
  ASSUME DataInv, Ports, PortStep, ReadData, UNCHANGED sendVars
  PROVE  DataInv'
<1>1. /\ hand' = NoPacket /\ UNCHANGED <<signals, offer, taken, late>>
      /\ UNCHANGED <<stage, target, fileSize>>
      /\ received' = ToInt(received + LengthOf(hand)) /\ Draw(fileSize, received')
  BY DEF ReadData, Done, programVars
<1>2. /\ hand = late /\ late.c = "data" /\ order' = Succ(late.seq)
      /\ out' = Bytes(0, Len(out')) /\ Len(out') \in Nat
  BY Continued
<1>3. \A x \in 0 .. offset : RowAt(x) => Reached(x)' /\ received' = ToInt(x)
  BY Continued
<1>4. received' \in IntValue /\ received' \in Int
  <2>1. LengthOf(hand) \in Nat /\ received \in Int
    BY <1>2, Reader, DataFields
  <2>2. received + LengthOf(hand) \in Int
    BY <2>1
  <2>3. received' \in IntValue
    BY <1>1, <2>2, ToIntRange
  <2> QED
    BY <2>3 DEF IntValue
<1>5. rxBar' \in Int
  BY <1>1, <1>4, Reader, DrawInt
<1>6. order' \in Byte /\ order' = Succ(late.seq)
  BY <1>2, Reader, SuccDiffers
<1>7. ReadTypeOK'
  <2>1. out' \in Seq(Nat \ {0})
    BY <1>2, BytesText
  <2> QED
    BY <1>1, <1>4, <1>5, <1>6, <2>1 DEF DataInv, ReadTypeOK
<1>8. OutIsPrefix'
  BY <1>2 DEF OutIsPrefix, Bytes
<1>9. target' = "closed" => late.c = "end"
  BY <1>1, Reader
<1>10. ASSUME NEW x \in 0 .. offset, RowAt(x) PROVE Handled(x)'
  <2>1. Reached(x)' /\ received' = ToInt(x)
    BY <1>3, <1>10
  <2>2. Succ(late.seq)' = order'
    BY <1>1, <1>2 DEF Succ
  <2> QED
    BY <2>1, <2>2 DEF Handled, ToInt
<1> QED
  BY <1>1, <1>2, <1>7, <1>8, <1>9, <1>10, HandChanges

LEMMA ReadOthersKeep ==
  ASSUME DataInv, Ports, PortStep, ReadCopy \/ ReadEnd \/ ReadNothing, UNCHANGED sendVars
  PROVE  DataInv'
<1>1. /\ hand' = NoPacket /\ UNCHANGED <<signals, offer, taken, late>>
      /\ UNCHANGED <<world, order, out, received, fileSize>>
  BY DEF ReadCopy, ReadEnd, ReadNothing, Done, programVars, readVars
<1>2. stage'["tx"] = stage["tx"]
  BY DEF ReadCopy, ReadEnd, ReadNothing, programVars, Goes, Ports, ProgramTypeOK, Program
<1>3. rxBar' \in Int
  <2>1. CASE ReadCopy
    BY <2>1 DEF ReadCopy, readVars, DataInv, ReadTypeOK
  <2>2. CASE ReadEnd \/ ReadNothing
    <3>1. Draw(fileSize, received)
      BY <2>2 DEF ReadEnd, ReadNothing
    <3> QED
      BY <3>1, Reader, DrawInt
  <2> QED
    BY <2>1, <2>2
<1>4. /\ target' \in {"unset", "open", "failed", "closed"}
      /\ target' = "closed" => late.c = "end"
      /\ ReadEnd => late.c = "end"
  <2>1. CASE ReadEnd
    <3>1. hand.c = "end"
      BY <2>1 DEF ReadEnd, Handles
    <3>2. late.c = "end"
      BY <3>1, Reader
    <3> QED
      BY <2>1, <3>2 DEF ReadEnd, DataInv, ReadTypeOK
  <2>2. CASE ReadCopy \/ ReadNothing
    <3>1. target' = target
      BY <2>2 DEF ReadCopy, ReadNothing, readVars
    <3>2. ReadEnd => late.c = "end"
      <4>1. ReadEnd => hand.c = "end"
        BY DEF ReadEnd, Handles
      <4> QED
        BY <4>1, Reader
    <3> QED
      BY <3>1, <3>2, Reader DEF DataInv, ReadTypeOK
  <2> QED
    BY <2>1, <2>2
<1>5. ReadTypeOK' /\ OutIsPrefix'
  BY <1>1, <1>3, <1>4 DEF DataInv, ReadTypeOK, OutIsPrefix
<1>6. late.c \in {"none", "start"} => order' = 0 /\ received' = 0 /\ out' = <<>>
  BY <1>1, Reader
<1>7. ASSUME NEW x \in 0 .. offset, late.c = "data", RowAt(x) PROVE Handled(x)'
  <2>1. ~ReadEnd
    BY <1>4, <1>7
  <2>2. target' = target
    BY <2>1 DEF ReadCopy, ReadNothing, readVars
  <2>3. Handled(x)
    <3>1. CASE ReadCopy
      <4>1. ~InHand(x)
        BY <3>1 DEF ReadCopy, InHand
      <4> QED
        BY <1>7, <4>1 DEF RowAt
    <3>2. CASE ReadNothing
      <4>1. hand.c = "error"
        BY <3>2 DEF ReadNothing, Handles
      <4> QED
        BY <1>7, <4>1, AllHandled
    <3> QED
      BY <2>1, <3>1, <3>2
  <2> QED
    BY <1>1, <2>2, <2>3 DEF Handled, Reached, Room
<1> QED
  BY <1>1, <1>2, <1>4, <1>5, <1>6, <1>7, HandChanges

LEMMA ReadKeeps ==
  ASSUME DataInv, Ports, PortStep, Read
  PROVE  DataInv'
<1>1. ReadStep /\ UNCHANGED sendVars
  BY DEF Read
<1>2. CASE ReadNull
  <2>1. UNCHANGED <<offer, taken, late, hand, signals, sendVars, readVars>>
    BY <1>1, <1>2 DEF ReadNull, linkVars
  <2>2. signals' \subseteq Signal
    BY <2>1 DEF DataInv, LinkTypes
  <2> QED
    BY <2>1, <2>2, DataUntouched
<1> QED
  BY <1>1, <1>2, ReadStartKeeps, ReadDataKeeps, ReadOthersKeep DEF ReadStep

-----------------------------------------------------------------------------
(* The invariant.                                                          *)

LEMMA DataInit ==
  ASSUME Init
  PROVE  DataInv
<1>1. /\ offer = NoPacket /\ late = NoPacket /\ hand = NoPacket /\ taken = FALSE /\ signals = {}
      /\ txPc = "sendStart" /\ total = 0 /\ bytes = 0 /\ offset = 0 /\ nSeq = 0 /\ txBar = 0
      /\ fileSize = 0 /\ order = 0 /\ received = 0 /\ target = "unset" /\ out = <<>> /\ rxBar = 0
      /\ stage = [p \in Program |-> "started"]
  BY DEF Init, ProgramInit, LinkInit, SendInit, ReadInit
<1>2. 0 \in IntValue /\ 0 \in Byte
  <2>1. HalfRange \in Nat /\ HalfRange > 0 /\ Base \in Nat /\ Base > 0
    BY PacketAssumption
  <2> QED
    BY <2>1 DEF IntValue, Byte
<1>3. NoPacket.c = "none"
  BY DEF NoPacket
<1>4. SendTypeOK /\ ReadTypeOK
  BY <1>1, <1>2 DEF SendTypeOK, ReadTypeOK
<1>5. LinkTypes
  BY <1>1 DEF LinkTypes, IsPacket
<1>6. PacketInv
  <2>1. stage["tx"] = "started"
    BY <1>1 DEF Program
  <2> QED
    BY <1>1, <1>3, <2>1 DEF PacketInv
<1>7. OutIsPrefix
  BY <1>1 DEF OutIsPrefix, Bytes
<1>8. RowAt(0)
  BY <1>1, <1>3 DEF RowAt, Untaken, NextRead, NextSeq
<1>9. RowInv
  BY <1>1, <1>8 DEF RowInv
<1> QED
  BY <1>4, <1>5, <1>6, <1>7, <1>9 DEF DataInv

LEMMA DataKept ==
  ASSUME DataInv, Ports, PortStep, [Next]_vars
  PROVE  DataInv'
<1>1. ASSUME NEW p \in Program, Main(p) PROVE DataInv'
  BY <1>1, MainKeeps
<1>2. CASE UNCHANGED vars
  <2>1. UNCHANGED <<offer, taken, late, hand, signals, sendVars, readVars>>
    BY <1>2 DEF vars, linkVars
  <2>2. signals' \subseteq Signal
    BY <2>1 DEF DataInv, LinkTypes
  <2> QED
    BY <2>1, <2>2, DataUntouched
<1> QED
  BY <1>1, <1>2, LinkKeeps, SendKeeps, ReceiveKeeps, ReadKeeps, EnvironmentKeeps DEF Next

LEMMA RowsInit == Init => RowsInv
BY DataInit, PortsInit DEF RowsInv

LEMMA RowsStep ==
  ASSUME RowsInv, [Next]_vars
  PROVE  RowsInv' /\ PortStep
<1>1. Ports' /\ PortStep
  BY PortsKept DEF RowsInv
<1>2. DataInv'
  BY <1>1, DataKept DEF RowsInv
<1> QED
  BY <1>1, <1>2 DEF RowsInv

(* Both programs, the packet between them and the file keep their types,   *)
(* and the bytes stand in one row from the input to the output, whatever   *)
(* is lost, repeated, damaged, interrupted or refused (app.c:484-676).     *)
LEMMA InRow == Spec => []RowsInv
<1>1. RowsInv /\ [Next]_vars => RowsInv'
  BY RowsStep
<1> QED
  BY RowsInit, <1>1, PTL DEF Spec

-----------------------------------------------------------------------------
(* FileCopy is implemented.                                                *)

LEMMA CopyInit == Init => Copy!Init
BY DEF Init, ReadInit, Copy!Init

LEMMA CopyRead ==
  ASSUME DataInv, Ports, ReadStep
  PROVE  Copy!Next \/ UNCHANGED <<out, target>>
<1>1. CASE ReadStart
  <2>1. /\ hand.c = "start" /\ target' \in {"open", "failed"} /\ out' \in {out, <<>>}
    BY <1>1 DEF ReadStart, Handles
  <2>2. late.c = "start" /\ out = <<>> /\ target # "closed"
    BY <2>1, Reader
  <2>3. target \in {"unset", "open", "failed"}
    BY <2>2 DEF DataInv, ReadTypeOK
  <2> QED
    BY <2>1, <2>2, <2>3 DEF Copy!Next, Copy!Open
<1>2. CASE ReadData
  <2>1. /\ out' = Bytes(0, Len(out')) /\ Len(out') \in Nat /\ Len(out) <= Len(out')
        /\ target # "open" => out' = out
    BY <1>2, Continued
  <2>2. target' = target
    BY <1>2 DEF ReadData
  <2>3. Bytes(0, Len(out')) = Copy!Prefix(Len(out'))
    BY <2>1 DEF Bytes, Copy!Prefix
  <2>4. CASE target = "open"
    <3>1. out' = Copy!Prefix(Len(out'))
      BY <2>1, <2>3
    <3> QED
      BY <2>1, <2>2, <2>4, <3>1 DEF Copy!Next, Copy!Extend
  <2> QED
    BY <2>1, <2>2, <2>4
<1>3. CASE ReadEnd
  BY <1>3 DEF ReadEnd, Copy!Next, Copy!Close
<1>4. CASE ReadCopy \/ ReadNothing \/ ReadNull
  BY <1>4 DEF ReadCopy, ReadNothing, ReadNull, readVars
<1> QED
  BY <1>1, <1>2, <1>3, <1>4 DEF ReadStep

LEMMA CopyStep == RowsInv /\ [Next]_vars => [Copy!Next]_(Copy!copyVars)
<1> SUFFICES ASSUME RowsInv, [Next]_vars PROVE Copy!Next \/ UNCHANGED <<out, target>>
  BY DEF Copy!copyVars
<1>1. Ports /\ DataInv
  BY DEF RowsInv
<1>2. CASE Read
  BY <1>1, <1>2, CopyRead DEF Read
<1>3. CASE (\E p \in Program : Main(p)) \/ Link \/ Send \/ Receive \/ Environment \/ UNCHANGED vars
  BY <1>3 DEF Main, Link, Send, Receive, Environment, vars, readVars
<1> QED
  BY <1>2, <1>3 DEF Next

(* The output file is opened empty, grows only by the bytes that come next *)
(* in the input, and is not touched once it is closed: for every size of   *)
(* file, frame, byte, int and disk, and every line (app.c:599-676).        *)
THEOREM FileCopied == Spec => CopySpec
<1>1. Init => Copy!Init
  BY CopyInit
<1>2. RowsInv /\ [Next]_vars => [Copy!Next]_(Copy!copyVars)
  BY CopyStep
<1> QED
  BY InRow, <1>1, <1>2, PTL DEF Spec, CopySpec, Copy!Spec

=============================================================================
