------------------------- MODULE ReceiverFrameProofs -------------------------
(***************************************************************************)
(* Proofs about ReceiverFrame, for vectors of any length: its memory is    *)
(* never left and never read before it is written, and the loops of insert *)
(* and removeElement amount to one step of a list.                         *)
(***************************************************************************)
EXTENDS ReceiverFrame, SequenceTheorems, TLAPS

-----------------------------------------------------------------------------
(* The invariant, one call and one round of a loop at a time.              *)

(* The counter of insert starts one before the length.                     *)
LEMMA LoopStart ==
  \A n \in Nat : \A m \in 0 .. n :
    n - 1 \in Int /\ m <= (n - 1) + 1 /\ (n - 1) + 1 <= n
  OBVIOUS

LEMMA InitInv == newFrame => IInv
  BY FrameAssumption DEF newFrame, IInv, TypeOK, CellsWritten, Gone, Index, Cell

LEMMA InsertInv ==
  ASSUME IInv, NEW v \in Values, NEW pos \in -1 .. MaxLength, insert(v, pos)
  PROVE  IInv'
<1> USE FrameAssumption DEF IInv, TypeOK, CellsWritten, Gone, Index, Cell
<1>1. /\ length' = length
      /\ call' = "insert"
      /\ at' \in 0 .. length
      /\ val' = v
      /\ i' = length - 1
  BY DEF insert, Start
<1>2. /\ size' \in Nat
      /\ length < size'
      /\ cells' \in {0, size'}
      /\ elements' \in [Index(cells') -> Cell]
      /\ cells' # 0 => \A j \in Index(length) : elements'[j] \in Values
  <2>1. CASE length < size /\ UNCHANGED <<size, cells, elements>>
    BY <2>1
  <2>2. CASE length = size /\ size' = Doubled /\ Realloc(Doubled)
    <3>1. size' \in Nat /\ size' > size
      BY <2>2 DEF Doubled
    <3>2. cells' = size' /\ elements' = [j \in Index(size') |-> IF j < cells THEN elements[j] ELSE Unset]
      BY <2>2 DEF Realloc
    <3>3. ASSUME NEW j \in Index(size')
          PROVE  (IF j < cells THEN elements[j] ELSE Unset) \in Cell
      <4>1. j < cells => j \in Index(cells)
        BY <3>1
      <4>2. QED BY <4>1
    <3>4. elements' \in [Index(cells') -> Cell]
      BY <3>2, <3>3
    <3>5. ASSUME NEW j \in Index(length) PROVE elements'[j] \in Values
      <4>1. length = cells \/ length = 0
        BY <2>2
      <4>2. QED BY <2>2, <3>1, <3>2, <4>1
    <3>6. QED BY <2>2, <3>1, <3>2, <3>4, <3>5
  <2>3. QED BY <2>1, <2>2 DEF insert
<1>3. length < MaxLength /\ length \in Nat /\ MaxLength \in Nat
  BY DEF insert
<1>4. at' \in Nat /\ at' <= length
  BY <1>1, <1>3
<1>5. i' \in Int /\ at' <= i' + 1 /\ i' + 1 <= length
  <2> HIDE DEF IInv, TypeOK, CellsWritten, Gone, Index, Cell
  <2>1. QED BY LoopStart, <1>1, <1>3, Zenon
<1>6. TypeOK'
  <2>1. val' \in Cell
    BY <1>1
  <2>2. QED BY <1>1, <1>2, <1>4, <1>5, <2>1
<1>7. CellsWritten'
  <2>1. Gone' => length' < size'
    BY <1>1, <1>2
  <2>2. ~(i' < length' - 1)
    BY <1>1, <1>3
  <2>3. length <= size'
    <3> HIDE DEF IInv, TypeOK, CellsWritten, Gone, Index, Cell
    <3>1. QED BY <1>2, <1>3
  <2>4. length' <= size' /\ (cells' # 0 => \A j \in Index(length') : elements'[j] \in Values)
    BY <1>1, <1>2, <2>3
  <2>5. call' # "remove"
    BY <1>1
  <2>6. QED
    BY <1>1, <1>2, <1>3, <1>4, <1>5, <2>1, <2>2, <2>4, <2>5
<1>8. QED BY <1>6, <1>7

LEMMA FailInv == ASSUME IInv, insertFails PROVE IInv'
  BY FrameAssumption DEF IInv, TypeOK, CellsWritten, Gone, Index, Cell, insertFails, Doubled

LEMMA ShiftInv == ASSUME IInv, Shift PROVE IInv'
<1> USE FrameAssumption DEF IInv, TypeOK, CellsWritten, Gone, Index, Cell
<1>1. /\ i \in Index(length) /\ i + 1 \in Index(cells) /\ i \in Index(cells)
      /\ cells = size
  BY DEF Shift, Reachable
<1>2. elements[i] \in Values
  BY <1>1 DEF Shift, Reachable
<1>3. elements' \in [Index(cells) -> Cell]
  BY <1>1, <1>2 DEF Shift
<1>4. \A j \in Index(length) : elements'[j] \in Values
  BY <1>1, <1>2 DEF Shift
<1>5. elements'[length] \in Values
  <2>1. CASE i + 1 = length
    BY <1>1, <1>2, <2>1 DEF Shift
  <2>2. CASE i + 1 # length
    BY <1>1, <1>2, <2>2 DEF Shift
  <2>3. QED BY <2>1, <2>2
<1>6. QED BY <1>1, <1>3, <1>4, <1>5 DEF Shift

LEMMA StoreInv == ASSUME IInv, Store PROVE IInv'
<1> USE FrameAssumption DEF IInv, TypeOK, CellsWritten, Gone, Index, Cell
<1>1. at \in Index(cells) /\ cells = size /\ length < size /\ at <= length /\ i = at - 1
  BY DEF Store, Reachable
<1>2. length + 1 \in 0 .. MaxLength
  BY DEF Store
<1>3. elements' \in [Index(cells) -> Cell]
  BY <1>1 DEF Store
<1>4. ASSUME NEW j \in Index(length + 1) PROVE elements'[j] \in Values
  <2>1. CASE j = at
    BY <1>1, <2>1 DEF Store
  <2>2. CASE j # at /\ j = length
    BY <1>1, <2>2 DEF Store, Reachable
  <2>3. CASE j # at /\ j # length
    BY <1>1, <2>3 DEF Store, Reachable
  <2>4. QED BY <2>1, <2>2, <2>3
<1>5. QED BY <1>1, <1>2, <1>3, <1>4 DEF Store

LEMMA RemoveInv ==
  ASSUME IInv, NEW pos \in Index(MaxLength), removeElement(pos)
  PROVE  IInv'
<1> USE FrameAssumption DEF IInv, TypeOK, CellsWritten, Gone, Index, Cell
<1>1. pos \in Nat /\ pos < length /\ pos + 1 \in Int
  BY DEF removeElement
<1>2. i' = pos + 1 /\ at' = pos /\ call' = "remove" /\ val' = Unset
  BY DEF removeElement, Start
<1>3. i' \in Int /\ at' \in Nat /\ at' < length /\ at' + 1 <= i' /\ i' <= length
  BY <1>1, <1>2
<1>4. QED BY <1>2, <1>3 DEF removeElement

LEMMA AssignInv ==
  ASSUME IInv, NEW v \in Values, NEW pos \in Index(MaxLength), assign(pos, v)
  PROVE  IInv'
  BY FrameAssumption
  DEF IInv, TypeOK, CellsWritten, Gone, Index, Cell, assign, Reachable

LEMMA CloseInv == ASSUME IInv, Close PROVE IInv'
<1> USE FrameAssumption DEF IInv, TypeOK, CellsWritten, Gone, Index, Cell
<1>1. i \in Index(length) /\ i - 1 \in Index(length) /\ cells = size
  BY DEF Close, Reachable
<1>2. elements[i] \in Values
  BY <1>1 DEF Close, Reachable
<1>3. elements' = [elements EXCEPT ![i - 1] = elements[i]]
  BY DEF Close
<1>4. elements' \in [Index(cells) -> Cell]
  BY <1>1, <1>2, <1>3
<1>5. \A j \in Index(length) : elements'[j] \in Values
  BY <1>1, <1>2, <1>3 DEF Close, Reachable
<1>6. i' = i + 1 /\ i' \in Int /\ i' <= length
  BY DEF Close
<1>7. QED BY <1>1, <1>4, <1>5, <1>6 DEF Close

LEMMA ShortenInv == ASSUME IInv, Shorten PROVE IInv'
<1> USE FrameAssumption DEF IInv, TypeOK, CellsWritten, Gone, Index, Cell
<1>1. length' = length - 1 /\ length' \in 0 .. MaxLength
  BY DEF Shorten
<1>2. QED BY <1>1 DEF Shorten

LEMMA NullAccessInv == ASSUME IInv, NullAccess PROVE IInv'
  BY FrameAssumption
  DEF IInv, TypeOK, CellsWritten, Gone, Index, Cell, NullAccess, Crash

LEMMA StepInv == IInv /\ [Next]_frameVars => IInv'
<1> SUFFICES ASSUME IInv, [Next]_frameVars PROVE IInv'
  OBVIOUS
<1>1. ASSUME NEW v \in Values, NEW pos \in -1 .. MaxLength, insert(v, pos) PROVE IInv'
  BY <1>1, InsertInv
<1>2. CASE insertFails
  BY <1>2, FailInv
<1>3. CASE Shift
  BY <1>3, ShiftInv
<1>4. CASE Store
  BY <1>4, StoreInv
<1>5. ASSUME NEW v \in Values, NEW pos \in Index(MaxLength), assign(pos, v) PROVE IInv'
  BY <1>5, AssignInv
<1>6. ASSUME NEW pos \in Index(MaxLength), removeElement(pos) PROVE IInv'
  BY <1>6, RemoveInv
<1>7. CASE Close
  BY <1>7, CloseInv
<1>8. CASE Shorten
  BY <1>8, ShortenInv
<1>9. CASE NullAccess
  BY <1>9, NullAccessInv
<1>10. CASE UNCHANGED frameVars
  BY <1>10 DEF frameVars, IInv, TypeOK, CellsWritten, Gone
<1>11. QED
  BY <1>1, <1>2, <1>3, <1>4, <1>5, <1>6, <1>7, <1>8, <1>9, <1>10 DEF Next

(* The vector stays within its memory and reads no cell that was not       *)
(* written, for vectors of any length and any failure of realloc           *)
(* (ReceiverFrame.c:54-106).                                               *)
THEOREM Invariant == Spec => []IInv
  BY InitInv, StepInv, PTL DEF Spec

-----------------------------------------------------------------------------
(* Every step is a step of the list, or none.                              *)

LEMMA LenOf ==
  ASSUME NEW n \in Nat, NEW S, NEW f \in [1 .. n -> S]
  PROVE  f \in Seq(S) /\ Len(f) = n
  OBVIOUS

LEMMA InitList == newFrame => AsList!Init
<1> SUFFICES ASSUME newFrame PROVE Contents = <<>> /\ Gone = FALSE
  BY DEF AsList!Init
<1>1. Gone = FALSE
  BY DEF newFrame, Gone
<1>2. Seen \in [1 .. 0 -> Cell]
  BY DEF newFrame, Seen
<1>3. QED BY <1>1, <1>2, LenOf, EmptySeq DEF Contents

LEMMA InsertList ==
  ASSUME IInv, ~Gone, NEW v \in Values, NEW pos \in -1 .. MaxLength, insert(v, pos)
  PROVE  UNCHANGED <<Contents, Gone>>
<1> USE FrameAssumption DEF IInv, TypeOK, CellsWritten, Gone, Index, Cell
<1>1. /\ call = "none" /\ length' = length
      /\ call' = "insert" /\ i' = length - 1 /\ length \in Nat
  BY DEF insert, Start
<1>2. Gone' = FALSE /\ \A j \in Index(length) : elements'[j] = elements[j]
  <2>1. CASE UNCHANGED <<size, cells, elements>>
    BY <2>1
  <2>2. CASE length = size /\ size' = Doubled /\ Realloc(Doubled)
    <3>1. size' \in Nat /\ size' > size
      BY <2>2 DEF Doubled
    <3>2. cells' = size' /\ elements' = [j \in Index(size') |-> IF j < cells THEN elements[j] ELSE Unset]
      BY <2>2 DEF Realloc
    <3>3. cells = length
      BY <2>2
    <3>4. QED BY <3>1, <3>2, <3>3, <2>2
  <2>3. QED BY <2>1, <2>2 DEF insert
<1> HIDE DEF Gone
<1>3. Contents' = Seen'
  BY <1>2 DEF Contents
<1>4. Seen = [j \in 1 .. length |-> elements[j - 1]]
  BY <1>1 DEF Seen
<1>5. Seen' = [j \in 1 .. length |-> IF j - 1 > i' THEN elements'[j] ELSE elements'[j - 1]]
  BY <1>1 DEF Seen
<1>6. ASSUME NEW j \in 1 .. length
      PROVE  (IF j - 1 > i' THEN elements'[j] ELSE elements'[j - 1]) = elements[j - 1]
  <2>1. j - 1 \in Index(length) /\ ~(j - 1 > length - 1)
    BY <1>1
  <2>2. QED BY <2>1, <1>1, <1>2
<1>7. Seen' = Seen
  BY <1>4, <1>5, <1>6
<1>8. Contents = Seen
  BY DEF Contents
<1>9. Gone' = Gone
  BY <1>2 DEF Gone
<1>10. QED BY <1>3, <1>7, <1>8, <1>9

LEMMA ShiftList == ASSUME IInv, ~Gone, Shift PROVE UNCHANGED <<Contents, Gone>>
<1> USE FrameAssumption DEF IInv, TypeOK, CellsWritten, Index, Cell
<1>1. UNCHANGED Gone
  BY DEF Gone, Shift
<1>2. Seen = [j \in 1 .. length |-> IF j - 1 > i THEN elements[j] ELSE elements[j - 1]]
  BY DEF Seen, Shift
<1>3. Seen' = [j \in 1 .. length |-> IF j - 1 > i' THEN elements'[j] ELSE elements'[j - 1]]
  BY DEF Seen, Shift
<1>4. i' = i - 1 /\ i \in Nat /\ elements' = [elements EXCEPT ![i + 1] = elements[i]]
  BY DEF Shift
<1>5. i + 1 \in Index(cells) /\ cells = size /\ length < cells /\ length \in Nat
  BY DEF Shift, Reachable
<1>6. ASSUME NEW j \in 1 .. length
      PROVE  (IF j - 1 > i - 1 THEN elements'[j] ELSE elements'[j - 1])
             = (IF j - 1 > i THEN elements[j] ELSE elements[j - 1])
  <2>1. CASE j - 1 < i
    BY <1>4, <1>5, <2>1
  <2>2. CASE j - 1 = i
    BY <1>4, <1>5, <2>2
  <2>3. CASE j - 1 > i
    BY <1>4, <1>5, <2>3
  <2>4. QED BY <1>4, <2>1, <2>2, <2>3
<1>7. Seen' = Seen
  BY <1>2, <1>3, <1>4, <1>6
<1>8. QED BY <1>1, <1>7 DEF Contents

LEMMA StoreList == ASSUME IInv, ~Gone, Store PROVE AsList!Next
<1> USE FrameAssumption DEF IInv, TypeOK, CellsWritten, Index, Cell
<1>1. UNCHANGED Gone
  BY DEF Gone, Store
<1>2. i = at - 1 /\ length \in Nat /\ at \in 0 .. length /\ cells = size /\ length < cells
  BY DEF Store, Reachable
<1>3. Seen = [j \in 1 .. length |-> IF j - 1 > i THEN elements[j] ELSE elements[j - 1]]
  BY DEF Seen, Store
<1>4. Seen' = [j \in 1 .. length + 1 |-> elements'[j - 1]]
  BY DEF Seen, Store
<1>5. elements' = [elements EXCEPT ![at] = val]
  BY DEF Store
<1>6. Len(Seen) = length
  <2>1. Seen \in [1 .. length -> {Seen[j] : j \in 1 .. length}]
    BY <1>3
  <2>2. QED BY <1>2, <2>1, LenOf
<1>7. AsList!Inserted(Seen, at + 1, val)
        = [j \in 1 .. length + 1 |->
             IF j < at + 1 THEN Seen[j] ELSE IF j = at + 1 THEN val ELSE Seen[j - 1]]
  BY <1>6 DEF AsList!Inserted
<1>8. ASSUME NEW j \in 1 .. length + 1
      PROVE  elements'[j - 1]
             = (IF j < at + 1 THEN Seen[j] ELSE IF j = at + 1 THEN val ELSE Seen[j - 1])
  <2>1. CASE j < at + 1
    <3>1. j \in 1 .. length /\ j - 1 \in Index(cells) /\ j - 1 # at /\ ~(j - 1 > i)
      BY <1>2, <2>1
    <3>2. QED BY <1>3, <1>5, <2>1, <3>1
  <2>2. CASE j = at + 1
    BY <1>2, <1>5, <2>2
  <2>3. CASE j > at + 1
    <3>1. /\ j - 1 \in 1 .. length /\ j - 1 \in Index(cells) /\ j - 1 # at
          /\ (j - 1) - 1 > i
      BY <1>2, <2>3
    <3>2. QED BY <1>3, <1>5, <2>3, <3>1
  <2>4. QED BY <1>2, <2>1, <2>2, <2>3
<1>9. Seen' = AsList!Inserted(Seen, at + 1, val)
  BY <1>4, <1>7, <1>8
<1>10. at + 1 \in 1 .. Len(Seen) + 1 /\ val \in Values
  BY <1>2, <1>6 DEF Store
<1>11. Contents = Seen /\ Contents' = Seen'
  BY <1>1 DEF Contents
<1>12. AsList!Insert(at + 1, val)
  BY <1>1, <1>9, <1>11 DEF AsList!Insert
<1>13. QED BY <1>10, <1>11, <1>12 DEF AsList!Next

LEMMA AssignList ==
  ASSUME IInv, ~Gone, NEW v \in Values, NEW pos \in Index(MaxLength), assign(pos, v)
  PROVE  AsList!Next
<1> USE FrameAssumption DEF IInv, TypeOK, CellsWritten, Index, Cell
<1>1. UNCHANGED Gone
  BY DEF Gone, assign
<1>2. /\ pos \in Index(length) /\ pos \in Index(cells) /\ length \in Nat
      /\ elements' = [elements EXCEPT ![pos] = v]
  BY DEF assign, Reachable
<1>3. Seen = [j \in 1 .. length |-> elements[j - 1]]
  BY DEF Seen, assign
<1>4. Seen' = [j \in 1 .. length |-> elements'[j - 1]]
  BY DEF Seen, assign
<1>5. Len(Seen) = length
  <2>1. Seen \in [1 .. length -> {Seen[j] : j \in 1 .. length}]
    BY <1>3
  <2>2. QED BY <1>2, <2>1, LenOf
<1>6. [Seen EXCEPT ![pos + 1] = v]
        = [j \in 1 .. length |-> IF j = pos + 1 THEN v ELSE Seen[j]]
  BY <1>2, <1>3
<1>7. ASSUME NEW j \in 1 .. length
      PROVE  elements'[j - 1] = (IF j = pos + 1 THEN v ELSE Seen[j])
  <2>1. j - 1 \in Index(cells)
    BY <1>2 DEF assign, Reachable
  <2>2. QED BY <1>2, <1>3, <2>1
<1>8. Seen' = [Seen EXCEPT ![pos + 1] = v]
  BY <1>4, <1>6, <1>7
<1>9. Contents = Seen /\ Contents' = Seen'
  BY <1>1 DEF Contents
<1>10. AsList!Assign(pos + 1, v) /\ pos + 1 \in 1 .. Len(Contents)
  BY <1>1, <1>2, <1>5, <1>8, <1>9 DEF AsList!Assign
<1>11. QED BY <1>10 DEF AsList!Next

LEMMA RemoveList ==
  ASSUME IInv, ~Gone, NEW pos \in Index(MaxLength), removeElement(pos)
  PROVE  AsList!Next
<1> USE FrameAssumption DEF IInv, TypeOK, CellsWritten, Index, Cell
<1>1. UNCHANGED Gone
  BY DEF Gone, removeElement
<1>2. /\ pos \in Index(length) /\ length \in Nat
      /\ i' = pos + 1 /\ length' = length /\ elements' = elements
  BY DEF removeElement, Start
<1>3. Seen = [j \in 1 .. length |-> elements[j - 1]]
  BY DEF Seen, removeElement
<1>4. Seen' = [j \in 1 .. length - 1 |-> IF j >= i' THEN elements[j] ELSE elements[j - 1]]
  BY <1>2 DEF Seen, removeElement, Start
<1>5. Len(Seen) = length
  <2>1. Seen \in [1 .. length -> {Seen[j] : j \in 1 .. length}]
    BY <1>3
  <2>2. QED BY <1>2, <2>1, LenOf
<1>6. AsList!Removed(Seen, pos + 1)
        = [j \in 1 .. length - 1 |-> IF j < pos + 1 THEN Seen[j] ELSE Seen[j + 1]]
  BY <1>5 DEF AsList!Removed
<1>7. ASSUME NEW j \in 1 .. length - 1
      PROVE  (IF j >= pos + 1 THEN elements[j] ELSE elements[j - 1])
             = (IF j < pos + 1 THEN Seen[j] ELSE Seen[j + 1])
  <2>1. /\ j \in 1 .. length /\ j + 1 \in 1 .. length /\ (j + 1) - 1 = j
        /\ j < pos + 1 <=> ~(j >= pos + 1)
    BY <1>2
  <2>2. QED BY <1>3, <2>1
<1>8. Seen' = AsList!Removed(Seen, pos + 1)
  BY <1>2, <1>4, <1>6, <1>7
<1>9. Contents = Seen /\ Contents' = Seen'
  BY <1>1 DEF Contents
<1>10. AsList!Remove(pos + 1) /\ pos + 1 \in 1 .. Len(Contents)
  BY <1>1, <1>2, <1>5, <1>8, <1>9 DEF AsList!Remove
<1>11. QED BY <1>10 DEF AsList!Next

LEMMA CloseList == ASSUME IInv, ~Gone, Close PROVE UNCHANGED <<Contents, Gone>>
<1> USE FrameAssumption DEF IInv, TypeOK, CellsWritten, Index, Cell
<1>1. UNCHANGED Gone
  BY DEF Gone, Close
<1>2. Seen = [j \in 1 .. length - 1 |-> IF j >= i THEN elements[j] ELSE elements[j - 1]]
  BY DEF Seen, Close
<1>3. Seen' = [j \in 1 .. length - 1 |-> IF j >= i' THEN elements'[j] ELSE elements'[j - 1]]
  BY DEF Seen, Close
<1>4. /\ i' = i + 1 /\ i \in Nat /\ i < length
      /\ elements' = [elements EXCEPT ![i - 1] = elements[i]]
  BY DEF Close
<1>5. i - 1 \in Index(cells) /\ cells = size /\ length <= cells /\ length \in Nat
  BY DEF Close, Reachable
<1>6. ASSUME NEW j \in 1 .. length - 1
      PROVE  (IF j >= i + 1 THEN elements'[j] ELSE elements'[j - 1])
             = (IF j >= i THEN elements[j] ELSE elements[j - 1])
  <2>1. CASE j < i
    BY <1>4, <1>5, <2>1
  <2>2. CASE j = i
    BY <1>4, <1>5, <2>2
  <2>3. CASE j > i
    BY <1>4, <1>5, <2>3
  <2>4. QED BY <1>4, <2>1, <2>2, <2>3
<1>7. Seen' = Seen
  BY <1>2, <1>3, <1>4, <1>6
<1>8. QED BY <1>1, <1>7 DEF Contents

LEMMA ShortenList == ASSUME IInv, ~Gone, Shorten PROVE UNCHANGED <<Contents, Gone>>
<1> USE FrameAssumption DEF IInv, TypeOK, CellsWritten, Index, Cell
<1>1. UNCHANGED Gone
  BY DEF Gone, Shorten
<1>2. Seen = [j \in 1 .. length - 1 |-> IF j >= i THEN elements[j] ELSE elements[j - 1]]
  BY DEF Seen, Shorten
<1>3. Seen' = [j \in 1 .. length - 1 |-> elements[j - 1]]
  BY DEF Seen, Shorten
<1>4. i = length
  BY DEF Shorten
<1>5. Seen' = Seen
  BY <1>2, <1>3, <1>4
<1>6. QED BY <1>1, <1>5 DEF Contents

LEMMA GoneList == ASSUME IInv, Gone, Next PROVE AsList!Next \/ UNCHANGED <<Contents, Gone>>
<1>1. Gone'
  BY FrameAssumption
  DEF IInv, TypeOK, CellsWritten, Gone, Next, insert, Start, insertFails, Shift, Store,
      assign, removeElement, Close, Shorten, NullAccess, Crash, Reachable
<1>2. QED BY <1>1 DEF Contents

LEMMA ListStep == IInv /\ [Next]_frameVars => [AsList!Next]_AsList!listVars
<1> SUFFICES ASSUME IInv, [Next]_frameVars
             PROVE  AsList!Next \/ UNCHANGED <<Contents, Gone>>
  BY DEF AsList!listVars
<1>1. CASE Gone /\ Next
  BY <1>1, GoneList
<1>2. CASE UNCHANGED frameVars
  BY <1>2 DEF frameVars, Contents, Seen, Gone
<1>3. CASE ~Gone /\ Next
  <2>1. ASSUME NEW v \in Values, NEW pos \in -1 .. MaxLength, insert(v, pos)
        PROVE  UNCHANGED <<Contents, Gone>>
    BY <1>3, <2>1, InsertList
  <2>2. CASE insertFails
    <3>1. Gone'
      BY <2>2, FrameAssumption DEF insertFails, Gone, Doubled, IInv, TypeOK
    <3>2. AsList!Lose
      BY <3>1 DEF AsList!Lose, Contents
    <3>3. QED BY <3>2 DEF AsList!Next
  <2>3. CASE Shift
    BY <1>3, <2>3, ShiftList
  <2>4. CASE Store
    BY <1>3, <2>4, StoreList
  <2>5. ASSUME NEW v \in Values, NEW pos \in Index(MaxLength), assign(pos, v)
        PROVE  AsList!Next
    BY <1>3, <2>5, AssignList
  <2>6. ASSUME NEW pos \in Index(MaxLength), removeElement(pos) PROVE AsList!Next
    BY <1>3, <2>6, RemoveList
  <2>7. CASE Close
    BY <1>3, <2>7, CloseList
  <2>8. CASE Shorten
    BY <1>3, <2>8, ShortenList
  <2>9. CASE NullAccess
    BY <1>3, <2>9 DEF NullAccess, Gone, IInv, CellsWritten, TypeOK
  <2>10. QED
    BY <1>3, <2>1, <2>2, <2>3, <2>4, <2>5, <2>6, <2>7, <2>8, <2>9 DEF Next
<1>4. QED BY <1>1, <1>2, <1>3

(* A vector whose insert and removeElement move the cells behind the       *)
(* position one by one is a list: every call is one insertion, removal or  *)
(* assignment, and only a failed realloc loses the values                  *)
(* (ReceiverFrame.c:31-106).                                               *)
THEOREM ListImplemented == Spec => ListSpec
<1>1. newFrame => AsList!Init
  BY InitList
<1>2. IInv /\ [Next]_frameVars => [AsList!Next]_AsList!listVars
  BY ListStep
<1>3. QED BY <1>1, <1>2, Invariant, PTL DEF Spec, ListSpec, AsList!Spec

=============================================================================
