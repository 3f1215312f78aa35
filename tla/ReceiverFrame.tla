---------------------------- MODULE ReceiverFrame ----------------------------
(***************************************************************************)
(* ReceiverFrame.c: the vector that collects the bytes of a frame.  Its    *)
(* memory doubles when it is full; insert and removeElement move the cells *)
(* behind the position one by one, so a call takes several steps here, one *)
(* for each round of its loop.  A cell is Unset until it is written.       *)
(***************************************************************************)
EXTENDS Integers, Sequences

CONSTANTS
  Values,      (* what a cell may hold                                     *)
  Unset,       (* what memory holds before it is written                   *)
  MaxLength,   (* bound: the elements of the vector                        *)
  MayFail      (* realloc may find no memory                               *)

ASSUME FrameAssumption ==
  /\ Unset \notin Values
  /\ MaxLength \in Nat
  /\ MayFail \in BOOLEAN

VARIABLES
  length,    (* vec->length                                                *)
  size,      (* vec->size                                                  *)
  cells,     (* how many cells vec->elements points at, 0 for NULL         *)
  elements,  (* those cells, by their index                                *)
  call,      (* the call that is running                                   *)
  at,        (* its position                                               *)
  val,       (* its value                                                  *)
  i          (* the counter of its loop                                    *)

frameVars == <<length, size, cells, elements, call, at, val, i>>

Cell == Values \cup {Unset}
Index(n) == 0 .. n - 1

newFrame ==
  /\ length = 0
  /\ size = 0
  /\ cells = 0
  /\ elements = [j \in Index(0) |-> Unset]
  /\ call = "none"
  /\ at = 0
  /\ val = Unset
  /\ i = 0

(* Through a null pointer no cell can be reached: the program crashes.     *)
Reachable == cells # 0
Crash ==
  /\ call' = "crashed"
  /\ UNCHANGED <<length, size, cells, elements, at, val, i>>

-----------------------------------------------------------------------------
(* The memory after realloc to n cells: the old cells keep their values.   *)
Realloc(n) ==
  /\ cells' = n
  /\ elements' = [j \in Index(n) |-> IF j < cells THEN elements[j] ELSE Unset]

(* Mutant of Doubled: the first cell is not counted.                       *)
DoubledFromOne == 2 * size
Doubled == IF size = 0 THEN 1 ELSE 2 * size

Start(name, p, v, k) ==
  /\ call' = name
  /\ at' = p
  /\ val' = v
  /\ i' = k

(* insert, up to its loop.  The position -1 stands for the end.            *)
insert(v, pos) ==
  /\ call = "none"
  /\ pos \in -1 .. length
  /\ length < MaxLength
  /\ \/ /\ length < size
        /\ UNCHANGED <<size, cells, elements>>
     \/ /\ length = size
        /\ size' = Doubled
        /\ Realloc(Doubled)
  /\ Start("insert", IF pos = -1 THEN length ELSE pos, v, length - 1)
  /\ UNCHANGED length

(* realloc returns NULL: insert returns -1, the cells are gone and size    *)
(* is already doubled.                                                     *)
insertFails ==
  /\ call = "none"
  /\ MayFail
  /\ length < MaxLength
  /\ length = size
  /\ size' = Doubled
  /\ cells' = 0
  /\ elements' = [j \in Index(0) |-> Unset]
  /\ UNCHANGED <<length, call, at, val, i>>

(* Mutant of Shift: the cells are moved from the front.                    *)
ShiftUpwards ==
  /\ call = "insert"
  /\ i >= at
  /\ Reachable
  /\ LET k == at + length - 1 - i
     IN  elements' = [elements EXCEPT ![k + 1] = elements[k]]
  /\ i' = i - 1
  /\ UNCHANGED <<length, size, cells, call, at, val>>

(* One round of the loop of insert.                                        *)
Shift ==
  /\ call = "insert"
  /\ i >= at
  /\ Reachable
  /\ elements' = [elements EXCEPT ![i + 1] = elements[i]]
  /\ i' = i - 1
  /\ UNCHANGED <<length, size, cells, call, at, val>>

(* insert behind its loop.                                                 *)
Store ==
  /\ call = "insert"
  /\ i < at
  /\ Reachable
  /\ elements' = [elements EXCEPT ![at] = val]
  /\ length' = length + 1
  /\ call' = "none"
  /\ UNCHANGED <<size, cells, at, val, i>>

assign(pos, v) ==
  /\ call = "none"
  /\ pos \in Index(length)
  /\ Reachable
  /\ elements' = [elements EXCEPT ![pos] = v]
  /\ UNCHANGED <<length, size, cells, call, at, val, i>>

removeElement(pos) ==
  /\ call = "none"
  /\ pos \in Index(length)
  /\ Start("remove", pos, Unset, pos + 1)
  /\ UNCHANGED <<length, size, cells, elements>>

(* One round of the loop of removeElement, and the end of the call.        *)
Close ==
  /\ call = "remove"
  /\ i < length
  /\ Reachable
  /\ elements' = [elements EXCEPT ![i - 1] = elements[i]]
  /\ i' = i + 1
  /\ UNCHANGED <<length, size, cells, call, at, val>>

Shorten ==
  /\ call = "remove"
  /\ i >= length
  /\ length' = length - 1
  /\ call' = "none"
  /\ UNCHANGED <<size, cells, elements, at, val, i>>

(* elementAt, assign or a loop meets the null pointer.                     *)
NullAccess ==
  /\ cells = 0
  /\ \/ call = "none" /\ length > 0
     \/ call = "insert"
     \/ call = "remove" /\ i < length
  /\ Crash

Next ==
  \/ \E v \in Values, pos \in -1 .. MaxLength : insert(v, pos)
  \/ insertFails
  \/ Shift
  \/ Store
  \/ \E v \in Values, pos \in Index(MaxLength) : assign(pos, v)
  \/ \E pos \in Index(MaxLength) : removeElement(pos)
  \/ Close
  \/ Shorten
  \/ NullAccess

Spec == newFrame /\ [][Next]_frameVars

-----------------------------------------------------------------------------
TypeOK ==
  /\ length \in 0 .. MaxLength
  /\ size \in Nat
  /\ cells \in {0, size}
  /\ elements \in [Index(cells) -> Cell]
  /\ call \in {"none", "insert", "remove", "crashed"}
  /\ at \in Nat
  /\ val \in Cell
  /\ i \in Int

(* The pointer is null although cells were asked for.                      *)
Gone == cells = 0 /\ size > 0

(* No access goes past the memory of the vector, no element is a cell that *)
(* was never written, whatever the loops of insert and removeElement are   *)
(* doing: length stays within size, a running insert has a cell to move    *)
(* into, the moved and unmoved parts are both written, and the program     *)
(* crashes only when memory ran out.                                       *)
CellsWritten ==
  /\ length <= size
  /\ Gone => length < size
  /\ cells # 0 => \A j \in Index(length) : elements[j] \in Values
  /\ call = "insert" =>
       /\ val \in Values
       /\ at <= length
       /\ at <= i + 1 /\ i + 1 <= length
       /\ length < size /\ length < MaxLength
       /\ cells # 0 /\ i < length - 1 => elements[length] \in Values
  /\ call = "remove" =>
       /\ at < length
       /\ at + 1 <= i /\ i <= length
  /\ call = "crashed" => Gone
IInv == TypeOK /\ CellsWritten

(* The list behind the cells.  While insert moves cells up, the list is    *)
(* still the old one; a removal is over for the list when its loop begins. *)
Seen ==
  CASE call = "insert" ->
         [j \in 1 .. length |-> IF j - 1 > i THEN elements[j] ELSE elements[j - 1]]
    [] call = "remove" ->
         [j \in 1 .. length - 1 |-> IF j >= i THEN elements[j] ELSE elements[j - 1]]
    [] OTHER -> [j \in 1 .. length |-> elements[j - 1]]

Contents == IF Gone THEN <<>> ELSE Seen

AsList == INSTANCE List WITH contents <- Contents, lost <- Gone

(* The vector implements the list, whatever its loops do to the cells.     *)
ListSpec == AsList!Spec

=============================================================================
