------------------------------ MODULE FileCopy ------------------------------
(***************************************************************************)
(* What the application layer promises about the output file: it is opened *)
(* empty, grows only by the bytes that come next in the input, and is      *)
(* never touched again once it is closed.                                  *)
(***************************************************************************)
EXTENDS Naturals, Sequences

VARIABLES
  file,    (* the bytes written, named by their places in the input       *)
  state    (* "unset", "open", "failed" (it could not be opened), "closed" *)

copyVars == <<file, state>>

Prefix(n) == [i \in 1 .. n |-> i]

Init == file = <<>> /\ state = "unset"

(* A repeated start packet opens it once more, while nothing is in it.     *)
Open ==
  /\ state \in {"unset", "open", "failed"}
  /\ file = <<>>
  /\ state' \in {"open", "failed"}
  /\ UNCHANGED file

Extend ==
  /\ state = "open"
  /\ Len(file) <= Len(file') /\ file' = Prefix(Len(file'))
  /\ UNCHANGED state

Close ==
  /\ state = "open"
  /\ state' = "closed"
  /\ UNCHANGED file

Next == Open \/ Extend \/ Close

Spec == Init /\ [][Next]_copyVars

=============================================================================
