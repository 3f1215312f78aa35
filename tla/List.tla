-------------------------------- MODULE List --------------------------------
(***************************************************************************)
(* What the growing vector of ReceiverFrame.c promises: a list of values   *)
(* that is inserted into, removed from and overwritten at any position, in *)
(* one step each, and that is lost as a whole when memory runs out.        *)
(***************************************************************************)
EXTENDS Naturals, Sequences

CONSTANT Values

VARIABLES
  contents,  (* the values, in order          *)
  lost       (* memory ran out                *)

listVars == <<contents, lost>>

(* The sequences after a step, written position by position.               *)
Inserted(s, i, v) ==
  [j \in 1 .. Len(s) + 1 |-> IF j < i THEN s[j] ELSE IF j = i THEN v ELSE s[j - 1]]
Removed(s, i) == [j \in 1 .. Len(s) - 1 |-> IF j < i THEN s[j] ELSE s[j + 1]]

Init == contents = <<>> /\ lost = FALSE

Insert(i, v) ==
  /\ ~lost
  /\ contents' = Inserted(contents, i, v)
  /\ UNCHANGED lost

Remove(i) ==
  /\ ~lost
  /\ contents' = Removed(contents, i)
  /\ UNCHANGED lost

Assign(i, v) ==
  /\ ~lost
  /\ contents' = [contents EXCEPT ![i] = v]
  /\ UNCHANGED lost

Lose ==
  /\ contents' = <<>>
  /\ lost' = TRUE

Next ==
  \/ \E i \in 1 .. Len(contents) + 1, v \in Values : Insert(i, v)
  \/ \E i \in 1 .. Len(contents) : Remove(i)
  \/ \E i \in 1 .. Len(contents), v \in Values : Assign(i, v)
  \/ Lose

Spec == Init /\ [][Next]_listVars

=============================================================================
