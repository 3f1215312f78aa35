---------------------------- MODULE ReliableCopy ----------------------------
(***************************************************************************)
(* What Project1 promises its user: a file of N packets is copied in       *)
(* order, the transmitter counts a packet as delivered only when the       *)
(* receiver has it, and the receiver ends only with the whole file.        *)
(***************************************************************************)
EXTENDS Naturals, Sequences

CONSTANT N

VARIABLES
  received,  (* the packets the receiver holds, in order      *)
  acked,     (* how many the transmitter counts as delivered  *)
  ended      (* the receiver has seen the end of the file     *)

copyVars == <<received, acked, ended>>

Init == received = <<>> /\ acked = 0 /\ ended = FALSE

Receive ==
  /\ Len(received) < N
  /\ received' = Append(received, Len(received) + 1)
  /\ UNCHANGED <<acked, ended>>

Acknowledge ==
  /\ acked < Len(received)
  /\ acked' = acked + 1
  /\ UNCHANGED <<received, ended>>

End ==
  /\ Len(received) = N
  /\ ended' = TRUE
  /\ UNCHANGED <<received, acked>>

Next == Receive \/ Acknowledge \/ End

Spec == Init /\ [][Next]_copyVars

=============================================================================
