--------------------------- MODULE MCReceiverFrame ---------------------------
(* Model-checking instance of ReceiverFrame.                               *)
EXTENDS ReceiverFrame

=============================================================================
