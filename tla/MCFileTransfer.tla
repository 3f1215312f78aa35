--------------------------- MODULE MCFileTransfer ---------------------------
(* Model-checking instances of FileTransfer: the constants are given in    *)
(* the configurations.                                                     *)
EXTENDS FileTransfer

=============================================================================
