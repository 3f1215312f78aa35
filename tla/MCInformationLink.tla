-------------------------- MODULE MCInformationLink --------------------------
(* Model-checking instances of InformationLink: the packets to send.       *)
EXTENDS InformationLink

(* Every packet of four or five bytes over the bytes that matter to the    *)
(* stuffing.                                                               *)
StuffingBytes == {FLAG, ESCAPE, FlagMark, EscapeMark, Zero}
StuffingPayloads == [1 .. 4 -> StuffingBytes] \cup [1 .. 5 -> {FLAG, ESCAPE, FlagMark}]

(* A few packets that need stuffing, or look like a header.                *)
NoisePayloads == {<<{0}, FLAG, ESCAPE, {1}>>, <<{4}, AE, CI, AE>>}
NoiseSet == {FLAG, ESCAPE, AE, {5}}
AllPayloads == StuffingPayloads \cup NoisePayloads

NoBytes == {}
AnyGarbage == {Zero, FLAG, AE}

=============================================================================
