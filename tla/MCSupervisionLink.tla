-------------------------- MODULE MCSupervisionLink --------------------------
(* Model-checking instances of SupervisionLink.                            *)
EXTENDS SupervisionLink

(* Noise turns a byte into a flag, an address, or a control byte awaited.  *)
NoiseSet == {FLAG, AE, RR1, REJ1, DISC}
AnyGarbage == {Zero, FLAG, AE}

(* A packet whose bytes look like the middle of a DISC frame.              *)
Repeated == {InformationFrame(<<AE, DISC, Xor(AE, DISC), {4}>>)}

ASSUME RepeatedHarmless == \A f \in Repeated : Harmless(f)

=============================================================================
