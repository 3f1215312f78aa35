--------------------------- MODULE ReceiverMachine ---------------------------
(***************************************************************************)
(* ReceiverStateMachine.c: the machine llread feeds with the bytes of an   *)
(* information frame.  It removes the stuffing and computes BCC2 while the *)
(* bytes come in, two bytes behind the last one, because the last byte     *)
(* collected before the closing flag is the BCC2 that was sent.            *)
(***************************************************************************)
EXTENDS Framing

State == {"START", "FLAG", "A", "C", "COLLECTING", "FINAL", "ERROR"}

Machine == [state : State, frame : Seq(Byte), escapeFlag : BOOLEAN, bcc2 : Byte]

(* Mutant: the closing flag of a frame is taken for an opening one.        *)
newReceiverStateMachineInFlag(bcc2) ==
  [state |-> "FLAG", frame |-> <<>>, escapeFlag |-> FALSE, bcc2 |-> bcc2]

(* malloc leaves bcc2 as it is: any byte.                                  *)
newReceiverStateMachine(bcc2) ==
  [state |-> "START", frame |-> <<>>, escapeFlag |-> FALSE, bcc2 |-> bcc2]

elementAt(frame, i) == IF i \in DOMAIN frame THEN frame[i] ELSE Zero

(* The bytes a byte that is read while collecting adds to the frame.       *)
Collected(r, s) ==
  CASE s = ESCAPE                        -> <<>>
    [] s = FlagMark /\ r.escapeFlag       -> <<FLAG>>
    [] s = EscapeMark /\ r.escapeFlag     -> <<ESCAPE>>
    [] s \notin {ESCAPE, FlagMark, EscapeMark} /\ r.escapeFlag -> <<ESCAPE, s>>
    [] OTHER                             -> <<s>>

(* Mutants of Follow: the checksum runs one byte behind instead of two; it *)
(* is wider than a byte.                                                   *)
FollowOneBehind(r) ==
  IF Len(r.frame) = 2
  THEN [r EXCEPT !.bcc2 = r.frame[1]]
  ELSE IF Len(r.frame) > 2 /\ ~r.escapeFlag
       THEN [r EXCEPT !.bcc2 = Xor(@, r.frame[Len(r.frame) - 1])]
       ELSE r

FollowWide(r) ==
  IF Len(r.frame) = 3
  THEN [r EXCEPT !.bcc2 = r.frame[1]]
  ELSE IF Len(r.frame) > 3 /\ ~r.escapeFlag
       THEN [r EXCEPT !.bcc2 = {b + 1 : b \in @}]
       ELSE r

(* The checksum follows the frame.                                         *)
Follow(r) ==
  IF Len(r.frame) = 3
  THEN [r EXCEPT !.bcc2 = r.frame[1]]
  ELSE IF Len(r.frame) > 3 /\ ~r.escapeFlag
       THEN [r EXCEPT !.bcc2 = Xor(@, r.frame[Len(r.frame) - 2])]
       ELSE r

Collect(r, s) ==
  IF s = FLAG /\ ~r.escapeFlag
  THEN IF r.frame # <<>>
       THEN [r EXCEPT !.bcc2 = Xor(@, elementAt(r.frame, Len(r.frame) - 1)),
                      !.state = "FINAL"]
       ELSE [r EXCEPT !.state = "ERROR"]
  ELSE Follow([r EXCEPT !.frame = @ \o Collected(r, s),
                        !.escapeFlag = (s = ESCAPE)])

(* In the header every byte but the awaited one is an error, except that   *)
(* bytes before the flag and further flags are skipped.                    *)
interpretChar(r, s) ==
  LET To(state) == [r EXCEPT !.state = state]
      Await(b, state) == IF s = b THEN To(state) ELSE To("ERROR")
  IN  CASE r.state = "START"      -> IF s = FLAG THEN To("FLAG") ELSE r
        [] r.state = "FLAG"       -> IF s = FLAG THEN r ELSE Await(AE, "A")
        [] r.state = "A"          -> Await(CI, "C")
        [] r.state = "C"          -> Await(Xor(AE, CI), "COLLECTING")
        [] r.state = "COLLECTING" -> Collect(r, s)
        [] OTHER                  -> To("ERROR")

getSentBCC2(r) == elementAt(r.frame, Len(r.frame))
getCalculatedBCC2(r) == r.bcc2
getDataFrame(r) == SubSeq(r.frame, 1, Len(r.frame) - 1)

=============================================================================
