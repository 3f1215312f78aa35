----------------------------- MODULE PacketLink -----------------------------
(***************************************************************************)
(* The link layer as the application layer meets it: llopen, llwrite,      *)
(* llread and llclose with what FileTransfer shows of them when the timeout *)
(* is long enough.  llwrite returns when its packet has been taken; until  *)
(* the next one is taken llread may return the same packet again; a        *)
(* spoiled frame makes it return NULL.  Supervision frames are a set of    *)
(* those that got through: a lost one is written again or given up.        *)
(***************************************************************************)
EXTENDS Programs

VARIABLES
  signals,   (* the supervision frames that got through                    *)
  offer,     (* the packet llwrite is sending                              *)
  taken,     (* llread has returned it                                     *)
  late,      (* the packet that llread returned last                       *)
  hand       (* a packet between llread and readDataPackets                *)

linkVars == <<signals, offer, taken, late, hand>>

Signal == {"SET", "set", "DISC", "disc", "UA"}

LinkInit ==
  /\ signals = {}
  /\ offer = NoPacket
  /\ taken = FALSE
  /\ late = NoPacket
  /\ hand = NoPacket

(* A frame is written and gets through, on a noisy line perhaps not.       *)
Signals(k) ==
  \/ signals' = signals \cup {k}
  \/ world.noisy /\ UNCHANGED signals

PacketsUnchanged == UNCHANGED <<offer, taken, late, hand>>

-----------------------------------------------------------------------------
(* llopen and llclose of the transmitter.  The capital frames are its own, *)
(* the small ones the answers.                                             *)
Calls(at, k) ==
  /\ stage["tx"] = at
  /\ world.tries > 0
  /\ port["tx"] # "gone"
  /\ k \notin signals
  /\ signals' = signals \cup {k}
  /\ PacketsUnchanged
  /\ UNCHANGED programVars

txCalls == Calls("connecting", "SET") \/ Calls("closing", "DISC")

llopen ==
  /\ "set" \in signals
  /\ Goes("tx", "connecting", "transfer")
  /\ UNCHANGED <<world, port, linkVars>>

(* The tries are used up, on a good line only where nobody answers.        *)
GivesUp ==
  \/ world.tries = 0
  \/ world.noisy
  \/ stage["rx"] \in Over
  \/ port["tx"] = "gone"

(* Mutant of createConnectionFails: the port is closed without a reset.    *)
createConnectionNoReset ==
  /\ GivesUp
  /\ Goes("tx", "connecting", "ended")
  /\ UNCHANGED <<world, port, linkVars>>

createConnectionFails ==
  /\ GivesUp
  /\ Goes("tx", "connecting", "ended")
  /\ Reset("tx")
  /\ UNCHANGED <<world, linkVars>>

llclose ==
  /\ "disc" \in signals
  /\ port["tx"] # "gone"
  /\ Signals("UA")
  /\ Goes("tx", "closing", "restoring")
  /\ PacketsUnchanged
  /\ UNCHANGED <<world, port>>

llcloseFails ==
  /\ GivesUp
  /\ Goes("tx", "closing", "restoring")
  /\ UNCHANGED <<world, port, linkVars>>

(* llopen and llclose of the receiver: it waits without a limit and        *)
(* answers once.                                                           *)
Answers(from, k, answer, to) ==
  /\ k \in signals
  /\ Goes("rx", from, to)
  /\ Signals(answer)
  /\ PacketsUnchanged
  /\ UNCHANGED <<world, port>>

rxOpens == Answers("connecting", "SET", "set", "transfer")
rxDisc == Answers("closing", "DISC", "disc", "parting")

rxUa ==
  /\ "UA" \in signals
  /\ Goes("rx", "parting", "restoring")
  /\ UNCHANGED <<world, port, linkVars>>

-----------------------------------------------------------------------------
(* llwrite begins, returns, or fails with the port.                        *)
llwrite(packet) ==
  /\ port["tx"] # "gone"
  /\ offer' = packet
  /\ taken' = FALSE
  /\ UNCHANGED <<signals, late, hand>>

Written ==
  /\ taken
  /\ port["tx"] # "gone"
  /\ offer' = NoPacket
  /\ taken' = FALSE
  /\ UNCHANGED <<signals, late, hand>>

NotWritten ==
  /\ port["tx"] = "gone"
  /\ offer' = NoPacket
  /\ taken' = FALSE
  /\ UNCHANGED <<signals, late, hand>>

(* llread returns.                                                         *)
Reads == stage["rx"] = "transfer" /\ hand = NoPacket

Take ==
  /\ Reads
  /\ offer # NoPacket /\ ~taken
  /\ taken' = TRUE
  /\ late' = offer
  /\ hand' = offer
  /\ UNCHANGED <<signals, offer>>

TakeAgain ==
  /\ Reads
  /\ world.noisy
  /\ late # NoPacket
  /\ hand' = late
  /\ UNCHANGED <<signals, offer, taken, late>>

TakeDamaged ==
  /\ Reads
  /\ world.noisy
  /\ offer # NoPacket
  /\ hand' = Damaged
  /\ UNCHANGED <<signals, offer, taken, late>>

llread == Take \/ TakeAgain \/ TakeDamaged

LinkStep ==
  \/ txCalls \/ llopen \/ createConnectionFails \/ llclose \/ llcloseFails
  \/ rxOpens \/ rxDisc \/ rxUa

=============================================================================
