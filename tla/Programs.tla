------------------------------ MODULE Programs ------------------------------
(***************************************************************************)
(* The two runs of the program, one with the argument transmitter and one  *)
(* with receiver: main from its arguments to the connection, and from the  *)
(* connection to its end, with the settings of the serial port, which it   *)
(* changes and has to put back.  What user, computer and line are like is  *)
(* the world of a behaviour, fixed at its start.                           *)
(***************************************************************************)
EXTENDS Packets

CONSTANTS
  MinFrame, MaxFrame,  (* the frame sizes the dialogue takes: 8 and 62000  *)
  Header,              (* bytes in front of the data in a packet: 4        *)
  Worlds               (* the worlds a behaviour may take place in         *)

Program == {"tx", "rx"}

World == [
  build   : {"app", "errors"},   (* app.c, or one of the error creators     *)
  size    : Nat,                 (* bytes of the input by fstat             *)
  there   : Nat,                 (* bytes that can be read from it          *)
  atEnd   : {"eof", "error"},    (* what a read finds behind them           *)
  frame   : MinFrame .. MaxFrame,
  target  : {"opens", "fails", "same"}, (* the receiver's open of the file  *)
                                 (* name: it works, the path is not there,  *)
                                 (* or it is the very file that is sent     *)
  room    : Nat,                 (* bytes the receiver's disk takes         *)
  tries   : Nat,                 (* the tries the user typed                *)
  noisy   : BOOLEAN,             (* frames are spoiled, or answers are late *)
  dies    : BOOLEAN,             (* the transmitter's port may go away      *)
  heap    : {"zero", "dirty"},   (* what malloc returns for linkL           *)
  refuses : SUBSET {"open", "tcgetattr", "input", "tcsetattr"},
  sigint  : SUBSET Program ]     (* who may be interrupted by the user      *)

ASSUME WorldAssumption ==
  /\ Header \in Nat /\ MinFrame \in Nat /\ MaxFrame \in Nat
  /\ Header < MinFrame
  /\ MaxFrame - Header < Base * Base
  /\ Worlds \subseteq World

Stage == {"started", "opened", "saved", "asked", "raw", "connecting", "transfer",
          "closing", "parting", "restoring", "ended", "crashed"}

VARIABLES
  world,    (* the world of this behaviour                                 *)
  stage,    (* how far each program is                                     *)
  port      (* the settings of each program's port: as "found", "raw",     *)
            (* "garbage", or "gone" with the port itself                   *)

programVars == <<world, stage, port>>

ProgramTypeOK ==
  /\ world \in Worlds
  /\ stage \in [Program -> Stage]
  /\ port \in [Program -> {"found", "raw", "garbage", "gone"}]

ProgramInit ==
  /\ world \in Worlds
  /\ stage = [p \in Program |-> "started"]
  /\ port = [p \in Program |-> "found"]

Over == {"ended", "crashed"}

Goes(p, from, to) ==
  /\ stage[p] = from
  /\ stage' = [stage EXCEPT ![p] = to]

(* resetPortConfiguration, as far as there still is a port.                *)
Reset(p) == port' = [port EXCEPT ![p] = IF @ = "gone" THEN @ ELSE "found"]

-----------------------------------------------------------------------------
(* A call of the dialogue: the program goes on, or exits.                  *)
Passes(p, from, call, to) ==
  /\ Goes(p, from, IF call \in world.refuses THEN "ended" ELSE to)
  /\ UNCHANGED <<world, port>>

analyseArgs(p) == Passes(p, "started", "open", "opened")
getOldAttributes(p) == Passes(p, "opened", "tcgetattr", "saved")

(* Timeout and tries, and for the transmitter the file, which has to open, *)
(* and the frame size, asked for until it is within its limits.            *)
configureLinkLayer(p) ==
  Passes(p, "saved", IF p = "tx" THEN "input" ELSE "none", "asked")

serialPortSetup(p) ==
  /\ Goes(p, "asked", IF "tcsetattr" \in world.refuses THEN "ended" ELSE "raw")
  /\ port' = IF "tcsetattr" \in world.refuses THEN port ELSE [port EXCEPT ![p] = "raw"]
  /\ UNCHANGED world

(* llopen begins: initializeStateMachine frees the old controller, and     *)
(* getLinkLayer has not set it.                                            *)
initializeStateMachine(p) ==
  /\ Goes(p, "raw", IF world.heap = "dirty" THEN "crashed" ELSE "connecting")
  /\ UNCHANGED <<world, port>>

(* The handler of SIGINT: it puts back what getOldAttributes has saved,    *)
(* or what there was in that memory; before analyseArgs is through there   *)
(* is no such memory.                                                      *)
sigint_handler(p) ==
  /\ p \in world.sigint
  /\ stage[p] \notin Over
  /\ stage' = [stage EXCEPT ![p] = IF @ = "started" THEN "crashed" ELSE "ended"]
  /\ CASE stage[p] = "started" -> UNCHANGED port
       [] stage[p] = "opened"  -> port' = [port EXCEPT ![p] = "garbage"]
       [] OTHER                -> Reset(p)
  /\ UNCHANGED world

(* The last lines of main.                                                 *)
Restore(p) ==
  /\ Goes(p, "restoring", "ended")
  /\ Reset(p)
  /\ UNCHANGED world

(* The transmitter's port is unplugged: writes fail, nothing arrives.      *)
PortDies ==
  /\ world.dies
  /\ stage["tx"] \in {"transfer", "closing"}
  /\ port["tx"] # "gone"
  /\ port' = [port EXCEPT !["tx"] = "gone"]
  /\ UNCHANGED <<world, stage>>

ProgramStep(p) ==
  \/ analyseArgs(p)
  \/ getOldAttributes(p)
  \/ configureLinkLayer(p)
  \/ serialPortSetup(p)
  \/ initializeStateMachine(p)
  \/ Restore(p)

=============================================================================
