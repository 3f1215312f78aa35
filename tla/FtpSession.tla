----------------------------- MODULE FtpSession -----------------------------
(***************************************************************************)
(* A session of the FTP client with one server.                            *)
(***************************************************************************)
EXTENDS FtpClient, FtpServer

vars == <<connectionVars, clientVars, serverVars>>

Init == ConnectionInit /\ ClientInit /\ ServerInit

ClientStep == ClientNext /\ UNCHANGED serverVars
ServerStep == ServerNext /\ UNCHANGED clientVars

Next == ClientStep \/ ServerStep

Spec == Init /\ [][Next]_vars

(* Both programs run, and the server answers until it vanishes.            *)
FairSpec ==
  /\ Spec
  /\ WF_vars(ClientStep)
  /\ WF_vars((Greet \/ Serve \/ Refuse \/ SendData \/ EndData) /\ UNCHANGED clientVars)

(***************************************************************************)
(* Properties                                                              *)
(***************************************************************************)
TypeOK == ConnectionTypeOK /\ ClientTypeOK /\ ServerTypeOK

(* Replies other than the greeting come in one line, and lines come whole. *)
Orderly == world.lines \subseteq {READY} /\ ~world.bare /\ ~world.cut

Greeting == {"start", "connect", "greeting"}
Loading == {"open", "data", "complete"}

(* The command whose reply a stage waits for.                              *)
Asked == [user |-> "USER", pass |-> "PASS", pasv |-> "PASV", retr |-> "RETR",
          quit |-> "quit"]

(* What may be on the control connection in each stage: the command that   *)
(* waits for its answer or else the answer, never both.  A second line of  *)
(* the greeting stays until the answer to USER meets it; the end of the    *)
(* transfer may be told while the client still waits for the start.        *)
InTurn ==
  /\ stage \in Greeting =>
       commands = <<>> /\ replies \in {<<>>, <<READY>>, <<READY, READY>>, <<REFUSED>>}
  /\ stage = "user" =>
       replies \in {<<>>, <<READY>>}
                     \cup IF commands # <<>> THEN {}
                          ELSE {<<PASSWORD>>, <<READY, PASSWORD>>,
                                <<REFUSED>>, <<READY, REFUSED>>}
  /\ stage \in {"pass", "pasv", "quit"} =>
       replies \in IF commands # <<>> THEN {<<>>} ELSE {<<Expectation[stage]>>, <<REFUSED>>}
  /\ stage = "retr" =>
       replies \in IF commands # <<>> THEN {<<>>}
                   ELSE IF serving = "sending" THEN {<<FILE_OK>>}
                   ELSE {<<FILE_OK>>, <<FILE_OK, END_OF_DATA>>, <<REFUSED>>}
  /\ stage \in Loading =>
       /\ commands = <<>>
       /\ replies \in {<<>>} \cup IF serving = "sending" THEN {} ELSE {<<END_OF_DATA>>}
  /\ commands # <<>> => /\ Len(commands) = 1
                        /\ stage \in DOMAIN Asked
                        /\ commands[1].verb = Asked[stage]
  /\ serving = "new" => stage \in Greeting /\ replies = <<>>
  /\ serving = "sending" => stage \in {"retr"} \cup Loading /\ commands = <<>>
  /\ \A i \in 1 .. Len(replies) : replies[i] = REFUSED => refused

Blameless == Orderly /\ world.disk /\ world.url.form = "anonymous" /\ ~refused

(* The client has found its server and its data connection.                *)
Unfailing ==
  /\ stage = "connect" => Reachable
  /\ dataFd # "failed"
  /\ stage # "failed"

(* Client and server take turns on the control connection while the        *)
(* program runs, and with nothing to blame it does not fail (main of       *)
(* download.c, sendCommand, ftpExpectCommand).                             *)
TurnInv ==
  /\ TypeOK
  /\ Orderly /\ stage \notin Over => InTurn
  /\ Blameless => Unfailing

(* When the program reports success, the local file is the file of the     *)
(* server, although the end of the transfer is found by counting: provided *)
(* the reply with the size came whole, the data connection carries as many *)
(* bytes as announced, and writing them does not fail.                     *)
SuccessMeansWhole ==
  stage = "success" /\ world.exact /\ world.disk /\ ~world.cut => file = WholeFile

(* The last name in a path.                                                *)
BaseName(path) ==
  CHOOSE base \in {SubSeq(path, i + 1, Len(path)) : i \in 1 .. Len(path)} :
    /\ \A k \in 1 .. Len(base) : base[k] # "/"
    /\ path[Len(path) - Len(base)] = "/"

(* The address is taken apart as it was put together: an anonymous one     *)
(* into the host and the path, one in brackets into its user, password and *)
(* host; its path gets the port in front (parseURL).  The local file has   *)
(* the last name of the path and lies in the current directory             *)
(* (stripFileName).                                                        *)
PartsOfUrl ==
  /\ stage # "start" /\ world.url.form = "anonymous" =>
       /\ link.user = world.url.user /\ link.password = world.url.password
       /\ link.host = world.url.host /\ link.path = world.url.path
       /\ link.port = world.url.port
  /\ stage # "start" /\ world.url.form = "brackets" =>
       /\ link.user = world.url.user /\ link.password = world.url.password
       /\ link.host = world.url.host
  /\ name # <<>> =>
       /\ BaseName(name) = BaseName(world.url.path)
       /\ \A i \in 1 .. Len(name) - Len(BaseName(name)) : name[i] \in {".", "/"}

(* The program fails only when something was refused to it, the file       *)
(* cannot be opened, or the address is not anonymous (main and what it     *)
(* calls).  Lines may come together, and the greeting may have several     *)
(* lines with the code, which are passed over wherever they meet the       *)
(* client.                                                                 *)
FailsOnlyWhenRefused ==
  stage = "failed" /\ Orderly => refused \/ ~world.disk \/ world.url.form # "anonymous"

(* Each command gets its own reply: when a command is sent, no reply to an *)
(* earlier one is left that could be taken for its own.                    *)
InStep ==
  [][ Len(commands') > Len(commands) /\ Orderly
      => \A i \in 1 .. Len(replies') : replies'[i] = READY ]_vars

(* The program ends, also when it is refused something, when the reply is  *)
(* in several lines and when the disk is full; provided that the server    *)
(* stays, the size is right, and no read returns two lines.                *)
Ends ==
  /\ ~world.joined /\ ~world.cut /\ ~world.closes /\ world.exact
  => <>(stage \in Over)

(* What RFC 959 asks of a client: a reply in several lines is one reply.   *)
(* A server that refuses nothing is not given up.                          *)
MultiLineUnderstood ==
  stage = "failed" /\ ~world.bare /\ ~world.cut /\ world.disk => refused

(* What printUsage tells the user: an address with a user and a password   *)
(* is ftp://<user>:<password>@<host>:<port>/<url-path>.  Typed like that,  *)
(* the program fails only when something is refused to it.                 *)
UsageAccepted ==
  stage = "failed" /\ world.url.form = "usage" => refused \/ ~world.disk

=============================================================================
