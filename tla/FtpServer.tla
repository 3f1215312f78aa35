------------------------------ MODULE FtpServer ------------------------------
(***************************************************************************)
(* The server, as the client's code expects it: it greets, answers each    *)
(* command with one reply, sends the file on the data connection, closes   *)
(* that connection and says so.                                            *)
(***************************************************************************)
EXTENDS FtpConnections

VARIABLES
  serving,   (* "new", "ready", "sending", "gone"    *)
  sent       (* bytes written to the data connection *)

serverVars == <<serving, sent>>

ServerTypeOK ==
  /\ serving \in {"new", "ready", "sending", "gone"}
  /\ sent \in 0 .. Size + 1

ServerInit ==
  /\ serving = "new"
  /\ sent = 0

Answer == [USER |-> PASSWORD, PASS |-> LOGGED_IN, PASV |-> PASSIVE,
           RETR |-> FILE_OK, quit |-> LOGOUT]

(* A reply in one line, or its first and last line, with another between.  *)
Reply(code) ==
  IF code \notin world.lines THEN <<code>>
  ELSE IF world.bare THEN <<code, NoCode, code>>
  ELSE <<code, code>>

Greet ==
  /\ serving = "new"
  /\ replies' = replies \o Reply(READY)
  /\ serving' = "ready"
  /\ UNCHANGED <<world, commands, data, dataPipe, sent, refused>>

(* The server knows the user it is asked for, his password and one file.   *)
Known(c) ==
  /\ c.verb = "RETR" => c.text = <<".">> \o world.url.path
  /\ c.verb = "USER" => c.text = world.url.user
  /\ c.verb = "PASS" => c.text = world.url.password

Serve ==
  /\ serving = "ready"
  /\ commands # <<>>
  /\ Known(Head(commands))
  /\ commands' = Tail(commands)
  /\ replies' = replies \o Reply(Answer[Head(commands).verb])
  /\ serving' = IF Head(commands).verb = "RETR" /\ dataPipe = "connected"
                THEN "sending" ELSE "ready"
  /\ UNCHANGED <<world, data, dataPipe, sent, refused>>

(* A command, or the session itself, is refused.                           *)
Refuse ==
  /\ \/ /\ serving = "ready"
        /\ commands # <<>>
        /\ world.refuses \/ ~Known(Head(commands))
        /\ commands' = Tail(commands)
     \/ /\ serving = "new"
        /\ world.refuses
        /\ UNCHANGED commands
  /\ serving' = "ready"
  /\ replies' = Append(replies, REFUSED)
  /\ refused' = TRUE
  /\ UNCHANGED <<world, data, dataPipe, sent>>

SendData ==
  /\ serving = "sending"
  /\ \E n \in 1 .. Len(Carried) - sent :
       /\ data' = data \o SubSeq(Carried, sent + 1, sent + n)
       /\ sent' = sent + n
  /\ UNCHANGED <<world, commands, replies, dataPipe, serving, refused>>

EndData ==
  /\ serving = "sending"
  /\ sent = Len(Carried)
  /\ dataPipe' = "ended"
  /\ replies' = replies \o Reply(END_OF_DATA)
  /\ serving' = "ready"
  /\ UNCHANGED <<world, commands, data, sent, refused>>

(* The server ends both connections.  What it wrote can still be read.     *)
Vanish ==
  /\ world.closes
  /\ serving # "gone"
  /\ serving' = "gone"
  /\ dataPipe' = IF dataPipe = "connected" THEN "ended" ELSE dataPipe
  /\ UNCHANGED <<world, commands, replies, data, sent, refused>>

ServerNext == Greet \/ Serve \/ Refuse \/ SendData \/ EndData \/ Vanish

=============================================================================
