------------------------------ MODULE FtpClient ------------------------------
(***************************************************************************)
(* The program of download.c: take the address apart, connect, log in, ask *)
(* for passive mode, open the data connection, ask for the file, read it,  *)
(* log out.  "stage" is the call main is in.                               *)
(***************************************************************************)
EXTENDS FtpConnections

VARIABLES
  stage,      (* where main is                                             *)
  link,       (* the parts of the address                                  *)
  name,       (* fileName of downloadFile                                  *)
  dataFd,     (* connection->dataFd: "unset", "socket", "failed" (-1)      *)
  fileSize,   (* link->fileSize                                            *)
  received,   (* receivedBytes of downloadFile                             *)
  file        (* the bytes written to the local file                       *)

clientVars == <<stage, link, name, dataFd, fileSize, received, file>>

(* The reply each stage waits for.                                         *)
Expectation == [greeting |-> READY, user |-> PASSWORD, pass |-> LOGGED_IN,
                pasv |-> PASSIVE, retr |-> FILE_OK, complete |-> END_OF_DATA,
                quit |-> LOGOUT]
Waiting == DOMAIN Expectation
Over == {"success", "failed", "crashed"}

ClientTypeOK ==
  /\ stage \in Waiting \cup Over \cup {"start", "connect", "open", "data"}
  /\ link \in Link
  /\ dataFd \in {"unset", "socket", "failed"}
  /\ fileSize \in 0 .. Size + 1
  /\ received \in 0 .. Size + 1
  /\ file \in Seq(0 .. Size)

ClientInit ==
  /\ stage = "start"
  /\ link = [user |-> <<>>, password |-> <<>>, host |-> <<>>, port |-> <<>>, path |-> <<>>]
  /\ name = <<>>
  /\ dataFd = "unset"
  /\ fileSize = 0
  /\ received = 0
  /\ file = <<>>

(* validURL and parseURL.                                                  *)
ParseUrl ==
  /\ stage = "start"
  /\ link' \in parseURL(world.url.typed)
  /\ stage' = "connect"
  /\ UNCHANGED <<connectionVars, name, dataFd, fileSize, received, file>>

RejectUrl ==
  /\ stage = "start"
  /\ parseURL(world.url.typed) = {}
  /\ stage' = "failed"
  /\ UNCHANGED <<connectionVars, link, name, dataFd, fileSize, received, file>>

(* extractIp and startConnection: the control connection.                  *)
Reachable == link.host = world.url.host /\ link.port = world.url.port

Connect ==
  /\ stage = "connect"
  /\ Reachable
  /\ stage' = "greeting"
  /\ UNCHANGED <<connectionVars, link, name, dataFd, fileSize, received, file>>

ConnectFails ==
  /\ stage = "connect"
  /\ \/ ~Reachable /\ UNCHANGED refused
     \/ world.refuses /\ refused' = TRUE
  /\ stage' = "failed"
  /\ UNCHANGED <<world, commands, replies, data, dataPipe,
                 link, name, dataFd, fileSize, received, file>>

(* The loop of ftpExpectCommand and retriveMessageFromServer passes over a *)
(* read of at most three bytes, a greeting nobody waits for, and a line    *)
(* whose fourth byte is no separator (only a line without code).           *)
PassedOver(r) ==
  \/ r.held = "short"
  \/ r.code = READY /\ Expectation[stage] # READY
  \/ r.code = NoCode

PassOver ==
  /\ stage \in Waiting
  /\ \E r \in Reads : PassedOver(r) /\ replies' = r.rest
  /\ UNCHANGED <<world, commands, data, dataPipe, refused, clientVars>>

(* Mutant of Taken: a line of the greeting is taken like any other line.   *)
TakenGreeting(r) == r.held # "short"

(* It leaves the loop with any other line.  In a line without code the     *)
(* fourth byte may happen to be a separator, and the code is then 0.       *)
Taken(r) ==
  /\ r.held # "short"
  /\ r.code = READY => Expectation[stage] = READY

Reject ==
  /\ stage \in Waiting
  /\ \E r \in Reads :
       /\ Taken(r)
       /\ r.code # Expectation[stage]
       /\ replies' = r.rest
  /\ stage' = "failed"
  /\ UNCHANGED <<world, commands, data, dataPipe, refused,
                 link, name, dataFd, fileSize, received, file>>

(* The reply r is the one stage s waits for.                               *)
Granted(s, r) ==
  /\ stage = s
  /\ r \in Reads
  /\ Taken(r)
  /\ r.code = Expectation[s]
  /\ replies' = r.rest

(* One command is sent when the reply to the one before is there.          *)
Proceed(from, verb, text, to) ==
  /\ \E r \in Reads : Granted(from, r)
  /\ commands' = Append(commands, [verb |-> verb, text |-> text])
  /\ stage' = to
  /\ UNCHANGED <<world, data, dataPipe, refused,
                 link, name, dataFd, fileSize, received, file>>

(* Mutant of LoggedIn: PASV is sent without waiting for the reply to PASS. *)
LoggedInAtOnce ==
  /\ stage = "pass"
  /\ commands' = Append(commands, [verb |-> "PASV", text |-> <<>>])
  /\ stage' = "pasv"
  /\ UNCHANGED <<world, replies, data, dataPipe, refused,
                 link, name, dataFd, fileSize, received, file>>

Greeted == Proceed("greeting", "USER", link.user, "user")
NeedPassword == Proceed("user", "PASS", link.password, "pass")
LoggedIn == Proceed("pass", "PASV", <<>>, "pasv")

(* The address comes from the reply.  main does not look at the result of  *)
(* setDataFileDescriptor and asks for the file in any case.                *)
EnterPassive ==
  /\ \E r \in Reads :
       /\ Granted("pasv", r)
       /\ \/ /\ dataFd' = "socket"
             /\ dataPipe' = "connected"
             /\ UNCHANGED refused
          \/ /\ \/ r.held = "part" /\ UNCHANGED refused
                \/ world.refuses /\ refused' = TRUE
             /\ dataFd' = "failed"
             /\ UNCHANGED dataPipe
  /\ commands' = Append(commands, [verb |-> "RETR", text |-> <<".">> \o link.path])
  /\ stage' = "retr"
  /\ UNCHANGED <<world, data, link, name, fileSize, received, file>>

(* parsePassiveIp returns NULL when the text ends before the first number; *)
(* setPassiveIpAndPort reads through it.                                   *)
PassiveUnreadable ==
  /\ \E r \in Reads : Granted("pasv", r) /\ r.held = "part"
  /\ stage' = "crashed"
  /\ UNCHANGED <<world, commands, data, dataPipe, refused,
                 link, name, dataFd, fileSize, received, file>>

(* The size is searched in the reply.  The buffer behind a reply that was  *)
(* cut is not initialised: any number may be found there.                  *)
FileOk ==
  /\ \E r \in Reads :
       /\ Granted("retr", r)
       /\ fileSize' \in IF r.held = "whole" THEN {Size} ELSE 0 .. Size + 1
  /\ stage' = "open"
  /\ UNCHANGED <<world, commands, data, dataPipe, refused,
                 link, name, dataFd, received, file>>

SizeNotFound ==
  /\ \E r \in Reads : Granted("retr", r) /\ r.held = "part"
  /\ stage' = "failed"
  /\ UNCHANGED <<world, commands, data, dataPipe, refused,
                 link, name, dataFd, fileSize, received, file>>

OpenFile ==
  /\ stage = "open"
  /\ name' = stripFileName(link.path)
  /\ \/ stage' = "data"
     \/ ~world.disk /\ stage' = "failed"
  /\ UNCHANGED <<connectionVars, link, dataFd, fileSize, received, file>>

(* Mutant of WriteFrame: the buffer is written up to its length, not up to *)
(* the bytes that were read.                                               *)
WriteFrameBuffer(frame) ==
  {IF Len(frame) = Size THEN frame ELSE frame \o <<0>>}

(* What write_frame leaves in the file.  After a short write it writes the *)
(* frame again from its first byte, until as many bytes were written as    *)
(* the frame has.  An error ends it, and nobody looks at the result.       *)
(* Bound: at most one short write in a frame.                              *)
WriteFrame(frame) ==
  IF world.disk THEN {frame}
  ELSE {SubSeq(frame, 1, k) : k \in 0 .. Len(frame)}
       \cup {SubSeq(frame, 1, w[1]) \o SubSeq(frame, 1, w[2]) :
               w \in {v \in (1 .. Len(frame) - 1) \X (1 .. Len(frame)) :
                        v[1] + v[2] >= Len(frame)}}

(* Mutant of AfterRead: the count is replaced instead of increased.        *)
AfterReadReplaces(n) ==
  /\ received' = n
  /\ stage' = IF n = fileSize THEN "complete" ELSE "data"

(* The loop of downloadFile: the condition is tested after the bytes.      *)
AfterRead(n) ==
  /\ received' = received + n
  /\ stage' = IF received + n = fileSize THEN "complete" ELSE "data"

ReadData ==
  /\ stage = "data"
  /\ dataFd = "socket"
  /\ \E n \in 1 .. Len(data) :
       /\ \E b \in WriteFrame(SubSeq(data, 1, n)) : file' = file \o b
       /\ data' = SubSeq(data, n + 1, Len(data))
       /\ AfterRead(n)
  /\ UNCHANGED <<world, commands, replies, dataPipe, refused,
                 link, name, dataFd, fileSize>>

(* read returns 0 at the end of the data connection, as often as asked.    *)
ReadEnd ==
  /\ stage = "data"
  /\ dataFd = "socket"
  /\ dataPipe = "ended"
  /\ data = <<>>
  /\ AfterRead(0)
  /\ UNCHANGED <<connectionVars, link, name, dataFd, fileSize, file>>

ReadFails ==
  /\ stage = "data"
  /\ dataFd = "failed"
  /\ stage' = "failed"
  /\ UNCHANGED <<connectionVars, link, name, dataFd, fileSize, received, file>>

(* Mutant of Complete: quit is sent when the bytes are there.              *)
CompleteAtOnce ==
  /\ stage = "complete"
  /\ commands' = Append(commands, [verb |-> "quit", text |-> <<>>])
  /\ stage' = "quit"
  /\ UNCHANGED <<world, replies, data, dataPipe, refused,
                 link, name, dataFd, fileSize, received, file>>

Complete == Proceed("complete", "quit", <<>>, "quit")

LoggedOut ==
  /\ \E r \in Reads : Granted("quit", r)
  /\ stage' = "success"
  /\ UNCHANGED <<world, commands, data, dataPipe, refused,
                 link, name, dataFd, fileSize, received, file>>

ClientNext ==
  \/ ParseUrl \/ RejectUrl \/ Connect \/ ConnectFails
  \/ PassOver \/ Reject
  \/ Greeted \/ NeedPassword \/ LoggedIn
  \/ EnterPassive \/ PassiveUnreadable
  \/ FileOk \/ SizeNotFound
  \/ OpenFile \/ ReadData \/ ReadEnd \/ ReadFails
  \/ Complete \/ LoggedOut

=============================================================================
