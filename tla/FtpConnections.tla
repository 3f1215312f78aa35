--------------------------- MODULE FtpConnections ---------------------------
(***************************************************************************)
(* The two TCP connections of an FTP session and what the client does not  *)
(* choose: the manners of the server, how TCP hands over the bytes, and    *)
(* the disk.  Each behaviour has one world, fixed at the start.            *)
(*                                                                         *)
(* A line of a reply is its code; 0 is a line, or the rest of one, that    *)
(* does not begin with a code.                                             *)
(***************************************************************************)
EXTENDS Integers, Sequences, Url

CONSTANTS
  Size,    (* bytes of the file                                *)
  Worlds   (* the worlds a session may take place in           *)

READY == 220
PASSWORD == 331
LOGGED_IN == 230
PASSIVE == 227
FILE_OK == 150
END_OF_DATA == 226
LOGOUT == 221
Granting == {READY, PASSWORD, LOGGED_IN, PASSIVE, FILE_OK, END_OF_DATA, LOGOUT}

(* The negative replies, one for all of them.                              *)
REFUSED == 550
NoCode == 0
Line == Granting \cup {REFUSED, NoCode}

Command == [verb : {"USER", "PASS", "PASV", "RETR", "quit"}, text : Text]

(* The user's own name, password, host and file, and the form of the       *)
(* address: "anonymous" (ftp://host/path), "brackets" (with [user:pw@]     *)
(* before the host and a port behind it), or "usage" (the same without     *)
(* brackets, as printUsage shows it).                                      *)
Url == [form : {"anonymous", "brackets", "usage"}, user : Text, password : Text,
        host : Text, port : Text, path : Text, typed : Text]

Typed(u) ==
  LET who == u.user \o <<":">> \o u.password \o <<"@">>
      where == u.host \o <<":">> \o u.port \o u.path
  IN CASE u.form = "anonymous" -> Scheme \o u.host \o u.path
       [] u.form = "brackets" -> Scheme \o <<"[">> \o who \o <<"]">> \o where
       [] u.form = "usage" -> Scheme \o who \o where

World == [
  url    : Url,               (* what the user wants                           *)
  lines  : SUBSET Granting,   (* replies that come in several lines            *)
  bare   : BOOLEAN,           (* a line between the first and the last has no code *)
  joined : BOOLEAN,           (* one read may return several lines             *)
  cut    : BOOLEAN,           (* one read may return a part of a line          *)
  refuses : BOOLEAN,          (* commands and connections may be refused       *)
  closes : BOOLEAN,           (* the server may end early                      *)
  exact  : BOOLEAN,           (* the data connection carries the announced bytes *)
  disk   : BOOLEAN ]          (* files can be opened and written               *)

ASSUME FtpAssumption ==
  /\ Size \in Nat
  /\ Worlds \subseteq World
  /\ \A w \in Worlds : w.url.typed = Typed(w.url)

(* An address names a host and a path of the letters a URL may have.  An   *)
(* anonymous one stands for the user, the password and the port of the     *)
(* client; any other names its own.                                        *)
ASSUME AddressAssumption ==
  \A w \in Worlds :
    /\ w.url.host \in Seq(HostChar) /\ w.url.host # <<>>
    /\ w.url.path \in Seq(PathChar) /\ Len(w.url.path) >= 2 /\ w.url.path[1] = "/"

ASSUME AnonymousAssumption ==
  \A w \in Worlds : w.url.form = "anonymous" =>
    /\ w.url.user = ANONIMOUS_USER
    /\ w.url.password = ANONIMOUS_PASSWORD
    /\ w.url.port = ANONIMOUS_PORT

ASSUME CredentialsAssumption ==
  \A w \in Worlds : w.url.form # "anonymous" =>
    /\ w.url.user \in Seq(UserChar) /\ w.url.user # <<>>
    /\ w.url.password \in Seq(Alnum) /\ w.url.password # <<>>
    /\ w.url.port \in Seq(Digit) /\ w.url.port # <<>>

VARIABLES
  world,      (* the world of this session                                *)
  commands,   (* written by the client, not yet read by the server        *)
  replies,    (* lines written by the server, not yet read by the client  *)
  data,       (* bytes on the data connection                             *)
  dataPipe,   (* "none", "connected" (server still writes), "ended"       *)
  refused     (* history: a command or a connection was refused           *)

connectionVars == <<world, commands, replies, data, dataPipe, refused>>

ConnectionTypeOK ==
  /\ world \in Worlds
  /\ commands \in Seq(Command)
  /\ replies \in Seq(Line)
  /\ data \in Seq(0 .. Size)
  /\ dataPipe \in {"none", "connected", "ended"}
  /\ refused \in BOOLEAN

ConnectionInit ==
  /\ world \in Worlds
  /\ commands = <<>>
  /\ replies = <<>>
  /\ data = <<>>
  /\ dataPipe = "none"
  /\ refused = FALSE

(* The file on the server, and what the data connection carries.  No TYPE  *)
(* is asked for, so a server may send text: here one byte more than the    *)
(* file has.                                                               *)
WholeFile == [i \in 1 .. Size |-> i]
Carried == IF world.exact THEN WholeFile ELSE <<0>> \o WholeFile

(* One read of the control connection takes some lines, or none whole.     *)
ReadCount == {n \in 1 .. Len(replies) : n = 1 \/ world.joined}
Unread(n) == SubSeq(replies, n + 1, Len(replies))

(* What it can return: the code at the start, how much of the first line   *)
(* it holds ("short" is at most three bytes), the lines that stay unread.  *)
Result(held, rest) == [code |-> Head(replies), held |-> held, rest |-> rest]

Reads ==
  {Result("whole", Unread(n)) : n \in ReadCount}
  \cup {Result("whole", <<NoCode>> \o Unread(n)) :
          n \in {m \in ReadCount : world.cut /\ m > 1}}
  \cup {Result(held, <<NoCode>> \o Tail(replies)) :
          held \in IF world.cut /\ replies # <<>> THEN {"short", "part"} ELSE {}}

=============================================================================
