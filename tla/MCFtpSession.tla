---------------------------- MODULE MCFtpSession ----------------------------
(* Model-checking instances of FtpSession.                                 *)
EXTENDS FtpSession

(* The address u as the user types it.                                     *)
Address(u) == [form |-> u.form, user |-> u.user, password |-> u.password,
               host |-> u.host, port |-> u.port, path |-> u.path, typed |-> Typed(u)]

Anonymous(host, path) ==
  Address([form |-> "anonymous", user |-> ANONIMOUS_USER,
           password |-> ANONIMOUS_PASSWORD, host |-> host, port |-> ANONIMOUS_PORT,
           path |-> path])

Polite ==
  [url |-> Anonymous(<<"h">>, <<"/", "f">>), lines |-> {}, bare |-> FALSE,
   joined |-> FALSE, cut |-> FALSE, refuses |-> FALSE, closes |-> FALSE,
   exact |-> TRUE, disk |-> TRUE]

(* Every mixture of manners, with the replies that servers put into        *)
(* several lines.                                                          *)
Mixtures == {w \in [url : {Polite.url},
                    lines : {{}, {READY}, {LOGGED_IN, LOGOUT}, {END_OF_DATA}},
                    bare : BOOLEAN, joined : BOOLEAN, cut : BOOLEAN,
                    refuses : BOOLEAN, closes : BOOLEAN, exact : BOOLEAN,
                    disk : BOOLEAN] :
                w.bare => w.lines # {}}

(* Addresses: names of one and two characters, paths of one to three parts *)
(* with a slash too many here and there.                                   *)
Paths == {<<"/", "f">>, <<"/", "f", "f">>, <<"/", "d", "/", "f">>,
          <<"/", "/", "f">>, <<"/", "d", "/", "/", "f", ".", "f">>,
          <<"/", "d", "/", "d", "d", "/", "f">>}
Names == {<<"u">>, <<"u", "w">>}
Urls ==
  {Anonymous(h, p) : h \in {<<"h">>, <<"h", ".", "h">>}, p \in Paths}
  \cup {Address(u) : u \in
          [form : {"brackets", "usage"}, user : Names, password : Names,
           host : {<<"h">>, <<"h", "-", "2">>}, port : {<<"2", "1">>},
           path : {<<"/", "f">>, <<"/", "d", "/", "f">>}]}

AllWorlds == Mixtures \cup {[Polite EXCEPT !.url = u] : u \in Urls}

(* A server that refuses nothing and welcomes the user in two lines.       *)
WelcomeWorld == {[Polite EXCEPT !.lines = {LOGGED_IN}]}

(* A server that refuses nothing, for a user who follows printUsage.       *)
UsageWorld ==
  {[Polite EXCEPT !.url = Address([form |-> "usage", user |-> <<"u">>, password |-> <<"w">>,
                                   host |-> <<"h">>, port |-> <<"2", "1">>,
                                   path |-> <<"/", "f">>])]}

=============================================================================
