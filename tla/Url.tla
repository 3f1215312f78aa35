--------------------------------- MODULE Url ---------------------------------
(***************************************************************************)
(* How the client takes the address apart: url.c, and the two helpers of   *)
(* utilities.c that search in strings.  A string is a sequence of          *)
(* characters and indices start at 0, as in the code.  "ftp" counts as one *)
(* character.                                                              *)
(***************************************************************************)
EXTENDS Integers, Sequences

Letter == {"ftp", "u", "w", "h", "d", "f"}
Digit == {"2", "1"}
Alnum == Letter \cup Digit
Char == Alnum \cup {":", "/", "[", "]", "@", "(", ")", ".", "~", "-", "_",
                       "anonymous", "mail", "garbage"}
HostChar == Alnum \cup {".", "~", "-"}
PathChar == Alnum \cup {"[", "/", ".", "~", "_", "-"}
UserChar == Alnum \cup {"[", "("}

(* The search begins behind the index it is given.                         *)
findOcorrenceIndex(str, toFind, startSearch) ==
  LET found(start) == {i \in start + 1 .. Len(str) - 1 : str[i + 1] = toFind}
      first[start \in Int] ==
        IF start < 0 \/ start > Len(str) \/ found(start) = {} THEN -1
        ELSE CHOOSE i \in found(start) : \A j \in found(start) : i <= j
  IN first[startSearch]

(* memcpy of the characters from index a up to, not including, index b.    *)
Copy(str, a, b) == SubSeq(str, a + 1, b)

(***************************************************************************)
(* validURL: the two regular expressions, which may match anywhere.        *)
(***************************************************************************)
Has(str, i, c) == i < Len(str) /\ str[i + 1] = c

(* Where a repetition of characters of S that begins at index i may end.   *)
Run(str, i, S) ==
  {j \in i .. Len(str) : \A k \in i .. j - 1 : str[k + 1] \in S}

(* Where the part behind "ftp://" starts.                                  *)
Scheme == <<"ftp", ":", "/", "/">>
Behind(str) == {i \in 4 .. Len(str) : SubSeq(str, i - 3, i) = Scheme}

PathFollows(str, slash) ==
  /\ Has(str, slash, "/")
  /\ slash + 1 < Len(str)
  /\ str[slash + 2] \in PathChar

REuserAuth(str) ==
  \E i \in Behind(str) :
  \E colon \in Run(str, i, UserChar) :
    /\ Has(str, colon, ":")
    /\ \E at \in Run(str, colon + 1, Alnum) :
         /\ Has(str, at, "@") /\ Has(str, at + 1, "]")
         /\ \E host \in Run(str, at + 2, {")"}) :
            \E port \in Run(str, host, HostChar) \ {host} :
              /\ Has(str, port, ":")
              /\ \E slash \in Run(str, port + 1, Digit) \ {port + 1} :
                   PathFollows(str, slash)

REAnonimousAuth(str) ==
  \E i \in Behind(str) :
  \E slash \in Run(str, i, HostChar) \ {i} : PathFollows(str, slash)

(***************************************************************************)
(* parseURL: the links an address may give, none when parsing fails.       *)
(***************************************************************************)
ANONIMOUS_USER == <<"anonymous">>
ANONIMOUS_PASSWORD == <<"mail">>
ANONIMOUS_PORT == <<"2", "1">>

Text == Seq(Char)
Link == [user : Text, password : Text, host : Text, port : Text, path : Text]

(* The port and the path are not terminated: what is behind them in memory *)
(* may belong to them.                                                     *)
Unterminated(text) == {text, Append(text, "garbage")}

parseUserAuthUrl(str) ==
  LET userStart == findOcorrenceIndex(str, "[", 0) + 1
      userEnd == findOcorrenceIndex(str, ":", userStart)
      pwEnd == findOcorrenceIndex(str, "@", userEnd + 1)
      hostEnd == findOcorrenceIndex(str, ":", pwEnd + 1)
      portEnd == findOcorrenceIndex(str, "/", hostEnd + 1)
  IN IF -1 \in {userEnd, pwEnd, hostEnd, portEnd} THEN {}
     ELSE [user : {Copy(str, userStart, userEnd)},
           password : {Copy(str, userEnd + 1, pwEnd)},
           host : {Copy(str, pwEnd + 2, hostEnd)},
           port : Unterminated(Copy(str, hostEnd + 1, portEnd)),
           path : Unterminated(Copy(str, hostEnd, Len(str)))]

(* Mutant of parseAnonimousAuth: the host starts at the second slash.      *)
parseAnonimousAuthSlash(str) ==
  LET slash == findOcorrenceIndex(str, "/", 0)
      hostStart == slash + 1
      hostEnd == findOcorrenceIndex(str, "/", hostStart)
  IN IF -1 \in {slash, hostEnd} THEN {}
     ELSE [user : {ANONIMOUS_USER},
           password : {ANONIMOUS_PASSWORD},
           host : {Copy(str, hostStart, hostEnd)},
           port : {ANONIMOUS_PORT},
           path : {Copy(str, hostEnd, Len(str))}]

parseAnonimousAuth(str) ==
  LET slash == findOcorrenceIndex(str, "/", 0)
      hostStart == slash + 2
      hostEnd == findOcorrenceIndex(str, "/", hostStart)
  IN IF -1 \in {slash, hostEnd} THEN {}
     ELSE [user : {ANONIMOUS_USER},
           password : {ANONIMOUS_PASSWORD},
           host : {Copy(str, hostStart, hostEnd)},
           port : {ANONIMOUS_PORT},
           path : {Copy(str, hostEnd, Len(str))}]

parseURL(str) ==
  IF REuserAuth(str) THEN parseUserAuthUrl(str)
  ELSE IF REAnonimousAuth(str) THEN parseAnonimousAuth(str)
  ELSE {}

(***************************************************************************)
(* stripFileName: "." and the path from its last slash on.                 *)
(***************************************************************************)
stripFileName(path) ==
  LET next(i) == findOcorrenceIndex(path, "/", i + 1)
      last[i \in 0 .. Len(path)] == IF next(i) = -1 THEN i ELSE last[next(i)]
  IN <<".">> \o Copy(path, last[0], Len(path))

=============================================================================
