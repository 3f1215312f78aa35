------------------------------ MODULE FtpProofs ------------------------------
(***************************************************************************)
(* An address is taken apart as it was put together, whatever its parts    *)
(* are, and the local file has its last name.  The downloaded file is      *)
(* whole when the program reports success, for a file of any size, any     *)
(* mixture of worlds and any timing of the two connections.  With orderly  *)
(* replies client and server take turns, each command gets its own answer, *)
(* and the client gives up only for a reason.                              *)
(***************************************************************************)
EXTENDS FtpSession, SequenceTheorems, WellFoundedInduction, TLAPS

-----------------------------------------------------------------------------
(* What parseURL makes of an address, of any length.                       *)

(* Every set of natural numbers with an element has a least one: a proof   *)
(* for every k looks at the least k for which it fails.                    *)
LEMMA Least ==
  ASSUME NEW T, T \subseteq Nat, T # {}
  PROVE  \E x \in T : \A y \in T : x <= y
<1> DEFINE R == OpToRel(<, Nat)
<1>1. \A x, y \in Nat : y < x => <<y, x>> \in R
  BY DEF OpToRel
<1>2. IsWellFoundedOn(R, Nat)
  BY NatLessThanWellFounded, Zenon
<1> HIDE DEF R
<1>3. PICK x \in T : \A y \in T : ~(<<y, x>> \in R)
  BY <1>2, WFMin
<1>4. ASSUME NEW y \in T PROVE x <= y
  <2>1. x \in Nat /\ y \in Nat
    OBVIOUS
  <2>2. ~(y < x)
    BY <1>1, <1>3, <2>1, Zenon
  <2> QED
    BY <2>1, <2>2, SMT
<1> QED
  BY <1>4

LEMMA FoundOrNot ==
  ASSUME NEW str, NEW c, NEW start \in Int, Len(str) \in Nat,
         findOcorrenceIndex(str, c, start) # -1
  PROVE  /\ findOcorrenceIndex(str, c, start) \in start + 1 .. Len(str) - 1
         /\ start \in Nat
<1> DEFINE found == {i \in start + 1 .. Len(str) - 1 : str[i + 1] = c}
<1>1. start \in Nat /\ found # {}
  BY DEF findOcorrenceIndex
<1>2. findOcorrenceIndex(str, c, start) = CHOOSE i \in found : \A j \in found : i <= j
  BY <1>1 DEF findOcorrenceIndex
<1>3. found \subseteq Nat
  BY <1>1
<1>4. \E i \in found : \A j \in found : i <= j
  <2> HIDE DEF found
  <2> QED
    BY <1>1, <1>3, Least
<1>5. findOcorrenceIndex(str, c, start) \in found
  <2> HIDE DEF found
  <2> QED
    BY <1>2, <1>4
<1> QED
  BY <1>1, <1>5

LEMMA FoundFirst ==
  ASSUME NEW str, NEW c, NEW start \in Nat, Len(str) \in Nat,
         NEW i \in start + 1 .. Len(str) - 1, str[i + 1] = c,
         \A j \in start + 1 .. i - 1 : str[j + 1] # c
  PROVE  findOcorrenceIndex(str, c, start) = i
<1> DEFINE found == {k \in start + 1 .. Len(str) - 1 : str[k + 1] = c}
<1>1. i \in found
  OBVIOUS
<1>2. \A k \in found : i <= k
  OBVIOUS
<1>3. \A k \in found : k \in Int
  OBVIOUS
<1>4. start \in Int /\ ~(start < 0 \/ start > Len(str) \/ found = {})
  BY <1>1
<1>5. findOcorrenceIndex(str, c, start) = CHOOSE k \in found : \A j \in found : k <= j
  BY <1>4 DEF findOcorrenceIndex
<1> HIDE DEF found
<1>6. \A k \in found : (\A j \in found : k <= j) => k = i
  BY <1>1, <1>2, <1>3
<1> QED
  BY <1>1, <1>2, <1>5, <1>6

LEMMA CopyText ==
  ASSUME NEW str \in Text, NEW a \in Nat, NEW b \in 0 .. Len(str)
  PROVE  Copy(str, a, b) \in Text
<1>1. \A i \in a + 1 .. b : str[i] \in Char
  BY DEF Text
<1>2. a + 1 \in Int /\ b \in Int
  OBVIOUS
<1> QED
  BY <1>1, <1>2, SubSeqProperties DEF Text, Copy

LEMMA UnterminatedText ==
  ASSUME NEW text \in Text
  PROVE  Unterminated(text) \subseteq Text
<1>1. "garbage" \in Char
  BY DEF Char
<1> QED
  BY <1>1 DEF Unterminated, Text

LEMMA AnonymousText ==
  ANONIMOUS_USER \in Text /\ ANONIMOUS_PASSWORD \in Text /\ ANONIMOUS_PORT \in Text
<1>1. {"anonymous", "mail", "2", "1"} \subseteq Char
  BY DEF Char, Alnum, Digit
<1> QED
  BY <1>1 DEF ANONIMOUS_USER, ANONIMOUS_PASSWORD, ANONIMOUS_PORT, Text

LEMMA UserAuthLinks ==
  ASSUME NEW str \in Text
  PROVE  parseUserAuthUrl(str) \subseteq Link
<1> DEFINE bracket == findOcorrenceIndex(str, "[", 0)
           userStart == findOcorrenceIndex(str, "[", 0) + 1
           userEnd == findOcorrenceIndex(str, ":", userStart)
           pwEnd == findOcorrenceIndex(str, "@", userEnd + 1)
           hostEnd == findOcorrenceIndex(str, ":", pwEnd + 1)
           portEnd == findOcorrenceIndex(str, "/", hostEnd + 1)
<1> SUFFICES ASSUME -1 \notin {userEnd, pwEnd, hostEnd, portEnd}
             PROVE  parseUserAuthUrl(str) \subseteq Link
  BY DEF parseUserAuthUrl
<1>1. Len(str) \in Nat
  BY DEF Text
<1>2. userStart \in Nat
  <2>1. bracket = -1 \/ bracket \in 0 + 1 .. Len(str) - 1
    BY <1>1, FoundOrNot
  <2> QED
    BY <1>1, <2>1
<1>3. userEnd \in 1 .. Len(str) - 1
  <2>1. userEnd \in userStart + 1 .. Len(str) - 1
    <3> HIDE DEF userStart
    <3> QED
      BY <1>1, <1>2, FoundOrNot
  <2> HIDE DEF userEnd, userStart
  <2> QED
    BY <1>1, <1>2, <2>1
<1> HIDE DEF userStart, userEnd
<1>4. pwEnd \in 1 .. Len(str) - 1
  <2>1. pwEnd \in userEnd + 1 + 1 .. Len(str) - 1
    BY <1>1, <1>3, FoundOrNot
  <2> HIDE DEF pwEnd
  <2> QED
    BY <1>1, <1>3, <2>1
<1> HIDE DEF pwEnd
<1>5. hostEnd \in 1 .. Len(str) - 1
  <2>1. hostEnd \in pwEnd + 1 + 1 .. Len(str) - 1
    BY <1>1, <1>4, FoundOrNot
  <2> HIDE DEF hostEnd
  <2> QED
    BY <1>1, <1>4, <2>1
<1> HIDE DEF hostEnd
<1>6. portEnd \in 1 .. Len(str) - 1
  <2>1. portEnd \in hostEnd + 1 + 1 .. Len(str) - 1
    BY <1>1, <1>5, FoundOrNot
  <2> HIDE DEF portEnd
  <2> QED
    BY <1>1, <1>5, <2>1
<1> HIDE DEF portEnd
<1>7. /\ Copy(str, userStart, userEnd) \in Text
      /\ Copy(str, userEnd + 1, pwEnd) \in Text
      /\ Copy(str, pwEnd + 2, hostEnd) \in Text
      /\ Copy(str, hostEnd + 1, portEnd) \in Text
      /\ Copy(str, hostEnd, Len(str)) \in Text
  <2>1. /\ {userStart, userEnd + 1, pwEnd + 2, hostEnd + 1, hostEnd} \subseteq Nat
        /\ {userEnd, pwEnd, hostEnd, portEnd, Len(str)} \subseteq 0 .. Len(str)
    BY <1>1, <1>2, <1>3, <1>4, <1>5, <1>6
  <2> QED
    BY <2>1, CopyText
<1>8. /\ Unterminated(Copy(str, hostEnd + 1, portEnd)) \subseteq Text
      /\ Unterminated(Copy(str, hostEnd, Len(str))) \subseteq Text
  BY <1>7, UnterminatedText
<1>9. parseUserAuthUrl(str)
      = [user : {Copy(str, userStart, userEnd)},
         password : {Copy(str, userEnd + 1, pwEnd)},
         host : {Copy(str, pwEnd + 2, hostEnd)},
         port : Unterminated(Copy(str, hostEnd + 1, portEnd)),
         path : Unterminated(Copy(str, hostEnd, Len(str)))]
  BY DEF parseUserAuthUrl, userStart, userEnd, pwEnd, hostEnd, portEnd
<1> QED
  BY <1>7, <1>8, <1>9 DEF Link

LEMMA AnonimousAuthLinks ==
  ASSUME NEW str \in Text
  PROVE  parseAnonimousAuth(str) \subseteq Link
<1> DEFINE slash == findOcorrenceIndex(str, "/", 0)
           hostStart == slash + 2
           hostEnd == findOcorrenceIndex(str, "/", hostStart)
<1> SUFFICES ASSUME -1 \notin {slash, hostEnd}
             PROVE  parseAnonimousAuth(str) \subseteq Link
  BY DEF parseAnonimousAuth
<1>1. Len(str) \in Nat
  BY DEF Text
<1>2. slash \in 0 + 1 .. Len(str) - 1
  BY <1>1, FoundOrNot
<1> HIDE DEF slash
<1>3. hostEnd \in hostStart + 1 .. Len(str) - 1
  BY <1>1, <1>2, FoundOrNot
<1> HIDE DEF hostEnd
<1>4. Copy(str, hostStart, hostEnd) \in Text /\ Copy(str, hostEnd, Len(str)) \in Text
  <2>1. {hostStart, hostEnd} \subseteq Nat /\ {hostEnd, Len(str)} \subseteq 0 .. Len(str)
    BY <1>1, <1>2, <1>3
  <2> QED
    BY <2>1, CopyText
<1>5. parseAnonimousAuth(str)
      = [user : {ANONIMOUS_USER}, password : {ANONIMOUS_PASSWORD},
         host : {Copy(str, hostStart, hostEnd)}, port : {ANONIMOUS_PORT},
         path : {Copy(str, hostEnd, Len(str))}]
  BY DEF parseAnonimousAuth, slash, hostEnd
<1> QED
  BY <1>4, <1>5, AnonymousText DEF Link

LEMMA ParsedLinks ==
  ASSUME NEW str \in Text
  PROVE  parseURL(str) \subseteq Link
  BY UserAuthLinks, AnonimousAuthLinks DEF parseURL

(* u is s followed by t.                                                   *)
Concatenated(u, s, t) ==
  /\ Len(u) = Len(s) + Len(t)
  /\ \A i \in 1 .. Len(s) : u[i] = s[i]
  /\ \A i \in 1 .. Len(t) : u[Len(s) + i] = t[i]

LEMMA Joined ==
  ASSUME NEW S, NEW s \in Seq(S), NEW t \in Seq(S)
  PROVE  s \o t \in Seq(S) /\ Concatenated(s \o t, s, t)
<1>1. Len(s) \in Nat /\ Len(t) \in Nat
  OBVIOUS
<1>2. /\ s \o t \in Seq(S)
      /\ Len(s \o t) = Len(s) + Len(t)
      /\ \A i \in 1 .. Len(s) + Len(t) :
           (s \o t)[i] = IF i <= Len(s) THEN s[i] ELSE t[i - Len(s)]
  BY ConcatProperties
<1>3. ASSUME NEW i \in 1 .. Len(s) PROVE (s \o t)[i] = s[i]
  <2>1. i \in 1 .. Len(s) + Len(t) /\ i <= Len(s)
    BY <1>1
  <2> QED
    BY <1>2, <2>1
<1>4. ASSUME NEW i \in 1 .. Len(t) PROVE (s \o t)[Len(s) + i] = t[i]
  <2>1. /\ Len(s) + i \in 1 .. Len(s) + Len(t)
        /\ ~(Len(s) + i <= Len(s))
        /\ Len(s) + i - Len(s) = i
    BY <1>1
  <2> QED
    BY <1>2, <2>1
<1> QED
  BY <1>2, <1>3, <1>4 DEF Concatenated

(* str is "ftp://", the host, and the path.                                *)
Composed(str, host, path) ==
  /\ Len(host) \in Nat /\ Len(path) \in Nat
  /\ Len(str) = 4 + Len(host) + Len(path)
  /\ \A i \in 1 .. 4 : str[i] = Scheme[i]
  /\ \A i \in 1 .. Len(host) : str[4 + i] = host[i]
  /\ \A i \in 1 .. Len(path) : str[4 + Len(host) + i] = path[i]

LEMMA AddressComposed ==
  ASSUME NEW host \in Seq(HostChar), NEW path \in Seq(PathChar)
  PROVE  /\ Scheme \o host \o path \in Text
         /\ Composed(Scheme \o host \o path, host, path)
<1>1. /\ {"ftp", ":", "/"} \subseteq Char
      /\ HostChar \subseteq Char /\ PathChar \subseteq Char
  BY DEF Char, Alnum, Letter, HostChar, PathChar
<1>2. Scheme \in Seq(Char) /\ Len(Scheme) = 4
  BY <1>1 DEF Scheme
<1>3. host \in Seq(Char) /\ path \in Seq(Char)
  BY <1>1
<1>4. /\ Scheme \o host \in Seq(Char)
      /\ Len(Scheme \o host) = 4 + Len(host)
      /\ \A i \in 1 .. 4 : (Scheme \o host)[i] = Scheme[i]
      /\ \A i \in 1 .. Len(host) : (Scheme \o host)[4 + i] = host[i]
  <2>1. Scheme \o host \in Seq(Char) /\ Concatenated(Scheme \o host, Scheme, host)
    BY <1>2, <1>3, Joined
  <2> QED
    BY <1>2, <2>1, Zenon DEF Concatenated
<1> DEFINE front == Scheme \o host
<1> HIDE DEF front
<1>5. /\ front \o path \in Seq(Char)
      /\ Len(front \o path) = Len(front) + Len(path)
      /\ \A i \in 1 .. Len(front) : (front \o path)[i] = front[i]
      /\ \A i \in 1 .. Len(path) : (front \o path)[Len(front) + i] = path[i]
  <2>1. front \in Seq(Char)
    BY <1>4 DEF front
  <2>2. front \o path \in Seq(Char) /\ Concatenated(front \o path, front, path)
    BY <1>3, <2>1, Joined
  <2> QED
    BY <2>2, Zenon DEF Concatenated
<1>6. Len(host) \in Nat /\ Len(path) \in Nat
  OBVIOUS
<1>7. Len(front) = 4 + Len(host)
  BY <1>4 DEF front
<1>8. ASSUME NEW i \in 1 .. 4 PROVE (front \o path)[i] = Scheme[i]
  <2>1. i \in 1 .. Len(front)
    BY <1>6, <1>7
  <2> QED
    BY <1>4, <1>5, <2>1 DEF front
<1>9. ASSUME NEW i \in 1 .. Len(host) PROVE (front \o path)[4 + i] = host[i]
  <2>1. 4 + i \in 1 .. Len(front)
    BY <1>6, <1>7
  <2> QED
    BY <1>4, <1>5, <2>1 DEF front
<1> QED
  BY <1>5, <1>6, <1>7, <1>8, <1>9 DEF Composed, Text, front

(* No character of an anonymous address is "@".                            *)
LEMMA NoAt ==
  ASSUME NEW host \in Seq(HostChar), NEW path \in Seq(PathChar),
         NEW str, Composed(str, host, path), NEW i \in 1 .. Len(str)
  PROVE  str[i] # "@"
<1>1. /\ "@" \notin HostChar
      /\ "@" \notin PathChar
  BY DEF HostChar, PathChar, Alnum, Letter, Digit
<1>2. Len(host) \in Nat /\ Len(path) \in Nat
  BY DEF Composed
<1>3. CASE i \in 1 .. 4
  <2>1. str[i] = Scheme[i]
    BY <1>3 DEF Composed
  <2> QED
    BY <1>3, <2>1 DEF Scheme
<1>4. CASE i > 4 /\ i <= 4 + Len(host)
  <2> DEFINE k == i - 4
  <2>1. k \in 1 .. Len(host) /\ 4 + k = i
    BY <1>2, <1>4
  <2> HIDE DEF k
  <2>2. str[i] = host[k]
    BY <2>1 DEF Composed
  <2>3. host[k] \in HostChar
    BY <2>1
  <2> QED
    BY <1>1, <2>2, <2>3
<1>5. CASE i > 4 + Len(host)
  <2> DEFINE k == i - (4 + Len(host))
  <2>1. k \in 1 .. Len(path) /\ 4 + Len(host) + k = i
    BY <1>2, <1>5 DEF Composed
  <2> HIDE DEF k
  <2>2. str[i] = path[k]
    BY <2>1 DEF Composed
  <2>3. path[k] \in PathChar
    BY <2>1
  <2> QED
    BY <1>1, <2>2, <2>3
<1> QED
  BY <1>2, <1>3, <1>4, <1>5

LEMMA NotUserAuth ==
  ASSUME NEW str, Len(str) \in Nat, \A i \in 1 .. Len(str) : str[i] # "@"
  PROVE  ~REuserAuth(str)
<1> SUFFICES ASSUME REuserAuth(str) PROVE FALSE
  OBVIOUS
<1>1. PICK i \in Behind(str) : \E colon \in Run(str, i, UserChar) :
        \E at \in Run(str, colon + 1, Alnum) : Has(str, at, "@")
  BY Zenon DEF REuserAuth
<1>2. PICK colon \in Run(str, i, UserChar) :
        \E at \in Run(str, colon + 1, Alnum) : Has(str, at, "@")
  BY <1>1
<1>3. PICK at \in Run(str, colon + 1, Alnum) : Has(str, at, "@")
  BY <1>2
<1>4. i \in 4 .. Len(str)
  BY DEF Behind
<1>5. colon \in i .. Len(str)
  BY DEF Run
<1>6. at \in colon + 1 .. Len(str)
  BY DEF Run
<1>7. at < Len(str) /\ str[at + 1] = "@"
  BY <1>3 DEF Has
<1>8. at + 1 \in 1 .. Len(str)
  BY <1>4, <1>5, <1>6, <1>7
<1> QED
  BY <1>7, <1>8

LEMMA IsAnonimousAuth ==
  ASSUME NEW host \in Seq(HostChar), NEW path \in Seq(PathChar),
         Len(host) >= 1, Len(path) >= 2, path[1] = "/",
         NEW str \in Text, Composed(str, host, path)
  PROVE  REAnonimousAuth(str)
<1> DEFINE slash == 4 + Len(host)
<1>1. Len(host) \in Nat /\ Len(path) \in Nat /\ Len(str) = slash + Len(path)
  BY DEF Composed
<1>2. 4 \in Behind(str)
  <2> DEFINE front == SubSeq(str, 1, 4)
  <2>1. /\ front \in Seq(Char)
        /\ Len(front) = IF 1 <= 4 THEN 4 - 1 + 1 ELSE 0
        /\ \A i \in 1 .. 4 - 1 + 1 : front[i] = str[1 + i - 1]
    <3>1. \A i \in 1 .. 4 : str[i] \in Char
      BY <1>1 DEF Text
    <3>2. 1 \in Int /\ 4 \in Int
      OBVIOUS
    <3> QED
      BY <3>1, <3>2, SubSeqProperties
  <2> HIDE DEF front
  <2>2. Scheme \in Seq({"ftp", ":", "/"}) /\ Len(Scheme) = 4
    BY DEF Scheme
  <2>5. \A i \in 1 .. 4 : front[i] = Scheme[i]
    <3>1. \A i \in 1 .. 4 : front[i] = str[i]
      BY <2>1
    <3> QED
      BY <3>1 DEF Composed
  <2>6. front = Scheme
    BY <2>1, <2>2, <2>5, SeqEqual
  <2>3. SubSeq(str, 1, 4) = Scheme
    BY <2>6 DEF front
  <2>4. 4 \in 4 .. Len(str) /\ 4 - 3 = 1
    BY <1>1
  <2> QED
    BY <2>3, <2>4 DEF Behind
<1>3. slash \in Run(str, 4, HostChar)
  <2>1. ASSUME NEW k \in 4 .. slash - 1 PROVE str[k + 1] \in HostChar
    <3> DEFINE j == k - 3
    <3>1. j \in 1 .. Len(host) /\ 4 + j = k + 1
      BY <1>1
    <3> HIDE DEF j
    <3>2. str[k + 1] = host[j]
      BY <3>1 DEF Composed
    <3> QED
      BY <3>1, <3>2
  <2>2. slash \in 4 .. Len(str)
    BY <1>1
  <2> QED
    BY <2>1, <2>2 DEF Run
<1>4. PathFollows(str, slash)
  <2>1. slash < Len(str) /\ slash + 1 < Len(str)
    BY <1>1
  <2>2. 1 \in 1 .. Len(path) /\ 2 \in 1 .. Len(path)
    BY <1>1
  <2>3. str[slash + 1] = path[1] /\ str[slash + 2] = path[2]
    BY <2>2 DEF Composed
  <2>4. path[2] \in PathChar
    BY <2>2
  <2> QED
    BY <2>1, <2>3, <2>4 DEF PathFollows, Has
<1>5. slash \in Run(str, 4, HostChar) \ {4}
  BY <1>1, <1>3
<1> QED
  BY <1>2, <1>4, <1>5 DEF REAnonimousAuth

(* The two slashes parseAnonimousAuth finds.                               *)
LEMMA Slashes ==
  ASSUME NEW host \in Seq(HostChar), NEW path \in Seq(PathChar),
         Len(host) >= 1, Len(path) >= 1, path[1] = "/",
         NEW str \in Text, Composed(str, host, path)
  PROVE  /\ findOcorrenceIndex(str, "/", 0) = 2
         /\ findOcorrenceIndex(str, "/", 4) = 4 + Len(host)
<1> DEFINE slash == 4 + Len(host)
<1>1. Len(host) \in Nat /\ Len(path) \in Nat /\ Len(str) = slash + Len(path)
  BY DEF Composed
<1>2. Len(str) \in Nat
  BY <1>1
<1>3. findOcorrenceIndex(str, "/", 0) = 2
  <2>1. str[2] = ":" /\ str[3] = "/"
    <3>1. \A i \in {2, 3} : str[i] = Scheme[i]
      BY DEF Composed
    <3> QED
      BY <3>1 DEF Scheme
  <2>2. 0 \in Nat /\ 2 \in 0 + 1 .. Len(str) - 1 /\ str[2 + 1] = "/"
    BY <1>1, <2>1
  <2>3. \A j \in 0 + 1 .. 2 - 1 : str[j + 1] # "/"
    BY <2>1
  <2> QED
    BY <1>2, <2>2, <2>3, FoundFirst
<1>4. findOcorrenceIndex(str, "/", 4) = slash
  <2>1. slash \in 4 + 1 .. Len(str) - 1
    BY <1>1
  <2>2. str[slash + 1] = "/"
    <3>1. 1 \in 1 .. Len(path)
      BY <1>1
    <3> QED
      BY <3>1 DEF Composed
  <2>3. ASSUME NEW j \in 4 + 1 .. slash - 1 PROVE str[j + 1] # "/"
    <3> DEFINE k == j - 3
    <3>1. k \in 1 .. Len(host) /\ 4 + k = j + 1
      BY <1>1
    <3> HIDE DEF k
    <3>2. str[j + 1] = host[k] /\ host[k] \in HostChar
      BY <3>1 DEF Composed
    <3>3. "/" \notin HostChar
      BY DEF HostChar, Alnum, Letter, Digit
    <3> QED
      BY <3>2, <3>3
  <2>4. 4 \in Nat
    OBVIOUS
  <2> HIDE DEF slash
  <2> QED
    BY <1>2, <2>1, <2>2, <2>3, <2>4, FoundFirst
<1> QED
  BY <1>3, <1>4

LEMMA HostAndPath ==
  ASSUME NEW host \in Seq(HostChar), NEW path \in Seq(PathChar),
         NEW str \in Text, Composed(str, host, path)
  PROVE  /\ Copy(str, 4, 4 + Len(host)) = host
         /\ Copy(str, 4 + Len(host), Len(str)) = path
<1> DEFINE slash == 4 + Len(host)
<1>1. Len(host) \in Nat /\ Len(path) \in Nat /\ Len(str) = slash + Len(path)
  BY DEF Composed
<1>2. \A i \in 1 .. Len(str) : str[i] \in Char
  BY DEF Text
<1>3. Copy(str, 4, slash) = host
  <2> DEFINE part == SubSeq(str, 4 + 1, slash)
  <2>1. /\ part \in Seq(Char)
        /\ Len(part) = IF 4 + 1 <= slash THEN slash - (4 + 1) + 1 ELSE 0
        /\ \A i \in 1 .. slash - (4 + 1) + 1 : part[i] = str[4 + 1 + i - 1]
    <3>1. \A i \in 4 + 1 .. slash : str[i] \in Char
      BY <1>1, <1>2
    <3>2. 4 + 1 \in Int /\ slash \in Int
      BY <1>1
    <3> QED
      BY <3>1, <3>2, SubSeqProperties
  <2> HIDE DEF part
  <2>2. Len(part) = Len(host)
    BY <1>1, <2>1
  <2>3. ASSUME NEW i \in 1 .. Len(host) PROVE part[i] = host[i]
    <3>1. i \in 1 .. slash - (4 + 1) + 1 /\ 4 + 1 + i - 1 = 4 + i
      BY <1>1
    <3>2. part[i] = str[4 + i]
      BY <2>1, <3>1
    <3> QED
      BY <3>2 DEF Composed
  <2>4. part = host
    BY <2>1, <2>2, <2>3, SeqEqual
  <2> QED
    BY <2>4 DEF Copy, part
<1>4. Copy(str, slash, Len(str)) = path
  <2> DEFINE part == SubSeq(str, slash + 1, Len(str))
  <2>1. /\ part \in Seq(Char)
        /\ Len(part) = IF slash + 1 <= Len(str) THEN Len(str) - (slash + 1) + 1 ELSE 0
        /\ \A i \in 1 .. Len(str) - (slash + 1) + 1 : part[i] = str[slash + 1 + i - 1]
    <3>1. \A i \in slash + 1 .. Len(str) : str[i] \in Char
      BY <1>1, <1>2
    <3>2. slash + 1 \in Int /\ Len(str) \in Int
      BY <1>1
    <3> QED
      BY <3>1, <3>2, SubSeqProperties
  <2> HIDE DEF part
  <2>2. Len(part) = Len(path)
    BY <1>1, <2>1
  <2>3. ASSUME NEW i \in 1 .. Len(path) PROVE part[i] = path[i]
    <3>1. i \in 1 .. Len(str) - (slash + 1) + 1 /\ slash + 1 + i - 1 = slash + i
      BY <1>1
    <3>2. part[i] = str[slash + i]
      BY <2>1, <3>1
    <3> QED
      BY <3>2 DEF Composed
  <2>4. part = path
    BY <2>1, <2>2, <2>3, SeqEqual
  <2> QED
    BY <2>4 DEF Copy, part
<1> QED
  BY <1>3, <1>4

(* An anonymous address is taken apart as it was put together, however     *)
(* long its host and its path are (code: validURL, parseAnonimousAuth).    *)
THEOREM AnonymousAsTyped ==
  ASSUME NEW host \in Seq(HostChar), NEW path \in Seq(PathChar),
         Len(host) >= 1, Len(path) >= 2, path[1] = "/"
  PROVE  parseURL(Scheme \o host \o path)
         = {[user |-> ANONIMOUS_USER, password |-> ANONIMOUS_PASSWORD, host |-> host,
             port |-> ANONIMOUS_PORT, path |-> path]}
<1> DEFINE str == Scheme \o host \o path
<1>1. str \in Text /\ Composed(str, host, path)
  BY AddressComposed
<1> HIDE DEF str
<1>2. Len(host) \in Nat /\ Len(path) \in Nat /\ Len(str) = 4 + Len(host) + Len(path)
  BY <1>1 DEF Composed
<1>3. ~REuserAuth(str)
  <2>1. \A i \in 1 .. Len(str) : str[i] # "@"
    BY <1>1, NoAt
  <2>2. Len(str) \in Nat
    BY <1>2
  <2> QED
    BY <2>1, <2>2, NotUserAuth
<1>4. REAnonimousAuth(str)
  BY <1>1, IsAnonimousAuth
<1>5. parseURL(str) = parseAnonimousAuth(str)
  BY <1>3, <1>4 DEF parseURL
<1>6. /\ findOcorrenceIndex(str, "/", 0) = 2
      /\ findOcorrenceIndex(str, "/", 4) = 4 + Len(host)
  <2>1. Len(path) >= 1
    BY <1>2
  <2> QED
    BY <1>1, <2>1, Slashes
<1>7. /\ Copy(str, 4, 4 + Len(host)) = host
      /\ Copy(str, 4 + Len(host), Len(str)) = path
  BY <1>1, HostAndPath
<1>8. parseAnonimousAuth(str)
      = [user : {ANONIMOUS_USER}, password : {ANONIMOUS_PASSWORD}, host : {host},
         port : {ANONIMOUS_PORT}, path : {path}]
  <2> DEFINE slash == findOcorrenceIndex(str, "/", 0)
             hostStart == slash + 2
             hostEnd == findOcorrenceIndex(str, "/", hostStart)
  <2>1. slash = 2 /\ hostStart = 4
    BY <1>6
  <2>2. hostEnd = 4 + Len(host)
    BY <1>6, <2>1
  <2>3. -1 \notin {slash, hostEnd}
    BY <1>2, <2>1, <2>2
  <2>4. parseAnonimousAuth(str)
        = [user : {ANONIMOUS_USER}, password : {ANONIMOUS_PASSWORD},
           host : {Copy(str, hostStart, hostEnd)}, port : {ANONIMOUS_PORT},
           path : {Copy(str, hostEnd, Len(str))}]
    BY <2>3 DEF parseAnonimousAuth
  <2> HIDE DEF slash, hostStart, hostEnd
  <2> QED
    BY <1>7, <2>1, <2>2, <2>4
<1>9. [user : {ANONIMOUS_USER}, password : {ANONIMOUS_PASSWORD}, host : {host},
       port : {ANONIMOUS_PORT}, path : {path}]
      = {[user |-> ANONIMOUS_USER, password |-> ANONIMOUS_PASSWORD, host |-> host,
          port |-> ANONIMOUS_PORT, path |-> path]}
  <2> DEFINE links == [user : {ANONIMOUS_USER}, password : {ANONIMOUS_PASSWORD},
                       host : {host}, port : {ANONIMOUS_PORT}, path : {path}]
             this == [user |-> ANONIMOUS_USER, password |-> ANONIMOUS_PASSWORD,
                      host |-> host, port |-> ANONIMOUS_PORT, path |-> path]
  <2>1. this \in links
    OBVIOUS
  <2>2. ASSUME NEW l \in links PROVE l = this
    OBVIOUS
  <2> HIDE DEF links, this
  <2>3. links = {this}
    BY <2>1, <2>2
  <2> QED
    BY <2>3 DEF links, this
<1> QED
  BY <1>5, <1>8, <1>9 DEF str

(* The search finds nothing only when there is nothing to find.            *)
LEMMA NotFound ==
  ASSUME NEW str, NEW c, NEW start \in Nat, Len(str) \in Nat, start <= Len(str),
         findOcorrenceIndex(str, c, start) = -1,
         NEW j \in start + 1 .. Len(str) - 1
  PROVE  str[j + 1] # c
<1> DEFINE found == {i \in start + 1 .. Len(str) - 1 : str[i + 1] = c}
<1> SUFFICES ASSUME found # {} PROVE FALSE
  OBVIOUS
<1>1. start \in Int /\ ~(start < 0 \/ start > Len(str) \/ found = {})
  OBVIOUS
<1>2. findOcorrenceIndex(str, c, start) = CHOOSE i \in found : \A k \in found : i <= k
  BY <1>1 DEF findOcorrenceIndex
<1>3. found \subseteq Nat
  OBVIOUS
<1> HIDE DEF found
<1>4. PICK i \in found : \A k \in found : i <= k
  BY <1>1, <1>3, Least
<1>5. findOcorrenceIndex(str, c, start) \in Nat
  BY <1>2, <1>3, <1>4
<1> QED
  BY <1>5

(* What it finds is the character it looks for.                            *)
LEMMA FoundThere ==
  ASSUME NEW str, NEW c, NEW start \in Nat, Len(str) \in Nat,
         findOcorrenceIndex(str, c, start) # -1
  PROVE  str[findOcorrenceIndex(str, c, start) + 1] = c
<1> DEFINE found == {i \in start + 1 .. Len(str) - 1 : str[i + 1] = c}
<1>1. found # {} /\ ~(start < 0 \/ start > Len(str) \/ found = {}) /\ start \in Int
  BY DEF findOcorrenceIndex
<1>2. findOcorrenceIndex(str, c, start) = CHOOSE i \in found : \A k \in found : i <= k
  BY <1>1 DEF findOcorrenceIndex
<1>3. found \subseteq Nat
  OBVIOUS
<1>4. findOcorrenceIndex(str, c, start) \in found
  <2> HIDE DEF found
  <2>1. PICK i \in found : \A k \in found : i <= k
    BY <1>1, <1>3, Least
  <2> QED
    BY <1>2, <2>1
<1> QED
  BY <1>4

(* The n elements behind the first a of a sequence.                        *)
LEMMA Slice ==
  ASSUME NEW S, NEW s \in Seq(S), NEW a \in Nat, NEW n \in Nat,
         1 <= n, a + n <= Len(s)
  PROVE  /\ SubSeq(s, a + 1, a + n) \in Seq(S)
         /\ Len(SubSeq(s, a + 1, a + n)) = n
         /\ \A i \in 1 .. n : SubSeq(s, a + 1, a + n)[i] = s[a + i]
<1> DEFINE l == a + 1
           h == a + n
<1>1. l \in Int /\ h \in Int /\ l <= h /\ h - l + 1 = n
  OBVIOUS
<1>2. \A i \in l .. h : s[i] \in S
  OBVIOUS
<1>3. \A i \in 1 .. n : l + i - 1 = a + i
  OBVIOUS
<1> HIDE DEF l, h
<1>4. /\ SubSeq(s, l, h) \in Seq(S)
      /\ Len(SubSeq(s, l, h)) = IF l <= h THEN h - l + 1 ELSE 0
      /\ \A i \in 1 .. h - l + 1 : SubSeq(s, l, h)[i] = s[l + i - 1]
  BY <1>1, <1>2, SubSeqProperties
<1>5. /\ SubSeq(s, l, h) \in Seq(S)
      /\ Len(SubSeq(s, l, h)) = n
      /\ \A i \in 1 .. n : SubSeq(s, l, h)[i] = s[a + i]
  BY <1>1, <1>3, <1>4
<1> QED
  BY <1>5 DEF l, h

-----------------------------------------------------------------------------
(* The name of the local file.                                             *)

NextSlash(path, i) == findOcorrenceIndex(path, "/", i + 1)

(* From the slash at index i the path is followed to the slash last[i].    *)
Follows(path, from, last) ==
  last = [i \in from .. Len(path) |->
            IF NextSlash(path, i) = -1 THEN i ELSE last[NextSlash(path, i)]]

LEMMA NextSlashBehind ==
  ASSUME NEW path \in Text, NEW i \in Nat, NextSlash(path, i) # -1
  PROVE  /\ NextSlash(path, i) \in i + 2 .. Len(path) - 1
         /\ path[NextSlash(path, i) + 1] = "/"
<1>1. Len(path) \in Nat /\ i + 1 \in Nat /\ i + 1 \in Int
  BY DEF Text
<1>2. path[NextSlash(path, i) + 1] = "/"
  BY <1>1, FoundThere DEF NextSlash
<1>3. NextSlash(path, i) \in i + 1 + 1 .. Len(path) - 1
  BY <1>1, FoundOrNot DEF NextSlash
<1>4. i + 1 + 1 = i + 2
  OBVIOUS
<1> QED
  BY <1>2, <1>3, <1>4, Zenon

(* The loop of stripFileName ends: it can be followed from every index.    *)
LEMMA FollowsExists ==
  ASSUME NEW path \in Text
  PROVE  \E last : Follows(path, 0, last)
<1> DEFINE L == Len(path)
           Bad == {n \in 0 .. L : ~\E last : Follows(path, L - n, last)}
<1>0. L \in Nat
  BY DEF Text
<1> SUFFICES ASSUME ~\E last : Follows(path, 0, last) PROVE FALSE
  OBVIOUS
<1>1. L \in Bad
  <2>1. L - L = 0 /\ L \in 0 .. L
    BY <1>0
  <2> QED
    BY <2>1, Zenon
<1>2. PICK n \in Bad : \A k \in Bad : n <= k
  <2>1. Bad \subseteq Nat /\ Bad # {}
    BY <1>1
  <2> HIDE DEF Bad
  <2> QED
    BY <2>1, Least
<1>3. n \in 0 .. L /\ ~\E last : Follows(path, L - n, last)
  OBVIOUS
<1>4. PICK m \in 0 .. L : m = L - n
  <2>1. L - n \in 0 .. L
    BY <1>0, <1>3
  <2> QED
    BY <2>1
<1>5. \A i \in m .. L : NextSlash(path, i) # -1 => NextSlash(path, i) \in m + 2 .. L
  <2> TAKE i \in m .. L
  <2> HAVE NextSlash(path, i) # -1
  <2>1. i \in Nat
    BY <1>0
  <2>2. NextSlash(path, i) \in i + 2 .. L - 1
    BY <2>1, NextSlashBehind
  <2> QED
    BY <1>0, <2>1, <2>2
<1>6. CASE n = 0
  <2>1. m = L /\ m .. L = {L}
    BY <1>0, <1>4, <1>6
  <2>2. NextSlash(path, L) = -1
    <3>1. L \in m .. L /\ ~(\E k \in m + 2 .. L : TRUE)
      BY <1>0, <2>1
    <3> QED
      BY <1>5, <3>1
  <2> DEFINE last == [i \in m .. L |-> L]
  <2>3. Follows(path, m, last)
    <3>1. last = [i \in m .. L |-> IF NextSlash(path, i) = -1 THEN i
                                   ELSE last[NextSlash(path, i)]]
      BY <2>1, <2>2
    <3> QED
      BY <3>1 DEF Follows
  <2> QED
    BY <1>3, <1>4, <2>3
<1>7. CASE n # 0
  <2>1. n - 1 \in 0 .. L /\ ~(n <= n - 1) /\ L - (n - 1) = m + 1
    BY <1>0, <1>3, <1>4, <1>7
  <2>2. n - 1 \notin Bad
    BY <1>2, <2>1
  <2>3. PICK f : Follows(path, m + 1, f)
    BY <2>1, <2>2
  <2> HIDE DEF Bad
  <2>4. \A i \in m + 1 .. L :
          f[i] = IF NextSlash(path, i) = -1 THEN i ELSE f[NextSlash(path, i)]
    BY <2>3 DEF Follows
  <2> DEFINE g == [i \in m .. L |->
                     IF i # m THEN f[i]
                     ELSE IF NextSlash(path, m) = -1 THEN m ELSE f[NextSlash(path, m)]]
  <2>5. \A k \in m + 1 .. L : g[k] = f[k]
    BY <1>0
  <2>6. ASSUME NEW i \in m .. L
        PROVE  g[i] = IF NextSlash(path, i) = -1 THEN i ELSE g[NextSlash(path, i)]
    <3>1. NextSlash(path, i) # -1 => NextSlash(path, i) \in m + 1 .. L
      <4>1. \A k \in m + 2 .. L : k \in m + 1 .. L
        BY <1>0
      <4> QED
        BY <1>5, <4>1
    <3>2. NextSlash(path, i) # -1 => g[NextSlash(path, i)] = f[NextSlash(path, i)]
      BY <2>5, <3>1
    <3>3. CASE i = m
      BY <3>2, <3>3
    <3>4. CASE i # m
      <4>1. i \in m + 1 .. L
        BY <1>0, <3>4
      <4>2. g[i] = f[i]
        BY <2>5, <4>1
      <4> HIDE DEF g
      <4> QED
        BY <2>4, <3>2, <4>1, <4>2
    <3> QED
      BY <3>3, <3>4
  <2>7. DOMAIN g = m .. L /\ g = [i \in m .. L |-> g[i]]
    OBVIOUS
  <2> HIDE DEF g
  <2>8. g = [i \in m .. L |-> IF NextSlash(path, i) = -1 THEN i ELSE g[NextSlash(path, i)]]
    BY <2>6, <2>7
  <2>9. Follows(path, m, g)
    BY <2>8, Zenon DEF Follows
  <2> QED
    BY <1>3, <1>4, <2>9
<1> QED
  BY <1>6, <1>7

(* It ends at a slash with no other one behind it, but perhaps one next to *)
(* it.                                                                     *)
LEMMA LastSlash ==
  ASSUME NEW path \in Text, NEW last, Follows(path, 0, last)
  PROVE  \A i \in 0 .. Len(path) :
           /\ last[i] \in 0 .. Len(path)
           /\ i # Len(path) => last[i] # Len(path)
           /\ NextSlash(path, last[i]) = -1
           /\ path[i + 1] = "/" => path[last[i] + 1] = "/"
<1> DEFINE L == Len(path)
           Good(i) == /\ last[i] \in 0 .. L
                      /\ i # L => last[i] # L
                      /\ NextSlash(path, last[i]) = -1
                      /\ path[i + 1] = "/" => path[last[i] + 1] = "/"
           Bad == {n \in 0 .. L : ~Good(L - n)}
<1>0. L \in Nat
  BY DEF Text
<1>1. ASSUME NEW i \in 0 .. L, \A k \in i + 1 .. L : Good(k) PROVE Good(i)
  <2>1. last[i] = IF NextSlash(path, i) = -1 THEN i ELSE last[NextSlash(path, i)]
    BY DEF Follows
  <2>2. CASE NextSlash(path, i) = -1
    BY <2>1, <2>2
  <2>3. CASE NextSlash(path, i) # -1
    <3>1. i \in Nat
      BY <1>0
    <3>2. NextSlash(path, i) \in i + 2 .. L - 1 /\ path[NextSlash(path, i) + 1] = "/"
      BY <2>3, <3>1, NextSlashBehind
    <3>3. \A k \in i + 2 .. L - 1 : k \in i + 1 .. L /\ k # L
      BY <1>0
    <3>4. Good(NextSlash(path, i))
      BY <1>1, <3>2, <3>3
    <3> QED
      BY <2>1, <2>3, <3>2, <3>4
  <2> QED
    BY <2>2, <2>3
<1> HIDE DEF Good
<1>2. Bad = {}
  <2> SUFFICES ASSUME Bad # {} PROVE FALSE
    OBVIOUS
  <2>1. PICK n \in Bad : \A k \in Bad : n <= k
    <3>1. Bad \subseteq Nat
      OBVIOUS
    <3> HIDE DEF Bad
    <3> QED
      BY <3>1, Least
  <2>2. n \in 0 .. L /\ L - n \in 0 .. L /\ ~Good(L - n)
    BY <1>0
  <2>3. PICK k \in L - n + 1 .. L : ~Good(k)
    BY <1>1, <2>2
  <2>4. L - k \in 0 .. L /\ L - (L - k) = k /\ ~(n <= L - k)
    BY <1>0, <2>2, <2>3
  <2>5. L - k \in Bad
    BY <2>3, <2>4
  <2> QED
    BY <2>1, <2>4, <2>5
<1>3. ASSUME NEW i \in 0 .. L PROVE Good(i)
  <2>1. L - i \in 0 .. L /\ L - (L - i) = i
    BY <1>0
  <2>2. L - i \notin Bad
    BY <1>2
  <2> QED
    BY <2>1, <2>2
<1> QED
  BY <1>3 DEF Good

(* stripFileName keeps the path from a slash on, behind which there is no  *)
(* other slash, or just one and next to it.                                *)
LEMMA Stripped ==
  ASSUME NEW path \in Text, Len(path) >= 2, path[1] = "/"
  PROVE  \E l \in 0 .. Len(path) - 1 :
           /\ stripFileName(path) = <<".">> \o Copy(path, l, Len(path))
           /\ path[l + 1] = "/"
           /\ \A j \in l + 3 .. Len(path) : path[j] # "/"
<1> DEFINE last == CHOOSE f : Follows(path, 0, f)
<1>0. Len(path) \in Nat
  BY DEF Text
<1>1. Follows(path, 0, last)
  BY FollowsExists
<1>2. stripFileName(path) = <<".">> \o Copy(path, last[0], Len(path))
  BY DEF stripFileName, Follows, NextSlash
<1> HIDE DEF last
<1>3. PICK l \in 0 .. Len(path) : l = last[0] /\ NextSlash(path, l) = -1 /\ path[l + 1] = "/"
  <2>1. 0 \in 0 .. Len(path) /\ path[0 + 1] = "/"
    BY <1>0
  <2> QED
    BY <1>1, <2>1, LastSlash
<1>4. l # Len(path)
  <2>1. 0 \in 0 .. Len(path) /\ 0 # Len(path)
    BY <1>0
  <2> QED
    BY <1>1, <1>3, <2>1, LastSlash
<1>5. ASSUME NEW j \in l + 3 .. Len(path) PROVE path[j] # "/"
  <2>1. l + 1 \in Nat /\ l + 1 <= Len(path)
    BY <1>0, <1>4
  <2>2. j - 1 \in l + 1 + 1 .. Len(path) - 1 /\ (j - 1) + 1 = j
    BY <1>0
  <2>3. path[(j - 1) + 1] # "/"
    BY <1>0, <1>3, <2>1, <2>2, NotFound DEF NextSlash
  <2> QED
    BY <2>2, <2>3
<1>6. l \in 0 .. Len(path) - 1
  BY <1>0, <1>4
<1> QED
  BY <1>2, <1>3, <1>5, <1>6

(* The last name begins behind the last slash.                             *)
LEMMA BaseNameAt ==
  ASSUME NEW p \in Text, NEW k \in 1 .. Len(p), p[k] = "/",
         \A j \in k + 1 .. Len(p) : p[j] # "/"
  PROVE  /\ BaseName(p) = SubSeq(p, k + 1, Len(p))
         /\ BaseName(p) \in Text
         /\ Len(BaseName(p)) = Len(p) - k
         /\ \A i \in 1 .. Len(p) - k : BaseName(p)[i] = p[k + i]
<1>0. Len(p) \in Nat /\ \A i \in 1 .. Len(p) : p[i] \in Char
  BY DEF Text
<1> DEFINE End(i) == SubSeq(p, i + 1, Len(p))
           Fits(base) == /\ \A n \in 1 .. Len(base) : base[n] # "/"
                         /\ p[Len(p) - Len(base)] = "/"
<1>1. ASSUME NEW i \in 1 .. Len(p)
      PROVE  /\ End(i) \in Text
             /\ Len(End(i)) = Len(p) - i
             /\ \A n \in 1 .. Len(p) - i : End(i)[n] = p[i + n]
  <2>1. \A n \in i + 1 .. Len(p) : p[n] \in Char
    BY <1>0
  <2>2. i + 1 \in Int /\ Len(p) \in Int
    BY <1>0
  <2>3. /\ End(i) \in Seq(Char)
        /\ Len(End(i)) = IF i + 1 <= Len(p) THEN Len(p) - (i + 1) + 1 ELSE 0
        /\ \A n \in 1 .. Len(p) - (i + 1) + 1 : End(i)[n] = p[i + 1 + n - 1]
    BY <2>1, <2>2, SubSeqProperties
  <2> HIDE DEF End
  <2>4. Len(End(i)) = Len(p) - i
    BY <1>0, <2>3
  <2>5. ASSUME NEW n \in 1 .. Len(p) - i PROVE End(i)[n] = p[i + n]
    <3>1. n \in 1 .. Len(p) - (i + 1) + 1 /\ i + 1 + n - 1 = i + n
      BY <1>0
    <3> QED
      BY <2>3, <3>1
  <2> QED
    BY <2>3, <2>4, <2>5 DEF Text
<1> HIDE DEF End
<1>2. Fits(End(k))
  <2>1. \A n \in 1 .. Len(p) - k : k + n \in k + 1 .. Len(p)
    BY <1>0
  <2>2. Len(p) - (Len(p) - k) = k
    BY <1>0
  <2>3. PICK e : e = End(k)
    OBVIOUS
  <2>4. Len(e) = Len(p) - k /\ \A n \in 1 .. Len(p) - k : e[n] = p[k + n]
    BY <1>1, <2>3
  <2>5. \A n \in 1 .. Len(e) : e[n] # "/"
    BY <2>1, <2>4
  <2>6. p[Len(p) - Len(e)] = "/"
    BY <2>2, <2>4
  <2> QED
    BY <2>3, <2>5, <2>6
<1>3. ASSUME NEW i \in 1 .. Len(p), Fits(End(i)) PROVE i = k
  <2>1. Len(p) - (Len(p) - i) = i
    BY <1>0
  <2>2. p[i] = "/"
    BY <1>1, <1>3, <2>1
  <2>3. ~(i > k)
    <3>1. i > k => i \in k + 1 .. Len(p)
      BY <1>0
    <3> QED
      BY <2>2, <3>1
  <2>4. ~(i < k)
    <3> SUFFICES ASSUME i < k PROVE FALSE
      OBVIOUS
    <3>1. k - i \in 1 .. Len(p) - i /\ i + (k - i) = k
      BY <1>0
    <3>2. End(i)[k - i] = "/"
      BY <1>1, <3>1
    <3>3. k - i \in 1 .. Len(End(i))
      BY <1>1, <3>1
    <3> QED
      BY <1>3, <3>2, <3>3
  <2> QED
    BY <2>3, <2>4
<1>4. BaseName(p) = CHOOSE base \in {End(i) : i \in 1 .. Len(p)} : Fits(base)
  BY DEF BaseName, End
<1> HIDE DEF Fits
<1>5. BaseName(p) = End(k)
  <2>1. End(k) \in {End(i) : i \in 1 .. Len(p)}
    OBVIOUS
  <2>2. \A base \in {End(i) : i \in 1 .. Len(p)} : Fits(base) => base = End(k)
    BY <1>3
  <2> QED
    BY <1>2, <1>4, <2>1, <2>2
<1> QED
  BY <1>1, <1>5 DEF End

(* The local file has the last name of the path and lies in the current    *)
(* directory.                                                              *)
LEMMA LocalName ==
  ASSUME NEW path \in Text, Len(path) >= 2, path[1] = "/",
         NEW name0, name0 = stripFileName(path)
  PROVE  /\ BaseName(name0) = BaseName(path)
         /\ \A i \in 1 .. Len(name0) - Len(BaseName(name0)) : name0[i] \in {".", "/"}
<1>0. Len(path) \in Nat
  BY DEF Text
<1>1. PICK l \in 0 .. Len(path) - 1 :
        /\ name0 = <<".">> \o Copy(path, l, Len(path))
        /\ path[l + 1] = "/"
        /\ \A j \in l + 3 .. Len(path) : path[j] # "/"
  BY Stripped
<1>2. PICK tail \in Text :
        /\ tail = Copy(path, l, Len(path))
        /\ Len(tail) = Len(path) - l
        /\ \A i \in 1 .. Len(path) - l : tail[i] = path[l + i]
  <2>1. l \in Nat /\ Len(path) - l \in Nat /\ 1 <= Len(path) - l
        /\ l + (Len(path) - l) = Len(path)
    BY <1>0
  <2>2. path \in Seq(Char)
    BY DEF Text
  <2> DEFINE n == Len(path) - l
  <2>3. /\ SubSeq(path, l + 1, l + n) \in Seq(Char)
        /\ Len(SubSeq(path, l + 1, l + n)) = n
        /\ \A i \in 1 .. n : SubSeq(path, l + 1, l + n)[i] = path[l + i]
    <3>1. n \in Nat /\ 1 <= n /\ l + n <= Len(path)
      BY <1>0
    <3> HIDE DEF n
    <3> QED
      BY <2>1, <2>2, <3>1, Slice
  <2> QED
    BY <2>1, <2>3 DEF Copy, Text
<1>3. /\ name0 \in Text
      /\ Len(name0) = Len(path) - l + 1
      /\ name0[1] = "."
      /\ \A i \in 1 .. Len(path) - l : name0[i + 1] = path[l + i]
  <2>1. "." \in Char
    BY DEF Char
  <2>2. <<".">> \in Seq(Char) /\ tail \in Seq(Char) /\ Len(<<".">>) = 1 /\ <<".">>[1] = "."
    BY <2>1 DEF Text
  <2>3. name0 \in Seq(Char) /\ Concatenated(name0, <<".">>, tail)
    BY <1>1, <1>2, <2>2, Joined
  <2>4. Len(name0) = 1 + Len(tail) /\ (\A i \in 1 .. 1 : name0[i] = <<".">>[i])
        /\ \A i \in 1 .. Len(tail) : name0[1 + i] = tail[i]
    BY <2>2, <2>3, Zenon DEF Concatenated
  <2>5. name0[1] = "."
    BY <2>2, <2>4
  <2>6. \A i \in 1 .. Len(path) - l : name0[i + 1] = tail[i]
    BY <1>2, <2>4
  <2> QED
    BY <1>0, <1>2, <2>3, <2>4, <2>5, <2>6 DEF Text
<1>4. PICK k \in l + 1 .. l + 2 :
        k \in 1 .. Len(path) /\ path[k] = "/" /\ \A j \in k + 1 .. Len(path) : path[j] # "/"
  <2>1. CASE l + 2 <= Len(path) /\ path[l + 2] = "/"
    <3>1. l + 2 \in l + 1 .. l + 2 /\ l + 2 \in 1 .. Len(path) /\ l + 2 + 1 = l + 3
      BY <1>0, <2>1
    <3> QED
      BY <1>1, <2>1, <3>1
  <2>2. CASE ~(l + 2 <= Len(path) /\ path[l + 2] = "/")
    <3>1. l + 1 \in l + 1 .. l + 2 /\ l + 1 \in 1 .. Len(path)
      BY <1>0
    <3>2. \A j \in l + 1 + 1 .. Len(path) : j = l + 2 \/ j \in l + 3 .. Len(path)
      BY <1>0
    <3>3. \A j \in l + 1 + 1 .. Len(path) : path[j] # "/"
      BY <1>0, <1>1, <2>2, <3>2
    <3> QED
      BY <1>1, <3>1, <3>3
  <2> QED
    BY <2>1, <2>2
<1>5. PICK m \in 2 .. 3 : m = k - l + 1 /\ m \in 1 .. Len(name0)
                      /\ Len(name0) - m = Len(path) - k
  <2>1. k - l + 1 \in 2 .. 3 /\ k - l + 1 \in 1 .. Len(name0)
        /\ Len(name0) - (k - l + 1) = Len(path) - k
    BY <1>0, <1>3, <1>4
  <2> QED
    BY <2>1
<1>6. \A i \in 2 .. Len(name0) : name0[i] = path[l + i - 1]
  <2> TAKE i \in 2 .. Len(name0)
  <2>1. i - 1 \in 1 .. Len(path) - l /\ (i - 1) + 1 = i /\ l + (i - 1) = l + i - 1
    BY <1>0, <1>3
  <2> QED
    BY <1>3, <2>1
<1>7. name0[m] = "/" /\ \A j \in m + 1 .. Len(name0) : name0[j] # "/"
  <2>1. m \in 2 .. Len(name0) /\ l + m - 1 = k
    BY <1>0, <1>4, <1>5
  <2>2. \A j \in m + 1 .. Len(name0) : j \in 2 .. Len(name0) /\ l + j - 1 \in k + 1 .. Len(path)
    BY <1>0, <1>3, <1>4, <1>5
  <2> QED
    BY <1>4, <1>6, <2>1, <2>2
<1>8. /\ BaseName(name0) \in Text
      /\ Len(BaseName(name0)) = Len(name0) - m
      /\ \A i \in 1 .. Len(name0) - m : BaseName(name0)[i] = name0[m + i]
  BY <1>3, <1>5, <1>7, BaseNameAt
<1>9. /\ BaseName(path) \in Text
      /\ Len(BaseName(path)) = Len(path) - k
      /\ \A i \in 1 .. Len(path) - k : BaseName(path)[i] = path[k + i]
  BY <1>4, BaseNameAt
<1>10. BaseName(name0) = BaseName(path)
  <2>1. ASSUME NEW i \in 1 .. Len(path) - k PROVE BaseName(name0)[i] = BaseName(path)[i]
    <3>1. m + i \in 2 .. Len(name0) /\ l + (m + i) - 1 = k + i /\ i \in 1 .. Len(name0) - m
      BY <1>0, <1>4, <1>5
    <3> QED
      BY <1>6, <1>8, <1>9, <3>1
  <2>2. Len(BaseName(name0)) = Len(BaseName(path))
    BY <1>5, <1>8, <1>9
  <2>3. BaseName(name0) \in Seq(Char) /\ BaseName(path) \in Seq(Char)
    BY <1>8, <1>9 DEF Text
  <2>4. \A i \in 1 .. Len(BaseName(path)) : BaseName(name0)[i] = BaseName(path)[i]
    BY <1>9, <2>1
  <2> QED
    BY <2>2, <2>3, <2>4, SeqEqual
<1>11. ASSUME NEW i \in 1 .. Len(name0) - Len(BaseName(name0)) PROVE name0[i] \in {".", "/"}
  <2>1. i \in 1 .. m
    <3>1. Len(name0) - (Len(name0) - m) = m
      BY <1>0, <1>3
    <3> QED
      BY <1>8, <3>1
  <2>2. CASE i = 1
    BY <1>3, <2>2
  <2>3. CASE i = m
    BY <1>7, <2>3
  <2>4. CASE i # 1 /\ i # m
    <3>1. i = 2 /\ 2 \in 2 .. Len(name0) /\ l + 2 - 1 = l + 1
      BY <1>5, <2>1, <2>4
    <3> QED
      BY <1>1, <1>6, <3>1
  <2> QED
    BY <2>2, <2>3, <2>4
<1> QED
  BY <1>10, <1>11

(* The part w of str begins at index o.                                    *)
At(str, o, w) ==
  /\ o \in Nat /\ Len(w) \in Nat /\ Len(str) \in Nat
  /\ o + Len(w) <= Len(str)
  /\ \A i \in 1 .. Len(w) : str[o + i] = w[i]

(* A part of a part, and a part of one of two strings that are joined.     *)
LEMMA AtInner ==
  ASSUME NEW str, NEW o, NEW w, At(str, o, w), NEW i, NEW v, At(w, i, v)
  PROVE  At(str, o + i, v)
<1>1. o \in Nat /\ i \in Nat /\ Len(w) \in Nat /\ Len(v) \in Nat /\ Len(str) \in Nat
      /\ o + Len(w) <= Len(str) /\ i + Len(v) <= Len(w)
  BY DEF At
<1>2. ASSUME NEW k \in 1 .. Len(v) PROVE str[(o + i) + k] = v[k]
  <2>1. i + k \in 1 .. Len(w) /\ o + (i + k) = (o + i) + k
    BY <1>1
  <2> QED
    BY <2>1 DEF At
<1>3. o + i \in Nat /\ (o + i) + Len(v) <= Len(str)
  BY <1>1
<1> QED
  BY <1>1, <1>2, <1>3 DEF At

LEMMA AtJoined ==
  ASSUME NEW S, NEW s \in Seq(S), NEW t \in Seq(S)
  PROVE  /\ s \o t \in Seq(S) /\ Len(s \o t) = Len(s) + Len(t)
         /\ At(s \o t, 0, s) /\ At(s \o t, Len(s), t)
<1>1. s \o t \in Seq(S) /\ Concatenated(s \o t, s, t)
  BY Joined
<1>2. Len(s) \in Nat /\ Len(t) \in Nat
  OBVIOUS
<1>3. PICK u \in Seq(S) : u = s \o t
  BY <1>1
<1>4. Len(u) = Len(s) + Len(t) /\ (\A i \in 1 .. Len(s) : u[i] = s[i])
      /\ \A i \in 1 .. Len(t) : u[Len(s) + i] = t[i]
  BY <1>1, <1>3 DEF Concatenated
<1>5. \A i \in 1 .. Len(s) : 0 + i = i
  OBVIOUS
<1>6. At(u, 0, s)
  BY <1>2, <1>4, <1>5 DEF At
<1>7. At(u, Len(s), t)
  BY <1>2, <1>4 DEF At
<1> QED
  BY <1>3, <1>4, <1>6, <1>7

(* Four strings that are joined: the others begin at j, k and l.           *)
Four(t, a, b, c, d, j, k, l) ==
  /\ t = a \o b \o c \o d /\ Len(t) = l + Len(d)
  /\ At(t, 0, a) /\ At(t, j, b) /\ At(t, k, c) /\ At(t, l, d)

LEMMA FourJoined ==
  ASSUME NEW S, NEW a \in Seq(S), NEW b \in Seq(S), NEW c \in Seq(S), NEW d \in Seq(S),
         NEW j \in Nat, NEW k \in Nat, NEW l \in Nat,
         j = Len(a), k = j + Len(b), l = k + Len(c)
  PROVE  \E t \in Seq(S) : Four(t, a, b, c, d, j, k, l)
<1>1. PICK x \in Seq(S) : x = a \o b /\ Len(x) = k /\ At(x, 0, a) /\ At(x, j, b)
  <2>1. PICK t \in Seq(S) : /\ t = a \o b /\ Len(t) = Len(a) + Len(b)
                            /\ At(t, 0, a) /\ At(t, Len(a), b)
    BY AtJoined
  <2>2. Len(t) = k /\ At(t, j, b)
    BY <2>1
  <2> QED
    BY <2>1, <2>2, Zenon
<1>2. PICK y \in Seq(S) : y = x \o c /\ Len(y) = l /\ At(y, 0, x) /\ At(y, k, c)
  <2>1. PICK t \in Seq(S) : /\ t = x \o c /\ Len(t) = Len(x) + Len(c)
                            /\ At(t, 0, x) /\ At(t, Len(x), c)
    BY AtJoined
  <2>2. Len(t) = l /\ At(t, k, c)
    BY <1>1, <2>1
  <2> QED
    BY <2>1, <2>2, Zenon
<1>3. PICK z \in Seq(S) : z = y \o d /\ Len(z) = l + Len(d) /\ At(z, 0, y) /\ At(z, l, d)
  <2>1. PICK t \in Seq(S) : /\ t = y \o d /\ Len(t) = Len(y) + Len(d)
                            /\ At(t, 0, y) /\ At(t, Len(y), d)
    BY AtJoined
  <2>2. Len(t) = l + Len(d) /\ At(t, l, d)
    BY <1>2, <2>1
  <2> QED
    BY <2>1, <2>2, Zenon
<1>5. At(y, 0, a) /\ At(y, j, b)
  <2>1. At(y, 0 + 0, a) /\ At(y, 0 + j, b)
    BY <1>1, <1>2, AtInner
  <2>2. 0 + 0 = 0 /\ 0 + j = j
    OBVIOUS
  <2> QED
    BY <2>1, <2>2
<1>6. At(z, 0, a) /\ At(z, j, b) /\ At(z, k, c)
  <2>1. At(z, 0 + 0, a) /\ At(z, 0 + j, b) /\ At(z, 0 + k, c)
    BY <1>2, <1>3, <1>5, AtInner
  <2>2. 0 + 0 = 0 /\ 0 + j = j /\ 0 + k = k
    OBVIOUS
  <2> QED
    BY <2>1, <2>2
<1>7. z = a \o b \o c \o d
  BY <1>1, <1>2, <1>3, Zenon
<1> QED
  BY <1>3, <1>6, <1>7, Zenon DEF Four

LEMMA CopyAt ==
  ASSUME NEW str \in Text, NEW o, NEW w \in Text, At(str, o, w)
  PROVE  Copy(str, o, o + Len(w)) = w
<1> DEFINE part == Copy(str, o, o + Len(w))
<1>1. o \in Nat /\ Len(w) \in Nat /\ o + Len(w) <= Len(str) /\ Len(str) \in Nat
      /\ \A i \in 1 .. Len(w) : str[o + i] = w[i]
  BY DEF At
<1>2. str \in Seq(Char) /\ w \in Seq(Char)
  BY DEF Text
<1>3. /\ part \in Seq(Char) /\ Len(part) = Len(w)
      /\ \A i \in 1 .. Len(w) : part[i] = w[i]
  <2>1. CASE Len(w) = 0
    <3> DEFINE l == o + 1
               h == o + Len(w)
    <3>1. l \in Int /\ h \in Int /\ ~(l <= h) /\ \A i \in l .. h : str[i] \in Char
      BY <1>1, <2>1
    <3>2. part = SubSeq(str, l, h)
      BY DEF Copy
    <3> HIDE DEF part, l, h
    <3>3. part \in Seq(Char) /\ Len(part) = 0
      BY <3>1, <3>2, SubSeqProperties
    <3> QED
      BY <2>1, <3>3
  <2>2. CASE Len(w) # 0
    <3>1. 1 <= Len(w)
      BY <1>1, <2>2
    <3>2. /\ part \in Seq(Char)
          /\ Len(part) = Len(w)
          /\ \A i \in 1 .. Len(w) : part[i] = str[o + i]
      BY <1>1, <1>2, <3>1, Slice DEF Copy
    <3> QED
      BY <1>1, <3>2
  <2> QED
    BY <2>1, <2>2
<1> HIDE DEF part
<1>4. part = w
  BY <1>2, <1>3, SeqEqual
<1> QED
  BY <1>4 DEF part

(* A part of characters of S can be run over, ...                          *)
LEMMA RunAt ==
  ASSUME NEW S, NEW w \in Seq(S), NEW str, NEW o, At(str, o, w)
  PROVE  o + Len(w) \in Run(str, o, S)
<1>1. o \in Nat /\ Len(w) \in Nat /\ o + Len(w) <= Len(str) /\ Len(str) \in Nat
      /\ \A i \in 1 .. Len(w) : str[o + i] = w[i]
  BY DEF At
<1>2. PICK n \in Nat : n = o + Len(w)
  BY <1>1
<1>3. ASSUME NEW k \in o .. n - 1 PROVE str[k + 1] \in S
  <2>1. PICK i \in 1 .. Len(w) : o + i = k + 1
    <3>1. k - o + 1 \in 1 .. Len(w) /\ o + (k - o + 1) = k + 1
      BY <1>1, <1>2
    <3> QED
      BY <3>1
  <2>2. w[i] \in S /\ str[o + i] = w[i]
    BY <1>1
  <2> QED
    BY <2>1, <2>2
<1>4. n \in o .. Len(str)
  BY <1>1, <1>2
<1>5. n \in Run(str, o, S)
  BY <1>3, <1>4 DEF Run
<1> QED
  BY <1>2, <1>5

(* ... and a search that begins in it, or before it, finds the character   *)
(* behind it.                                                              *)
LEMMA FoundBehindPart ==
  ASSUME NEW S, NEW w \in Seq(S), NEW c, c \notin S, NEW str, NEW o, At(str, o, w),
         Has(str, o + Len(w), c), NEW start \in Nat, start + 1 >= o, start < o + Len(w)
  PROVE  findOcorrenceIndex(str, c, start) = o + Len(w)
<1>1. o \in Nat /\ Len(w) \in Nat /\ o + Len(w) <= Len(str) /\ Len(str) \in Nat
      /\ \A i \in 1 .. Len(w) : str[o + i] = w[i]
  BY DEF At
<1>2. PICK n \in Nat : n = o + Len(w)
  BY <1>1
<1>3. n \in start + 1 .. Len(str) - 1 /\ str[n + 1] = c
  BY <1>1, <1>2 DEF Has
<1>4. ASSUME NEW j \in start + 1 .. n - 1 PROVE str[j + 1] # c
  <2>1. j - o + 1 \in 1 .. Len(w) /\ o + (j - o + 1) = j + 1
    BY <1>1, <1>2
  <2>2. str[j + 1] \in S
    BY <1>1, <2>1
  <2> QED
    BY <2>2
<1>5. findOcorrenceIndex(str, c, start) = n
  BY <1>1, <1>3, <1>4, FoundFirst
<1> QED
  BY <1>2, <1>5

-----------------------------------------------------------------------------
(* The address with a user and a password in brackets.                     *)

(* Where its parts lie: the colon behind the user, the "@", the colon      *)
(* behind the host, and the slash.                                         *)
Places(str, user, pw, host, digits, path, colon, at, port, slash) ==
  /\ colon = 5 + Len(user) /\ at = colon + 1 + Len(pw)
  /\ port = at + 2 + Len(host) /\ slash = port + 1 + Len(digits)
  /\ At(str, 0, Scheme) /\ At(str, 4, <<"[">>) /\ At(str, 5, user)
  /\ At(str, colon, <<":">>) /\ At(str, colon + 1, pw)
  /\ At(str, at, <<"@">>) /\ At(str, at + 1, <<"]">>) /\ At(str, at + 2, host)
  /\ At(str, port, <<":">>) /\ At(str, port + 1, digits)
  /\ At(str, slash, path) /\ Len(str) = slash + Len(path)

LEMMA Letters ==
  /\ {"ftp", ":", "/", "@", "[", "]"} \subseteq Char
  /\ UserChar \subseteq Char \ {"]", ":", "/"}
  /\ Alnum \subseteq Char \ {"]", "@", ":", "/"}
  /\ HostChar \subseteq Char \ {"]", ":", "/"}
  /\ Digit \subseteq Char \ {"]", ":", "/"}
  /\ PathChar \subseteq Char \ {"]", ":"}
  BY DEF Char, Alnum, Letter, Digit, UserChar, HostChar, PathChar

(* The signs between the parts.                                            *)
LEMMA Signs ==
  ASSUME NEW S, {"ftp", ":", "/", "@", "["} \subseteq S
  PROVE  /\ Scheme \in Seq(S) /\ Len(Scheme) = 4
         /\ <<"[">> \in Seq(S) /\ Len(<<"[">>) = 1 /\ <<":">> \in Seq(S) /\ Len(<<":">>) = 1
         /\ <<"@">> \in Seq(S) /\ Len(<<"@">>) = 1
         /\ "]" \in S => <<"]">> \in Seq(S) /\ Len(<<"]">>) = 1
  BY DEF Scheme

(* How long the parts are, and where that puts them.                       *)
Sizes(user, pw, host, digits, path, nu, np, nh, nd, nn) ==
  nu = Len(user) /\ np = Len(pw) /\ nh = Len(host) /\ nd = Len(digits) /\ nn = Len(path)
Offsets(nu, np, nh, nd, colon, at, port, slash) ==
  colon = 5 + nu /\ at = colon + 1 + np /\ port = at + 2 + nh /\ slash = port + 1 + nd

LEMMA BracketsPlaces ==
  ASSUME NEW user \in Seq(Char), NEW pw \in Seq(Char), NEW host \in Seq(Char),
         NEW digits \in Seq(Char), NEW path \in Seq(Char),
         NEW nu \in Nat, NEW np \in Nat, NEW nh \in Nat, NEW nd \in Nat, NEW nn \in Nat,
         Sizes(user, pw, host, digits, path, nu, np, nh, nd, nn),
         NEW colon \in Nat, NEW at \in Nat, NEW port \in Nat, NEW slash \in Nat,
         Offsets(nu, np, nh, nd, colon, at, port, slash)
  PROVE  \E z \in Text :
           /\ z = Scheme \o <<"[">> \o (user \o <<":">> \o pw \o <<"@">>) \o <<"]">>
                         \o (host \o <<":">> \o digits \o path)
           /\ Places(z, user, pw, host, digits, path, colon, at, port, slash)
<1>1. Text = Seq(Char)
  BY DEF Text
<1>2. PICK h \in Seq(Char), b \in Seq(Char), c \in Seq(Char), e \in Seq(Char), r \in Seq(Char) :
        /\ h = Scheme /\ b = <<"[">> /\ c = <<":">> /\ e = <<"@">> /\ r = <<"]">>
        /\ Len(h) = 4 /\ Len(b) = 1 /\ Len(c) = 1 /\ Len(e) = 1 /\ Len(r) = 1
  <2>1. {"ftp", ":", "/", "@", "["} \subseteq Char /\ "]" \in Char
    BY Letters
  <2> QED
    BY <2>1, Signs, Zenon
<1>3. PICK who \in Seq(Char) : Four(who, user, c, pw, e, nu, nu + 1, nu + 1 + np)
  <2>1. nu + 1 \in Nat /\ nu + 1 + np \in Nat /\ nu + 1 = nu + Len(c)
    BY <1>2
  <2>2. nu = Len(user) /\ nu + 1 + np = nu + 1 + Len(pw)
    BY Zenon DEF Sizes
  <2> QED
    BY <2>1, <2>2, FourJoined
<1>4. PICK where \in Seq(Char) : Four(where, host, c, digits, path, nh, nh + 1, nh + 1 + nd)
  <2>1. nh + 1 \in Nat /\ nh + 1 + nd \in Nat /\ nh + 1 = nh + Len(c)
    BY <1>2
  <2>2. nh = Len(host) /\ nh + 1 + nd = nh + 1 + Len(digits)
    BY Zenon DEF Sizes
  <2> QED
    BY <2>1, <2>2, FourJoined
<1>5. PICK front \in Seq(Char) : Four(front, h, b, who, r, 4, 5, at + 1)
  <2>1. 4 \in Nat /\ 5 \in Nat /\ at + 1 \in Nat /\ 4 = Len(h) /\ 5 = 4 + Len(b)
    BY <1>2
  <2>2. at + 1 = 5 + Len(who)
    <3>1. Len(who) = nu + 1 + np + 1
      BY <1>2, <1>3 DEF Four
    <3>2. at + 1 = 5 + (nu + 1 + np + 1)
      BY DEF Offsets
    <3> QED
      BY <3>1, <3>2
  <2> QED
    BY <2>1, <2>2, FourJoined
<1>6. Len(front) = at + 2 /\ Len(where) = nh + 1 + nd + Len(path)
  BY <1>2, <1>4, <1>5 DEF Four
<1>7. PICK z \in Seq(Char) :
        /\ z = front \o where /\ Len(z) = Len(front) + Len(where)
        /\ At(z, 0, front) /\ At(z, Len(front), where)
  BY AtJoined
<1>8. z = Scheme \o <<"[">> \o (user \o <<":">> \o pw \o <<"@">>) \o <<"]">>
                 \o (host \o <<":">> \o digits \o path)
  BY <1>2, <1>3, <1>4, <1>5, <1>7, Zenon DEF Four
<1>9. At(z, 0, h) /\ At(z, 4, b) /\ At(z, 5, who) /\ At(z, at + 1, r)
  <2>1. /\ At(z, 0 + 0, h) /\ At(z, 0 + 4, b) /\ At(z, 0 + 5, who) /\ At(z, 0 + (at + 1), r)
    BY <1>5, <1>7, AtInner DEF Four
  <2>2. 0 + 0 = 0 /\ 0 + 4 = 4 /\ 0 + 5 = 5 /\ 0 + (at + 1) = at + 1
    OBVIOUS
  <2> QED
    BY <2>1, <2>2
<1>10. At(z, 5, user) /\ At(z, colon, c) /\ At(z, colon + 1, pw) /\ At(z, at, e)
  <2>1. /\ At(z, 5 + 0, user) /\ At(z, 5 + nu, c) /\ At(z, 5 + (nu + 1), pw)
        /\ At(z, 5 + (nu + 1 + np), e)
    BY <1>3, <1>9, AtInner DEF Four
  <2>2. 5 + 0 = 5 /\ 5 + nu = colon /\ 5 + (nu + 1) = colon + 1 /\ 5 + (nu + 1 + np) = at
    BY DEF Offsets
  <2> QED
    BY <2>1, <2>2
<1>11. At(z, at + 2, host) /\ At(z, port, c) /\ At(z, port + 1, digits) /\ At(z, slash, path)
  <2>0. At(z, at + 2, where)
    BY <1>6, <1>7
  <2>1. At(z, at + 2 + 0, host) /\ At(z, at + 2 + nh, c) /\ At(z, at + 2 + (nh + 1), digits)
        /\ At(z, at + 2 + (nh + 1 + nd), path)
    BY <1>4, <2>0, AtInner DEF Four
  <2>2. at + 2 + 0 = at + 2 /\ at + 2 + nh = port /\ at + 2 + (nh + 1) = port + 1
        /\ at + 2 + (nh + 1 + nd) = slash
    BY DEF Offsets
  <2> QED
    BY <2>1, <2>2
<1>12. Len(z) = slash + Len(path)
  <2>1. Len(z) = at + 2 + (nh + 1 + nd + nn)
    BY <1>6, <1>7, Zenon DEF Sizes
  <2>2. at + 2 + (nh + 1 + nd + nn) = slash + nn
    BY DEF Offsets
  <2>3. slash + nn = slash + Len(path)
    BY Zenon DEF Sizes
  <2> QED
    BY <2>1, <2>2, <2>3, Zenon
<1>13. /\ colon = 5 + Len(user) /\ at = colon + 1 + Len(pw)
      /\ port = at + 2 + Len(host) /\ slash = port + 1 + Len(digits)
  BY Zenon DEF Sizes, Offsets
<1>14. Places(z, user, pw, host, digits, path, colon, at, port, slash)
  BY <1>2, <1>9, <1>10, <1>11, <1>12, <1>13, Zenon DEF Places
<1> QED
  BY <1>1, <1>8, <1>14, Zenon

(* The address with a user and a password, and where its parts lie.        *)
Bracketed(str, user, pw, host, digits, path, colon, at, port, slash) ==
  /\ str \in Text
  /\ user \in Seq(UserChar) /\ pw \in Seq(Alnum) /\ host \in Seq(HostChar)
  /\ digits \in Seq(Digit) /\ path \in Seq(PathChar)
  /\ Len(user) >= 1 /\ Len(pw) >= 1 /\ Len(host) >= 1 /\ Len(digits) >= 1
  /\ Len(path) >= 2 /\ path[1] = "/"
  /\ colon \in Nat /\ at \in Nat /\ port \in Nat /\ slash \in Nat
  /\ Places(str, user, pw, host, digits, path, colon, at, port, slash)

LEMMA SignAt ==
  ASSUME NEW str, NEW o, NEW c, At(str, o, <<c>>)
  PROVE  Has(str, o, c)
<1>1. 1 \in 1 .. Len(<<c>>) /\ <<c>>[1] = c /\ Len(<<c>>) = 1
  OBVIOUS
<1>2. str[o + 1] = <<c>>[1] /\ o + Len(<<c>>) <= Len(str) /\ o \in Nat /\ Len(str) \in Nat
  BY <1>1, Zenon DEF At
<1>3. o < Len(str) /\ str[o + 1] = c
  BY <1>1, <1>2
<1> QED
  BY <1>3 DEF Has

LEMMA SignsThere ==
  ASSUME NEW str, NEW user, NEW pw, NEW host, NEW digits, NEW path,
         NEW colon, NEW at, NEW port, NEW slash,
         Places(str, user, pw, host, digits, path, colon, at, port, slash)
  PROVE  /\ Has(str, 4, "[") /\ Has(str, colon, ":") /\ Has(str, at, "@")
         /\ Has(str, at + 1, "]") /\ Has(str, port, ":")
  BY SignAt, Zenon DEF Places

LEMMA Measured ==
  ASSUME NEW str, NEW user, NEW pw, NEW host, NEW digits, NEW path,
         NEW colon, NEW at, NEW port, NEW slash,
         Bracketed(str, user, pw, host, digits, path, colon, at, port, slash)
  PROVE  /\ colon \in Nat /\ at \in Nat /\ port \in Nat /\ slash \in Nat /\ Len(str) \in Nat
         /\ colon >= 6 /\ at >= colon + 2 /\ port >= at + 3 /\ slash >= port + 2
         /\ Len(str) >= slash + 2
<1>1. /\ Len(user) \in Nat /\ Len(pw) \in Nat /\ Len(host) \in Nat
      /\ Len(digits) \in Nat /\ Len(path) \in Nat /\ Len(str) \in Nat
  BY DEF Bracketed, Text
<1>2. PICK nu \in Nat, np \in Nat, nh \in Nat, nd \in Nat, nn \in Nat, n \in Nat :
        /\ nu = Len(user) /\ np = Len(pw) /\ nh = Len(host) /\ nd = Len(digits)
        /\ nn = Len(path) /\ n = Len(str)
  BY <1>1, Zenon
<1>3. nu >= 1 /\ np >= 1 /\ nh >= 1 /\ nd >= 1 /\ nn >= 2
  BY <1>2, Zenon DEF Bracketed
<1>4. /\ colon = 5 + nu /\ at = colon + 1 + np /\ port = at + 2 + nh
      /\ slash = port + 1 + nd /\ n = slash + nn
  BY <1>2, Zenon DEF Bracketed, Places
<1>5. PICK c \in Nat, a \in Nat, p \in Nat, s \in Nat :
        c = colon /\ a = at /\ p = port /\ s = slash
  BY Zenon DEF Bracketed
<1>6. c >= 6 /\ a >= c + 2 /\ p >= a + 3 /\ s >= p + 2 /\ n >= s + 2
  BY <1>3, <1>4, <1>5
<1> QED
  BY <1>2, <1>5, <1>6, Zenon

(* The first regular expression matches it.                                *)
LEMMA IsUserAuth ==
  ASSUME NEW str, NEW user, NEW pw, NEW host, NEW digits, NEW path,
         NEW colon, NEW at, NEW port, NEW slash,
         Bracketed(str, user, pw, host, digits, path, colon, at, port, slash)
  PROVE  REuserAuth(str)
<1>1. /\ colon \in Nat /\ at \in Nat /\ port \in Nat /\ slash \in Nat /\ Len(str) \in Nat
      /\ colon >= 6 /\ at >= colon + 2 /\ port >= at + 3 /\ slash >= port + 2
      /\ Len(str) >= slash + 2
  BY Measured, Zenon
<1>2. /\ Has(str, 4, "[") /\ Has(str, colon, ":") /\ Has(str, at, "@")
      /\ Has(str, at + 1, "]") /\ Has(str, port, ":")
  BY SignsThere, Zenon DEF Bracketed
<1>3. 4 \in Behind(str)
  <2>1. At(str, 0, Scheme) /\ str \in Text
    BY Zenon DEF Places, Bracketed
  <2>2. Scheme \in Text /\ Len(Scheme) = 4
    BY Letters, Signs DEF Text
  <2>3. Copy(str, 0, 0 + 4) = Scheme
    BY <2>1, <2>2, CopyAt
  <2>4. SubSeq(str, 4 - 3, 4) = Scheme
    <3>1. 0 + 4 = 4 /\ 0 + 1 = 4 - 3
      OBVIOUS
    <3> QED
      BY <2>3, <3>1, Zenon DEF Copy
  <2>5. 4 \in 4 .. Len(str)
    BY <1>1
  <2> QED
    BY <2>4, <2>5 DEF Behind
<1>4. colon \in Run(str, 4, UserChar)
  <2>1. 5 + Len(user) \in Run(str, 5, UserChar) /\ 5 + Len(user) = colon
    BY RunAt, Zenon DEF Places, Bracketed
  <2>2. colon \in 5 .. Len(str) /\ \A k \in 5 .. colon - 1 : str[k + 1] \in UserChar
    BY <2>1, Zenon DEF Run
  <2>3. str[4 + 1] \in UserChar
    BY <1>2 DEF Has, UserChar
  <2>4. colon \in Nat /\ \A k \in 4 .. colon - 1 : k = 4 \/ k \in 5 .. colon - 1
    BY <1>1
  <2>5. colon \in 4 .. Len(str)
    BY <1>1
  <2> QED
    BY <2>2, <2>3, <2>4, <2>5 DEF Run
<1>5. at \in Run(str, colon + 1, Alnum)
  BY RunAt, Zenon DEF Places, Bracketed
<1>6. at + 2 \in Run(str, at + 2, {")"})
  <2>1. at + 2 \in at + 2 .. Len(str) /\ \A k \in at + 2 .. (at + 2) - 1 : FALSE
    BY <1>1
  <2> QED
    BY <2>1 DEF Run
<1>7. port \in Run(str, at + 2, HostChar) \ {at + 2}
  <2>1. port \in Run(str, at + 2, HostChar)
    BY RunAt, Zenon DEF Places, Bracketed
  <2>2. port # at + 2
    BY <1>1
  <2> QED
    BY <2>1, <2>2, Zenon
<1>8. slash \in Run(str, port + 1, Digit) \ {port + 1}
  <2>1. slash \in Run(str, port + 1, Digit)
    BY RunAt, Zenon DEF Places, Bracketed
  <2>2. slash # port + 1
    BY <1>1
  <2> QED
    BY <2>1, <2>2, Zenon
<1>9. PathFollows(str, slash)
  <2>1. At(str, slash, path) /\ path[1] = "/" /\ path \in Seq(PathChar)
    BY Zenon DEF Places, Bracketed
  <2>2. 1 \in 1 .. Len(path) /\ 2 \in 1 .. Len(path)
    BY DEF Bracketed
  <2>3. str[slash + 1] = path[1] /\ str[slash + 2] = path[2]
    BY <2>1, <2>2, Zenon DEF At
  <2>4. path[2] \in PathChar
    BY <2>1, <2>2
  <2>5. slash < Len(str) /\ slash + 1 < Len(str)
    BY <1>1
  <2> QED
    BY <2>1, <2>3, <2>4, <2>5, Zenon DEF PathFollows, Has
<1>10. \E h \in Run(str, at + 2, {")"}) : \E p \in Run(str, h, HostChar) \ {h} :
         /\ Has(str, p, ":")
         /\ \E s \in Run(str, p + 1, Digit) \ {p + 1} : PathFollows(str, s)
  BY <1>2, <1>6, <1>7, <1>8, <1>9, Zenon
<1>11. \E a \in Run(str, colon + 1, Alnum) :
         /\ Has(str, a, "@") /\ Has(str, a + 1, "]")
         /\ \E h \in Run(str, a + 2, {")"}) : \E p \in Run(str, h, HostChar) \ {h} :
              /\ Has(str, p, ":")
              /\ \E s \in Run(str, p + 1, Digit) \ {p + 1} : PathFollows(str, s)
  BY <1>2, <1>5, <1>10, Zenon
<1> QED
  BY <1>2, <1>3, <1>4, <1>11, Zenon DEF REuserAuth

(* What parseUserAuthUrl finds in it.                                      *)
LEMMA BracketsFound ==
  ASSUME NEW str, NEW user, NEW pw, NEW host, NEW digits, NEW path,
         NEW colon, NEW at, NEW port, NEW slash,
         Bracketed(str, user, pw, host, digits, path, colon, at, port, slash)
  PROVE  /\ findOcorrenceIndex(str, "[", 0) = 4
         /\ findOcorrenceIndex(str, ":", 5) = colon
         /\ findOcorrenceIndex(str, "@", colon + 1) = at
         /\ findOcorrenceIndex(str, ":", at + 1) = port
         /\ findOcorrenceIndex(str, "/", port + 1) = slash
<1>1. /\ colon \in Nat /\ at \in Nat /\ port \in Nat /\ slash \in Nat /\ Len(str) \in Nat
      /\ colon >= 6 /\ at >= colon + 2 /\ port >= at + 3 /\ slash >= port + 2
      /\ Len(str) >= slash + 2
  BY Measured, Zenon
<1>2. /\ Has(str, 4, "[") /\ Has(str, colon, ":") /\ Has(str, at, "@")
      /\ Has(str, at + 1, "]") /\ Has(str, port, ":")
  BY SignsThere, Zenon DEF Bracketed
<1>3. Has(str, slash, "/")
  <2>1. At(str, slash, path) /\ path[1] = "/"
    BY Zenon DEF Places, Bracketed
  <2>2. 1 \in 1 .. Len(path)
    BY DEF Bracketed
  <2>3. str[slash + 1] = "/"
    BY <2>1, <2>2, Zenon DEF At
  <2>4. slash < Len(str)
    BY <1>1
  <2> QED
    BY <2>3, <2>4 DEF Has
<1>4. /\ At(str, 0, Scheme) /\ At(str, 5, user) /\ At(str, colon + 1, pw)
      /\ At(str, at + 2, host) /\ At(str, port + 1, digits)
      /\ 5 + Len(user) = colon /\ colon + 1 + Len(pw) = at
      /\ at + 2 + Len(host) = port /\ port + 1 + Len(digits) = slash
  BY Zenon DEF Bracketed, Places
<1>5. /\ user \in Seq(UserChar) /\ pw \in Seq(Alnum) /\ host \in Seq(HostChar)
      /\ digits \in Seq(Digit)
  BY Zenon DEF Bracketed
<1>6. /\ ":" \notin UserChar /\ "@" \notin Alnum /\ ":" \notin HostChar /\ "/" \notin Digit
  BY Letters
<1>7. findOcorrenceIndex(str, "[", 0) = 4
  <2>1. Scheme \in Seq({"ftp", ":", "/"}) /\ Len(Scheme) = 4 /\ "[" \notin {"ftp", ":", "/"}
    BY DEF Scheme
  <2>2. Has(str, 0 + Len(Scheme), "[")
    BY <1>2, <2>1
  <2>3. 0 \in Nat /\ 0 + 1 >= 0 /\ 0 < 0 + Len(Scheme) /\ 0 + Len(Scheme) = 4
    BY <2>1
  <2> QED
    BY <1>4, <2>1, <2>2, <2>3, FoundBehindPart
<1>8. findOcorrenceIndex(str, ":", 5) = colon
  <2>1. Has(str, 5 + Len(user), ":") /\ 5 \in Nat /\ 5 + 1 >= 5 /\ 5 < 5 + Len(user)
    <3>1. 5 < colon
      BY <1>1
    <3>2. 5 < 5 + Len(user) /\ Has(str, 5 + Len(user), ":")
      BY <1>2, <1>4, <3>1, Zenon
    <3> QED
      BY <3>2
  <2>2. findOcorrenceIndex(str, ":", 5) = 5 + Len(user)
    <3>1. user \in Seq(UserChar) /\ ":" \notin UserChar /\ At(str, 5, user)
      BY <1>4, <1>5, <1>6, Zenon
    <3> QED
      BY <2>1, <3>1, FoundBehindPart
  <2> QED
    BY <1>4, <2>2, Zenon
<1>9. findOcorrenceIndex(str, "@", colon + 1) = at
  <2>1. colon + 1 \in Nat /\ (colon + 1) + 1 >= colon + 1 /\ colon + 1 < at
    BY <1>1
  <2>2. Has(str, colon + 1 + Len(pw), "@") /\ colon + 1 < colon + 1 + Len(pw)
    BY <1>2, <1>4, <2>1, Zenon
  <2>3. findOcorrenceIndex(str, "@", colon + 1) = colon + 1 + Len(pw)
    BY <1>4, <1>5, <1>6, <2>1, <2>2, FoundBehindPart
  <2> QED
    BY <1>4, <2>3, Zenon
<1>10. findOcorrenceIndex(str, ":", at + 1) = port
  <2>1. at + 1 \in Nat /\ (at + 1) + 1 >= at + 2 /\ at + 1 < port
    BY <1>1
  <2>2. Has(str, at + 2 + Len(host), ":") /\ at + 1 < at + 2 + Len(host)
    BY <1>2, <1>4, <2>1, Zenon
  <2>3. findOcorrenceIndex(str, ":", at + 1) = at + 2 + Len(host)
    BY <1>4, <1>5, <1>6, <2>1, <2>2, FoundBehindPart
  <2> QED
    BY <1>4, <2>3, Zenon
<1>11. findOcorrenceIndex(str, "/", port + 1) = slash
  <2>1. port + 1 \in Nat /\ (port + 1) + 1 >= port + 1 /\ port + 1 < slash
    BY <1>1
  <2>2. Has(str, port + 1 + Len(digits), "/") /\ port + 1 < port + 1 + Len(digits)
    BY <1>3, <1>4, <2>1, Zenon
  <2>3. findOcorrenceIndex(str, "/", port + 1) = port + 1 + Len(digits)
    BY <1>4, <1>5, <1>6, <2>1, <2>2, FoundBehindPart
  <2> QED
    BY <1>4, <2>3, Zenon
<1> QED
  BY <1>7, <1>8, <1>9, <1>10, <1>11

(* The links with these parts.                                             *)
Links(user, pw, host, digits, path) ==
  [user : {user}, password : {pw}, host : {host},
   port : Unterminated(digits), path : Unterminated(path)]

(* It is taken apart as it was put together, but for the port, which is in *)
(* front of the path, and for what is behind the port and the path in      *)
(* memory.                                                                 *)
LEMMA BracketsParsed ==
  ASSUME NEW str, NEW user, NEW pw, NEW host, NEW digits, NEW path,
         NEW colon, NEW at, NEW port, NEW slash,
         Bracketed(str, user, pw, host, digits, path, colon, at, port, slash)
  PROVE  parseURL(str) = Links(user, pw, host, digits, Copy(str, port, Len(str)))
<1>1. /\ colon \in Nat /\ at \in Nat /\ port \in Nat /\ slash \in Nat /\ Len(str) \in Nat
      /\ colon >= 6 /\ at >= colon + 2 /\ port >= at + 3 /\ slash >= port + 2
      /\ Len(str) >= slash + 2
  BY Measured, Zenon
<1>2. parseURL(str) = parseUserAuthUrl(str)
  BY IsUserAuth, Zenon DEF parseURL
<1>3. /\ findOcorrenceIndex(str, "[", 0) = 4
      /\ findOcorrenceIndex(str, ":", 5) = colon
      /\ findOcorrenceIndex(str, "@", colon + 1) = at
      /\ findOcorrenceIndex(str, ":", at + 1) = port
      /\ findOcorrenceIndex(str, "/", port + 1) = slash
  BY BracketsFound, Zenon
<1>4. parseUserAuthUrl(str)
      = [user : {Copy(str, 5, colon)}, password : {Copy(str, colon + 1, at)},
         host : {Copy(str, at + 2, port)},
         port : Unterminated(Copy(str, port + 1, slash)),
         path : Unterminated(Copy(str, port, Len(str)))]
  <2> DEFINE userStart == findOcorrenceIndex(str, "[", 0) + 1
             userEnd == findOcorrenceIndex(str, ":", userStart)
             pwEnd == findOcorrenceIndex(str, "@", userEnd + 1)
             hostEnd == findOcorrenceIndex(str, ":", pwEnd + 1)
             portEnd == findOcorrenceIndex(str, "/", hostEnd + 1)
  <2>1. 4 + 1 = 5
    OBVIOUS
  <2>2. userStart = 5
    BY <1>3, <2>1, Zenon
  <2>3. userEnd = colon
    BY <1>3, <2>2, Zenon
  <2>4. pwEnd = at
    BY <1>3, <2>3, Zenon
  <2>5. hostEnd = port
    BY <1>3, <2>4, Zenon
  <2>6. portEnd = slash
    BY <1>3, <2>5, Zenon
  <2>7. -1 \notin {colon, at, port, slash}
    BY <1>1
  <2>8. -1 \notin {userEnd, pwEnd, hostEnd, portEnd}
    BY <2>3, <2>4, <2>5, <2>6, <2>7, Zenon
  <2>9. parseUserAuthUrl(str)
        = [user : {Copy(str, userStart, userEnd)},
           password : {Copy(str, userEnd + 1, pwEnd)},
           host : {Copy(str, pwEnd + 2, hostEnd)},
           port : Unterminated(Copy(str, hostEnd + 1, portEnd)),
           path : Unterminated(Copy(str, hostEnd, Len(str)))]
    BY <2>8, Zenon DEF parseUserAuthUrl
  <2> HIDE DEF userStart, userEnd, pwEnd, hostEnd, portEnd
  <2> QED
    BY <2>2, <2>3, <2>4, <2>5, <2>6, <2>9, Zenon
<1>5. /\ Copy(str, 5, colon) = user /\ Copy(str, colon + 1, at) = pw
      /\ Copy(str, at + 2, port) = host /\ Copy(str, port + 1, slash) = digits
  <2>1. /\ At(str, 5, user) /\ At(str, colon + 1, pw)
        /\ At(str, at + 2, host) /\ At(str, port + 1, digits)
        /\ 5 + Len(user) = colon /\ colon + 1 + Len(pw) = at
        /\ at + 2 + Len(host) = port /\ port + 1 + Len(digits) = slash
    BY Zenon DEF Bracketed, Places
  <2>2. str \in Text /\ user \in Text /\ pw \in Text /\ host \in Text /\ digits \in Text
    <3>1. /\ UserChar \subseteq Char /\ Alnum \subseteq Char
          /\ HostChar \subseteq Char /\ Digit \subseteq Char
      BY Letters
    <3> QED
      BY <3>1 DEF Bracketed, Text
  <2>3. /\ Copy(str, 5, 5 + Len(user)) = user
        /\ Copy(str, colon + 1, colon + 1 + Len(pw)) = pw
        /\ Copy(str, at + 2, at + 2 + Len(host)) = host
        /\ Copy(str, port + 1, port + 1 + Len(digits)) = digits
    <3>1. Copy(str, 5, 5 + Len(user)) = user
      <4>1. At(str, 5, user) /\ str \in Text /\ user \in Text
        BY <2>1, <2>2, Zenon
      <4> QED
        BY <4>1, CopyAt
    <3>2. Copy(str, colon + 1, colon + 1 + Len(pw)) = pw
      <4>1. At(str, colon + 1, pw) /\ str \in Text /\ pw \in Text
        BY <2>1, <2>2, Zenon
      <4> QED
        BY <4>1, CopyAt
    <3>3. Copy(str, at + 2, at + 2 + Len(host)) = host
      <4>1. At(str, at + 2, host) /\ str \in Text /\ host \in Text
        BY <2>1, <2>2, Zenon
      <4> QED
        BY <4>1, CopyAt
    <3>4. Copy(str, port + 1, port + 1 + Len(digits)) = digits
      <4>1. At(str, port + 1, digits) /\ str \in Text /\ digits \in Text
        BY <2>1, <2>2, Zenon
      <4> QED
        BY <4>1, CopyAt
    <3> QED
      BY <3>1, <3>2, <3>3, <3>4, Zenon
  <2> QED
    BY <2>1, <2>3, Zenon
<1> QED
  BY <1>2, <1>4, <1>5, Zenon DEF Links

LEMMA PortInFront ==
  ASSUME NEW str, NEW user, NEW pw, NEW host, NEW digits, NEW path,
         NEW colon, NEW at, NEW port, NEW slash,
         Bracketed(str, user, pw, host, digits, path, colon, at, port, slash),
         NEW p \in Unterminated(Copy(str, port, Len(str)))
  PROVE  p \in Text /\ Len(p) >= 1 /\ p[1] = ":"
<1>1. /\ port \in Nat /\ Len(str) \in Nat /\ port + 1 <= Len(str)
  <2>1. /\ colon \in Nat /\ at \in Nat /\ port \in Nat /\ slash \in Nat /\ Len(str) \in Nat
        /\ slash >= port + 2 /\ Len(str) >= slash + 2
    BY Measured, Zenon
  <2> QED
    BY <2>1
<1>2. str \in Seq(Char) /\ str[port + 1] = ":"
  <2>0. Places(str, user, pw, host, digits, path, colon, at, port, slash) /\ str \in Text
    BY Zenon DEF Bracketed
  <2>1. Has(str, port, ":") /\ str \in Text
    BY <2>0, SignsThere, Zenon
  <2>2. str[port + 1] = ":"
    BY <2>1, Zenon DEF Has
  <2> QED
    BY <2>1, <2>2, Zenon DEF Text
<1>3. PICK part \in Seq(Char) : /\ part = Copy(str, port, Len(str))
                               /\ Len(part) >= 1 /\ part[1] = ":"
  <2> DEFINE n == Len(str) - port
  <2>1. n \in Nat /\ 1 <= n /\ port + n = Len(str) /\ port + n <= Len(str) /\ 1 \in 1 .. n
    BY <1>1
  <2> HIDE DEF n
  <2>2. /\ SubSeq(str, port + 1, port + n) \in Seq(Char)
        /\ Len(SubSeq(str, port + 1, port + n)) = n
        /\ \A i \in 1 .. n : SubSeq(str, port + 1, port + n)[i] = str[port + i]
    BY <1>1, <1>2, <2>1, Slice
  <2>3. PICK part \in Seq(Char) : part = SubSeq(str, port + 1, port + n)
    BY <2>2
  <2>4. part = Copy(str, port, Len(str))
    BY <2>1, <2>3, Zenon DEF Copy
  <2>5. Len(part) >= 1 /\ part[1] = ":"
    BY <1>2, <2>1, <2>2, <2>3
  <2> QED
    BY <2>4, <2>5, Zenon
<1>4. p = part \/ p = Append(part, "garbage")
  BY <1>3 DEF Unterminated
<1>5. "garbage" \in Char
  BY DEF Char
<1> QED
  BY <1>3, <1>4, <1>5 DEF Text

InBrackets(user, pw, host, digits, path) ==
  Scheme \o <<"[">> \o (user \o <<":">> \o pw \o <<"@">>) \o <<"]">>
         \o (host \o <<":">> \o digits \o path)

(* An address in brackets is taken apart as it was put together, however   *)
(* long its parts are, but its path gets the port in front (code:          *)
(* parseUserAuthUrl).                                                      *)
THEOREM BracketsAsTyped ==
  ASSUME NEW user \in Seq(UserChar), NEW pw \in Seq(Alnum), NEW host \in Seq(HostChar),
         NEW digits \in Seq(Digit), NEW path \in Seq(PathChar),
         user # <<>>, pw # <<>>, host # <<>>, digits # <<>>,
         Len(path) >= 2, path[1] = "/",
         NEW str, str = InBrackets(user, pw, host, digits, path)
  PROVE  /\ parseURL(str) # {}
         /\ \A l \in parseURL(str) :
              /\ l.user = user /\ l.password = pw /\ l.host = host
              /\ l.path \in Text /\ Len(l.path) >= 1 /\ l.path[1] = ":"
<1>1. /\ user \in Seq(Char) /\ pw \in Seq(Char) /\ host \in Seq(Char)
      /\ digits \in Seq(Char) /\ path \in Seq(Char)
  <2>1. /\ UserChar \subseteq Char /\ Alnum \subseteq Char /\ HostChar \subseteq Char
        /\ Digit \subseteq Char /\ PathChar \subseteq Char
    BY Letters
  <2> QED
    BY <2>1
<1>2. PICK nu \in Nat, np \in Nat, nh \in Nat, nd \in Nat, nn \in Nat :
        Sizes(user, pw, host, digits, path, nu, np, nh, nd, nn)
  <2>1. /\ Len(user) \in Nat /\ Len(pw) \in Nat /\ Len(host) \in Nat
        /\ Len(digits) \in Nat /\ Len(path) \in Nat
    OBVIOUS
  <2> QED
    BY <2>1, Zenon DEF Sizes
<1>3. PICK colon \in Nat, at \in Nat, port \in Nat, slash \in Nat :
        Offsets(nu, np, nh, nd, colon, at, port, slash)
  <2>1. PICK c \in Nat : c = 5 + nu
    OBVIOUS
  <2>2. PICK a \in Nat : a = c + 1 + np
    OBVIOUS
  <2>3. PICK p \in Nat : p = a + 2 + nh
    OBVIOUS
  <2>4. PICK s \in Nat : s = p + 1 + nd
    OBVIOUS
  <2> QED
    BY <2>1, <2>2, <2>3, <2>4, Zenon DEF Offsets
<1>4. str \in Text /\ Places(str, user, pw, host, digits, path, colon, at, port, slash)
  <2>1. PICK z \in Text :
          /\ z = Scheme \o <<"[">> \o (user \o <<":">> \o pw \o <<"@">>) \o <<"]">>
                        \o (host \o <<":">> \o digits \o path)
          /\ Places(z, user, pw, host, digits, path, colon, at, port, slash)
    BY <1>1, <1>2, <1>3, BracketsPlaces
  <2> QED
    BY <2>1, Zenon DEF InBrackets
<1>5. /\ Len(user) >= 1 /\ Len(pw) >= 1 /\ Len(host) >= 1 /\ Len(digits) >= 1
  OBVIOUS
<1>6. Bracketed(str, user, pw, host, digits, path, colon, at, port, slash)
  BY <1>4, <1>5, Zenon DEF Bracketed
<1>7. parseURL(str) = Links(user, pw, host, digits, Copy(str, port, Len(str)))
  BY <1>6, BracketsParsed, Zenon
<1>8. /\ digits \in Unterminated(digits)
      /\ Copy(str, port, Len(str)) \in Unterminated(Copy(str, port, Len(str)))
  BY DEF Unterminated
<1>9. [user |-> user, password |-> pw, host |-> host, port |-> digits,
       path |-> Copy(str, port, Len(str))] \in parseURL(str)
  BY <1>7, <1>8 DEF Links
<1>10. ASSUME NEW l \in parseURL(str)
       PROVE  /\ l.user = user /\ l.password = pw /\ l.host = host
              /\ l.path \in Text /\ Len(l.path) >= 1 /\ l.path[1] = ":"
  <2>1. /\ l.user = user /\ l.password = pw /\ l.host = host
        /\ l.path \in Unterminated(Copy(str, port, Len(str)))
    <3>1. PICK tail : tail = Copy(str, port, Len(str))
      OBVIOUS
    <3>2. l \in Links(user, pw, host, digits, tail)
      BY <1>7, <3>1, Zenon
    <3>3. /\ l.user = user /\ l.password = pw /\ l.host = host
          /\ l.path \in Unterminated(tail)
      BY <3>2 DEF Links
    <3> QED
      BY <3>1, <3>3, Zenon
  <2>2. \A p \in Unterminated(Copy(str, port, Len(str))) :
          p \in Text /\ Len(p) >= 1 /\ p[1] = ":"
    BY <1>6, PortInFront, Zenon
  <2> QED
    BY <2>1, <2>2, Zenon
<1> QED
  BY <1>9, <1>10

(* The first regular expression wants a "]".                               *)
LEMMA NoBracketNoUser ==
  ASSUME NEW str \in Seq(Char \ {"]"})
  PROVE  ~REuserAuth(str)
<1> SUFFICES ASSUME REuserAuth(str) PROVE FALSE
  OBVIOUS
<1>1. PICK i \in Behind(str) : \E colon \in Run(str, i, UserChar) :
        \E at \in Run(str, colon + 1, Alnum) : Has(str, at + 1, "]")
  BY Zenon DEF REuserAuth
<1>2. PICK colon \in Run(str, i, UserChar) :
        \E at \in Run(str, colon + 1, Alnum) : Has(str, at + 1, "]")
  BY <1>1
<1>3. PICK at \in Run(str, colon + 1, Alnum) : Has(str, at + 1, "]")
  BY <1>2
<1>4. i \in 4 .. Len(str)
  BY DEF Behind
<1>5. colon \in i .. Len(str)
  BY DEF Run
<1>6. at \in colon + 1 .. Len(str)
  BY DEF Run
<1>7. at + 1 < Len(str) /\ str[at + 1 + 1] = "]"
  BY <1>3, Zenon DEF Has
<1>8. at + 1 + 1 \in 1 .. Len(str)
  BY <1>4, <1>5, <1>6, <1>7
<1>9. str[at + 1 + 1] \in Char \ {"]"}
  BY <1>8
<1> QED
  BY <1>7, <1>9

-----------------------------------------------------------------------------
(* The address with a user and a password as printUsage shows it.        *)

(* Where the parts of the form that printUsage shows lie.                  *)
UsagePlaces(str, user, pw, host, digits, path, colon, at, port, slash) ==
  /\ At(str, 0, Scheme) /\ At(str, 4, user) /\ At(str, colon, <<":">>)
  /\ At(str, colon + 1, pw) /\ At(str, at, <<"@">>) /\ At(str, at + 1, host)
  /\ At(str, port, <<":">>) /\ At(str, port + 1, digits)
  /\ At(str, slash, path) /\ Len(str) = slash + Len(path)

UsageOffsets(nu, np, nh, nd, colon, at, port, slash) ==
  colon = 4 + nu /\ at = colon + 1 + np /\ port = at + 1 + nh /\ slash = port + 1 + nd

AsUsage(user, pw, host, digits, path) ==
  Scheme \o (user \o <<":">> \o pw \o <<"@">>) \o (host \o <<":">> \o digits \o path)

LEMMA UsagePlaced ==
  ASSUME NEW S, {"ftp", ":", "/", "@", "["} \subseteq S,
         NEW user \in Seq(S), NEW pw \in Seq(S), NEW host \in Seq(S),
         NEW digits \in Seq(S), NEW path \in Seq(S),
         NEW nu \in Nat, NEW np \in Nat, NEW nh \in Nat, NEW nd \in Nat, NEW nn \in Nat,
         Sizes(user, pw, host, digits, path, nu, np, nh, nd, nn),
         NEW colon \in Nat, NEW at \in Nat, NEW port \in Nat, NEW slash \in Nat,
         UsageOffsets(nu, np, nh, nd, colon, at, port, slash)
  PROVE  \E z \in Seq(S) :
           /\ z = AsUsage(user, pw, host, digits, path)
           /\ UsagePlaces(z, user, pw, host, digits, path, colon, at, port, slash)
<1>1. PICK h \in Seq(S), c \in Seq(S), e \in Seq(S) :
        h = Scheme /\ c = <<":">> /\ e = <<"@">> /\ Len(h) = 4 /\ Len(c) = 1 /\ Len(e) = 1
  BY Signs, Zenon
<1>2. PICK who \in Seq(S) : Four(who, user, c, pw, e, nu, nu + 1, nu + 1 + np)
  <2>1. nu + 1 \in Nat /\ nu + 1 + np \in Nat /\ nu + 1 = nu + Len(c)
    BY <1>1
  <2>2. nu = Len(user) /\ nu + 1 + np = nu + 1 + Len(pw)
    BY Zenon DEF Sizes
  <2> QED
    BY <2>1, <2>2, FourJoined
<1>3. PICK where \in Seq(S) : Four(where, host, c, digits, path, nh, nh + 1, nh + 1 + nd)
  <2>1. nh + 1 \in Nat /\ nh + 1 + nd \in Nat /\ nh + 1 = nh + Len(c)
    BY <1>1
  <2>2. nh = Len(host) /\ nh + 1 + nd = nh + 1 + Len(digits)
    BY Zenon DEF Sizes
  <2> QED
    BY <2>1, <2>2, FourJoined
<1>4. PICK front \in Seq(S) : /\ front = h \o who /\ Len(front) = Len(h) + Len(who)
                              /\ At(front, 0, h) /\ At(front, Len(h), who)
  BY AtJoined
<1>5. PICK z \in Seq(S) : /\ z = front \o where /\ Len(z) = Len(front) + Len(where)
                          /\ At(z, 0, front) /\ At(z, Len(front), where)
  BY AtJoined
<1>6. z = AsUsage(user, pw, host, digits, path)
  BY <1>1, <1>2, <1>3, <1>4, <1>5, Zenon DEF Four, AsUsage
<1>7. Len(who) = nu + 1 + np + 1 /\ Len(where) = nh + 1 + nd + Len(path)
  BY <1>1, <1>2, <1>3 DEF Four
<1>8. Len(front) = at + 1 /\ 4 + (nu + 1 + np) = at
  BY <1>1, <1>4, <1>7 DEF UsageOffsets
<1>9. At(z, 0, h) /\ At(z, 4, who)
  <2>1. At(front, 4, who)
    BY <1>1, <1>4
  <2>2. At(z, 0 + 0, h) /\ At(z, 0 + 4, who)
    BY <1>4, <1>5, <2>1, AtInner
  <2>3. 0 + 0 = 0 /\ 0 + 4 = 4
    OBVIOUS
  <2> QED
    BY <2>2, <2>3
<1>10. At(z, 4, user) /\ At(z, colon, c) /\ At(z, colon + 1, pw) /\ At(z, at, e)
  <2>1. /\ At(z, 4 + 0, user) /\ At(z, 4 + nu, c) /\ At(z, 4 + (nu + 1), pw)
        /\ At(z, 4 + (nu + 1 + np), e)
    BY <1>2, <1>9, AtInner DEF Four
  <2>2. 4 + 0 = 4 /\ 4 + nu = colon /\ 4 + (nu + 1) = colon + 1 /\ 4 + (nu + 1 + np) = at
    BY DEF UsageOffsets
  <2> QED
    BY <2>1, <2>2
<1>11. At(z, at + 1, host) /\ At(z, port, c) /\ At(z, port + 1, digits) /\ At(z, slash, path)
  <2>1. At(z, at + 1, where)
    BY <1>5, <1>8
  <2>2. /\ At(z, at + 1 + 0, host) /\ At(z, at + 1 + nh, c) /\ At(z, at + 1 + (nh + 1), digits)
        /\ At(z, at + 1 + (nh + 1 + nd), path)
    BY <1>3, <2>1, AtInner DEF Four
  <2>3. at + 1 + 0 = at + 1 /\ at + 1 + nh = port /\ at + 1 + (nh + 1) = port + 1
        /\ at + 1 + (nh + 1 + nd) = slash
    BY DEF UsageOffsets
  <2> QED
    BY <2>2, <2>3
<1>12. Len(z) = slash + Len(path)
  <2>1. Len(z) = at + 1 + (nh + 1 + nd + nn)
    BY <1>5, <1>7, <1>8, Zenon DEF Sizes
  <2>2. at + 1 + (nh + 1 + nd + nn) = slash + nn
    BY DEF UsageOffsets
  <2>3. slash + nn = slash + Len(path)
    BY Zenon DEF Sizes
  <2> QED
    BY <2>1, <2>2, <2>3, Zenon
<1>13. UsagePlaces(z, user, pw, host, digits, path, colon, at, port, slash)
  BY <1>1, <1>9, <1>10, <1>11, <1>12, Zenon DEF UsagePlaces
<1> QED
  BY <1>6, <1>13

(* Characters of a part.                                                   *)
LEMMA CharAt ==
  ASSUME NEW S, NEW w \in Seq(S), NEW str, NEW o, At(str, o, w), NEW n \in Nat, n = Len(w),
         NEW k \in o + 1 .. o + n
  PROVE  str[k] \in S
<1>1. o \in Nat
  BY DEF At
<1>2. PICK i \in 1 .. n : o + i = k
  <2>1. k - o \in 1 .. n /\ o + (k - o) = k
    BY <1>1
  <2> QED
    BY <2>1
<1>3. str[o + i] = w[i] /\ w[i] \in S
  <2>1. i \in 1 .. Len(w)
    BY Zenon
  <2>2. str[o + i] = w[i]
    BY <2>1, Zenon DEF At
  <2> QED
    BY <2>1, <2>2
<1> QED
  BY <1>2, <1>3

(* The form of printUsage is rejected: behind "ftp://" comes neither a "]" *)
(* nor, before the next colon, a slash (code: validURL).                   *)
THEOREM UsageRejected ==
  ASSUME NEW user \in Seq(UserChar), NEW pw \in Seq(Alnum), NEW host \in Seq(HostChar),
         NEW digits \in Seq(Digit), NEW path \in Seq(PathChar), pw # <<>>, digits # <<>>,
         NEW str, str = AsUsage(user, pw, host, digits, path)
  PROVE  parseURL(str) = {}
<1> DEFINE S == Char \ {"]"}
<1>0. /\ user \in Seq(S) /\ pw \in Seq(S) /\ host \in Seq(S)
      /\ digits \in Seq(S) /\ path \in Seq(S) /\ {"ftp", ":", "/", "@", "["} \subseteq S
  <2>1. /\ UserChar \subseteq S /\ Alnum \subseteq S /\ HostChar \subseteq S
        /\ Digit \subseteq S /\ PathChar \subseteq S /\ {"ftp", ":", "/", "@", "["} \subseteq S
    BY Letters
  <2> QED
    BY <2>1
<1> HIDE DEF S
<1>1. PICK nu \in Nat, np \in Nat, nh \in Nat, nd \in Nat, nn \in Nat :
        Sizes(user, pw, host, digits, path, nu, np, nh, nd, nn) /\ np >= 1 /\ nd >= 1
  <2>1. /\ Len(user) \in Nat /\ Len(pw) \in Nat /\ Len(host) \in Nat
        /\ Len(digits) \in Nat /\ Len(path) \in Nat
    OBVIOUS
  <2>2. Len(pw) >= 1 /\ Len(digits) >= 1
    OBVIOUS
  <2> QED
    BY <2>1, <2>2, Zenon DEF Sizes
<1>2. PICK colon \in Nat, at \in Nat, port \in Nat, slash \in Nat :
        UsageOffsets(nu, np, nh, nd, colon, at, port, slash)
  <2>1. PICK c \in Nat : c = 4 + nu
    OBVIOUS
  <2>2. PICK a \in Nat : a = c + 1 + np
    OBVIOUS
  <2>3. PICK p \in Nat : p = a + 1 + nh
    OBVIOUS
  <2>4. PICK s \in Nat : s = p + 1 + nd
    OBVIOUS
  <2> QED
    BY <2>1, <2>2, <2>3, <2>4, Zenon DEF UsageOffsets
<1>3. PICK z \in Seq(S) :
        /\ z = AsUsage(user, pw, host, digits, path)
        /\ UsagePlaces(z, user, pw, host, digits, path, colon, at, port, slash)
  BY <1>0, <1>1, <1>2, UsagePlaced
<1>4. PICK n \in Nat : n = Len(z) /\ n = slash + nn
  <2>1. Len(z) = slash + Len(path) /\ nn = Len(path)
    BY <1>1, <1>3, Zenon DEF UsagePlaces, Sizes
  <2>2. Len(z) \in Nat
    OBVIOUS
  <2>3. Len(z) = slash + nn
    BY <2>1, Zenon
  <2> QED
    BY <2>2, <2>3, Zenon
<1>5. /\ z[2] = ":" /\ z[3] = "/" /\ z[4] = "/"
      /\ z[colon + 1] = ":" /\ z[at + 1] = "@" /\ z[port + 1] = ":"
  <2>1. At(z, 0, Scheme)
    BY <1>3, Zenon DEF UsagePlaces
  <2>2. /\ Scheme[2] = ":" /\ Scheme[3] = "/" /\ Scheme[4] = "/"
        /\ 2 \in 1 .. Len(Scheme) /\ 3 \in 1 .. Len(Scheme) /\ 4 \in 1 .. Len(Scheme)
        /\ 0 + 2 = 2 /\ 0 + 3 = 3 /\ 0 + 4 = 4
    BY DEF Scheme
  <2>3. z[0 + 2] = Scheme[2] /\ z[0 + 3] = Scheme[3] /\ z[0 + 4] = Scheme[4]
    BY <2>1, <2>2, Zenon DEF At
  <2>4. Has(z, colon, ":") /\ Has(z, at, "@") /\ Has(z, port, ":")
    BY <1>3, SignAt, Zenon DEF UsagePlaces
  <2>5. z[colon + 1] = ":" /\ z[at + 1] = "@" /\ z[port + 1] = ":"
    BY <2>4, Zenon DEF Has
  <2> QED
    BY <2>2, <2>3, <2>5, Zenon
<1>6. /\ \A k \in 4 + 1 .. 4 + nu : z[k] \in UserChar
      /\ \A k \in (colon + 1) + 1 .. (colon + 1) + np : z[k] \in Alnum
      /\ \A k \in (at + 1) + 1 .. (at + 1) + nh : z[k] \in HostChar
      /\ \A k \in (port + 1) + 1 .. (port + 1) + nd : z[k] \in Digit
      /\ \A k \in slash + 1 .. slash + nn : z[k] \in PathChar
  <2>1. /\ At(z, 4, user) /\ At(z, colon + 1, pw) /\ At(z, at + 1, host)
        /\ At(z, port + 1, digits) /\ At(z, slash, path)
    BY <1>3, Zenon DEF UsagePlaces
  <2>2. nu = Len(user) /\ np = Len(pw) /\ nh = Len(host) /\ nd = Len(digits) /\ nn = Len(path)
    BY <1>1, Zenon DEF Sizes
  <2>3. \A k \in 4 + 1 .. 4 + nu : z[k] \in UserChar
    BY <2>1, <2>2, CharAt
  <2>4. \A k \in (colon + 1) + 1 .. (colon + 1) + np : z[k] \in Alnum
    BY <2>1, <2>2, CharAt
  <2>5. \A k \in (at + 1) + 1 .. (at + 1) + nh : z[k] \in HostChar
    BY <2>1, <2>2, CharAt
  <2>6. \A k \in (port + 1) + 1 .. (port + 1) + nd : z[k] \in Digit
    BY <2>1, <2>2, CharAt
  <2>7. \A k \in slash + 1 .. slash + nn : z[k] \in PathChar
    BY <2>1, <2>2, CharAt
  <2> QED
    BY <2>3, <2>4, <2>5, <2>6, <2>7
<1>7. /\ ":" \notin UserChar /\ ":" \notin Alnum /\ ":" \notin HostChar /\ ":" \notin Digit
      /\ ":" \notin PathChar /\ "/" \notin UserChar /\ "/" \notin Alnum /\ "/" \notin Digit
  BY Letters
<1>8. /\ colon = 4 + nu /\ at = colon + 1 + np /\ port = at + 1 + nh /\ slash = port + 1 + nd
  BY <1>2 DEF UsageOffsets
<1>9. ASSUME NEW k \in 2 .. n - 1, z[k] = ":", z[k + 1] = "/" PROVE k = 2
  <2> SUFFICES ASSUME k # 2 PROVE FALSE
    OBVIOUS
  <2>1. k # 3 /\ k # 4
    BY <1>5, <1>9
  <2>2. k \notin 4 + 1 .. 4 + nu
    BY <1>6, <1>7, <1>9
  <2>3. k \notin (colon + 1) + 1 .. (colon + 1) + np
    BY <1>6, <1>7, <1>9
  <2>4. k \notin (at + 1) + 1 .. (at + 1) + nh
    BY <1>6, <1>7, <1>9
  <2>5. k \notin (port + 1) + 1 .. (port + 1) + nd
    BY <1>6, <1>7, <1>9
  <2>6. k \notin slash + 1 .. slash + nn
    BY <1>6, <1>7, <1>9
  <2>7. k # at + 1
    BY <1>5, <1>9
  <2>8. k = colon + 1 \/ k = port + 1
    BY <1>4, <1>8, <2>1, <2>2, <2>3, <2>4, <2>5, <2>6, <2>7
  <2>9. CASE k = colon + 1
    <3>1. k + 1 \in (colon + 1) + 1 .. (colon + 1) + np
      BY <1>1, <2>9
    <3> QED
      BY <1>6, <1>7, <1>9, <3>1
  <2>10. CASE k = port + 1
    <3>1. k + 1 \in (port + 1) + 1 .. (port + 1) + nd
      BY <1>1, <2>10
    <3> QED
      BY <1>6, <1>7, <1>9, <3>1
  <2> QED
    BY <2>8, <2>9, <2>10
<1>10. \A i \in Behind(z) : i = 4
  <2> TAKE i \in Behind(z)
  <2>1. i \in 4 .. n /\ SubSeq(z, i - 3, i) = Scheme
    BY <1>4 DEF Behind
  <2>2. PICK a \in Nat : i = a + 4 /\ a + 4 <= n
    <3>1. i - 4 \in Nat /\ i = (i - 4) + 4 /\ i <= n
      BY <2>1
    <3> QED
      BY <3>1
  <2>3. SubSeq(z, a + 1, a + 4) = Scheme
    <3>1. i - 3 = a + 1
      BY <2>2
    <3> QED
      BY <2>1, <2>2, <3>1
  <2>4. Scheme[2] = ":" /\ Scheme[3] = "/"
    BY DEF Scheme
  <2>5. z[a + 2] = ":" /\ z[a + 3] = "/"
    <3>1. \A j \in 1 .. 4 : SubSeq(z, a + 1, a + 4)[j] = z[a + j]
      <4>1. a + 4 <= Len(z) /\ 1 <= 4 /\ 4 \in Nat
        BY <1>4, <2>2
      <4> QED
        BY <4>1, Slice
    <3>2. 2 \in 1 .. 4 /\ 3 \in 1 .. 4
      OBVIOUS
    <3> QED
      BY <2>3, <2>4, <3>1, <3>2, Zenon
  <2>6. a + 2 \in 2 .. n - 1 /\ (a + 2) + 1 = a + 3
    BY <2>2
  <2>7. a + 2 = 2
    BY <1>9, <2>5, <2>6
  <2> QED
    BY <2>2, <2>7
<1>11. ~REAnonimousAuth(z)
  <2> SUFFICES ASSUME REAnonimousAuth(z) PROVE FALSE
    OBVIOUS
  <2>1. PICK end \in Run(z, 4, HostChar) \ {4} : PathFollows(z, end)
    BY <1>10 DEF REAnonimousAuth
  <2>2. end \in 5 .. n /\ z[end + 1] = "/" /\ \A k \in 4 .. end - 1 : z[k + 1] \in HostChar
    BY <1>4, <2>1 DEF Run, PathFollows, Has
  <2>3. ~(end > 4 + nu)
    <3> SUFFICES ASSUME end > 4 + nu PROVE FALSE
      OBVIOUS
    <3>1. 4 + nu \in 4 .. end - 1 /\ 4 + nu + 1 = colon + 1
      BY <1>8, <2>2
    <3>2. z[colon + 1] \in HostChar
      BY <2>2, <3>1
    <3> QED
      BY <1>5, <1>7, <3>2
  <2>4. end + 1 \in 4 + 1 .. 4 + nu \/ end + 1 = colon + 1
    BY <1>8, <2>2, <2>3
  <2> QED
    BY <1>5, <1>6, <1>7, <2>2, <2>4
<1>12. ~REuserAuth(z)
  BY NoBracketNoUser, Zenon DEF S
<1>13. parseURL(z) = {}
  BY <1>11, <1>12 DEF parseURL
<1> QED
  BY <1>3, <1>13, Zenon

-----------------------------------------------------------------------------
(* The session.                                                            *)

(* What was read and what is still on the data connection is what was sent. *)
Counted ==
  /\ received + Len(data) = sent
  /\ sent <= Len(Carried)

(* Byte i of the local file is byte i of the file, and the connection      *)
(* carries on where the local file ends.                                   *)
InOrder ==
  /\ Len(file) = received
  /\ \A i \in 1 .. Len(file) : file[i] = i
  /\ \A i \in 1 .. Len(data) : data[i] = Len(file) + i

(* The size is known when the reading starts, and reached when it ends.    *)
Sized ==
  /\ stage \in {"open", "data", "complete", "quit", "success"} => fileSize = Size
  /\ stage \in {"complete", "quit", "success"} => received = fileSize

IInv ==
  /\ TypeOK
  /\ Counted
  /\ world.exact /\ world.disk => InOrder
  /\ ~world.cut => Sized

LEMMA CarriedFacts ==
  /\ WholeFile \in Seq(0 .. Size)
  /\ Len(WholeFile) = Size
  /\ \A i \in 1 .. Size : WholeFile[i] = i
  /\ Carried \in Seq(0 .. Size)
  /\ Len(Carried) \in {Size, Size + 1}
  /\ world.exact => Carried = WholeFile
<1>1. Size \in Nat
  BY FtpAssumption
<1>2. /\ WholeFile \in Seq(0 .. Size)
      /\ Len(WholeFile) = Size
      /\ \A i \in 1 .. Size : WholeFile[i] = i
  BY <1>1 DEF WholeFile
<1>3. <<0>> \in Seq(0 .. Size) /\ Len(<<0>>) = 1
  BY <1>1
<1>4. /\ <<0>> \o WholeFile \in Seq(0 .. Size)
      /\ Len(<<0>> \o WholeFile) = Size + 1
  BY <1>1, <1>2, <1>3, ConcatProperties
<1> QED
  BY <1>2, <1>4 DEF Carried

(* The lines left by a read, and the code it returns, were among those to  *)
(* be read, or the line is the rest of one.                                *)
LEMMA ReadsFrom ==
  ASSUME NEW L, NoCode \in L, replies \in Seq(L), NEW r \in Reads
  PROVE  r.rest \in Seq(L) /\ r.code \in L
<1>1. \A n \in 1 .. Len(replies) : Unread(n) \in Seq(L)
  <2> TAKE n \in 1 .. Len(replies)
  <2>1. \A i \in n + 1 .. Len(replies) : replies[i] \in L
    OBVIOUS
  <2> QED
    BY <2>1, SubSeqProperties DEF Unread
<1>2. \A s \in Seq(L) : <<NoCode>> \o s \in Seq(L)
  OBVIOUS
<1>3. ASSUME replies # <<>>
      PROVE  Head(replies) \in L /\ <<NoCode>> \o Tail(replies) \in Seq(L)
  <2>1. Tail(replies) \in Seq(L) /\ Head(replies) \in L
    BY <1>3
  <2> QED
    BY <1>2, <2>1
<1>4. \A held, rest : Result(held, rest).rest = rest /\ Result(held, rest).code = Head(replies)
  BY DEF Result
<1>5. \A n \in ReadCount : n \in 1 .. Len(replies) /\ replies # <<>>
  BY DEF ReadCount
<1>6. CASE \E n \in ReadCount : r = Result("whole", Unread(n))
  BY <1>1, <1>3, <1>4, <1>5, <1>6
<1>7. CASE \E n \in ReadCount : r = Result("whole", <<NoCode>> \o Unread(n))
  <2>1. PICK n \in ReadCount : r = Result("whole", <<NoCode>> \o Unread(n))
    BY <1>7
  <2>2. <<NoCode>> \o Unread(n) \in Seq(L)
    BY <1>1, <1>2, <1>5
  <2> QED
    BY <1>3, <1>4, <1>5, <2>1, <2>2
<1>8. CASE replies # <<>> /\ \E held : r = Result(held, <<NoCode>> \o Tail(replies))
  BY <1>3, <1>4, <1>8
<1> QED
  BY <1>6, <1>7, <1>8 DEF Reads

LEMMA ReadsLines ==
  ASSUME replies \in Seq(Line), NEW r \in Reads
  PROVE  r.rest \in Seq(Line)
  BY ReadsFrom DEF Line

LEMMA ReplyLines ==
  ASSUME NEW c \in Granting
  PROVE  Reply(c) \in Seq(Line)
<1> c \in Line /\ NoCode \in Line
  BY DEF Line
<1> QED
  BY DEF Reply

(* The address of a world is text, and so are the parts that may be taken  *)
(* from it.                                                                *)
LEMMA TypedText ==
  ASSUME world \in Worlds
  PROVE  world.url.typed \in Text
<1>1. world \in World
  BY FtpAssumption
<1>2. world.url \in Url
  BY <1>1 DEF World
<1> QED
  BY <1>2 DEF Url

LEMMA InitInv == Init => IInv
<1> SUFFICES ASSUME Init PROVE IInv
  OBVIOUS
<1>1. Size \in Nat
  BY FtpAssumption
<1>2. TypeOK
  <2>0. refused \in BOOLEAN
    BY Zenon DEF Init, ConnectionInit
  <2>1. ConnectionTypeOK
    BY <1>1, <2>0 DEF Init, ConnectionInit, ConnectionTypeOK
  <2>2. ClientTypeOK
    <3>1. link \in Link
      <4>1. <<>> \in Text
        BY DEF Text
      <4> QED
        BY <4>1 DEF Init, ClientInit, Link
    <3> QED
      BY <1>1, <3>1 DEF Init, ClientInit, ClientTypeOK
  <2>3. ServerTypeOK
    BY <1>1 DEF Init, ServerInit, ServerTypeOK
  <2> QED
    BY <2>1, <2>2, <2>3 DEF TypeOK
<1>3. Counted /\ InOrder /\ Sized
  BY <1>1, CarriedFacts
     DEF Init, ConnectionInit, ClientInit, ServerInit, Counted, InOrder, Sized
<1> QED
  BY <1>2, <1>3 DEF IInv

(* What a step of the client must show for the invariant, when it leaves   *)
(* the bytes alone.                                                        *)
LEMMA BytesKept ==
  ASSUME IInv, TypeOK',
         UNCHANGED <<world, data, sent, received, file>>,
         ~world.cut => Sized'
  PROVE  IInv'
<1>1. Carried' = Carried
  BY DEF Carried, WholeFile
<1>2. Counted' /\ (world.exact /\ world.disk => InOrder)'
  BY <1>1 DEF IInv, Counted, InOrder
<1> QED
  BY <1>2 DEF IInv

(* A step that takes a reply, or none, and changes nothing but the stage,  *)
(* the descriptor and the size keeps the types.                            *)
LEMMA TypesKept ==
  ASSUME IInv,
         UNCHANGED <<world, data, serverVars, received, file>>,
         replies' = replies \/ \E r \in Reads : replies' = r.rest,
         commands' = commands \/ \E c \in Command : commands' = Append(commands, c),
         dataPipe' \in {dataPipe, "connected"},
         refused' = refused \/ refused' = TRUE,
         link' \in Link,
         stage' \in Waiting \cup Over \cup {"start", "connect", "open", "data"},
         dataFd' \in {"unset", "socket", "failed"},
         fileSize' \in 0 .. Size + 1
  PROVE  TypeOK'
<1>1. replies' \in Seq(Line)
  BY ReadsLines DEF IInv, TypeOK, ConnectionTypeOK
<1>2. commands' \in Seq(Command)
  <2>1. commands \in Seq(Command)
    BY DEF IInv, TypeOK, ConnectionTypeOK
  <2>2. \A c \in Command : Append(commands, c) \in Seq(Command)
    BY <2>1
  <2> QED
    BY <2>1, <2>2
<1>3. refused' \in BOOLEAN
  BY Zenon DEF IInv, TypeOK, ConnectionTypeOK
<1>4. ConnectionTypeOK'
  BY <1>1, <1>2, <1>3 DEF IInv, TypeOK, ConnectionTypeOK
<1>5. ClientTypeOK'
  BY DEF IInv, TypeOK, ClientTypeOK
<1>6. ServerTypeOK'
  BY DEF IInv, TypeOK, ServerTypeOK, serverVars
<1> QED
  BY <1>4, <1>5, <1>6 DEF TypeOK

LEMMA ProceedKeeps ==
  ASSUME IInv, UNCHANGED serverVars,
         NEW from, NEW verb, NEW text, NEW to \in Waiting,
         [verb |-> verb, text |-> text] \in Command,
         Proceed(from, verb, text, to),
         to \in {"complete", "quit"} => from = "complete"
  PROVE  IInv'
<1>1. PICK r \in Reads : Granted(from, r)
  BY DEF Proceed
<1>2. stage = from /\ replies' = r.rest
  BY <1>1 DEF Granted
<1>3. TypeOK'
  <2>1. /\ dataFd \in {"unset", "socket", "failed"}
        /\ fileSize \in 0 .. Size + 1
        /\ link \in Link
    BY DEF IInv, TypeOK, ClientTypeOK
  <2>2. \E c \in Command : commands' = Append(commands, c)
    BY DEF Proceed
  <2>3. /\ UNCHANGED <<world, data, serverVars, received, file, dataPipe, refused,
                       dataFd, fileSize, link>>
        /\ stage' = to
    BY DEF Proceed
  <2> QED
    BY <1>1, <1>2, <2>1, <2>2, <2>3, TypesKept
<1>4. ~world.cut => Sized'
  BY <1>2 DEF IInv, Sized, Proceed, Waiting, Expectation
<1> QED
  BY <1>3, <1>4, BytesKept DEF Proceed, serverVars

LEMMA Stages ==
  /\ Waiting = {"greeting", "user", "pass", "pasv", "retr", "complete", "quit"}
  /\ Over = {"success", "failed", "crashed"}
  BY DEF Waiting, Over, Expectation

(* The client's steps on the control connection, except those that send a  *)
(* command and nothing else.                                               *)
LEMMA ControlKeeps ==
  ASSUME IInv, UNCHANGED serverVars,
         \/ ParseUrl \/ RejectUrl
         \/ Connect \/ ConnectFails \/ PassOver \/ Reject \/ EnterPassive
         \/ PassiveUnreadable \/ FileOk \/ SizeNotFound \/ OpenFile \/ ReadFails
         \/ LoggedOut
  PROVE  IInv'
<1>0. /\ stage \in Waiting \cup Over \cup {"start", "connect", "open", "data"}
      /\ dataFd \in {"unset", "socket", "failed"}
      /\ fileSize \in 0 .. Size + 1
      /\ Size \in Nat
      /\ link \in Link
      /\ world \in Worlds
  BY FtpAssumption DEF IInv, TypeOK, ConnectionTypeOK, ClientTypeOK
<1>1. UNCHANGED <<world, data, serverVars, received, file>>
  BY DEF ParseUrl, RejectUrl, Connect, ConnectFails, PassOver, Reject, EnterPassive,
         PassiveUnreadable,
         FileOk, SizeNotFound, OpenFile, ReadFails, LoggedOut, connectionVars, clientVars
<1>2. TypeOK' /\ (~world.cut => Sized')
  <2>12. CASE ParseUrl
    <3>1. link' \in Link
      <4>1. parseURL(world.url.typed) \subseteq Link
        BY <1>0, TypedText, ParsedLinks
      <4> QED
        BY <2>12, <4>1 DEF ParseUrl
    <3>2. TypeOK'
      BY <1>0, <1>1, <2>12, <3>1, Stages, TypesKept DEF ParseUrl, connectionVars
    <3> QED
      BY <2>12, <3>2 DEF ParseUrl, Sized
  <2>13. CASE RejectUrl
    <3>1. TypeOK'
      BY <1>0, <1>1, <2>13, Stages, TypesKept DEF RejectUrl, connectionVars
    <3> QED
      BY <2>13, <3>1 DEF RejectUrl, Sized
  <2>1. CASE Connect
    <3>1. TypeOK'
      BY <1>0, <1>1, <2>1, Stages, TypesKept DEF Connect, connectionVars
    <3> QED
      BY <2>1, <3>1 DEF Connect, Sized
  <2>2. CASE ConnectFails
    <3>1. TypeOK'
      BY <1>0, <1>1, <2>2, Stages, TypesKept DEF ConnectFails
    <3> QED
      BY <2>2, <3>1 DEF ConnectFails, Sized
  <2>3. CASE PassOver
    <3>1. TypeOK'
      BY <1>0, <1>1, <2>3, Stages, TypesKept DEF PassOver, clientVars
    <3> QED
      BY <2>3, <3>1 DEF PassOver, clientVars, IInv, Sized
  <2>4. CASE Reject
    <3>1. TypeOK'
      BY <1>0, <1>1, <2>4, Stages, TypesKept DEF Reject
    <3> QED
      BY <2>4, <3>1 DEF Reject, Sized
  <2>5. CASE EnterPassive
    <3>0. [verb |-> "RETR", text |-> <<".">> \o link.path] \in Command
      <4>1. link.path \in Text
        BY <1>0 DEF Link
      <4>3. <<".">> \in Text
        <5>1. "." \in Char
          BY DEF Char
        <5> QED
          BY <5>1 DEF Text
      <4>2. <<".">> \o link.path \in Text
        BY <4>1, <4>3, Joined DEF Text
      <4> QED
        BY <4>2 DEF Command
    <3>2. \E c \in Command : commands' = Append(commands, c)
      BY <2>5, <3>0 DEF EnterPassive
    <3>1. TypeOK'
      BY <1>0, <1>1, <2>5, <3>2, Stages, TypesKept DEF EnterPassive, Granted
    <3> QED
      BY <2>5, <3>1 DEF EnterPassive, Sized
  <2>6. CASE PassiveUnreadable
    <3>1. TypeOK'
      BY <1>0, <1>1, <2>6, Stages, TypesKept DEF PassiveUnreadable, Granted
    <3> QED
      BY <2>6, <3>1 DEF PassiveUnreadable, Sized
  <2>7. CASE FileOk
    <3>1. fileSize' \in 0 .. Size + 1
      BY <1>0, <2>7 DEF FileOk
    <3>2. TypeOK'
      BY <1>0, <1>1, <2>7, <3>1, Stages, TypesKept DEF FileOk, Granted
    <3>3. ASSUME ~world.cut PROVE fileSize' = Size
      <4>1. \A r \in Reads : r.held = "whole"
        BY <3>3 DEF Reads, Result
      <4> QED
        BY <2>7, <4>1 DEF FileOk
    <3> QED
      BY <2>7, <3>2, <3>3 DEF FileOk, Sized
  <2>8. CASE SizeNotFound
    <3>1. TypeOK'
      BY <1>0, <1>1, <2>8, Stages, TypesKept DEF SizeNotFound, Granted
    <3> QED
      BY <2>8, <3>1 DEF SizeNotFound, Sized
  <2>9. CASE OpenFile
    <3>1. TypeOK'
      BY <1>0, <1>1, <2>9, Stages, TypesKept DEF OpenFile, connectionVars
    <3> QED
      BY <2>9, <3>1 DEF OpenFile, IInv, Sized
  <2>10. CASE ReadFails
    <3>1. TypeOK'
      BY <1>0, <1>1, <2>10, Stages, TypesKept DEF ReadFails, connectionVars
    <3> QED
      BY <2>10, <3>1 DEF ReadFails, Sized
  <2>11. CASE LoggedOut
    <3>1. TypeOK'
      BY <1>0, <1>1, <2>11, Stages, TypesKept DEF LoggedOut, Granted
    <3> QED
      BY <2>11, <3>1 DEF LoggedOut, Granted, IInv, Sized
  <2> QED
    BY <2>1, <2>2, <2>3, <2>4, <2>5, <2>6, <2>7, <2>8, <2>9, <2>10, <2>11, <2>12, <2>13
<1> QED
  BY <1>1, <1>2, BytesKept DEF serverVars

(* Taking n elements from the front of a sequence.                         *)
LEMMA Split ==
  ASSUME NEW S, NEW s \in Seq(S), NEW n \in 1 .. Len(s)
  PROVE  /\ SubSeq(s, 1, n) \in Seq(S)
         /\ Len(SubSeq(s, 1, n)) = n
         /\ \A i \in 1 .. n : SubSeq(s, 1, n)[i] = s[i]
         /\ SubSeq(s, n + 1, Len(s)) \in Seq(S)
         /\ Len(SubSeq(s, n + 1, Len(s))) = Len(s) - n
         /\ \A i \in 1 .. Len(s) - n : SubSeq(s, n + 1, Len(s))[i] = s[n + i]
<1>1. n \in Int /\ n + 1 \in Int /\ Len(s) \in Nat
  OBVIOUS
<1>2. \A i \in 1 .. n : s[i] \in S
  OBVIOUS
<1>3. \A i \in n + 1 .. Len(s) : s[i] \in S
  OBVIOUS
<1>4. /\ SubSeq(s, 1, n) \in Seq(S)
      /\ Len(SubSeq(s, 1, n)) = n
      /\ \A i \in 1 .. n : SubSeq(s, 1, n)[i] = s[i]
  <2>1. /\ SubSeq(s, 1, n) \in Seq(S)
        /\ Len(SubSeq(s, 1, n)) = IF 1 <= n THEN n - 1 + 1 ELSE 0
        /\ \A i \in 1 .. n - 1 + 1 : SubSeq(s, 1, n)[i] = s[1 + i - 1]
    BY <1>1, <1>2, SubSeqProperties
  <2> QED
    BY <1>1, <2>1
<1>5. /\ SubSeq(s, n + 1, Len(s)) \in Seq(S)
      /\ Len(SubSeq(s, n + 1, Len(s))) = Len(s) - n
      /\ \A i \in 1 .. Len(s) - n : SubSeq(s, n + 1, Len(s))[i] = s[n + i]
  <2>1. /\ SubSeq(s, n + 1, Len(s)) \in Seq(S)
        /\ Len(SubSeq(s, n + 1, Len(s)))
             = IF n + 1 <= Len(s) THEN Len(s) - (n + 1) + 1 ELSE 0
        /\ \A i \in 1 .. Len(s) - (n + 1) + 1 :
             SubSeq(s, n + 1, Len(s))[i] = s[n + 1 + i - 1]
    BY <1>1, <1>3, SubSeqProperties
  <2> QED
    BY <1>1, <2>1
<1> QED
  BY <1>4, <1>5

LEMMA WriteFrameBytes ==
  ASSUME NEW S, NEW frame \in Seq(S), NEW b \in WriteFrame(frame)
  PROVE  b \in Seq(S)
<1>1. \A k \in 0 .. Len(frame) : SubSeq(frame, 1, k) \in Seq(S)
  <2> TAKE k \in 0 .. Len(frame)
  <2>1. \A i \in 1 .. k : frame[i] \in S
    OBVIOUS
  <2> QED
    BY <2>1, SubSeqProperties
<1>2. CASE b = frame
  BY <1>2
<1>3. CASE \E k \in 0 .. Len(frame) : b = SubSeq(frame, 1, k)
  BY <1>1, <1>3
<1>4. CASE \E w \in (1 .. Len(frame) - 1) \X (1 .. Len(frame)) :
             b = SubSeq(frame, 1, w[1]) \o SubSeq(frame, 1, w[2])
  <2>1. PICK w \in (1 .. Len(frame) - 1) \X (1 .. Len(frame)) :
          b = SubSeq(frame, 1, w[1]) \o SubSeq(frame, 1, w[2])
    BY <1>4
  <2>2. w[1] \in 0 .. Len(frame) /\ w[2] \in 0 .. Len(frame)
    OBVIOUS
  <2>3. SubSeq(frame, 1, w[1]) \in Seq(S) /\ SubSeq(frame, 1, w[2]) \in Seq(S)
    BY <1>1, <2>2
  <2> QED
    BY <2>1, <2>3, ConcatProperties
<1> QED
  BY <1>2, <1>3, <1>4 DEF WriteFrame

LEMMA ReadDataKeeps ==
  ASSUME IInv, UNCHANGED serverVars, ReadData
  PROVE  IInv'
<1>0. /\ Size \in Nat
      /\ data \in Seq(0 .. Size)
      /\ file \in Seq(0 .. Size)
      /\ received \in Nat
      /\ fileSize \in 0 .. Size + 1
      /\ sent \in 0 .. Size + 1
  BY FtpAssumption DEF IInv, TypeOK, ConnectionTypeOK, ClientTypeOK, ServerTypeOK
<1>1. PICK n \in 1 .. Len(data) :
        /\ \E b \in WriteFrame(SubSeq(data, 1, n)) : file' = file \o b
        /\ data' = SubSeq(data, n + 1, Len(data))
        /\ AfterRead(n)
  BY DEF ReadData
<1>2. PICK b \in WriteFrame(SubSeq(data, 1, n)) : file' = file \o b
  BY <1>1
<1>3. b \in Seq(0 .. Size)
  BY <1>0, Split, WriteFrameBytes
<1>4. /\ data' \in Seq(0 .. Size)
      /\ Len(data') = Len(data) - n
      /\ \A i \in 1 .. Len(data') : data'[i] = data[n + i]
  <2>1. /\ SubSeq(data, n + 1, Len(data)) \in Seq(0 .. Size)
        /\ Len(SubSeq(data, n + 1, Len(data))) = Len(data) - n
        /\ \A i \in 1 .. Len(data) - n : SubSeq(data, n + 1, Len(data))[i] = data[n + i]
    BY <1>0, Split
  <2> QED
    BY <1>1, <2>1
<1>5. /\ file' \in Seq(0 .. Size)
      /\ Len(file') = Len(file) + Len(b)
      /\ \A i \in 1 .. Len(file') :
           file'[i] = IF i <= Len(file) THEN file[i] ELSE b[i - Len(file)]
  BY <1>0, <1>2, <1>3, ConcatProperties
<1>6. received' = received + n /\ sent' = sent /\ world' = world /\ fileSize' = fileSize
  BY <1>1 DEF AfterRead, ReadData, serverVars
<1>7. Counted'
  <2>1. Carried' = Carried
    BY <1>6 DEF Carried, WholeFile
  <2>2. received + Len(data) = sent /\ sent <= Len(Carried)
    BY DEF IInv, Counted
  <2>3. Len(data) \in Nat
    BY <1>0
  <2>4. received' + Len(data') = sent'
    <3>1. Len(data') = Len(data) - n
      BY <1>4
    <3>2. n \in Nat /\ received \in Nat /\ Len(data) \in Nat
      BY <1>0
    <3> QED
      BY <1>6, <2>2, <3>1, <3>2
  <2>5. sent' <= Len(Carried')
    BY <1>6, <2>1, <2>2
  <2> QED
    BY <2>4, <2>5 DEF Counted
<1>8. received' \in 0 .. Size + 1
  BY <1>0, <1>4, <1>6, <1>7 DEF Counted
<1>9. TypeOK'
  <2>1. refused' \in BOOLEAN
    BY Zenon DEF IInv, TypeOK, ConnectionTypeOK, ReadData
  <2>2. ConnectionTypeOK'
    BY <1>4, <2>1 DEF IInv, TypeOK, ConnectionTypeOK, ReadData
  <2>3. ClientTypeOK'
    BY <1>1, <1>5, <1>8, Stages DEF IInv, TypeOK, ClientTypeOK, ReadData, AfterRead
  <2>4. ServerTypeOK'
    BY DEF IInv, TypeOK, ServerTypeOK, serverVars
  <2> QED
    BY <2>2, <2>3, <2>4 DEF TypeOK
<1>10. ASSUME world.exact, world.disk PROVE InOrder'
  <2>1. /\ Len(b) = n
        /\ \A i \in 1 .. n : b[i] = data[i]
    <3>1. b = SubSeq(data, 1, n)
      BY <1>2, <1>10 DEF WriteFrame
    <3> QED
      BY <1>0, <3>1, Split
  <2>2. InOrder
    BY <1>10 DEF IInv
  <2>3. Len(file') = received'
    BY <1>0, <1>5, <1>6, <2>1, <2>2 DEF InOrder
  <2>4. ASSUME NEW i \in 1 .. Len(file') PROVE file'[i] = i
    <3>1. CASE i <= Len(file)
      BY <1>0, <1>5, <2>2, <3>1 DEF InOrder
    <3>2. CASE i > Len(file)
      <4>1. i - Len(file) \in 1 .. n
        BY <1>0, <1>5, <2>1, <3>2
      <4>2. i - Len(file) \in 1 .. Len(data)
        BY <1>0, <4>1
      <4>3. file'[i] = b[i - Len(file)]
        BY <1>0, <1>5, <3>2
      <4>4. b[i - Len(file)] = data[i - Len(file)]
        BY <2>1, <4>1
      <4>5. data[i - Len(file)] = Len(file) + (i - Len(file))
        BY <2>2, <4>2 DEF InOrder
      <4>6. Len(file) \in Nat
        BY <1>0
      <4> QED
        BY <4>3, <4>4, <4>5, <4>6
    <3> QED
      BY <1>0, <1>5, <2>1, <3>1, <3>2
  <2>5. ASSUME NEW i \in 1 .. Len(data') PROVE data'[i] = Len(file') + i
    <3>1. n + i \in 1 .. Len(data)
      BY <1>0, <1>4
    <3> QED
      BY <1>0, <1>4, <1>5, <2>1, <2>2, <3>1 DEF InOrder
  <2> QED
    BY <2>3, <2>4, <2>5 DEF InOrder
<1>11. ~world.cut => Sized'
  BY <1>1, <1>6 DEF IInv, Sized, AfterRead, ReadData
<1> QED
  BY <1>6, <1>7, <1>9, <1>10, <1>11 DEF IInv

LEMMA ReadEndKeeps ==
  ASSUME IInv, UNCHANGED serverVars, ReadEnd
  PROVE  IInv'
<1>1. received \in Nat /\ received' = received
  BY DEF IInv, TypeOK, ClientTypeOK, ReadEnd, AfterRead
<1>2. UNCHANGED <<world, commands, replies, data, dataPipe, refused, dataFd, fileSize,
                  received, file, sent>>
  BY <1>1 DEF ReadEnd, connectionVars, serverVars
<1>3. stage' = IF received = fileSize THEN "complete" ELSE "data"
  BY <1>1 DEF ReadEnd, AfterRead
<1>4. TypeOK'
  <2>1. /\ dataFd \in {"unset", "socket", "failed"}
        /\ fileSize \in 0 .. Size + 1
        /\ link' \in Link
    BY DEF IInv, TypeOK, ClientTypeOK, ReadEnd
  <2>2. stage' \in Waiting \cup Over \cup {"start", "connect", "open", "data"}
    BY <1>3, Stages
  <2> QED
    BY <1>2, <2>1, <2>2, TypesKept
<1>5. ~world.cut => Sized'
  BY <1>2, <1>3 DEF IInv, Sized, ReadEnd
<1> QED
  BY <1>2, <1>4, <1>5, BytesKept

LEMMA ClientKeeps ==
  ASSUME IInv, ClientStep
  PROVE  IInv'
<1>1. UNCHANGED serverVars
  BY DEF ClientStep
<1>2. /\ [verb |-> "USER", text |-> link.user] \in Command
      /\ [verb |-> "PASS", text |-> link.password] \in Command
      /\ [verb |-> "PASV", text |-> <<>>] \in Command
      /\ [verb |-> "quit", text |-> <<>>] \in Command
      /\ {"user", "pass", "pasv", "quit"} \subseteq Waiting
  <2>1. link.user \in Text /\ link.password \in Text /\ <<>> \in Text
    BY DEF IInv, TypeOK, ClientTypeOK, Link, Text
  <2> QED
    BY <2>1, Stages DEF Command
<1>3. CASE Greeted
  BY <1>1, <1>2, <1>3, ProceedKeeps DEF Greeted
<1>4. CASE NeedPassword
  BY <1>1, <1>2, <1>4, ProceedKeeps DEF NeedPassword
<1>5. CASE LoggedIn
  BY <1>1, <1>2, <1>5, ProceedKeeps DEF LoggedIn
<1>6. CASE Complete
  BY <1>1, <1>2, <1>6, ProceedKeeps DEF Complete
<1>7. CASE ReadData
  BY <1>1, <1>7, ReadDataKeeps
<1>8. CASE ReadEnd
  BY <1>1, <1>8, ReadEndKeeps
<1>9. CASE ~(Greeted \/ NeedPassword \/ LoggedIn \/ Complete \/ ReadData \/ ReadEnd)
  BY <1>1, <1>9, ControlKeeps DEF ClientStep, ClientNext
<1> QED
  BY <1>3, <1>4, <1>5, <1>6, <1>7, <1>8, <1>9

(* The server's steps on the control connection.                           *)
LEMMA AnswersKeep ==
  ASSUME IInv, UNCHANGED clientVars, Greet \/ Serve \/ Refuse \/ EndData \/ Vanish
  PROVE  IInv'
<1>0. /\ commands \in Seq(Command)
      /\ replies \in Seq(Line)
  BY DEF IInv, TypeOK, ConnectionTypeOK
<1>1. UNCHANGED <<world, data, sent, clientVars>>
  BY DEF Greet, Serve, Refuse, EndData, Vanish
<1>2. replies' \in Seq(Line)
  <2>1. \A s \in Seq(Line) : replies \o s \in Seq(Line)
    BY <1>0, ConcatProperties
  <2>2. CASE Greet
    BY <2>1, <2>2, ReplyLines DEF Greet, Granting
  <2>3. CASE Serve
    <3>1. Head(commands) \in Command
      BY <1>0, <2>3 DEF Serve
    <3>2. Answer[Head(commands).verb] \in Granting
      <4>1. Head(commands).verb \in {"USER", "PASS", "PASV", "RETR", "quit"}
        BY <3>1 DEF Command
      <4> QED
        BY <4>1 DEF Answer, Granting
    <3>3. Reply(Answer[Head(commands).verb]) \in Seq(Line)
      BY <3>2, ReplyLines
    <3> QED
      BY <2>1, <2>3, <3>3 DEF Serve
  <2>4. CASE Refuse
    <3>1. REFUSED \in Line
      BY DEF Line
    <3> QED
      BY <1>0, <2>4, <3>1 DEF Refuse
  <2>5. CASE EndData
    BY <2>1, <2>5, ReplyLines DEF EndData, Granting
  <2>6. CASE Vanish
    BY <1>0, <2>6 DEF Vanish
  <2> QED
    BY <2>2, <2>3, <2>4, <2>5, <2>6
<1>3. commands' \in Seq(Command)
  <2>1. commands # <<>> => Tail(commands) \in Seq(Command)
    BY <1>0
  <2> QED
    BY <1>0, <2>1 DEF Greet, Serve, Refuse, EndData, Vanish
<1>4. refused' \in BOOLEAN
  BY Zenon DEF IInv, TypeOK, ConnectionTypeOK, Greet, Serve, Refuse, EndData, Vanish
<1>5. /\ dataPipe' \in {"none", "connected", "ended"}
      /\ serving' \in {"new", "ready", "sending", "gone"}
  BY DEF IInv, TypeOK, ConnectionTypeOK, ServerTypeOK, Greet, Serve, Refuse, EndData, Vanish
<1>6. TypeOK'
  <2>1. ConnectionTypeOK'
    BY <1>1, <1>2, <1>3, <1>4, <1>5 DEF IInv, TypeOK, ConnectionTypeOK
  <2>2. ClientTypeOK'
    BY <1>1 DEF IInv, TypeOK, ClientTypeOK, clientVars
  <2>3. ServerTypeOK'
    BY <1>1, <1>5 DEF IInv, TypeOK, ServerTypeOK
  <2> QED
    BY <2>1, <2>2, <2>3 DEF TypeOK
<1>7. ~world.cut => Sized'
  BY <1>1 DEF IInv, Sized, clientVars
<1> QED
  BY <1>1, <1>6, <1>7, BytesKept DEF clientVars

LEMMA SendDataKeeps ==
  ASSUME IInv, UNCHANGED clientVars, SendData
  PROVE  IInv'
<1>0. /\ Size \in Nat
      /\ data \in Seq(0 .. Size)
      /\ file \in Seq(0 .. Size)
      /\ received \in Nat
      /\ sent \in Nat
      /\ Len(data) \in Nat
      /\ Len(file) \in Nat
  BY FtpAssumption DEF IInv, TypeOK, ConnectionTypeOK, ClientTypeOK, ServerTypeOK
<1>1. PICK n \in 1 .. Len(Carried) - sent :
        /\ data' = data \o SubSeq(Carried, sent + 1, sent + n)
        /\ sent' = sent + n
  BY DEF SendData
<1>2. UNCHANGED <<world, commands, replies, dataPipe, refused, serving, clientVars>>
  BY DEF SendData
<1>3. Carried \in Seq(0 .. Size) /\ Len(Carried) \in {Size, Size + 1}
  BY CarriedFacts
<1>4. n \in Nat /\ 1 <= n /\ sent + n <= Len(Carried)
  BY <1>0, <1>3
<1>5. /\ SubSeq(Carried, sent + 1, sent + n) \in Seq(0 .. Size)
      /\ Len(SubSeq(Carried, sent + 1, sent + n)) = n
      /\ \A i \in 1 .. n : SubSeq(Carried, sent + 1, sent + n)[i] = Carried[sent + i]
  <2>1. sent \in Nat /\ Carried \in Seq(0 .. Size)
    BY <1>0, <1>3
  <2> QED
    BY <1>4, <2>1, Slice
<1>6. /\ data' \in Seq(0 .. Size)
      /\ Len(data') = Len(data) + n
      /\ \A i \in 1 .. Len(data') :
           data'[i] = IF i <= Len(data) THEN data[i] ELSE Carried[sent + (i - Len(data))]
  <2> DEFINE more == SubSeq(Carried, sent + 1, sent + n)
  <2>1. /\ more \in Seq(0 .. Size)
        /\ Len(more) = n
        /\ \A i \in 1 .. n : more[i] = Carried[sent + i]
    BY <1>5
  <2>2. data' = data \o more
    BY <1>1
  <2> HIDE DEF more
  <2>3. /\ data' \in Seq(0 .. Size)
        /\ Len(data') = Len(data) + n
        /\ \A i \in 1 .. Len(data) + n :
             data'[i] = IF i <= Len(data) THEN data[i] ELSE more[i - Len(data)]
    BY <1>0, <2>1, <2>2, ConcatProperties
  <2>4. \A i \in 1 .. Len(data) + n : i > Len(data) => i - Len(data) \in 1 .. n
    BY <1>0, <1>4
  <2>5. ASSUME NEW i \in 1 .. Len(data')
        PROVE  data'[i] = IF i <= Len(data) THEN data[i] ELSE Carried[sent + (i - Len(data))]
    <3>1. i \in 1 .. Len(data) + n
      BY <2>3
    <3>2. CASE i <= Len(data)
      BY <2>3, <3>1, <3>2
    <3>3. CASE i > Len(data)
      <4>1. i - Len(data) \in 1 .. n
        BY <2>4, <3>1, <3>3
      <4>2. data'[i] = more[i - Len(data)]
        BY <1>0, <2>3, <3>1, <3>3
      <4>3. more[i - Len(data)] = Carried[sent + (i - Len(data))]
        BY <2>1, <4>1
      <4> QED
        BY <1>0, <3>1, <3>3, <4>2, <4>3
    <3> QED
      BY <1>0, <3>1, <3>2, <3>3
  <2> QED
    BY <2>3, <2>5
<1>7. Carried' = Carried
  BY <1>2 DEF Carried, WholeFile
<1>8. Counted'
  <2>1. received + Len(data) = sent
    BY DEF IInv, Counted
  <2>2. received' = received
    BY <1>2 DEF clientVars
  <2>3. received' + Len(data') = sent'
    <3>1. Len(data') = Len(data) + n
      BY <1>6
    <3>2. received \in Nat /\ Len(data) \in Nat /\ n \in Nat
      BY <1>0, <1>4
    <3> QED
      BY <1>1, <2>1, <2>2, <3>1, <3>2
  <2>4. sent' <= Len(Carried')
    BY <1>1, <1>4, <1>7
  <2> QED
    BY <2>3, <2>4 DEF Counted
<1>9. TypeOK'
  <2>1. refused' \in BOOLEAN
    BY <1>2, Zenon DEF IInv, TypeOK, ConnectionTypeOK
  <2>2. ConnectionTypeOK'
    BY <1>2, <1>6, <2>1 DEF IInv, TypeOK, ConnectionTypeOK
  <2>3. ClientTypeOK'
    BY <1>2 DEF IInv, TypeOK, ClientTypeOK, clientVars
  <2>4. sent' \in 0 .. Size + 1
    BY <1>0, <1>1, <1>3, <1>4
  <2>5. ServerTypeOK'
    BY <1>2, <2>4 DEF IInv, TypeOK, ServerTypeOK
  <2> QED
    BY <2>2, <2>3, <2>5 DEF TypeOK
<1>10. ASSUME world.exact, world.disk PROVE InOrder'
  <2>1. InOrder /\ received + Len(data) = sent
    BY <1>10 DEF IInv, Counted
  <2>2. Len(Carried) = Size /\ \A i \in 1 .. Size : Carried[i] = i
    BY <1>10, CarriedFacts
  <2>3. file' = file /\ received' = received
    BY <1>2 DEF clientVars
  <2>4. ASSUME NEW i \in 1 .. Len(data') PROVE data'[i] = Len(file) + i
    <3>0. i \in Nat /\ 1 <= i /\ Len(data) \in Nat /\ Len(file) \in Nat
      BY <1>0
    <3>1. CASE i <= Len(data)
      <4>1. data'[i] = data[i]
        BY <1>6, <3>1
      <4>2. i \in 1 .. Len(data)
        BY <3>0, <3>1
      <4> QED
        BY <2>1, <4>1, <4>2 DEF InOrder
    <3>2. CASE i > Len(data)
      <4>1. data'[i] = Carried[sent + (i - Len(data))]
        BY <1>0, <1>6, <3>2
      <4>2. sent + (i - Len(data)) \in 1 .. Size
        BY <1>0, <1>4, <1>6, <2>2, <3>2
      <4>3. Len(file) = received
        BY <2>1 DEF InOrder
      <4>4. sent + (i - Len(data)) = Len(file) + i
        BY <2>1, <3>0, <4>3
      <4> QED
        BY <2>2, <4>1, <4>2, <4>4
    <3> QED
      BY <1>0, <1>6, <3>1, <3>2
  <2> QED
    BY <2>1, <2>3, <2>4 DEF InOrder
<1>11. ~world.cut => Sized'
  BY <1>2 DEF IInv, Sized, clientVars
<1> QED
  BY <1>2, <1>8, <1>9, <1>10, <1>11 DEF IInv

LEMMA NextInv == IInv /\ [Next]_vars => IInv'
<1> SUFFICES ASSUME IInv, [Next]_vars PROVE IInv'
  OBVIOUS
<1>1. CASE ClientStep
  BY <1>1, ClientKeeps
<1>2. CASE ServerStep /\ SendData
  BY <1>2, SendDataKeeps DEF ServerStep
<1>3. CASE ServerStep /\ ~SendData
  BY <1>3, AnswersKeep DEF ServerStep, ServerNext
<1>4. CASE UNCHANGED vars
  <2>1. UNCHANGED <<connectionVars, clientVars, serverVars>>
    BY <1>4 DEF vars
  <2>2. TypeOK'
    BY <2>1 DEF IInv, TypeOK, ConnectionTypeOK, ClientTypeOK, ServerTypeOK,
                connectionVars, clientVars, serverVars
  <2>3. ~world.cut => Sized'
    BY <2>1 DEF IInv, Sized, clientVars
  <2> QED
    BY <2>1, <2>2, <2>3, BytesKept DEF connectionVars, clientVars, serverVars
<1> QED
  BY <1>1, <1>2, <1>3, <1>4 DEF Next

(* The types of a session (code: the whole of ftpController.c).            *)
THEOREM TypeCorrect == Spec => []TypeOK
<1>1. IInv => TypeOK
  BY DEF IInv
<1> QED
  BY <1>1, InitInv, NextInv, PTL DEF Spec

(* Success means that the local file is the server's, for every size       *)
(* (code: the counting loop of downloadFile).                              *)
THEOREM SuccessIsWhole == Spec => []SuccessMeansWhole
<1>1. IInv => SuccessMeansWhole
  <2> SUFFICES ASSUME IInv, stage = "success", world.exact, world.disk, ~world.cut
               PROVE  file = WholeFile
    BY DEF SuccessMeansWhole
  <2>1. file \in Seq(0 .. Size) /\ Len(file) = Size /\ \A i \in 1 .. Len(file) : file[i] = i
    BY DEF IInv, TypeOK, ClientTypeOK, InOrder, Sized
  <2> QED
    BY <2>1, CarriedFacts, SeqEqual
<1> QED
  BY <1>1, InitInv, NextInv, PTL DEF Spec

-----------------------------------------------------------------------------
(* The codes of the protocol differ.                                       *)
LEMMA Codes ==
  /\ Expectation["greeting"] = READY /\ Expectation["user"] = PASSWORD
  /\ Expectation["pass"] = LOGGED_IN /\ Expectation["pasv"] = PASSIVE
  /\ Expectation["retr"] = FILE_OK /\ Expectation["complete"] = END_OF_DATA
  /\ Expectation["quit"] = LOGOUT
  /\ \A s \in Waiting : s # "greeting" => Expectation[s] # READY
  /\ \A c \in Granting : c # REFUSED /\ c # NoCode
  /\ REFUSED # NoCode /\ REFUSED # READY
  /\ PASSWORD # READY /\ PASSWORD # REFUSED
  /\ \A v \in {"USER", "PASS", "PASV", "RETR", "quit"} : Answer[v] # READY
  BY DEF Expectation, Waiting, Granting, READY, PASSWORD, LOGGED_IN, PASSIVE, FILE_OK,
         END_OF_DATA, LOGOUT, REFUSED, NoCode, Answer

(* Replies as short sequences.                                             *)
LEMMA Few ==
  ASSUME NEW a, NEW b
  PROVE  /\ Len(<<>>) = 0 /\ Len(<<a>>) = 1 /\ Len(<<a, b>>) = 2
         /\ Head(<<a>>) = a /\ Head(<<a, b>>) = a
         /\ Tail(<<a>>) = <<>> /\ Tail(<<a, b>>) = <<b>>
         /\ SubSeq(<<a>>, 2, 1) = <<>>
         /\ SubSeq(<<a, b>>, 2, 2) = <<b>> /\ SubSeq(<<a, b>>, 3, 2) = <<>>
         /\ <<>> \o <<a>> = <<a>> /\ <<>> \o <<a, b>> = <<a, b>>
         /\ <<a>> \o <<b>> = <<a, b>>
         /\ Append(<<>>, a) = <<a>> /\ Append(<<a>>, b) = <<a, b>>
<1>0. /\ <<>> \in Seq({a, b}) /\ <<a>> \in Seq({a, b}) /\ <<b>> \in Seq({a, b})
      /\ <<a, b>> \in Seq({a, b})
  OBVIOUS
<1>1. /\ Len(<<>>) = 0 /\ Len(<<a>>) = 1 /\ Len(<<a, b>>) = 2
      /\ Head(<<a>>) = a /\ Head(<<a, b>>) = a
      /\ Tail(<<a>>) = <<>> /\ Tail(<<a, b>>) = <<b>>
  OBVIOUS
<1>2. SubSeq(<<a>>, 2, 1) = <<>> /\ SubSeq(<<a, b>>, 3, 2) = <<>>
  BY SubSeqEmpty
<1>3. SubSeq(<<a, b>>, 2, 2) = <<b>>
  <2>1. SubSeq(<<a, b>>, 2, Len(<<a, b>>)) = Tail(<<a, b>>)
    BY <1>0, TailIsSubSeq
  <2> QED
    BY <1>1, <2>1
<1>4. <<>> \o <<a>> = <<a>> /\ <<>> \o <<a, b>> = <<a, b>>
  BY <1>0, ConcatEmptySeq
<1>5. <<a>> \o <<b>> = <<a, b>>
  <2>1. /\ <<a>> \o <<b>> \in Seq({a, b})
        /\ Len(<<a>> \o <<b>>) = Len(<<a>>) + Len(<<b>>)
        /\ \A i \in 1 .. Len(<<a>>) + Len(<<b>>) :
             (<<a>> \o <<b>>)[i] = IF i <= Len(<<a>>) THEN <<a>>[i] ELSE <<b>>[i - Len(<<a>>)]
    BY <1>0, ConcatProperties
  <2>2. Len(<<a>>) = 1 /\ Len(<<b>>) = 1 /\ Len(<<a, b>>) = 2
    OBVIOUS
  <2> DEFINE s == <<a>> \o <<b>>
  <2>3. s \in Seq({a, b}) /\ Len(s) = 2 /\ s[1] = a /\ s[2] = b
    BY <2>1, <2>2
  <2> HIDE DEF s
  <2>4. \A i \in 1 .. Len(s) : s[i] = <<a, b>>[i]
    BY <2>3
  <2>5. s = <<a, b>>
    BY <1>0, <2>2, <2>3, <2>4, SeqEqual
  <2> QED
    BY <2>5 DEF s
<1>6. Append(<<>>, a) = <<a>> /\ Append(<<a>>, b) = <<a, b>>
  <2>1. Append(<<>>, a) = <<>> \o <<a>> /\ Append(<<a>>, b) = <<a>> \o <<b>>
    BY <1>0, AppendIsConcat
  <2> QED
    BY <1>4, <1>5, <2>1
<1> QED
  BY <1>1, <1>2, <1>3, <1>4, <1>5, <1>6

(* A read returns a whole first line, and leaves the second one or none.   *)
LEMMA OrderlyRead ==
  ASSUME ~world.cut, NEW r \in Reads
  PROVE  /\ r.held = "whole"
         /\ r.code = Head(replies)
         /\ replies # <<>>
         /\ \A a : replies = <<a>> => r.rest = <<>>
         /\ \A a, b : replies = <<a, b>> => r.rest \in {<<b>>, <<>>}
<1>1. PICK n \in ReadCount : r = Result("whole", Unread(n))
  BY DEF Reads
<1>2. n \in 1 .. Len(replies)
  BY DEF ReadCount
<1>3. r.held = "whole" /\ r.code = Head(replies) /\ r.rest = Unread(n)
  BY <1>1 DEF Result
<1>4. replies # <<>>
  BY <1>2
<1>5. ASSUME NEW a, replies = <<a>> PROVE r.rest = <<>>
  <2>1. n = 1 /\ Len(replies) = 1
    BY <1>2, <1>5
  <2> QED
    BY <1>3, <1>5, <2>1, Few DEF Unread
<1>6. ASSUME NEW a, NEW b, replies = <<a, b>> PROVE r.rest \in {<<b>>, <<>>}
  <2>1. n \in {1, 2} /\ Len(replies) = 2
    BY <1>2, <1>6
  <2>2. r.rest = SubSeq(<<a, b>>, n + 1, 2)
    BY <1>3, <1>6, <2>1 DEF Unread
  <2>3. CASE n = 1
    <3>1. r.rest = SubSeq(<<a, b>>, 2, 2)
      BY <2>2, <2>3
    <3> QED
      BY <3>1, Few
  <2>4. CASE n = 2
    <3>1. r.rest = SubSeq(<<a, b>>, 3, 2)
      BY <2>2, <2>4
    <3> QED
      BY <3>1, Few
  <2> QED
    BY <2>1, <2>3, <2>4
<1> QED
  BY <1>3, <1>4, <1>5, <1>6

(* What a waiting client can read, by stage.                               *)
LEMMA ReadInTurn ==
  ASSUME Orderly, InTurn, stage \in Waiting, NEW r \in Reads
  PROVE  /\ r.held = "whole"
         /\ r.code \in {READY, Expectation[stage], REFUSED}
         /\ r.code = READY => stage \in {"greeting", "user"}
         /\ r.code = REFUSED => refused
         /\ stage = "greeting" => r.rest \in {<<>>, <<READY>>}
         /\ stage = "user" /\ r.code # READY => commands = <<>> /\ r.rest = <<>>
         /\ stage = "user" /\ r.code = READY =>
              r.rest \in {<<>>} \cup IF commands # <<>> THEN {}
                                     ELSE {<<PASSWORD>>, <<REFUSED>>}
         /\ stage \in {"pass", "pasv", "quit"} => commands = <<>> /\ r.rest = <<>>
         /\ stage = "retr" =>
              /\ commands = <<>>
              /\ r.rest \in {<<>>} \cup IF serving = "sending" THEN {}
                                        ELSE {<<END_OF_DATA>>}
         /\ stage = "complete" =>
              commands = <<>> /\ r.rest = <<>> /\ serving # "sending"
         /\ \A i \in 1 .. Len(r.rest) : r.rest[i] = REFUSED => refused
<1>0. ~world.cut
  BY DEF Orderly
<1>1. /\ r.held = "whole" /\ r.code = Head(replies) /\ replies # <<>>
      /\ \A a : replies = <<a>> => r.rest = <<>> /\ r.code = a
      /\ \A a, b : replies = <<a, b>> => r.rest \in {<<b>>, <<>>} /\ r.code = a
  BY <1>0, OrderlyRead, Few
<1>2. /\ \A a : replies = <<a>> => (a = REFUSED => refused)
      /\ \A a, b : replies = <<a, b>> => (a = REFUSED \/ b = REFUSED => refused)
  BY DEF InTurn
<1>3. stage \in {"greeting", "user", "pass", "pasv", "retr", "complete", "quit"}
  BY Stages
<1>4. CASE stage = "greeting"
  <2>1. replies \in {<<READY>>, <<READY, READY>>, <<REFUSED>>}
    BY <1>1, <1>4 DEF InTurn, Greeting
  <2>2. /\ r.code \in {READY, REFUSED} /\ (r.code = REFUSED => refused)
        /\ r.rest \in {<<>>, <<READY>>}
    BY <1>1, <1>2, <2>1
  <2> QED
    BY <1>1, <1>4, <2>2, Codes
<1>5. CASE stage = "user"
  <2>1. replies \in {<<READY>>} \cup IF commands # <<>> THEN {}
                                     ELSE {<<PASSWORD>>, <<READY, PASSWORD>>,
                                           <<REFUSED>>, <<READY, REFUSED>>}
    BY <1>1, <1>5 DEF InTurn
  <2>2. CASE replies = <<READY>>
    BY <1>1, <1>5, <2>2, Codes
  <2>3. CASE replies = <<PASSWORD>>
    BY <1>1, <1>5, <2>1, <2>3, Codes
  <2>4. CASE replies = <<READY, PASSWORD>>
    <3>1. commands = <<>>
      BY <2>1, <2>4
    <3>2. r.rest \in {<<PASSWORD>>, <<>>} /\ r.code = READY
      BY <1>1, <2>4
    <3>3. \A i \in 1 .. Len(r.rest) : r.rest[i] = PASSWORD
      BY <3>2
    <3> QED
      BY <1>1, <1>5, <3>1, <3>2, <3>3, Codes
  <2>5. CASE replies = <<REFUSED>>
    BY <1>1, <1>2, <1>5, <2>1, <2>5, Codes
  <2>6. CASE replies = <<READY, REFUSED>>
    <3>1. commands = <<>>
      BY <2>1, <2>6
    <3>2. r.rest \in {<<REFUSED>>, <<>>} /\ r.code = READY /\ refused
      BY <1>1, <1>2, <2>6
    <3> QED
      BY <1>1, <1>5, <3>1, <3>2
  <2> QED
    BY <2>1, <2>2, <2>3, <2>4, <2>5, <2>6
<1>6. CASE stage \in {"pass", "pasv", "quit"}
  <2>1. commands = <<>> /\ replies \in {<<Expectation[stage]>>, <<REFUSED>>}
    BY <1>1, <1>6 DEF InTurn
  <2>2. Expectation[stage] # READY
    BY <1>6, Codes
  <2> QED
    BY <1>1, <1>2, <1>6, <2>1, <2>2, Codes
<1>7. CASE stage = "retr"
  <2>1. commands = <<>> /\ replies \in {<<FILE_OK>>, <<FILE_OK, END_OF_DATA>>, <<REFUSED>>}
    BY <1>1, <1>7 DEF InTurn
  <2>2. replies = <<FILE_OK, END_OF_DATA>> => serving # "sending"
    BY <1>7, <2>1, Few DEF InTurn
  <2>3. FILE_OK # READY /\ END_OF_DATA # REFUSED /\ FILE_OK # REFUSED
    BY Codes DEF Granting, FILE_OK, READY
  <2> QED
    BY <1>1, <1>2, <1>7, <2>1, <2>2, <2>3, Codes
<1>8. CASE stage = "complete"
  <2>1. commands = <<>> /\ serving # "sending" /\ replies = <<END_OF_DATA>>
    BY <1>1, <1>8 DEF InTurn, Loading
  <2>2. END_OF_DATA # READY
    BY DEF END_OF_DATA, READY
  <2> QED
    BY <1>1, <1>2, <1>8, <2>1, <2>2, Codes
<1> QED
  BY <1>3, <1>4, <1>5, <1>6, <1>7, <1>8

(* A client that sends a command has taken the last reply.                 *)
LEMMA CommandInTurn ==
  ASSUME IInv, Orderly, InTurn, UNCHANGED serverVars, UNCHANGED world,
         NEW from \in {"greeting", "user", "pass", "pasv", "complete"},
         NEW to \in DOMAIN Asked,
         to = "user" <=> from = "greeting",
         to = "retr" <=> from = "pasv",
         NEW r \in Reads, Granted(from, r),
         NEW text, commands' = Append(commands, [verb |-> Asked[to], text |-> text]),
         refused => refused',
         stage' = to
  PROVE  /\ InTurn'
         /\ \A i \in 1 .. Len(replies') : replies'[i] = READY
<1>1. /\ stage = from /\ from \in Waiting /\ replies' = r.rest
      /\ r.code = Expectation[from]
  BY Stages DEF Granted
<1>2. commands = <<>>
  BY <1>1, ReadInTurn, Codes DEF InTurn, Greeting, Granted
<1>3. /\ replies' \in {<<>>, <<READY>>}
      /\ to # "user" => replies' = <<>>
  BY <1>1, <1>2, ReadInTurn, Codes
<1>4. \A i \in 1 .. Len(replies') : replies'[i] = READY
  BY <1>3
<1>5. commands' = <<[verb |-> Asked[to], text |-> text]>>
  BY <1>2, Few
<1>6. Len(commands') = 1 /\ commands'[1].verb = Asked[to] /\ commands' # <<>>
  <2> DEFINE c == [verb |-> Asked[to], text |-> text]
  <2>1. c.verb = Asked[to] /\ commands' = <<c>>
    BY <1>5
  <2> HIDE DEF c
  <2> QED
    BY <2>1
<1>7. serving' = serving /\ serving \notin {"new", "sending"}
  <2>1. serving # "new"
    <3>1. replies # <<>>
      BY <1>1, OrderlyRead DEF Orderly
    <3> QED
      BY <3>1 DEF InTurn
  <2>2. serving # "sending"
    BY <1>1, ReadInTurn DEF InTurn, Loading
  <2> QED
    BY <2>1, <2>2 DEF serverVars
<1>8. to \in {"user", "pass", "pasv", "retr", "quit"}
  BY DEF Asked
<1>9. InTurn'
  <2>1. to \notin Greeting /\ to \notin Loading
    BY <1>8 DEF Greeting, Loading
  <2>2. \A i \in 1 .. Len(replies') : replies'[i] # REFUSED
    BY <1>4, Codes
  <2> QED
    BY <1>3, <1>6, <1>7, <1>8, <2>1, <2>2 DEF InTurn
<1> QED
  BY <1>4, <1>9

(* The steps of the client keep the turns.                                 *)
LEMMA ClientInTurn ==
  ASSUME IInv, Orderly, InTurn, ClientStep
  PROVE  stage' \notin Over => InTurn'
<1> SUFFICES ASSUME stage' \notin Over PROVE InTurn'
  OBVIOUS
<1>0. UNCHANGED serverVars /\ serving' = serving /\ UNCHANGED world
  BY DEF ClientStep, serverVars, ClientNext, ParseUrl, RejectUrl, Connect, ConnectFails,
         PassOver, Reject, Greeted, NeedPassword, LoggedIn, EnterPassive, PassiveUnreadable,
         FileOk, SizeNotFound, OpenFile, ReadData, ReadEnd, ReadFails, Complete, LoggedOut,
         Proceed, connectionVars
<1>1. CASE ParseUrl \/ Connect
  <2>1. UNCHANGED <<commands, replies, refused>> /\ stage \in Greeting /\ stage' \in Greeting
    BY <1>1 DEF ParseUrl, Connect, connectionVars, Greeting
  <2> QED
    BY <1>0, <2>1 DEF InTurn, Greeting, Loading
<1>2. CASE PassOver
  <2>1. PICK r \in Reads : PassedOver(r) /\ replies' = r.rest
    BY <1>2 DEF PassOver
  <2>2. stage \in Waiting /\ stage' = stage /\ UNCHANGED <<commands, refused>>
    BY <1>2 DEF PassOver, clientVars
  <2>3. stage = "user" /\ r.code = READY
    <3>1. Expectation[stage] # NoCode
      BY <2>2, Stages, Codes DEF Granting
    <3> QED
      BY <2>1, <2>2, <3>1, Stages, ReadInTurn, Codes DEF PassedOver
  <2>4. replies' \in {<<>>} \cup IF commands # <<>> THEN {} ELSE {<<PASSWORD>>, <<REFUSED>>}
    BY <2>1, <2>2, <2>3, ReadInTurn
  <2>5. \A i \in 1 .. Len(replies') : replies'[i] = REFUSED => refused
    BY <2>1, <2>2, ReadInTurn
  <2>6. serving # "new" /\ serving # "sending"
    BY <2>3 DEF InTurn, Greeting, Loading
  <2> QED
    BY <1>0, <2>2, <2>3, <2>4, <2>5, <2>6 DEF InTurn, Greeting, Loading
<1>3. CASE Greeted
  BY <1>0, <1>3, CommandInTurn DEF Greeted, Proceed, Asked
<1>4. CASE NeedPassword
  BY <1>0, <1>4, CommandInTurn DEF NeedPassword, Proceed, Asked
<1>5. CASE LoggedIn
  BY <1>0, <1>5, CommandInTurn DEF LoggedIn, Proceed, Asked
<1>6. CASE Complete
  BY <1>0, <1>6, CommandInTurn DEF Complete, Proceed, Asked
<1>7. CASE EnterPassive
  <2>1. PICK r \in Reads : Granted("pasv", r)
    BY <1>7 DEF EnterPassive
  <2>2. refused => refused'
    BY <1>7, Zenon DEF EnterPassive
  <2>3. /\ commands' = Append(commands, [verb |-> Asked["retr"], text |-> <<".">> \o link.path])
        /\ stage' = "retr"
    BY <1>7 DEF EnterPassive, Asked
  <2> QED
    BY <1>0, <2>1, <2>2, <2>3, CommandInTurn DEF Asked
<1>8. CASE FileOk
  <2>1. PICK r \in Reads : Granted("retr", r)
    BY <1>8 DEF FileOk
  <2>2. stage = "retr" /\ stage \in Waiting /\ replies' = r.rest
    BY <2>1, Stages DEF Granted
  <2>3. stage' = "open" /\ UNCHANGED <<commands, refused>>
    BY <1>8 DEF FileOk
  <2>4. /\ commands = <<>>
        /\ r.rest \in {<<>>} \cup IF serving = "sending" THEN {} ELSE {<<END_OF_DATA>>}
    BY <2>2, ReadInTurn
  <2>5. \A i \in 1 .. Len(replies') : replies'[i] = REFUSED => refused
    BY <2>2, ReadInTurn
  <2>6. serving # "new"
    BY <2>2 DEF InTurn, Greeting
  <2> QED
    BY <1>0, <2>2, <2>3, <2>4, <2>5, <2>6 DEF InTurn, Greeting, Loading
<1>9. CASE OpenFile \/ ReadData \/ ReadEnd
  <2>1. /\ UNCHANGED <<commands, replies, refused>>
        /\ stage \in Loading /\ stage' \in Loading
    BY <1>9 DEF OpenFile, ReadData, ReadEnd, AfterRead, connectionVars, Loading, Over
  <2> QED
    BY <1>0, <2>1 DEF InTurn, Greeting, Loading
<1>10. CASE \/ RejectUrl \/ ConnectFails \/ Reject \/ PassiveUnreadable
            \/ SizeNotFound \/ ReadFails \/ LoggedOut
  BY <1>10 DEF RejectUrl, ConnectFails, Reject, PassiveUnreadable, SizeNotFound, ReadFails,
               LoggedOut, Over
<1> QED
  BY <1>1, <1>2, <1>3, <1>4, <1>5, <1>6, <1>7, <1>8, <1>9, <1>10 DEF ClientStep, ClientNext

(* The lines of an orderly server.                                         *)
LEMMA OrderlyReply ==
  ASSUME Orderly
  PROVE  /\ Reply(READY) \in {<<READY>>, <<READY, READY>>}
         /\ \A c : c # READY => Reply(c) = <<c>>
  BY DEF Orderly, Reply

(* The steps of the server keep the turns.                                 *)
LEMMA ServerInTurn ==
  ASSUME IInv, Orderly, InTurn, ServerStep, stage \notin Over
  PROVE  InTurn'
<1>0. UNCHANGED <<world, stage>>
  BY DEF ServerStep, clientVars, ServerNext, Greet, Serve, Refuse, SendData, EndData, Vanish
<1>a. commands \in Seq(Command) /\ replies \in Seq(Line)
  BY DEF IInv, TypeOK, ConnectionTypeOK
<1>1. CASE Greet
  <2>1. stage \in Greeting /\ replies = <<>> /\ commands = <<>>
    BY <1>1 DEF InTurn, Greet
  <2>2. replies' \in {<<READY>>, <<READY, READY>>}
    BY <1>1, <2>1, OrderlyReply, Few DEF Greet
  <2>3. \A i \in 1 .. Len(replies') : replies'[i] # REFUSED
    BY <2>2, Few, Codes
  <2>4. commands' = <<>> /\ serving' = "ready" /\ stage' \in Greeting
    BY <1>0, <1>1, <2>1 DEF Greet
  <2> QED
    BY <2>2, <2>3, <2>4 DEF InTurn, Greeting, Loading
<1>2. ASSUME commands # <<>>
      PROVE  /\ Len(commands) = 1 /\ Tail(commands) = <<>>
             /\ stage \in {"user", "pass", "pasv", "retr", "quit"}
             /\ Head(commands).verb = Asked[stage]
             /\ Answer[Asked[stage]] = Expectation[stage]
             /\ replies \in {<<>>} \cup IF stage = "user" THEN {<<READY>>} ELSE {}
  <2>1. Len(commands) = 1 /\ stage \in DOMAIN Asked /\ commands[1].verb = Asked[stage]
    BY <1>2 DEF InTurn
  <2>2. Tail(commands) = <<>> /\ Head(commands) = commands[1]
    <3>1. Tail(commands) \in Seq(Command) /\ Len(Tail(commands)) = 0
      BY <1>a, <1>2, <2>1, HeadTailProperties
    <3>2. Tail(commands) = <<>>
      <4> DEFINE t == Tail(commands)
      <4>1. t \in Seq(Command) /\ Len(t) = 0
        BY <3>1
      <4> HIDE DEF t
      <4>2. t = <<>>
        BY <4>1, EmptySeq
      <4> QED
        BY <4>2 DEF t
    <3>3. Head(commands) = commands[1]
      BY <1>a, <2>1
    <3> QED
      BY <3>2, <3>3
  <2>3. stage \in {"user", "pass", "pasv", "retr", "quit"}
    BY <2>1 DEF Asked
  <2>4. Answer[Asked[stage]] = Expectation[stage]
    BY <2>3 DEF Asked, Answer, Expectation
  <2>5. replies \in {<<>>} \cup IF stage = "user" THEN {<<READY>>} ELSE {}
    BY <1>2, <2>3 DEF InTurn
  <2> QED
    BY <2>1, <2>2, <2>3, <2>4, <2>5
<1>3. CASE Serve
  <2>1. commands # <<>> /\ commands' = <<>> /\ UNCHANGED refused
    BY <1>2, <1>3 DEF Serve
  <2>2. replies' = replies \o <<Expectation[stage]>>
    <3>1. Expectation[stage] # READY
      BY <1>2, <2>1, Stages, Codes
    <3> QED
      BY <1>2, <1>3, <2>1, <3>1, OrderlyReply DEF Serve
  <2>3. /\ replies' \in {<<Expectation[stage]>>, <<READY, Expectation[stage]>>}
        /\ stage # "user" => replies' = <<Expectation[stage]>>
    <3>1. replies = <<>> => replies' = <<Expectation[stage]>>
      BY <2>2, Few
    <3>2. replies = <<READY>> => replies' = <<READY, Expectation[stage]>>
      BY <2>2, Few
    <3> QED
      BY <1>2, <2>1, <3>1, <3>2
  <2>4. \A i \in 1 .. Len(replies') : replies'[i] # REFUSED
    <3>1. Expectation[stage] # REFUSED /\ READY # REFUSED
      BY <1>2, <2>1, Codes DEF Granting
    <3> QED
      BY <2>3, <3>1, Few
  <2>5. serving' \in {"ready", "sending"} /\ (serving' = "sending" => stage = "retr")
    <3>1. Asked[stage] = "RETR" => stage = "retr"
      BY <1>2, <2>1 DEF Asked
    <3> QED
      BY <1>2, <1>3, <2>1, <3>1 DEF Serve
  <2>6. stage \notin Greeting /\ stage \notin Loading
    BY <1>2, <2>1 DEF Greeting, Loading
  <2>7. CASE stage = "user"
    <3>1. serving' = "ready"
      BY <2>5, <2>7
    <3>2. replies' \in {<<PASSWORD>>, <<READY, PASSWORD>>}
      BY <2>3, <2>7, Codes
    <3> QED
      BY <1>0, <2>1, <2>4, <2>6, <2>7, <3>1, <3>2 DEF InTurn
  <2>8. CASE stage \in {"pass", "pasv", "quit"}
    <3>1. serving' = "ready" /\ replies' = <<Expectation[stage]>>
      BY <2>3, <2>5, <2>8
    <3> QED
      BY <1>0, <2>1, <2>4, <2>6, <2>8, <3>1 DEF InTurn
  <2>9. CASE stage = "retr"
    <3>1. replies' = <<FILE_OK>>
      BY <2>3, <2>9, Codes
    <3> QED
      BY <1>0, <2>1, <2>4, <2>5, <2>6, <2>9, <3>1 DEF InTurn
  <2> QED
    BY <1>2, <2>1, <2>7, <2>8, <2>9
<1>4. CASE Refuse /\ commands # <<>>
  <2>1. serving = "ready" /\ commands' = <<>>
    <3>1. serving # "new"
      BY <1>2, <1>4 DEF InTurn, Greeting
    <3> QED
      BY <1>2, <1>4, <3>1 DEF Refuse
  <2>2. replies' \in {<<REFUSED>>} \cup IF stage = "user" THEN {<<READY, REFUSED>>} ELSE {}
    <3>1. replies' = Append(replies, REFUSED)
      BY <1>4 DEF Refuse
    <3>2. replies = <<>> => replies' = <<REFUSED>>
      BY <3>1, Few
    <3>3. replies = <<READY>> => replies' = <<READY, REFUSED>>
      BY <3>1, Few
    <3> QED
      BY <1>2, <1>4, <3>2, <3>3
  <2>3. refused' = TRUE /\ serving' = "ready"
    BY <1>4 DEF Refuse
  <2>4. stage \in {"user", "pass", "pasv", "retr", "quit"}
        /\ stage \notin Greeting /\ stage \notin Loading
    BY <1>2, <1>4 DEF Greeting, Loading
  <2> QED
    BY <1>0, <2>1, <2>2, <2>3, <2>4 DEF InTurn
<1>5. CASE Refuse /\ commands = <<>>
  <2>1. serving = "new" /\ commands' = <<>> /\ replies' = Append(replies, REFUSED)
        /\ refused' = TRUE /\ serving' = "ready"
    BY <1>5 DEF Refuse
  <2>2. stage \in Greeting /\ replies' = <<REFUSED>>
    BY <2>1, Few DEF InTurn
  <2> QED
    BY <1>0, <2>1, <2>2 DEF InTurn, Greeting, Loading
<1>6. CASE SendData
  BY <1>0, <1>6 DEF SendData, InTurn
<1>7. CASE EndData
  <2>1. /\ serving = "sending" /\ serving' = "ready"
        /\ UNCHANGED <<commands, refused>>
        /\ replies' = replies \o Reply(END_OF_DATA)
    BY <1>7 DEF EndData
  <2>2. commands = <<>> /\ stage \in {"retr"} \cup Loading
    BY <2>1 DEF InTurn
  <2>3. Reply(END_OF_DATA) = <<END_OF_DATA>>
    BY OrderlyReply DEF END_OF_DATA, READY
  <2>4. IF stage = "retr" THEN replies' = <<FILE_OK, END_OF_DATA>>
                          ELSE replies' = <<END_OF_DATA>>
    BY <2>1, <2>2, <2>3, Few DEF InTurn, Loading
  <2>5. \A i \in 1 .. Len(replies') : replies'[i] # REFUSED
    BY <2>4, Few, Codes DEF Granting
  <2> QED
    BY <1>0, <2>1, <2>2, <2>4, <2>5 DEF InTurn, Greeting, Loading
<1>8. CASE Vanish
  <2>1. UNCHANGED <<commands, replies, refused>> /\ serving' = "gone"
    BY <1>8 DEF Vanish
  <2> QED
    BY <1>0, <2>1 DEF InTurn, Greeting, Loading
<1> QED
  BY <1>1, <1>3, <1>4, <1>5, <1>6, <1>7, <1>8 DEF ServerStep, ServerNext

(* An anonymous address leads to its own host.                             *)
LEMMA HostFound ==
  ASSUME world \in Worlds, world.url.form = "anonymous"
  PROVE  /\ parseURL(world.url.typed) # {}
         /\ \A l \in parseURL(world.url.typed) :
              l.host = world.url.host /\ l.port = world.url.port
<1>1. world.url.typed = Scheme \o world.url.host \o world.url.path
  BY FtpAssumption DEF Typed
<1>2. /\ world.url.host \in Seq(HostChar) /\ world.url.host # <<>>
      /\ world.url.path \in Seq(PathChar) /\ Len(world.url.path) >= 2
      /\ world.url.path[1] = "/" /\ world.url.port = ANONIMOUS_PORT
  BY AddressAssumption, AnonymousAssumption
<1>3. Len(world.url.host) >= 1
  BY <1>2
<1>4. parseURL(world.url.typed)
      = {[user |-> ANONIMOUS_USER, password |-> ANONIMOUS_PASSWORD, host |-> world.url.host,
          port |-> ANONIMOUS_PORT, path |-> world.url.path]}
  BY <1>1, <1>2, <1>3, AnonymousAsTyped
<1> QED
  BY <1>2, <1>4

(* With nothing to blame the client's steps do not lead to a failure.      *)
LEMMA ClientUnfailing ==
  ASSUME IInv, Blameless, Unfailing, stage \notin Over => InTurn, ClientStep, ~refused'
  PROVE  Unfailing'
<1>0. world \in Worlds /\ Orderly /\ ~world.cut /\ world.disk
  BY DEF IInv, TypeOK, ConnectionTypeOK, Blameless, Orderly
<1>1. ASSUME stage \in Waiting, NEW r \in Reads
      PROVE  r.held = "whole" /\ r.code \in {READY, Expectation[stage]}
  <2>1. stage \notin Over
    BY <1>1, Stages
  <2> QED
    BY <1>0, <1>1, <2>1, ReadInTurn DEF Blameless
<1>2. \A s \in Waiting, r \in Reads : Granted(s, r) => r.held = "whole"
  BY <1>1 DEF Granted
<1>3. CASE ParseUrl
  BY <1>0, <1>3, HostFound DEF ParseUrl, Unfailing, Reachable, connectionVars, Blameless
<1>4. CASE RejectUrl
  BY <1>0, <1>4, HostFound DEF RejectUrl, Blameless
<1>5. CASE ConnectFails
  BY <1>5 DEF ConnectFails, Unfailing
<1>6. CASE Reject
  <2>1. PICK r \in Reads : Taken(r) /\ r.code # Expectation[stage]
    BY <1>6 DEF Reject
  <2> QED
    BY <1>1, <1>6, <2>1 DEF Reject, Taken
<1>7. CASE EnterPassive
  <2>1. \A r \in Reads : Granted("pasv", r) => r.held # "part"
    BY <1>2, Stages
  <2>2. dataFd' = "socket"
    BY <1>7, <2>1 DEF EnterPassive
  <2> QED
    BY <1>7, <2>2 DEF EnterPassive, Unfailing
<1>8. CASE PassiveUnreadable \/ SizeNotFound
  BY <1>2, <1>8, Stages DEF PassiveUnreadable, SizeNotFound
<1>9. CASE OpenFile
  BY <1>0, <1>9 DEF OpenFile, Unfailing
<1>10. CASE ReadFails
  BY <1>10 DEF ReadFails, Unfailing
<1>11. CASE Connect \/ FileOk \/ ReadData \/ ReadEnd \/ LoggedOut
  BY <1>11 DEF Connect, FileOk, ReadData, ReadEnd, LoggedOut, AfterRead, Unfailing
<1>12. CASE Greeted \/ NeedPassword \/ LoggedIn \/ Complete
  BY <1>12 DEF Greeted, NeedPassword, LoggedIn, Complete, Proceed, Unfailing
<1>13. CASE PassOver
  BY <1>13, Stages DEF PassOver, clientVars, Unfailing
<1> QED
  BY <1>3, <1>4, <1>5, <1>6, <1>7, <1>8, <1>9, <1>10, <1>11, <1>12, <1>13
     DEF ClientStep, ClientNext

(* The world stays and no refusal is forgotten.                            *)
LEMMA WorldStays ==
  ASSUME [Next]_vars
  PROVE  world' = world /\ (refused => refused')
<1>1. CASE ClientStep
  <2>1. world' = world
    BY <1>1 DEF ClientStep, ClientNext, ParseUrl, RejectUrl, Connect, ConnectFails,
         PassOver, Reject, Greeted, NeedPassword, LoggedIn, EnterPassive, PassiveUnreadable,
         FileOk, SizeNotFound, OpenFile, ReadData, ReadEnd, ReadFails, Complete, LoggedOut,
         Proceed, connectionVars
  <2>2. refused => refused'
    BY <1>1, Zenon DEF ClientStep, ClientNext, ParseUrl, RejectUrl, Connect, ConnectFails,
         PassOver, Reject, Greeted, NeedPassword, LoggedIn, EnterPassive, PassiveUnreadable,
         FileOk, SizeNotFound, OpenFile, ReadData, ReadEnd, ReadFails, Complete, LoggedOut,
         Proceed, connectionVars
  <2> QED
    BY <2>1, <2>2
<1>2. CASE ServerStep
  BY <1>2 DEF ServerStep, ServerNext, Greet, Serve, Refuse, SendData, EndData, Vanish
<1>3. CASE UNCHANGED vars
  BY <1>3 DEF vars, connectionVars
<1> QED
  BY <1>1, <1>2, <1>3 DEF Next

(* TurnInv without the types.                                              *)
Turns == (Orderly /\ stage \notin Over => InTurn) /\ (Blameless => Unfailing)

LEMMA TurnParts == TurnInv <=> TypeOK /\ Turns
  BY DEF TurnInv, Turns

LEMMA TurnsInit == Init => Turns
  BY DEF Init, ConnectionInit, ClientInit, ServerInit, Turns, InTurn, Unfailing, Greeting, Loading

LEMMA TurnsNext == IInv /\ Turns /\ [Next]_vars => Turns'
<1> SUFFICES ASSUME IInv, Turns, [Next]_vars PROVE Turns'
  OBVIOUS
<1>1. world' = world /\ (refused => refused')
  BY WorldStays
<1>2. (Orderly' => Orderly) /\ (Blameless' => Blameless /\ ~refused')
  BY <1>1 DEF Orderly, Blameless
<1>3. CASE ClientStep
  <2>1. stage \notin Over
    BY <1>3, Stages DEF ClientStep, ClientNext, ParseUrl, RejectUrl, Connect, ConnectFails,
         PassOver, Reject, Greeted, NeedPassword, LoggedIn, EnterPassive, PassiveUnreadable,
         FileOk, SizeNotFound, OpenFile, ReadData, ReadEnd, ReadFails, Complete, LoggedOut,
         Proceed, Granted
  <2>2. Orderly => InTurn
    BY <2>1 DEF Turns
  <2>3. (Orderly /\ stage \notin Over => InTurn)'
    BY <1>2, <1>3, <2>2, ClientInTurn
  <2>4. (Blameless => Unfailing)'
    BY <1>2, <1>3, <2>2, ClientUnfailing DEF Turns, Blameless
  <2> QED
    BY <2>3, <2>4 DEF Turns
<1>4. CASE ServerStep
  <2>1. UNCHANGED clientVars
    BY <1>4 DEF ServerStep
  <2>2. (Orderly /\ stage \notin Over => InTurn)'
    BY <1>2, <1>4, <2>1, ServerInTurn DEF Turns, clientVars
  <2>3. (Blameless => Unfailing)'
    BY <1>1, <1>2, <2>1 DEF Turns, clientVars, Unfailing, Reachable
  <2> QED
    BY <2>2, <2>3 DEF Turns
<1>5. CASE UNCHANGED vars
  BY <1>1, <1>2, <1>5 DEF vars, connectionVars, clientVars, serverVars, Turns, InTurn,
     Unfailing, Reachable
<1> QED
  BY <1>3, <1>4, <1>5 DEF Next

(* Client and server take turns on the control connection (code:           *)
(* sendCommand and ftpExpectCommand alternating in main).                  *)
THEOREM TurnsTaken == Spec => []TurnInv
<1>1. Init => IInv /\ Turns
  BY InitInv, TurnsInit
<1>2. (IInv /\ Turns) /\ [Next]_vars => (IInv /\ Turns)'
  BY NextInv, TurnsNext
<1>3. IInv /\ Turns => TurnInv
  BY TurnParts DEF IInv
<1> QED
  BY <1>1, <1>2, <1>3, PTL DEF Spec

(* With orderly replies the client fails only when it was refused, the     *)
(* file cannot be opened or the address is not anonymous (code: main of    *)
(* download.c).                                                            *)
THEOREM NoNeedlessFailure == Spec => []FailsOnlyWhenRefused
<1>1. TurnInv => FailsOnlyWhenRefused
  BY DEF TurnInv, FailsOnlyWhenRefused, Blameless, Unfailing
<1> QED
  BY <1>1, TurnsTaken, PTL

(* No command is sent while an answer that could be taken for its own is   *)
(* unread (code: ftpExpectCommand before each sendCommand).                *)
THEOREM OwnAnswers == Spec => InStep
<1>1. ASSUME IInv, Turns, [Next]_vars, Len(commands') > Len(commands), Orderly
      PROVE  \A i \in 1 .. Len(replies') : replies'[i] = READY
  <2>0. commands \in Seq(Command)
    BY <1>1 DEF IInv, TypeOK, ConnectionTypeOK
  <2>1. ClientStep
    <3>1. CASE ServerStep
      <4>1. commands' = commands \/ (commands # <<>> /\ commands' = Tail(commands))
        BY <3>1 DEF ServerStep, ServerNext, Greet, Serve, Refuse, SendData, EndData, Vanish
      <4>2. commands # <<>> => Len(Tail(commands)) = Len(commands) - 1
        BY <2>0
      <4> QED
        BY <1>1, <2>0, <4>1, <4>2
    <3>2. CASE UNCHANGED vars
      BY <1>1, <2>0, <3>2 DEF vars, connectionVars
    <3> QED
      BY <1>1, <3>1, <3>2 DEF Next
  <2>2. Greeted \/ NeedPassword \/ LoggedIn \/ Complete \/ EnterPassive
    <3>1. commands' # commands
      BY <1>1, <2>0
    <3> QED
      BY <2>1, <3>1 DEF ClientStep, ClientNext, ParseUrl, RejectUrl, Connect, ConnectFails,
         PassOver, Reject, PassiveUnreadable, FileOk, SizeNotFound, OpenFile, ReadData,
         ReadEnd, ReadFails, LoggedOut, connectionVars
  <2>3. \E r \in Reads, s \in {"greeting", "user", "pass", "pasv", "complete"} :
          Granted(s, r)
    BY <2>2 DEF Greeted, NeedPassword, LoggedIn, Complete, EnterPassive, Proceed
  <2>4. PICK r \in Reads, s \in {"greeting", "user", "pass", "pasv", "complete"} :
          Granted(s, r)
    BY <2>3
  <2>5. /\ stage = s /\ stage \in Waiting /\ stage \notin Over
        /\ replies' = r.rest /\ r.code = Expectation[stage]
    BY <2>4, Stages DEF Granted
  <2>6. InTurn
    BY <1>1, <2>5 DEF Turns
  <2>7. r.rest \in {<<>>, <<READY>>}
    BY <1>1, <2>5, <2>6, ReadInTurn, Codes
  <2> QED
    BY <2>5, <2>7, Few
<1>2. Init => IInv /\ Turns
  BY InitInv, TurnsInit
<1>3. (IInv /\ Turns) /\ [Next]_vars => (IInv /\ Turns)'
  BY NextInv, TurnsNext
<1>4. IInv /\ Turns /\ [Next]_vars
      => [Len(commands') > Len(commands) /\ Orderly
          => \A i \in 1 .. Len(replies') : replies'[i] = READY]_vars
  BY <1>1
<1> QED
  BY <1>2, <1>3, <1>4, PTL DEF Spec, InStep

-----------------------------------------------------------------------------
(* The parts of the address in a session.                                  *)

(* The parts l are those of the address u, but for the path of an address  *)
(* in brackets.                                                            *)
Fits(l, u) ==
  /\ u.form = "anonymous" =>
       /\ l.user = u.user /\ l.password = u.password /\ l.host = u.host
       /\ l.path = u.path /\ l.port = u.port
  /\ u.form = "brackets" =>
       /\ l.user = u.user /\ l.password = u.password /\ l.host = u.host
       /\ l.path \in Text /\ Len(l.path) >= 1 /\ l.path[1] = ":"

LEMMA ParsedFits ==
  ASSUME world \in Worlds
  PROVE  /\ parseURL(world.url.typed) = {} <=> world.url.form = "usage"
         /\ \A l \in parseURL(world.url.typed) : Fits(l, world.url)
<1>1. PICK u : u = world.url
  OBVIOUS
<1>2. u.typed = Typed(u) /\ u.form \in {"anonymous", "brackets", "usage"}
  <2>1. world \in World /\ world.url.typed = Typed(world.url)
    BY FtpAssumption
  <2>2. world.url \in Url
    BY <2>1 DEF World
  <2> QED
    BY <1>1, <2>1, <2>2 DEF Url
<1>3. PICK host \in Seq(HostChar), path \in Seq(PathChar) :
        /\ u.host = host /\ u.path = path
        /\ host # <<>> /\ Len(path) >= 2 /\ path[1] = "/"
  BY <1>1, AddressAssumption, Zenon
<1>4. CASE u.form = "anonymous"
  <2>1. u.typed = Scheme \o host \o path
    BY <1>2, <1>3, <1>4 DEF Typed
  <2>2. /\ u.user = ANONIMOUS_USER /\ u.password = ANONIMOUS_PASSWORD
        /\ u.port = ANONIMOUS_PORT
    BY <1>1, <1>4, AnonymousAssumption
  <2>3. Len(host) >= 1
    BY <1>3
  <2>4. parseURL(u.typed)
        = {[user |-> ANONIMOUS_USER, password |-> ANONIMOUS_PASSWORD, host |-> host,
            port |-> ANONIMOUS_PORT, path |-> path]}
    BY <1>3, <2>1, <2>3, AnonymousAsTyped
  <2>5. parseURL(u.typed) # {} /\ \A l \in parseURL(u.typed) : Fits(l, u)
    BY <1>3, <1>4, <2>2, <2>4 DEF Fits
  <2> QED
    BY <1>1, <1>4, <2>5
<1>5. ASSUME u.form # "anonymous"
      PROVE  \E user \in Seq(UserChar), pw \in Seq(Alnum), digits \in Seq(Digit) :
               /\ u.user = user /\ u.password = pw /\ u.port = digits
               /\ user # <<>> /\ pw # <<>> /\ digits # <<>>
  BY <1>1, <1>5, CredentialsAssumption, Zenon
<1>6. CASE u.form = "brackets"
  <2>1. PICK user \in Seq(UserChar), pw \in Seq(Alnum), digits \in Seq(Digit) :
          /\ u.user = user /\ u.password = pw /\ u.port = digits
          /\ user # <<>> /\ pw # <<>> /\ digits # <<>>
    BY <1>5, <1>6
  <2>2. PICK str : str = u.typed /\ str = InBrackets(user, pw, host, digits, path)
    <3>1. u.typed = InBrackets(u.user, u.password, u.host, u.port, u.path)
      BY <1>2, <1>6 DEF Typed, InBrackets
    <3> QED
      BY <1>3, <2>1, <3>1, Zenon
  <2>3. /\ parseURL(str) # {}
        /\ \A l \in parseURL(str) :
             /\ l.user = user /\ l.password = pw /\ l.host = host
             /\ l.path \in Text /\ Len(l.path) >= 1 /\ l.path[1] = ":"
    BY <1>3, <2>1, <2>2, BracketsAsTyped
  <2> QED
    BY <1>1, <1>3, <1>6, <2>1, <2>2, <2>3 DEF Fits
<1>7. CASE u.form = "usage"
  <2>1. PICK user \in Seq(UserChar), pw \in Seq(Alnum), digits \in Seq(Digit) :
          /\ u.user = user /\ u.password = pw /\ u.port = digits
          /\ user # <<>> /\ pw # <<>> /\ digits # <<>>
    BY <1>5, <1>7
  <2>2. PICK str : str = u.typed /\ str = AsUsage(user, pw, host, digits, path)
    <3>1. u.typed = AsUsage(u.user, u.password, u.host, u.port, u.path)
      BY <1>2, <1>7 DEF Typed, AsUsage
    <3> QED
      BY <1>3, <2>1, <3>1, Zenon
  <2>3. parseURL(str) = {}
    BY <2>1, <2>2, UsageRejected
  <2> QED
    BY <1>1, <1>7, <2>2, <2>3
<1> QED
  BY <1>2, <1>4, <1>6, <1>7

(* No file is asked for that the server has, so no file is sent.           *)
OtherThan(path) == {c \in Command : c.verb = "RETR" => c.text # <<".">> \o path}
Early == {"start", "connect", "greeting", "user", "pass", "pasv", "retr", "failed", "crashed"}
Unserved ==
  /\ stage \in Early
  /\ replies \in Seq(Line \ {FILE_OK})
  /\ commands \in Seq(OtherThan(world.url.path))

(* The parts are those of the address.  An address in brackets asks for    *)
(* another file, and the form of printUsage does not get that far.         *)
Parts ==
  /\ stage # "start" => Fits(link, world.url)
  /\ world.url.form = "usage" => stage \in {"start", "failed"}
  /\ world.url.form = "brackets" => Unserved
  /\ name # <<>> => world.url.form = "anonymous" /\ name = stripFileName(world.url.path)

LEMMA PartsInit == Init => Parts
<1> SUFFICES ASSUME Init PROVE Parts
  OBVIOUS
<1>1. stage = "start" /\ name = <<>> /\ replies = <<>> /\ commands = <<>>
  BY DEF Init, ConnectionInit, ClientInit
<1>2. Unserved
  BY <1>1 DEF Unserved, Early
<1> QED
  BY <1>1, <1>2 DEF Parts

(* Where main goes on from what a read returned, and from a reply it waits *)
(* for.                                                                    *)
LEMMA UnservedReads ==
  ASSUME Unserved, NEW r \in Reads
  PROVE  /\ r.rest \in Seq(Line \ {FILE_OK})
         /\ r.code # FILE_OK
<1>1. NoCode \in Line \ {FILE_OK}
  BY DEF Line, FILE_OK, NoCode
<1>2. r.rest \in Seq(Line \ {FILE_OK}) /\ r.code \in Line \ {FILE_OK}
  BY <1>1, ReadsFrom, Zenon DEF Unserved
<1> QED
  BY <1>2

LEMMA UnservedCommand ==
  ASSUME IInv, Unserved, NEW verb \in {"USER", "PASS", "PASV", "quit"}, NEW text \in Text,
         commands' = Append(commands, [verb |-> verb, text |-> text])
  PROVE  commands' \in Seq(OtherThan(world.url.path))
<1>1. [verb |-> verb, text |-> text] \in OtherThan(world.url.path)
  BY DEF OtherThan, Command
<1> QED
  BY <1>1 DEF Unserved

(* The file that is asked for begins with the port.                        *)
LEMMA PortAskedFor ==
  ASSUME world \in Worlds, world.url.form = "brackets", Fits(link, world.url),
         Unserved, commands' = Append(commands, [verb |-> "RETR", text |-> <<".">> \o link.path])
  PROVE  commands' \in Seq(OtherThan(world.url.path))
<1>1. PICK asked \in Seq(Char) : asked = link.path /\ Len(asked) >= 1 /\ asked[1] = ":"
  BY DEF Fits, Text
<1>2. PICK path \in Seq(Char) : path = world.url.path /\ Len(path) >= 2 /\ path[1] = "/"
  <2>1. PICK path \in Seq(PathChar) : path = world.url.path /\ Len(path) >= 2 /\ path[1] = "/"
    BY AddressAssumption, Zenon
  <2>2. path \in Seq(Char)
    BY Letters
  <2> QED
    BY <2>1, <2>2, Zenon
<1>3. PICK dot \in Seq(Char) : dot = <<".">> /\ Len(dot) = 1
  <2>1. "." \in Char
    BY DEF Char
  <2>2. <<".">> \in Seq(Char) /\ Len(<<".">>) = 1
    BY <2>1
  <2> QED
    BY <2>2, Zenon
<1>4. dot \o asked \in Seq(Char) /\ Concatenated(dot \o asked, dot, asked)
      /\ Concatenated(dot \o path, dot, path)
  BY Joined
<1>5. (dot \o asked)[1 + 1] = ":" /\ (dot \o path)[1 + 1] = "/"
  <2>1. 1 \in 1 .. Len(asked) /\ 1 \in 1 .. Len(path)
    BY <1>1, <1>2
  <2>2. (dot \o asked)[Len(dot) + 1] = asked[1] /\ (dot \o path)[Len(dot) + 1] = path[1]
    BY <1>4, <2>1, Zenon DEF Concatenated
  <2> QED
    BY <1>1, <1>2, <1>3, <2>2, Zenon
<1>6. PICK text \in Text : text = <<".">> \o link.path /\ text # <<".">> \o world.url.path
  <2>1. dot \o asked # dot \o path
    BY <1>5
  <2> QED
    BY <1>1, <1>2, <1>3, <1>4, <2>1, Zenon DEF Text
<1>7. [verb |-> "RETR", text |-> text] \in OtherThan(world.url.path)
  BY <1>6 DEF OtherThan, Command
<1> QED
  BY <1>6, <1>7 DEF Unserved

(* The client is refused the file.                                         *)
LEMMA ClientUnserved ==
  ASSUME IInv, Unserved, world.url.form = "brackets",
         stage # "start" => Fits(link, world.url), ClientStep
  PROVE  Unserved'
<1>0. /\ world \in Worlds /\ link \in Link /\ <<>> \in Text
      /\ world' = world
  <2>1. world' = world
    BY WorldStays DEF Next
  <2> QED
    BY <2>1 DEF IInv, TypeOK, ConnectionTypeOK, ClientTypeOK, Text
<1>1. link.user \in Text /\ link.password \in Text
  BY <1>0 DEF Link
<1>2. \A r \in Reads : r.rest \in Seq(Line \ {FILE_OK}) /\ r.code # FILE_OK
  BY UnservedReads
<1>3. /\ replies \in Seq(Line \ {FILE_OK})
      /\ commands \in Seq(OtherThan(world.url.path))
      /\ stage \in Early
  BY DEF Unserved
<1>4. CASE ParseUrl \/ RejectUrl \/ Connect \/ ConnectFails
  BY <1>0, <1>3, <1>4
     DEF ParseUrl, RejectUrl, Connect, ConnectFails, Unserved, Early, connectionVars
<1>5. CASE PassOver \/ Reject \/ PassiveUnreadable
  BY <1>0, <1>2, <1>3, <1>5
     DEF PassOver, Reject, PassiveUnreadable, Granted, Unserved, Early, clientVars
<1>6. CASE Greeted \/ NeedPassword \/ LoggedIn
  <2>1. PICK r \in Reads : replies' = r.rest
    BY <1>6 DEF Greeted, NeedPassword, LoggedIn, Proceed, Granted
  <2>2. \E verb \in {"USER", "PASS", "PASV", "quit"}, text \in Text :
          commands' = Append(commands, [verb |-> verb, text |-> text])
    BY <1>0, <1>1, <1>6 DEF Greeted, NeedPassword, LoggedIn, Proceed
  <2>3. commands' \in Seq(OtherThan(world.url.path))
    BY <2>2, UnservedCommand
  <2>4. stage' \in Early
    BY <1>6 DEF Greeted, NeedPassword, LoggedIn, Proceed, Early
  <2> QED
    BY <1>0, <1>2, <2>1, <2>3, <2>4 DEF Unserved
<1>7. CASE EnterPassive
  <2>1. PICK r \in Reads : Granted("pasv", r)
    BY <1>7 DEF EnterPassive
  <2>2. replies' = r.rest /\ stage = "pasv"
    BY <2>1 DEF Granted
  <2>3. commands' \in Seq(OtherThan(world.url.path))
    BY <1>0, <1>7, <2>2, PortAskedFor DEF EnterPassive
  <2>4. stage' \in Early
    BY <1>7 DEF EnterPassive, Early
  <2> QED
    BY <1>0, <1>2, <2>2, <2>3, <2>4 DEF Unserved
<1>8. CASE FileOk \/ SizeNotFound
  <2>1. PICK r \in Reads : r.code = Expectation["retr"]
    BY <1>8 DEF FileOk, SizeNotFound, Granted
  <2> QED
    BY <1>2, <2>1 DEF Expectation
<1>9. CASE OpenFile \/ ReadData \/ ReadEnd \/ ReadFails \/ Complete \/ LoggedOut
  BY <1>3, <1>9 DEF OpenFile, ReadData, ReadEnd, ReadFails, Complete, LoggedOut, Proceed,
                    Granted, Early
<1> QED
  BY <1>4, <1>5, <1>6, <1>7, <1>8, <1>9 DEF ClientStep, ClientNext

(* The server has no such file.                                            *)
LEMMA ServerUnserved ==
  ASSUME IInv, Unserved, ServerStep
  PROVE  Unserved'
<1> DEFINE L == Line \ {FILE_OK}
           C == OtherThan(world.url.path)
<1>0. /\ replies \in Seq(L) /\ commands \in Seq(C) /\ stage' \in Early /\ world' = world
  <2>1. world' = world
    BY WorldStays DEF Next
  <2>2. stage' \in Early
    BY DEF ServerStep, clientVars, Unserved
  <2> QED
    BY <2>1, <2>2 DEF Unserved
<1>1. ASSUME NEW code \in Granting \ {FILE_OK} PROVE replies \o Reply(code) \in Seq(L)
  <2>1. code \in L /\ NoCode \in L
    BY DEF Line, FILE_OK, NoCode
  <2> HIDE DEF L
  <2>2. Reply(code) \in Seq(L)
    BY <2>1 DEF Reply
  <2> QED
    BY <1>0, <2>2, ConcatProperties
<1>2. commands # <<>> => Head(commands) \in C /\ Tail(commands) \in Seq(C)
  BY <1>0
<1>3. READY # FILE_OK /\ END_OF_DATA # FILE_OK /\ REFUSED \in L
  BY DEF Line, FILE_OK, READY, END_OF_DATA, REFUSED
<1>4. replies' \in Seq(L) /\ commands' \in Seq(C)
  <2>1. CASE Greet
    BY <1>0, <1>1, <1>3, <2>1 DEF Greet, Granting
  <2>2. CASE Serve
    <3>1. PICK c \in C : c = Head(commands) /\ Known(c)
      BY <1>2, <2>2 DEF Serve
    <3>2. c.verb \in {"USER", "PASS", "PASV", "quit"}
      BY <3>1 DEF OtherThan, Known, Command
    <3>3. Answer[c.verb] \in Granting \ {FILE_OK}
      BY <3>2 DEF Answer, Granting, PASSWORD, LOGGED_IN, PASSIVE, LOGOUT, FILE_OK
    <3> HIDE DEF C, L
    <3>4. replies \o Reply(Answer[c.verb]) \in Seq(L)
      BY <1>1, <3>3
    <3>5. /\ replies' = replies \o Reply(Answer[Head(commands).verb])
          /\ commands # <<>> /\ commands' = Tail(commands)
      BY <2>2, Zenon DEF Serve
    <3> QED
      BY <1>2, <3>1, <3>4, <3>5, Zenon
  <2>3. CASE Refuse
    <3> HIDE DEF C, L
    <3>1. /\ replies' = Append(replies, REFUSED)
          /\ \/ commands # <<>> /\ commands' = Tail(commands)
             \/ UNCHANGED commands
      BY <2>3, Zenon DEF Refuse
    <3>2. replies' \in Seq(L)
      BY <1>0, <1>3, <3>1
    <3> QED
      BY <1>0, <1>2, <3>1, <3>2, Zenon
  <2>4. CASE EndData
    BY <1>0, <1>1, <1>3, <2>4 DEF EndData, Granting
  <2>5. CASE SendData \/ Vanish
    BY <1>0, <2>5 DEF SendData, Vanish
  <2> QED
    BY <2>1, <2>2, <2>3, <2>4, <2>5 DEF ServerStep, ServerNext
<1> QED
  BY <1>0, <1>4 DEF Unserved

LEMMA PartsNext == IInv /\ Parts /\ [Next]_vars => Parts'
<1> SUFFICES ASSUME IInv, Parts, [Next]_vars PROVE Parts'
  OBVIOUS
<1>0. world' = world /\ world \in Worlds
  BY WorldStays DEF IInv, TypeOK, ConnectionTypeOK
<1>1. CASE ClientStep
  <2>1. (stage # "start" => Fits(link, world.url))'
    <3>1. CASE ParseUrl
      BY <1>0, <3>1, ParsedFits DEF ParseUrl
    <3>2. CASE RejectUrl
      <4>1. world.url.form = "usage"
        BY <1>0, <3>2, ParsedFits DEF RejectUrl
      <4> QED
        BY <1>0, <4>1 DEF Fits
    <3>3. CASE ~ParseUrl /\ ~RejectUrl
      <4>1. UNCHANGED link /\ stage # "start"
        BY <1>1, <3>3, Stages DEF ClientStep, ClientNext, Connect, ConnectFails, PassOver, Reject,
             Greeted, NeedPassword, LoggedIn, EnterPassive, PassiveUnreadable, FileOk,
             SizeNotFound, OpenFile, ReadData, ReadEnd, ReadFails, Complete, LoggedOut,
             Proceed, Granted, clientVars
      <4> QED
        BY <1>0, <4>1 DEF Parts
    <3> QED
      BY <3>1, <3>2, <3>3
  <2>2. (world.url.form = "usage" => stage \in {"start", "failed"})'
    <3>1. CASE ParseUrl
      BY <1>0, <3>1, ParsedFits DEF ParseUrl
    <3>2. CASE RejectUrl
      BY <3>2 DEF RejectUrl
    <3>3. CASE ~ParseUrl /\ ~RejectUrl
      <4>1. stage \notin {"start", "failed"}
        BY <1>1, <3>3, Stages DEF ClientStep, ClientNext, Connect, ConnectFails, PassOver, Reject,
             Greeted, NeedPassword, LoggedIn, EnterPassive, PassiveUnreadable, FileOk,
             SizeNotFound, OpenFile, ReadData, ReadEnd, ReadFails, Complete, LoggedOut,
             Proceed, Granted
      <4> QED
        BY <1>0, <4>1 DEF Parts
    <3> QED
      BY <3>1, <3>2, <3>3
  <2>3. world.url.form = "brackets" => Unserved'
    BY <1>1, ClientUnserved DEF Parts
  <2>4. (name # <<>> => world.url.form = "anonymous" /\ name = stripFileName(world.url.path))'
    <3>1. CASE OpenFile
      <4>1. stage = "open" /\ name' = stripFileName(link.path)
        BY <3>1 DEF OpenFile
      <4>2. world.url.form \in {"anonymous", "brackets", "usage"}
        <5>1. world \in World
          BY <1>0, FtpAssumption
        <5> QED
          BY <5>1 DEF World, Url
      <4>3. world.url.form = "anonymous"
        BY <4>1, <4>2 DEF Parts, Unserved, Early
      <4>4. link.path = world.url.path
        BY <4>1, <4>3 DEF Parts, Fits
      <4> QED
        BY <1>0, <4>1, <4>3, <4>4, Zenon
    <3>2. CASE ~OpenFile
      <4>1. UNCHANGED name
        BY <1>1, <3>2 DEF ClientStep, ClientNext, ParseUrl, RejectUrl, Connect, ConnectFails,
             PassOver, Reject, Greeted, NeedPassword, LoggedIn, EnterPassive,
             PassiveUnreadable, FileOk, SizeNotFound, ReadData, ReadEnd, ReadFails,
             Complete, LoggedOut, Proceed, clientVars
      <4> QED
        BY <1>0, <4>1 DEF Parts
    <3> QED
      BY <3>1, <3>2
  <2> QED
    BY <1>0, <2>1, <2>2, <2>3, <2>4 DEF Parts
<1>2. CASE ServerStep
  <2>1. UNCHANGED <<stage, link, name>>
    BY <1>2 DEF ServerStep, clientVars
  <2>2. world.url.form = "brackets" => Unserved'
    BY <1>2, ServerUnserved DEF Parts
  <2> QED
    BY <1>0, <2>1, <2>2 DEF Parts
<1>3. CASE UNCHANGED vars
  BY <1>3 DEF vars, connectionVars, clientVars, Parts, Unserved
<1> QED
  BY <1>1, <1>2, <1>3 DEF Next

(* The address is taken apart as it was put together, and the local file   *)
(* has the last name of the path, whatever the parts are (code: parseURL,  *)
(* stripFileName, and their calls in main and downloadFile).               *)
THEOREM PartsAsTyped == Spec => []PartsOfUrl
<1>1. IInv /\ Parts => PartsOfUrl
  <2> SUFFICES ASSUME IInv, Parts PROVE PartsOfUrl
    OBVIOUS
  <2>1. name # <<>> =>
          /\ BaseName(name) = BaseName(world.url.path)
          /\ \A i \in 1 .. Len(name) - Len(BaseName(name)) : name[i] \in {".", "/"}
    <3> SUFFICES ASSUME name # <<>>
                 PROVE  /\ BaseName(name) = BaseName(world.url.path)
                        /\ \A i \in 1 .. Len(name) - Len(BaseName(name)) : name[i] \in {".", "/"}
      OBVIOUS
    <3>1. world \in Worlds
      BY DEF IInv, TypeOK, ConnectionTypeOK
    <3>2. PICK path \in Seq(PathChar) : path = world.url.path /\ Len(path) >= 2 /\ path[1] = "/"
      BY <3>1, AddressAssumption, Zenon
    <3>3. path \in Text
      BY Letters DEF Text
    <3>4. name = stripFileName(path)
      BY <3>2, Zenon DEF Parts
    <3>5. /\ BaseName(name) = BaseName(path)
          /\ \A i \in 1 .. Len(name) - Len(BaseName(name)) : name[i] \in {".", "/"}
      BY <3>2, <3>3, <3>4, LocalName
    <3> QED
      BY <3>2, <3>5, Zenon
  <2>2. stage # "start" => Fits(link, world.url)
    BY DEF Parts
  <2> QED
    BY <2>1, <2>2 DEF PartsOfUrl, Fits
<1>2. Init => IInv /\ Parts
  BY InitInv, PartsInit
<1>3. IInv /\ Parts /\ [Next]_vars => (IInv /\ Parts)'
  BY NextInv, PartsNext
<1> QED
  BY <1>1, <1>2, <1>3, PTL DEF Spec

=============================================================================
