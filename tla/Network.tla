-------------------------------- MODULE Network --------------------------------
(***************************************************************************)
(* The cookie jar (04-browser, src/net/cookies.rs) and what an HTTP        *)
(* response makes of a request (src/net/http.rs).                          *)
(*                                                                         *)
(* A host is the sequence of its labels.  A path is the sequence of its    *)
(* segments, the last one "" when it ends in a slash: <<"">> is "/".       *)
(* A Set-Cookie header is a record; an absent domain or path is << >>.     *)
(* The life of a cookie is "session", "dated" (it expires some time) or    *)
(* "past".  The order in which cookies are sent is left out.               *)
(***************************************************************************)
EXTENDS Naturals, Sequences, SequencesExt

DefaultPath(path) == IF Len(path) = 1 THEN <<"">> ELSE Front(path)

ParseSetCookie(header, address) ==
  [name |-> header.name, value |-> header.value, life |-> header.life, secure |-> header.secure,
   domain   |-> IF header.domain = << >> THEN address.host ELSE header.domain,
   hostOnly |-> header.domain = << >>,
   path     |-> IF header.path = << >> THEN DefaultPath(address.path) ELSE header.path]

SameCookie(c, d) == c.domain = d.domain /\ c.name = d.name /\ c.path = d.path

\* Mutant: an expired cookie is not stored, and deletes nothing.
StoreOnly(jar, c) ==
  IF c.life = "past" THEN jar ELSE {d \in jar : ~SameCookie(d, c)} \cup {c}

\* The jar is a set of cookies.  An expired cookie deletes its namesake.
Store(jar, c) ==
  {d \in jar : ~SameCookie(d, c)} \cup (IF c.life = "past" THEN {} ELSE {c})

DomainMatches(c, host) == host = c.domain \/ (~c.hostOnly /\ IsSuffix(c.domain, host))

PathMatches(cookie, path) ==
  \/ IsPrefix(cookie, path)
  \/ Last(cookie) = "" /\ Len(path) >= Len(cookie) /\ IsPrefix(Front(cookie), path)

Matches(c, address) ==
  /\ c.life # "past"
  /\ c.secure => address.secure
  /\ DomainMatches(c, address.host)
  /\ PathMatches(c.path, address.path)

CookiesFor(jar, address) == {c \in jar : Matches(c, address)}

Parsed(headers, address) ==
  [i \in 1 .. Len(headers) |-> ParseSetCookie(headers[i], address)]

\* A header without a name gives no cookie.
IsCookie(c) == c.name # ""

\* The cookies of an answer, one after the other.
StoreAll(jar, cookies) ==
  LET after[i \in 0 .. Len(cookies)] ==
        IF i = 0 THEN jar
        ELSE IF IsCookie(cookies[i]) THEN Store(after[i - 1], cookies[i]) ELSE after[i - 1]
  IN after[Len(cookies)]

Redirects == {301, 302, 303, 307, 308}
\* The method changes, the body does not.
MethodAfter(method, status) == IF status \in {301, 302, 303} THEN "GET" ELSE method
================================================================================
