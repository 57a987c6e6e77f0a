-------------------------------- MODULE Texts --------------------------------
(* String::string's operations (String/src/string.cpp), its hexadecimal texts, *)
(* the names of types (Memory/src/typeinfod.cpp) and the URLs of String, HTTP  *)
(* and CWS.  A text is a sequence of characters, which are their codes.  A     *)
(* result is [status, ...]: "ok", "throw" for an exception of the library, or  *)
(* "fault" where the process reads or writes memory that is not its own.       *)
EXTENDS Integers, Sequences, SequencesExt, FiniteSetsExt

CONSTANT MaxPort      \* 0xFFFF

NUL == 0
Colon == 58
Slash == 47
NotFound == -1
Code(first, last, c) == c >= first /\ c <= last
UpperCase(c) == Code(65, 90, c)
LowerCase(c) == Code(97, 122, c)
Decimal(c) == Code(48, 57, c)

lower(s) == [i \in DOMAIN s |-> IF UpperCase(s[i]) THEN s[i] + 32 ELSE s[i]]
upper(s) == [i \in DOMAIN s |-> IF LowerCase(s[i]) THEN s[i] - 32 ELSE s[i]]

\* search(): the first place of a character, from 0.
search(s, c) ==
  IF \E i \in DOMAIN s : s[i] = c
  THEN (CHOOSE i \in DOMAIN s : s[i] = c /\ \A j \in 1 .. i - 1 : s[j] # c) - 1
  ELSE NotFound

\* strlen(): up to the first zero byte of what native() ends with one.
native(s) == Append(s, NUL)
strlen(s) == search(native(s), NUL)
UpToNul(s) == SubSeq(s, 1, strlen(s))

\* strcmp() of both.
Below(s, t) ==
  LET a == native(s)
      b == native(t)
  IN \E i \in DOMAIN a \cap DOMAIN b : /\ a[i] < b[i]
                                       /\ \A j \in 1 .. i - 1 : a[j] = b[j] /\ a[j] # NUL
Less(s, t) == Below(s, t)                \* operator<
Equal(s, t) == s = t                     \* operator==
Plus(s, t) == s \o t                     \* operator+= and operator+ of two texts
PlusLiteral(s, t) == s \o UpToNul(t)     \* ... of a const char *
PlusChar(s, c) == PlusLiteral(s, <<c>>)  \* ... of a char, by way of a const char *
At(s, i) == IF i < Len(s) THEN <<s[i + 1]>> ELSE <<>>

\* Hexadecimal::format, ::stringify and String::stringify(void *).
HexDigit(n) == IF n < 10 THEN 48 + n ELSE 55 + n
HexFormat(bytes) ==
  [i \in 1 .. 2 * Len(bytes) |->
     LET byte == bytes[(i + 1) \div 2] IN HexDigit(IF i % 2 = 1 THEN byte \div 16 ELSE byte % 16)]
HexStringify(x) ==
  LET width == CHOOSE n \in 1 .. 8 : x < 16 ^ n /\ (n = 1 \/ 16 ^ (n - 1) <= x)
  IN [i \in 1 .. width |-> HexDigit((x \div 16 ^ (width - i)) % 16)]
HexPointer(x, width) == [i \in 1 .. width |-> HexDigit((x \div 16 ^ (width - i)) % 16)]

\* type_info: names decide, and one object is always itself.
SameType(a, b) == a.object = b.object \/ UpToNul(a.name) = UpToNul(b.name)
BeforeType(a, b) == Below(a.name, b.name)

-----------------------------------------------------------------------------
(* URLs.  An object keeps what a call has stored before it failed.             *)

NoUrl == [scheme |-> <<>>, specific |-> <<>>, host |-> <<>>, port |-> 443, special |-> FALSE,
          path |-> <<>>, status |-> "ok"]
Status(url, status) == [url EXCEPT !.status = status]

\* String::URL::resolve.
Resolve(url, text) ==
  LET idx == search(text, Colon)
  IN IF idx = NotFound THEN Status(url, "throw")
     ELSE [url EXCEPT !.scheme = SubSeq(text, 1, idx), !.specific = SubSeq(text, idx + 2, Len(text)),
                      !.status = "ok"]

\* String::integer of a port; a number with a sign is 0 or far too large.
Minus == 45
PortOf(digits) ==
  LET signed == digits[1] = Minus
      body == IF signed THEN Tail(digits) ELSE digits
  IN IF \E i \in DOMAIN body : ~Decimal(body[i]) THEN NotFound
     ELSE IF signed THEN 0
     ELSE FoldLeft(LAMBDA n, c : n * 10 + (c - 48), 0, body)

\* The part both protocols share: host, port and path after two characters.
HostAndPort(url, plain) ==
  LET rest == SubSeq(url.specific, 3, Len(url.specific))
      slash == search(rest, Slash)
      cut == IF slash = NotFound THEN Len(rest) ELSE slash
      hostport == SubSeq(rest, 1, cut)
      colon == search(hostport, Colon)
      path == SubSeq(rest, cut + 1, Len(rest))
      ports == SubSeq(hostport, colon + 2, Len(hostport))
      named == [url EXCEPT !.port = IF plain THEN 80 ELSE @,
                           !.path = IF path = <<>> THEN <<Slash>> ELSE path,
                           !.host = IF colon = NotFound THEN hostport ELSE SubSeq(hostport, 1, colon)]
      id == PortOf(ports)
  IN IF colon = NotFound THEN Status(named, "ok")
     ELSE IF ports = <<>> THEN Status(named, "throw")
     ELSE IF id = NotFound THEN Status(named, "fault")
     ELSE IF id > MaxPort \/ id = 0 THEN Status(named, "throw")
     ELSE [named EXCEPT !.port = id, !.special = TRUE, !.status = "ok"]

Http == <<104, 116, 116, 112>>
Https == <<104, 116, 116, 112, 115>>
Ws == <<119, 115>>
Wss == <<119, 115, 115>>

\* Mutant: one slash is enough, as ResolveWs has it.
ResolveHttp_OneSlash(url, text) ==
  LET u == Resolve(url, text)
      protocol == lower(u.scheme)
  IN IF u.status # "ok" \/ protocol \notin {Http, Https} THEN Status(u, "throw")
     ELSE IF At(u.specific, 0) # <<Slash>> /\ At(u.specific, 1) # <<Slash>> THEN Status(u, "throw")
     ELSE HostAndPort(u, protocol = Http)

\* HTTP::URL::resolve: both characters after the colon must be slashes.
ResolveHttp(url, text) ==
  LET u == Resolve(url, text)
      protocol == lower(u.scheme)
  IN IF u.status # "ok" \/ protocol \notin {Http, Https} THEN Status(u, "throw")
     ELSE IF At(u.specific, 0) # <<Slash>> \/ At(u.specific, 1) # <<Slash>> THEN Status(u, "throw")
     ELSE HostAndPort(u, protocol = Http)

\* CWS::URL::resolve: one of them is enough, and two characters are dropped
\* from a text that may have only one.
ResolveWs(url, text) ==
  LET u == Resolve(url, text)
      protocol == lower(u.scheme)
  IN IF u.status # "ok" \/ protocol \notin {Ws, Wss} THEN Status(u, "throw")
     ELSE IF u.specific = <<>> THEN Status(u, "throw")
     ELSE IF u.specific[1] # Slash /\ At(u.specific, 1) # <<Slash>> THEN Status(u, "throw")
     ELSE IF Len(u.specific) = 1 THEN Status([u EXCEPT !.port = IF protocol = Ws THEN 80 ELSE @], "fault")
     ELSE HostAndPort(u, protocol = Ws)

-----------------------------------------------------------------------------
(* The reference.                                                              *)

\* Two texts are one before the other or the same up to the first zero byte;
\* texts that differ only behind it are neither smaller nor equal.
OrderExact(s, t) ==
  /\ Cardinality({o \in {"less", "same", "more"} :
       CASE o = "less" -> Less(s, t) [] o = "more" -> Less(t, s) [] o = "same" -> UpToNul(s) = UpToNul(t)}) = 1
  /\ Equal(s, t) => ~Less(s, t) /\ ~Less(t, s)
  /\ lower(upper(s)) = lower(s) /\ UpToNul(PlusLiteral(s, t)) = IF strlen(s) < Len(s) THEN UpToNul(s) ELSE s \o UpToNul(t)
  /\ \A i \in DOMAIN s : SubSeq(HexFormat(s), 2 * i - 1, 2 * i) = HexPointer(s[i], 2)

\* host [":" port] path, from position `from` on: where the port and the path begin.
Places(text, from) ==
  {x \in (from .. Len(text) + 1) \X (from .. Len(text) + 1) :
     /\ x[1] <= x[2]
     /\ {Slash, Colon} \cap ToSet(SubSeq(text, from, x[1] - 1)) = {}
     /\ x[1] = x[2] \/ text[x[1]] = Colon
     /\ Slash \notin ToSet(SubSeq(text, x[1] + 1, x[2] - 1))
     /\ x[2] > Len(text) \/ text[x[2]] = Slash}
ValidPort(ds) == /\ ds # <<>> /\ \A i \in DOMAIN ds : Decimal(ds[i])
                 /\ PortOf(ds) \in 1 .. MaxPort

\* What the grammar says of one text (RFC6455.txt:741-750, RFC1738.txt), for an
\* object that a call before has left as `old`.  Nothing is said of a text that
\* has one of the two slashes where one is enough for the code (`lax`), nor of
\* the port of an object used before that is given a secure address without one:
\* it keeps the old port, as it keeps `special`.
UrlExact(old, text, protocols, lax, u) ==
  LET colon == search(text, Colon)
      scheme == lower(SubSeq(text, 1, colon))
      from == colon + 4
      slashes == {i \in {colon + 2, colon + 3} \cap DOMAIN text : text[i] = Slash}
      known == colon # NotFound /\ scheme \in ToSet(protocols)
      at == CHOOSE x \in Places(text, from) : TRUE
      ports == SubSeq(text, at[1] + 1, at[2] - 1)
      named == at[1] < at[2]
  IN /\ ~known \/ slashes = {} \/ (Cardinality(slashes) = 1 /\ ~lax) => u.status = "throw"
     /\ known /\ Cardinality(slashes) = 2 =>
          /\ Cardinality(Places(text, from)) = 1
          /\ (u.status = "ok") = (~named \/ ValidPort(ports))
          /\ u.status = "ok" =>
               /\ u.host = SubSeq(text, from, at[1] - 1)
               /\ u.path = (IF at[2] > Len(text) THEN <<Slash>> ELSE SubSeq(text, at[2], Len(text)))
               /\ IF named THEN u.port = PortOf(ports) /\ u.special
                  ELSE /\ scheme = protocols[1] => u.port = 80
                       /\ old = NoUrl => u.special = FALSE /\ (scheme = protocols[2] => u.port = 443)

UrlsExact(text) ==
  \A old \in {NoUrl, [NoUrl EXCEPT !.port = 80, !.special = TRUE]} :
    /\ UrlExact(old, text, <<Http, Https>>, FALSE, ResolveHttp(old, text))
    /\ UrlExact(old, text, <<Ws, Wss>>, TRUE, ResolveWs(old, text))
=============================================================================
