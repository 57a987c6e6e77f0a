------------------------------ MODULE MCLibrary ------------------------------
(* Small instances of the libraries that the other runs do not reach.  A       *)
(* behaviour is one of one component (`part`), whose variables the others      *)
(* leave alone; a component without state is tried on every `case` of a finite *)
(* set.                                                                        *)
EXTENDS Integers, Sequences, FiniteSets, TLC, Sockets, HeapString, Handles, Runtime, Files, JsonTree,
        FrameHandler, Http

CONSTANTS
  part0,                                        \* the components of a run
  QwordBits, EXP_SHIFT, ExpBits, PlainDigits, PlainZeros,
  WordBits, MaxPort,
  TwisterBits, TwisterWords, TwisterMiddle, TwisterLow, KeccakL

VARIABLES
  part, case

NB == INSTANCE Numbers
MW == INSTANCE MachineWord
TX == INSTANCE Texts
JX == INSTANCE JsonText
BC == INSTANCE BrotliCodes
CO == INSTANCE Codes WITH W <- TwisterBits, N <- TwisterWords, M <- TwisterMiddle, R <- TwisterLow
KC == INSTANCE Keccak
HS == INSTANCE Hashes

-----------------------------------------------------------------------------
(* Exceptions: f calls itself, g and catch blocks; c is the catch block of all *)
(* of them and has a try block of its own, g's code is in two segments, and    *)
(* the two blocks of f are one in the other.                                   *)

MCFunction == {"f", "g", "c"}
MCStart == [f |-> 10, g |-> 20, c |-> 30]
MCIps == [f |-> 0 .. 3, g |-> 0 .. 1, c |-> 0 .. 2]
CatchOf(type, adjectives) ==
  [flags |-> {"adjectives", "dispType", "dispCatchObj", "one"}, fields |-> <<adjectives, type, 8, "c", 3>>]
CatchAll == [flags |-> {"two"}, fields |-> <<"c", 3, 4>>]
Entry(delta, state) == [delta |-> delta, state |-> state]
Block(low, high, handlers) ==
  [tryLow |-> low, tryHigh |-> high, catchHigh |-> high + 1, dispHandlerArray |-> handlers]
MCInfo == [f |-> [flags |-> {"TryBlockMap", "UnwindMap"}, fields |-> <<99, 1, 2>>],
           g |-> [flags |-> {"BBT", "TryBlockMap", "isSeparated"}, fields |-> <<7, 3, 4>>],
           c |-> [flags |-> {"isCatch", "TryBlockMap"}, fields |-> <<5, 6, 32>>]]
MCImage == [d \in 1 .. 11 |->
  CASE d = 1 -> <<Block(1, 1, 7), Block(0, 2, 8)>>
    [] d = 2 -> <<Entry(0, 0), Entry(1, 1), Entry(1, 2), Entry(1, 0)>>
    [] d = 3 -> <<Block(0, 0, 9)>>
    [] d = 4 -> <<[rva |-> 10, table |-> 0], [rva |-> 20, table |-> 11]>>
    [] d = 5 -> <<Block(0, 0, 7)>>
    [] d = 6 -> <<Entry(0, 0), Entry(1, 1), Entry(1, 0)>>
    [] d = 7 -> <<CatchOf(2, {"Reference"})>>
    [] d = 8 -> <<CatchOf(3, {}), CatchAll>>
    [] d = 9 -> <<CatchOf(3, {"Const"})>>
    [] d = 11 -> <<Entry(1, 1)>>
    [] OTHER -> <<>>]
Catchable(type, properties, mdisp) ==
  [type |-> type, properties |-> properties, copyFunction |-> "none", mdisp |-> mdisp]
MCThrown ==
  [derived |-> [attributes |-> {}, catchables |-> <<Catchable(1, {}, 0), Catchable(2, {"ByReferenceOnly"}, 4)>>],
   other |-> [attributes |-> {"Const"}, catchables |-> <<Catchable(3, {"IsSimpleType"}, 0)>>],
   pure |-> [attributes |-> {"Pure"}, catchables |-> <<>>]]

MCInitialisers == <<"registry", "atexit", "none", "atexit", "registry">>
MCSteps == {[key |-> "k", index |-> 0]} \cup {[key |-> "none", index |-> i] : i \in {1}}
MCPaths == {<<"a">>, <<"a", "b">>}
MCKinds == [o \in 1 .. 7 |-> CASE o < 3 -> "thread" [] o \in {3, 7} -> "foreach" [] o = 6 -> "process" [] OTHER -> "file"]

\* Messages: with and without a length, closing, with a colon in a value, lines
\* without a colon, a header twice, the ninth method, an unknown status, and
\* bytes of the stack behind the version, with and without an end of line.
Message(bound, method, url, status, context, content, stray) ==
  [bound |-> bound, method |-> method, url |-> url, status |-> status, context |-> context,
   content |-> content, stray |-> stray]
RequestOf(method, context, content) == Message("client", method, <<"/u">>, <<"zero">>, context, content, <<>>)
AnswerOf(status, context, content, stray) == Message("server", 0, <<>>, status, context, content, stray)
Sized(word) == <<<<"Content-Length">>, <<word>>>>
CloseHeader == <<<<"Connection">>, <<"close">>>>
K(value) == <<<<"k">>, value>>
OK == <<"two", "zero", "zero">>
Partial == <<"two", "zero", "six">>
MCTokens == {"/u", "zero", "one", "two", "six", "nine", "Content-Length", "Connection", "close", "k",
             "v", "w", "x", "y", "b", "c", ":", "no-colon", "LF"}
MCMessages ==
  {RequestOf(1, <<>>, <<>>),
   RequestOf(3, <<K(<<"v", ":">>), Sized("two")>>, <<"b", "c">>),
   RequestOf(3, <<K(<<>>)>>, <<"b">>),
   RequestOf(9, <<>>, <<>>),
   RequestOf(10, <<>>, <<>>),
   AnswerOf(OK, <<Sized("one"), K(<<"v">>), <<<<"x">>, Bare>>, <<<<"y">>, Bare>>>>, <<"b">>, <<>>),
   AnswerOf(Partial, <<CloseHeader>>, <<"b", "c">>, <<>>),
   AnswerOf(OK, <<K(<<"v">>), K(<<"w">>)>>, <<>>, <<>>),
   AnswerOf(<<"two", "nine", "nine">>, <<>>, <<>>, <<"x">>),
   AnswerOf(OK, <<>>, <<>>, <<"x", "LF">>),
   AnswerOf(Partial, <<>>, <<>>, <<"x", "y">>)}

-----------------------------------------------------------------------------
(* The cases of the components without state.                                  *)

Words(S, from, to) == UNION {[1 .. n -> S] : n \in from .. to}

\* Scheme, colon and up to five characters of an address.
Schemes == {TX!Ws, TX!Wss, TX!Http, <<72, 116, 116, 112, 115>>, <<97>>}
Addresses == {scheme \o <<58>> \o rest : scheme \in Schemes, rest \in Words({58, 47, 48, 49, 45}, 0, 5)}
             \cup Schemes
ShortTexts == Words({0, 65, 97, 49}, 0, 2)
Numbers == {0, 1, 127, 128, 2 ^ 14 - 1, 2 ^ 14, 2 ^ 21 - 1, 2 ^ 21, 2 ^ 27 - 1, 2 ^ 28, 2 ^ 30}

\* Bytes; characters of the alphabet's ends, others and '='; messages and their cuts.
Datas == Words({0, 1, 77, 170, 255}, 0, 4)
Codings == Words({65, 84, 113, 57, 47, 61, 42}, 0, 4)
           \cup {<<84, 87>> \o t \o <<84>> \o u : t \in Words({70, 61}, 2, 2), u \in Words({119, 61, 43}, 3, 3)}
Checked == {<<row, bytes, cut>> \in (DOMAIN CO!ARGUMENT) \X Words({0, 1, 170}, 0, 3) \X (0 .. 3) : cut <= Len(bytes)}
\* The published messages and answers.
Abc == <<97, 98, 99>>
Digits == [i \in 1 .. 80 |-> 48 + (i % 10)]
Alphabet == [i \in 1 .. 56 |-> 97 + ((i - 1) \div 4) + ((i - 1) % 4)]
Alphabets == [i \in 1 .. 112 |-> 97 + ((i - 1) \div 8) + ((i - 1) % 8)]
Published ==
  {<<HS!MD4, Abc, <<164, 72, 1, 122, 175, 33, 216, 82, 95, 193, 10, 232, 122, 166, 114,
      157>>>>,
      <<HS!MD4, Digits, <<227, 59, 77, 220, 156, 56, 242, 25, 156, 62, 123, 22, 79, 204, 5,
      54>>>>,
      <<HS!MD5, Abc, <<144, 1, 80, 152, 60, 210, 79, 176, 214, 150, 63, 125, 40, 225, 127,
      114>>>>,
      <<HS!MD5, Digits, <<87, 237, 244, 162, 43, 227, 201, 85, 172, 73, 218, 46, 33, 7, 182,
      122>>>>,
      <<HS!SHA1, Abc, <<169, 153, 62, 54, 71, 6, 129, 106, 186, 62, 37, 113, 120, 80, 194, 108,
      156, 208, 216, 157>>>>,
      <<HS!SHA1, Alphabet, <<132, 152, 62, 68, 28, 59, 210, 110, 186, 174, 74, 161, 249, 81, 41,
      229, 229, 70, 112, 241>>>>,
      <<HS!SHA224, Abc, <<35, 9, 125, 34, 52, 5, 216, 34, 134, 66, 164, 119, 189, 162, 85, 179,
      42, 173, 188, 228, 189, 160, 179, 247, 227, 108, 157, 167>>>>,
      <<HS!SHA224, Alphabet, <<117, 56, 139, 22, 81, 39, 118, 204, 93, 186, 93, 161, 253, 137,
      1, 80, 176, 198, 69, 92, 180, 245, 139, 25, 82, 82, 37, 37>>>>,
      <<HS!SHA256, Abc, <<186, 120, 22, 191, 143, 1, 207, 234, 65, 65, 64, 222, 93, 174, 34, 35,
      176, 3, 97, 163, 150, 23, 122, 156, 180, 16, 255, 97, 242, 0, 21, 173>>>>,
      <<HS!SHA256, Alphabet, <<36, 141, 106, 97, 210, 6, 56, 184, 229, 192, 38, 147, 12, 62, 96,
      57, 163, 60, 228, 89, 100, 255, 33, 103, 246, 236, 237, 212, 25, 219, 6, 193>>>>,
      <<HS!SHA384, Abc, <<203, 0, 117, 63, 69, 163, 94, 139, 181, 160, 61, 105, 154, 198, 80, 7,
      39, 44, 50, 171, 14, 222, 209, 99, 26, 139, 96, 90, 67, 255, 91, 237, 128, 134, 7, 43,
      161, 231, 204, 35, 88, 186, 236, 161, 52, 200, 37, 167>>>>,
      <<HS!SHA384, Alphabets, <<9, 51, 12, 51, 247, 17, 71, 232, 61, 25, 47, 199, 130, 205, 27,
      71, 83, 17, 27, 23, 59, 59, 5, 210, 47, 160, 128, 134, 227, 176, 247, 18, 252, 199, 199,
      26, 85, 126, 45, 185, 102, 195, 233, 250, 145, 116, 96, 57>>>>,
      <<HS!SHA512, Abc, <<221, 175, 53, 161, 147, 97, 122, 186, 204, 65, 115, 73, 174, 32, 65,
      49, 18, 230, 250, 78, 137, 169, 126, 162, 10, 158, 238, 230, 75, 85, 211, 154, 33, 146,
      153, 42, 39, 79, 193, 168, 54, 186, 60, 35, 163, 254, 235, 189, 69, 77, 68, 35, 100, 60,
      232, 14, 42, 154, 201, 79, 165, 76, 164, 159>>>>,
      <<HS!SHA512, Alphabets, <<142, 149, 155, 117, 218, 227, 19, 218, 140, 244, 247, 40, 20,
      252, 20, 63, 143, 119, 121, 198, 235, 159, 127, 161, 114, 153, 174, 173, 182, 136, 144,
      24, 80, 29, 40, 158, 73, 0, 247, 228, 51, 27, 153, 222, 196, 181, 67, 58, 199, 211, 41,
      238, 182, 221, 38, 84, 94, 150, 229, 91, 135, 75, 233, 9>>>>}
\* A one in each lane, and each row of five: the steps treat a lane's bits alike.
Strings25 == {{KC!w * i + (i % KC!w)} : i \in 0 .. 24} \cup {{KC!w * (15 + i) : i \in row} : row \in SUBSET (0 .. 4)}

\* Documents of up to five tokens; two words in a row would be one.
MaxTokens == 5
Documents == {text \in Words({"{", "}", "[", "]", ":", ",", "S", "1", " "}, 0, MaxTokens) :
                ({i \in 1 .. Len(text) - 1 : text[i] = "1" /\ text[i + 1] = "1"} = {})}
Grammar == JX!Grammar(MaxTokens)
ValuesOf == [n \in 0 .. MaxTokens |-> Grammar[n].values]
TextsOf == [n \in 0 .. MaxTokens |-> {x[1] : x \in ValuesOf[n]}]
Literals == Words({"a", "n", "u", "quote", "backslash", "LF", "SOH", "high"}, 0, 4)
Leaves == {JX!Null, JX!Value("BOOLEAN", "true"), JX!Value("INTEGER", "1"), JX!Value("INTEGER", "-1"),
           JX!Value("FLOAT", "1.5"), JX!Value("FLOAT", "1E8"), JX!Value("STRING", "S"), JX!Value("STRING", "E")}
Around(values) ==
  {JX!Value("ARRAY", items) : items \in Words(values, 0, 2)}
  \cup {JX!Value("COMPONENT", [i \in 1 .. n |-> <<IF i = 1 THEN name ELSE "T", items[i]>>])
        : n \in 1 .. 2, name \in {"S", "E"}, items \in [1 .. 2 -> values]}
Values == Leaves \cup Around(Leaves) \cup {JX!Value("ARRAY", <<v>>) : v \in Around(Leaves)}
          \cup {JX!Value("COMPONENT", <<<<"S", v>>>>) : v \in Around(Leaves)}

\* `case` holds at most one of them.
CaseOf ==
  \/ part = "numbers" /\ \E x \in 0 .. 2 ^ (EXP_SHIFT + ExpBits + 1) - 1 : case' = <<x>>
  \/ part = "unsigned" /\ \E value \in Numbers, before, after \in {0, 255} : case' = <<<<value, before, after>>>>
  \/ part = "words" /\ \E m, n \in 0 .. 40 : case' = <<<<m, n>>>>
  \/ part = "base64" /\ \E data \in Datas : case' = <<<<"encode", data>>>>
  \/ part = "base64" /\ \E text \in Codings : case' = <<<<"decode", text>>>>
  \/ part = "checks" /\ \E c \in Checked : case' = <<c>>
  \/ part = "twister" /\ \E seed \in 0 .. 2 ^ TwisterBits - 1 : case' = <<seed>>
  \/ part = "bounds" /\ \E r, max \in 0 .. 2 ^ TwisterBits - 1 : case' = <<<<r, max>>>>
  \/ part = "keccak" /\ \E S \in Strings25 : case' = <<S>>
  \/ part = "hashes" /\ \E h \in Published : case' = <<h>>
  \/ part = "commands" /\ \E npostfix \in 0 .. 3, n \in 0 .. 15 : case' = <<<<npostfix, n * 2 ^ npostfix>>>>
  \/ part = "urls" /\ \E text \in Addresses : case' = <<text>>
  \/ part = "texts" /\ \E s, t \in ShortTexts : case' = <<<<s, t>>>>
  \/ part = "addresses" /\ \E a \in [1 .. 8 -> {0, 1, 65535}], id \in {0, 80, 65535} : case' = <<<<a, id>>>>
  \/ part = "documents" /\ \E text \in Documents : case' = <<text>>
  \/ part = "literals" /\ \E text \in Literals : case' = <<text>>
  \/ part = "values" /\ \E v \in Values : case' = <<v>>

Is(p) == part = p /\ case # <<>>
It == case[1]

-----------------------------------------------------------------------------
allVars == <<part, case, ehVars, rtVars, msVars, jtVars, skVars, htVars, fsVars, haVars>>

\* A component that is not the one of this behaviour stays in its first state.
Init ==
  /\ part \in part0 /\ case = <<>>
  /\ EHInit /\ SkInit /\ RtInit /\ MsInit /\ JtInit /\ FsInit /\ HaInit /\ HtInit

Exceptions == /\ part = "exceptions" /\ EHNext
              /\ UNCHANGED <<part, case, rtVars, msVars, jtVars, skVars, htVars, fsVars, haVars>>
Runtime == /\ part = "runtime" /\ RtNext
           /\ UNCHANGED <<part, case, ehVars, msVars, jtVars, skVars, htVars, fsVars, haVars>>
Strings == /\ part = "strings" /\ MsNext
           /\ UNCHANGED <<part, case, ehVars, rtVars, jtVars, skVars, htVars, fsVars, haVars>>
Objects == /\ part = "objects" /\ JtNext
           /\ UNCHANGED <<part, case, ehVars, rtVars, msVars, skVars, htVars, fsVars, haVars>>
SocketObjects == /\ part = "sockets" /\ SkNext
                 /\ UNCHANGED <<part, case, ehVars, rtVars, msVars, jtVars, htVars, fsVars, haVars>>
Connections == /\ part = "http" /\ HtNext
               /\ UNCHANGED <<part, case, ehVars, rtVars, msVars, jtVars, skVars, fsVars, haVars>>
FileSystem == /\ part = "files" /\ FsNext
              /\ UNCHANGED <<part, case, ehVars, rtVars, msVars, jtVars, skVars, htVars, haVars>>
HandleOwners == /\ part = "handles" /\ HaNext
                /\ UNCHANGED <<part, case, ehVars, rtVars, msVars, jtVars, skVars, htVars, fsVars>>
Cases == /\ case = <<>> /\ CaseOf
         /\ UNCHANGED <<part, ehVars, rtVars, msVars, jtVars, skVars, htVars, fsVars, haVars>>

Next == \/ Exceptions \/ Runtime \/ Strings \/ Objects
        \/ SocketObjects \/ Connections \/ FileSystem \/ HandleOwners
        \/ Cases

Spec == Init /\ [][Next]_allVars

-----------------------------------------------------------------------------
(* What the runs check: each module states its own properties.                 *)

\* HandlesOwned and PeerRecorded are those of Sockets, StringsOwn of HeapString,
\* ClosedOnce of Handles, ExitOrder of Runtime, CallsAlone and TrueIsMine of Files,
\* TreesOwned and ReadonlyKept of JsonTree, ObjectDestroyedOnce and NearestHandler
\* of FrameHandler, MessagesArrive of Http.

\* Numbers: every double's text is within half a step of it and is read back,
\* with the exceptions ReadAs names; fixed texts round it; every QWORD is read
\* back (sstring.cpp); the tables' compressed numbers are (ExceptionHandler.cpp);
\* and long integers compute what integers do (MWORD.cpp).
NumbersExact == /\ Is("numbers") => NB!NumberExact(It)
                /\ Is("unsigned") => UnsignedExact(It[1], It[2], It[3])
                /\ Is("words") => MW!WordExact(It[1], It[2])
\* BASE64 encodes as RFC 2045 says and is read back, checks are remainders, the
\* twister is its recurrence, a bounded number r * (max / 2^64), the sponge's
\* permutation that of FIPS 202, digests are the published ones, and the codes of
\* a Brotli command have no holes (BASE64, CRC, MersenneTwister, RNG, SPONGE, MD4,
\* MD5, SHA1, SHA256, SHA512, Brotli.cpp).
CodesExact == /\ Is("base64") => IF It[1] = "encode" THEN CO!BytesExact(It[2]) ELSE CO!TextExact(It[2])
              /\ Is("checks") => CO!CrcExact(CO!ARGUMENT[It[1]], It[2], It[3])
              /\ Is("twister") => CO!TwisterExact(It)
              /\ Is("bounds") => CO!BelowExact(It[1], It[2])
              /\ Is("keccak") => KC!KeccakExact(It)
              /\ Is("hashes") => HS!DigestExact(It[1], It[2], It[3])
              /\ Is("commands") => BC!LengthsCover /\ BC!DistancesCover(It[1], It[2], 200)
\* Texts are ordered, addresses of URLs and of the network are taken apart as
\* their grammar says, with the exceptions UrlExact names (String/src/string.cpp,
\* HTTP's and CWS's URL.cpp, Address.cpp).
TextsExact == /\ Is("urls") => TX!UrlsExact(It)
              /\ Is("texts") => TX!OrderExact(It[1], It[2])
              /\ Is("addresses") => AddressExact(It[1], It[2])
\* Exactly the texts of JSON's grammar are read, and what is written is read
\* back, with the exceptions EscapesExact and ValueExact name (JSON.cpp).
JsonExact == /\ Is("documents") => JX!DocumentExact(It, ValuesOf, TextsOf)
             /\ Is("literals") => JX!EscapesExact(It)
             /\ Is("values") => JX!ValueExact(It)
=============================================================================
