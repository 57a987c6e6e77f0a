--------------------------------- MODULE Http ---------------------------------
(* HTTP: messages, and ConnectionManager's transmit() and receive() at the two *)
(* ends of one connection, with Streaming::format's words and Streaming::fully's*)
(* whole reads and writes in between.  The wire is a sequence of tokens: words, *)
(* " ", ":", "CR", "LF", digits and bytes of a body; what is sent arrives in   *)
(* pieces, and receive() looks at what happens to be there.                    *)
EXTENDS Integers, Sequences, SequencesExt, FiniteSetsExt

CONSTANTS
  Tokens,        \* words and bytes of messages
  Transmittable, \* what may be transmitted: [bound, method, url, status, context, content],
                 \* and what the stack holds behind the version's eight bytes: stray
  ReasonRoom,    \* characters of a reason phrase that receive() has room for: 63
  MaxMessages    \* bound: messages on one connection

ASSUME HttpAssumption ==
  /\ ReasonRoom \in Nat
  /\ \A m \in Transmittable :
       /\ m.bound \in {"client", "server"} /\ m.method \in Nat
       /\ m.status \in Seq(Tokens) /\ m.stray \in Seq(Tokens)
       /\ m.url \in Seq(Tokens) /\ m.content \in Seq(Tokens)
       /\ m.context \in Seq(Seq(Tokens) \X Seq(Tokens))

VARIABLES
  htSent,        \* messages transmitted
  htFlight,      \* tokens on their way
  htArrived,     \* tokens at the receiver
  htOver,        \* the transmitter has closed its end
  htReceived,    \* messages that receive() has returned
  htEnd          \* "open", or why receive() or transmit() did not return: "throw", "fault"

htVars == <<htSent, htFlight, htArrived, htOver, htReceived, htEnd>>

\* HTTP.cpp: eight methods, but RM_TYPE_COUNT is 9: the last one has no name.
SP == " "
NoName == ""
METHODS == <<"GET", "HEAD", "POST", "PUT", "DELETE", "CONNECT", "OPTIONS", "TRACE", NoName>>
MethodName(id) == IF METHODS[id] = NoName THEN <<>> ELSE <<METHODS[id]>>
MethodId(word) == {id \in DOMAIN METHODS : METHODS[id] = word}
\* A status is its digits, as they are written and read.
StatusText(status) ==
  IF status = <<"two", "zero", "zero">> THEN <<"OK">>
  ELSE IF status = <<"two", "zero", "six">> THEN <<"Partial", SP, "Content">> ELSE <<"no-text">>
KnownStatus(status) == StatusText(status) # <<"no-text">>

\* Mesage.cpp: operator[] adds a name that is not there, with an empty value.
contain(context, key) == \E i \in DOMAIN context : context[i][1] = key
ValueOf(context, key) == context[CHOOSE i \in DOMAIN context : context[i][1] = key][2]
Named(context, key) == IF contain(context, key) THEN context ELSE Append(context, <<key, <<>>>>)
Assigned(context, key, value) ==
  LET named == Named(context, key)
  IN [i \in DOMAIN named |-> IF named[i][1] = key THEN <<key, value>> ELSE named[i]]

\* A message moved from is blank, and a copy shares nothing: both are values.
EmptyMessage == [bound |-> "none", method |-> 0, url |-> <<>>, status |-> <<>>, context |-> <<>>,
                 content |-> <<>>]

HtInit ==
  /\ htSent = <<>> /\ htFlight = <<>> /\ htArrived = <<>> /\ htReceived = <<>>
  /\ htOver = FALSE /\ htEnd = "open"

-----------------------------------------------------------------------------
(* transmit().                                                                 *)

\* Eight bytes of the server's buffer are set and it is written up to the first
\* byte that is zero: whatever lies between goes out with it.
StatusWords(m) == <<"HTTP/1.1">> \o m.stray \o <<SP>> \o m.status \o <<SP>>
FirstLine(m) ==
  IF m.bound = "client"
  THEN MethodName(m.method) \o <<SP>> \o m.url \o <<SP, "HTTP/1.1", "CR", "LF">>
  ELSE StatusWords(m) \o StatusText(m.status) \o <<"CR", "LF">>
\* A line of Bare is one of another program's, which has no colon.
Bare == <<"no-colon">>
Lines(context) ==
  FlattenSeq([i \in DOMAIN context |->
    context[i][1] \o (IF context[i][2] = Bare THEN <<>> ELSE <<":", SP>> \o context[i][2])
    \o <<"CR", "LF">>])
Wire(m) == FirstLine(m) \o Lines(m.context) \o <<"CR", "LF">> \o m.content

\* An unknown method is thrown before anything is written, an unknown status
\* after the first words of its line.
Transmit(m) ==
  /\ ~htOver /\ Len(htSent) < MaxMessages
  /\ \A i \in DOMAIN htSent : htSent[i].bound = m.bound
  /\ htEnd = "open"
  /\ IF m.bound = "client" /\ m.method \notin DOMAIN METHODS
     THEN htEnd' = "throw" /\ UNCHANGED <<htSent, htFlight>>
     ELSE IF m.bound = "server" /\ ~KnownStatus(m.status)
     THEN /\ htEnd' = "throw"
          /\ htFlight' = htFlight \o StatusWords(m)
          /\ UNCHANGED htSent
     ELSE /\ htSent' = Append(htSent, m)
          /\ htFlight' = htFlight \o Wire(m)
          /\ UNCHANGED htEnd
  /\ UNCHANGED <<htArrived, htOver, htReceived>>

CloseEnd ==
  /\ htSent # <<>> /\ ~htOver
  /\ htOver' = TRUE
  /\ UNCHANGED <<htSent, htFlight, htArrived, htReceived, htEnd>>

Deliver(n) ==
  /\ n \in 1 .. Len(htFlight)
  /\ htArrived' = htArrived \o SubSeq(htFlight, 1, n)
  /\ htFlight' = SubSeq(htFlight, n + 1, Len(htFlight))
  /\ UNCHANGED <<htSent, htOver, htReceived, htEnd>>

-----------------------------------------------------------------------------
(* receive(), as a function of the tokens: [status, message, pos], where status*)
(* "wait" says that the tokens do not reach.                                   *)

Space == {SP, "CR", "LF"}

\* Mutant: blanks before a word are not skipped.
ReadWord_KeepsBlanks(bytes, st) ==
  LET end == Min({i \in st.pos .. Len(bytes) + 1 : i > Len(bytes) \/ bytes[i] \in Space})
  IN [words |-> Append(st.words, SubSeq(bytes, st.pos, end - 1)), pos |-> end,
      status |-> IF end > Len(bytes) THEN "wait" ELSE st.status]

\* format >> word: blanks before it are skipped, and the token after it is put
\* back: the next read() of the same format begins with it.
ReadWord(bytes, st) ==
  LET start == Min({i \in st.pos .. Len(bytes) + 1 : i > Len(bytes) \/ bytes[i] \notin Space})
      end == Min({i \in start .. Len(bytes) + 1 : i > Len(bytes) \/ bytes[i] \in Space})
  IN [words |-> Append(st.words, SubSeq(bytes, start, end - 1)), pos |-> end,
      status |-> IF end > Len(bytes) THEN "wait" ELSE st.status]

\* The first line: three words and the two tokens that end the line; or thirteen
\* bytes, which are the version and five more, the status in the middle of those,
\* and all up to the end of the line, in a buffer that nobody looks at the end of.
ReadFirst(bytes, bound) ==
  IF bound = "client"
  THEN LET begin == [words |-> <<>>, pos |-> 1, status |-> "ok"]
           st == ReadWord(bytes, ReadWord(bytes, ReadWord(bytes, begin)))
       IN IF st.status = "wait" \/ st.pos + 1 > Len(bytes) THEN [st EXCEPT !.status = "wait"]
          ELSE [st EXCEPT !.pos = @ + 2,
                          !.status = IF MethodId(st.words[1][1]) = {} THEN "throw" ELSE "ok"]
  ELSE LET end == Min({i \in 7 .. Len(bytes) + 7 : i > Len(bytes) \/ bytes[i] = "LF"})
           reason == {i \in 7 .. end - 1 : i <= Len(bytes) /\ bytes[i] # "CR"}
       IN IF Cardinality(reason) > ReasonRoom THEN [words |-> <<>>, pos |-> end, status |-> "fault"]
          ELSE IF end > Len(bytes) THEN [words |-> <<>>, pos |-> end, status |-> "wait"]
          ELSE [words |-> <<SubSeq(bytes, 3, 5)>>, pos |-> end + 1, status |-> "ok"]

\* One character of the header: str[0] and str[1] keep what they were last set
\* to, and the character after the first colon is dropped whatever it is.
HeaderStep(st, ch) ==
  LET line == st.line \/ ch \notin {"CR", "LF"}
      key == IF st.type = 0 THEN st.cur ELSE st.key
      val == IF st.type = 0 THEN st.val ELSE st.cur
  IN IF st.skip THEN [st EXCEPT !.skip = FALSE]
     ELSE IF ch = "LF"
     THEN IF ~line THEN [st EXCEPT !.done = TRUE]
          ELSE [st EXCEPT !.key = key, !.val = val, !.context = Assigned(@, key, val),
                          !.cur = <<>>, !.type = 0, !.line = FALSE]
     ELSE IF ch = ":" /\ st.type = 0
     THEN [st EXCEPT !.key = st.cur, !.cur = <<>>, !.type = 1, !.skip = TRUE, !.line = line]
     ELSE IF ch = "CR" THEN st
     ELSE [st EXCEPT !.cur = Append(@, ch), !.line = line]

Header(bytes, start) ==
  LET begin == [key |-> <<>>, val |-> <<"garbage">>, cur |-> <<>>, type |-> 0, skip |-> FALSE,
                line |-> FALSE, done |-> FALSE, context |-> <<>>, pos |-> start]
      last == IF Len(bytes) < start THEN start - 1 ELSE Len(bytes)
      run[i \in start - 1 .. last] ==
        IF i = start - 1 THEN begin
        ELSE LET st == run[i - 1]
             IN IF st.done THEN st ELSE [HeaderStep(st, bytes[i]) EXCEPT !.pos = i + 1]
  IN run[last]

\* String::integer of a header's value.
Numeral == [zero |-> 0, one |-> 1, two |-> 2]
Integer(val) == IF \E i \in DOMAIN val : val[i] \notin DOMAIN Numeral THEN {}
               ELSE {FoldLeft(LAMBDA n, d : 10 * n + Numeral[d], 0, val)}

Failed(status) == [status |-> status, message |-> EmptyMessage, pos |-> 1]
ReceiveOf(bytes, bound, first, header) ==
  LET sized == contain(header.context, <<"Content-Length">>)
      sizes == IF sized THEN Integer(ValueOf(header.context, <<"Content-Length">>)) ELSE {0}
      size == CHOOSE n \in sizes : TRUE
      available == Len(bytes) - (header.pos - 1 + size)
      asked == IF available > 0 THEN Named(header.context, <<"Connection">>) ELSE header.context
      rest == available > 0 /\ ValueOf(asked, <<"Connection">>) = <<"close">>
      end == IF rest THEN Len(bytes) ELSE header.pos - 1 + size
  IN IF first.status # "ok" THEN Failed(first.status)
     ELSE IF ~header.done THEN Failed("wait")
     ELSE IF sizes = {} THEN Failed("fault")
     ELSE IF available < 0 THEN Failed("wait")
     ELSE [status |-> "ok", pos |-> end + 1,
           message |-> [EmptyMessage EXCEPT
             !.bound = bound, !.context = asked, !.content = SubSeq(bytes, header.pos, end),
             !.method = IF bound = "client" THEN CHOOSE id \in MethodId(first.words[1][1]) : TRUE ELSE 0,
             !.url = IF bound = "client" THEN first.words[2] ELSE <<>>,
             !.status = IF bound = "client" THEN <<>> ELSE first.words[1]]]

\* receive() waits for what it needs; at the end of the connection read() throws.
Receive ==
  /\ htEnd = "open" /\ htSent # <<>>
  /\ \E first \in {ReadFirst(htArrived, htSent[1].bound)} : \E header \in {Header(htArrived, first.pos)} :
     \E r \in {ReceiveOf(htArrived, htSent[1].bound, first, header)} :
       LET over == r.status = "wait" /\ htOver /\ htFlight = <<>>
       IN /\ r.status # "wait" \/ over
          /\ htEnd' = IF over THEN "throw" ELSE IF r.status = "ok" THEN "open" ELSE r.status
          /\ htReceived' = IF r.status = "ok" THEN Append(htReceived, r.message) ELSE htReceived
          /\ htArrived' = IF r.status = "ok" THEN SubSeq(htArrived, r.pos, Len(htArrived)) ELSE <<>>
  /\ UNCHANGED <<htSent, htFlight, htOver>>

HtNext ==
  \/ \E m \in Transmittable : Transmit(m)
  \/ CloseEnd
  \/ \E n \in 1 .. Len(htFlight) : Deliver(n)
  \/ Receive

HtSpec == HtInit /\ [][HtNext]_htVars

-----------------------------------------------------------------------------
\* A line without a colon takes the value of the last one with a colon, or what
\* the buffer had in it.
Arriving(context) ==
  [i \in DOMAIN context |->
    LET valued == {j \in 1 .. i : context[j][2] # Bare}
    IN <<context[i][1], IF valued = {} THEN <<"garbage">> ELSE context[Max(valued)][2]>>]

\* A message whose parts the protocol can tell apart, with every name once, and
\* into whose first line nothing has got.
Regular(m) ==
  /\ m.bound = "server" => m.stray = <<>>
  /\ m.bound = "client" =>
       m.url # <<>> /\ METHODS[m.method] # NoName /\ \A i \in DOMAIN m.url : m.url[i] \notin Space
  /\ \A i, j \in DOMAIN m.context : m.context[i][1] = m.context[j][1] => i = j
  /\ \A i \in DOMAIN m.context :
       /\ \A j \in DOMAIN m.context[i][1] : m.context[i][1][j] \notin {":", "CR", "LF"}
       /\ \A j \in DOMAIN m.context[i][2] : m.context[i][2][j] \notin {"CR", "LF"}
       /\ m.context[i][2] = Bare => m.context[i][1] # <<>>
\* A message that says where it ends: its body is as long as it says, or empty.
Framed(m) ==
  IF contain(m.context, <<"Content-Length">>)
  THEN Integer(ValueOf(m.context, <<"Content-Length">>)) = {Len(m.content)}
  ELSE m.content = <<>>
Closes(m) == contain(m.context, <<"Connection">>)
             /\ ValueOf(Arriving(m.context), <<"Connection">>) = <<"close">>
\* Message j is whole to the receiver: nothing that follows is taken for its body.
Complete(j) == /\ Framed(htSent[j]) /\ Regular(htSent[j])
               /\ j < Len(htSent) => ~Closes(htSent[j])

\* The headers received are those sent, and perhaps the empty one that the
\* question for "Connection" has added.
Headers(received, sent) ==
  \/ received = Arriving(sent)
  \/ ~contain(sent, <<"Connection">>) /\ received = Append(Arriving(sent), <<<<"Connection">>, <<>>>>)
Same(received, sent) ==
  /\ received.bound = sent.bound /\ received.content = sent.content
  /\ IF sent.bound = "client" THEN received.method = sent.method /\ received.url = sent.url
                              ELSE received.status = sent.status
  /\ Headers(received.context, sent.context)

FramedArrive ==
  \A i \in DOMAIN htReceived :
    i <= Len(htSent) /\ (\A j \in 1 .. i : Complete(j)) => Same(htReceived[i], htSent[i])

BodyIsPrefix ==
  LET last == Len(htReceived)
  IN /\ last > 0 /\ last = Len(htSent) /\ \A j \in 1 .. last - 1 : Complete(j)
     /\ Regular(htSent[last]) /\ ~contain(htSent[last].context, <<"Content-Length">>)
     => IsPrefix(htReceived[last].content, htSent[last].content)

(* However the bytes arrive: as long as every message says where it ends, and  *)
(* none but the last closes, the n-th one received is the n-th one sent, with  *)
(* two exceptions: a header line without a colon has another one's value       *)
(* (ConnectionManager.cpp:119), and the question for a Connection header leaves *)
(* an empty one behind (:145).  The body of a message that ends with the       *)
(* connection is a beginning of what was sent: what has not arrived when the   *)
(* header is done is cut off (:144), and nothing else gets in.  All this is    *)
(* said of servers behind whose eight bytes the stack has a zero: nothing sees *)
(* to that (:8, :25-29), and with other bytes there the client looks for the   *)
(* status in the wrong place (:60-64), or runs out of its buffer (:66-80).     *)
MessagesArrive == FramedArrive /\ BodyIsPrefix
=============================================================================
