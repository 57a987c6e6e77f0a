------------------------------- MODULE JsonText -------------------------------
(* The texts of JSON values: JSON/src/JSON.cpp and the end of object.cpp.  Two *)
(* levels: a document is a sequence of tokens, of which a string literal, a    *)
(* word and a blank are one each; a string literal is a sequence of characters *)
(* of the classes that are written and read differently.  A result's status is *)
(* "ok", "throw" for an exception, or "fault" where the number functions read  *)
(* address 1.                                                                  *)
EXTENDS Integers, Sequences, SequencesExt, FiniteSetsExt

-----------------------------------------------------------------------------
(* String literals.  Characters: "a", a plain one; "n" and "u", plain ones     *)
(* that mean something after a backslash; "quote", "backslash"; "LF", which has*)
(* a short escape; "SOH", which is written \u0001; "0001", those four digits;  *)
(* "high", a byte of 0x80 or more; "C2", the first byte of two of UTF-8.       *)

Plain == {"a", "n", "u", "0001", "high"}
ESCAPE == [quote |-> "quote", backslash |-> "backslash", LF |-> "n"]

\* Mutant: the buffer grows one byte too late.
Capacity_Late(size, expect) == IF expect > size + 1 THEN 2 * size ELSE size

\* Capacity(): the buffer doubles, once.
Capacity(size, expect) == IF expect > size THEN 2 * size ELSE size

\* stringify(): what was written, the size of the buffer, which is the length
\* of the text returned, and whether more was written than it holds.
StringifyString(str) ==
  LET Write(st, out, expect) ==
        [buf |-> st.buf \o out, bsize |-> Capacity(st.bsize, Len(st.buf) + expect),
         over |-> st.over \/ Len(st.buf \o out) > Capacity(st.bsize, Len(st.buf) + expect)]
      Step(st, c) ==
        IF c \in DOMAIN ESCAPE THEN Write(st, <<"backslash", ESCAPE[c]>>, 3)
        ELSE IF c = "SOH" THEN Write(st, <<"backslash", "u", "0", "0", "0", "1">>, 7)
        ELSE Write(st, <<c>>, 2)
      end == FoldLeft(Step, [buf |-> <<"quote">>, bsize |-> Len(str) + 2, over |-> FALSE], str)
  IN [text |-> Append(end.buf, "quote"), length |-> end.bsize,
      over |-> end.over \/ Len(end.buf) + 1 > end.bsize]

\* The bytes that a code is stored as: from 0x80 on, two.
UTF8W(c) == IF c = "high" THEN <<"C2", "high">> ELSE <<c>>

\* ReadEscapeString() of the characters from a quote on.
ReadEscapeString(str) ==
  LET Hex4 == <<"0", "0", "0", "1">>
      At(i) == IF i \in DOMAIN str THEN str[i] ELSE "end"
      Stop(st, status) == [st EXCEPT !.status = status]
      Take(st, c, n) == [st EXCEPT !.value = @ \o UTF8W(c), !.pos = @ + n]
      Escaped(st) ==
        LET e == At(st.pos + 1) IN
        IF e = "n" THEN Take(st, "LF", 2)
        ELSE IF e \in {"quote", "backslash"} THEN Take(st, e, 2)
        ELSE IF e = "u" /\ SubSeq(str, st.pos + 2, st.pos + 5) = Hex4 THEN Take(st, "SOH", 6)
        ELSE Stop(st, "throw")
      Step(st) ==
        LET c == At(st.pos) IN
        IF st.status # "reading" THEN st
        ELSE IF c = "end" THEN Stop(st, "throw")
        ELSE IF c = "quote" THEN [Stop(st, "ok") EXCEPT !.pos = @ + 1]
        ELSE IF c = "backslash" THEN Escaped(st)
        ELSE Take(st, c, 1)
      run[k \in 0 .. Len(str) + 1] ==
        IF k = 0 THEN [status |-> "reading", value |-> <<>>, pos |-> 2] ELSE Step(run[k - 1])
  IN IF At(1) # "quote" THEN [status |-> "throw", value |-> <<>>, pos |-> 1]
     ELSE run[Len(str) + 1]

-----------------------------------------------------------------------------
(* Documents.  Tokens: the six symbols, " ", strings, and words.  A string is  *)
(* one token, whatever its text, of which "E" has one that is escaped.         *)
(* Values: [type, content], where a component's content is pairs of name and   *)
(* value, and every other one's that is not an array is the token it came from.*)

TextOf == [S |-> <<"a">>, T |-> <<"n">>, E |-> <<"LF">>]
Strings == DOMAIN TextOf
Integers10 == {"0", "1"}         \* QWORDs below 2^63
Fractions == {"1.5", "-1"}       \* what is read as a double: a sign is no digit
Blank == {" "}
WordEnd == Blank \cup {",", "}", "]"}

Value(type, content) == [type |-> type, content |-> content]
Null == Value("UNKNOWN", <<>>)

\* operator[]: the value of a name that is there is replaced where it stands.
Put(pairs, name, value) ==
  IF \E i \in DOMAIN pairs : pairs[i][1] = name
  THEN [i \in DOMAIN pairs |-> IF pairs[i][1] = name THEN <<name, value>> ELSE pairs[i]]
  ELSE Append(pairs, <<name, value>>)

Result(status, value, pos) == [status |-> status, value |-> value, pos |-> pos]
At(text, pos) == IF pos \in DOMAIN text THEN text[pos] ELSE "end"
Whitespace(text, pos) ==
  Min({p \in pos .. Len(text) + 1 : p > Len(text) \/ text[p] \notin Blank} \cup {pos + Len(text)})

\* A word reaches to the next blank, comma or closing bracket.  What is neither
\* a constant nor a number is read as a number all the same, and an exponent
\* without a point is taken for digits: every character is at least '0'.
ReadWord(text, pos) ==
  LET end == Min({p \in pos .. Len(text) + 1 : p > Len(text) \/ text[p] \in WordEnd})
      word == text[pos]
      value == IF word = "null" THEN Null
               ELSE IF word \in {"true", "false"} THEN Value("BOOLEAN", word)
               ELSE IF word \in Integers10 THEN Value("INTEGER", word)
               ELSE Value("FLOAT", word)
  IN IF end = pos THEN Result("throw", Null, pos)
     ELSE IF end > pos + 1 \/ word \notin {"null", "true", "false"} \cup Integers10 \cup Fractions
     THEN Result("fault", Null, pos)
     ELSE Result("ok", value, end)

RECURSIVE resolve(_, _), Elements(_, _, _), Members(_, _, _)

\* resolve(): nothing but blanks is null.
resolve(text, start) ==
  LET pos == Whitespace(text, start)
      next == Whitespace(text, pos + 1)
      first == At(text, pos)
  IN IF pos > Len(text) THEN Result("ok", Null, pos)
     ELSE IF first = "{"
     THEN IF At(text, next) = "end" THEN Result("throw", Null, next)
          ELSE IF At(text, next) = "}" THEN Result("ok", Value("COMPONENT", <<>>), next + 1)
          ELSE Members(text, next, <<>>)
     ELSE IF first = "["
     THEN IF At(text, next) = "end" THEN Result("throw", Null, next)
          ELSE IF At(text, next) = "]" THEN Result("ok", Value("ARRAY", <<>>), next + 1)
          ELSE Elements(text, next, <<>>)
     ELSE IF first \in Strings THEN Result("ok", Value("STRING", first), pos + 1)
     ELSE ReadWord(text, pos)

Elements(text, pos, items) ==
  LET item == resolve(text, pos)
      end == Whitespace(text, item.pos)
      more == Append(items, item.value)
  IN IF item.status # "ok" THEN item
     ELSE IF At(text, end) = "," THEN Elements(text, end + 1, more)
     ELSE IF At(text, end) = "]" THEN Result("ok", Value("ARRAY", more), end + 1)
     ELSE Result("throw", Null, end)

Members(text, start, pairs) ==
  LET pos == Whitespace(text, start)
      colon == Whitespace(text, pos + 1)
      item == resolve(text, colon + 1)
      end == Whitespace(text, item.pos)
      more == Put(pairs, text[pos], item.value)
  IN IF At(text, pos) \notin Strings \/ At(text, colon) # ":" THEN Result("throw", Null, pos)
     ELSE IF item.status # "ok" THEN item
     ELSE IF At(text, end) = "," THEN Members(text, end + 1, more)
     ELSE IF At(text, end) = "}" THEN Result("ok", Value("COMPONENT", more), end + 1)
     ELSE Result("throw", Null, end)

\* JSON::resolve: what follows the value is not looked at.
Read(text) == resolve(text, 1)

\* stringify() of a string in a value: its literal, and behind it what the rest
\* of the buffer happens to hold.
StringTokens(token, stray) ==
  LET r == StringifyString(TextOf[token])
  IN <<token>> \o [i \in 1 .. r.length - Len(r.text) |-> stray]

RECURSIVE stringify(_, _)

\* object::stringify.
stringify(v, stray) ==
  LET Comma(i) == IF i = 1 THEN <<>> ELSE <<",">>
      n == Len(v.content)
  IN IF v.type = "UNKNOWN" THEN <<"null">>
     ELSE IF v.type = "STRING" THEN StringTokens(v.content, stray)
     ELSE IF v.type = "COMPONENT"
     THEN <<"{">> \o FlattenSeq([i \in 1 .. n |->
            Comma(i) \o StringTokens(v.content[i][1], stray) \o <<":">> \o stringify(v.content[i][2], stray)])
          \o <<"}">>
     ELSE IF v.type = "ARRAY"
     THEN <<"[">> \o FlattenSeq([i \in 1 .. n |-> Comma(i) \o stringify(v.content[i], stray)]) \o <<"]">>
     ELSE <<v.content>>

-----------------------------------------------------------------------------
(* The reference: the values of every text of n tokens, as the grammar has it. *)

\* Concatenations of a text of i tokens, a separator, and one of n - 1 - i.
Cat(n, separator, First(_), Second(_), Join(_, _)) ==
  UNION {{<<x[1] \o <<separator>> \o y[1], Join(x[2], y[2])>> : x \in First(i), y \in Second(n - 1 - i)}
         : i \in 1 .. n - 2}
Led(S) == {<<<<" ">> \o x[1], x[2]>> : x \in S}
Closed(S) == {<<Append(x[1], " "), x[2]>> : x \in S}
Wrapped(open, S, close, type) == {<<<<open>> \o x[1] \o <<close>>, Value(type, x[2])>> : x \in S}
Blanks(k) == {<<[i \in 1 .. k |-> " "], <<>>>>}

Words == {<<<<"null">>, Null>>, <<<<"true">>, Value("BOOLEAN", "true")>>,
          <<<<"false">>, Value("BOOLEAN", "false")>>}
         \cup {<<<<w>>, Value("INTEGER", w)>> : w \in Integers10}
         \cup {<<<<w>>, Value("FLOAT", w)>> : w \in Fractions}
Names == {<<<<s>>, Value("STRING", s)>> : s \in Strings}

Grammar(n) ==
  LET g[k \in 0 .. n] ==
        IF k = 0 THEN [values |-> {}, items |-> {}, lists |-> {}, names |-> {}, members |-> {}, pairs |-> {}]
        ELSE
        LET prev == g[k - 1]
            inner == IF k < 2 THEN g[0] ELSE g[k - 2]
            values == (IF k = 1 THEN Words \cup Names ELSE {}) \cup Led(prev.values)
                      \cup (IF k < 2 THEN {} ELSE
                              Wrapped("[", inner.lists \cup Blanks(k - 2), "]", "ARRAY")
                              \cup Wrapped("{", inner.pairs \cup Blanks(k - 2), "}", "COMPONENT"))
            items == values \cup Closed(prev.items)
            names == (IF k = 1 THEN Names ELSE {}) \cup Led(prev.names) \cup Closed(prev.names)
            members == Cat(k, ":", LAMBDA i : g[i].names, LAMBDA i : g[i].items,
                           LAMBDA name, value : <<name.content, value>>)
        IN [values |-> values, items |-> items, names |-> names, members |-> members,
            lists |-> {<<x[1], <<x[2]>>>> : x \in items}
                      \cup Cat(k, ",", LAMBDA i : g[i].lists, LAMBDA i : g[i].items, Append),
            pairs |-> {<<x[1], <<x[2]>>>> : x \in members}
                      \cup Cat(k, ",", LAMBDA i : g[i].pairs, LAMBDA i : g[i].members,
                               LAMBDA pairs, member : Put(pairs, member[1], member[2]))]
  IN g

\* A literal is read back as what was written, if that has no byte of 0x80 or
\* more; no more is written than the buffer holds, a text of at most three
\* characters that ends with one that takes six aside; and the text returned is
\* what was written if nothing was escaped, and holds all of it in any case.
EscapesExact(str) ==
  LET r == StringifyString(str)
      read == ReadEscapeString(r.text)
      escaped == \E i \in DOMAIN str : str[i] \in DOMAIN ESCAPE \cup {"SOH"}
  IN /\ read.status = "ok" /\ read.pos = Len(r.text) + 1
     /\ "high" \notin ToSet(str) => read.value = str
     /\ Len(str) \notin 1 .. 3 \/ Last(str) # "SOH" => ~r.over
     /\ ~escaped => r.length = Len(r.text)
     /\ ~r.over => r.length >= Len(r.text)

\* Documents: a text of these tokens is read exactly if it begins with a text of
\* the grammar and a word ends there, or if it is blank.
\* (`values` and `texts`: the grammar's, by length.)
DocumentExact(text, values, texts) ==
  LET r == Read(text)
      Begins(i) == SubSeq(text, 1, i) \in texts[i]
      Ends(i) == i = Len(text) \/ text[i] \in Strings \cup {"]", "}"} \/ text[i + 1] \in WordEnd
  IN IF \A i \in DOMAIN text : text[i] \in Blank THEN r.status = "ok" /\ r.value = Null
     ELSE IF r.status = "ok" THEN <<SubSeq(text, 1, r.pos - 1), r.value>> \in values[r.pos - 1]
     ELSE ~\E i \in DOMAIN text : Begins(i) /\ Ends(i)

\* Values: the text of a value is read as that value, to the end, but a negative
\* integer as a double.  Nothing is said of two kinds of values: those with a
\* string that is escaped, whose text has stray bytes behind its literal, and
\* those with a double that is written with an exponent.
RECURSIVE Reread(_), Unsaid(_)
Reread(v) ==
  IF v.type = "COMPONENT" THEN Value(v.type, [i \in DOMAIN v.content |-> <<v.content[i][1], Reread(v.content[i][2])>>])
  ELSE IF v.type = "ARRAY" THEN Value(v.type, [i \in DOMAIN v.content |-> Reread(v.content[i])])
  ELSE IF v.content \in Fractions THEN Value("FLOAT", v.content)
  ELSE v
Unsaid(v) ==
  IF v.type = "COMPONENT" THEN \E i \in DOMAIN v.content : v.content[i][1] = "E" \/ Unsaid(v.content[i][2])
  ELSE IF v.type = "ARRAY" THEN \E i \in DOMAIN v.content : Unsaid(v.content[i])
  ELSE v \in {Value("FLOAT", "1E8"), Value("STRING", "E")}
ValueExact(v) ==
  \A stray \in {" ", "stray"} :
    LET text == stringify(v, stray)
        r == Read(text)
    IN ~Unsaid(v) => r = Result("ok", Reread(v), Len(text) + 1)
=============================================================================
