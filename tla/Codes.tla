-------------------------------- MODULE Codes --------------------------------
(* Cryptography's codes and generators: BASE64 (BASE64.cpp), cyclic redundancy *)
(* checks (CRC.cpp), the Mersenne twister (MersenneTwister.cpp) and numbers    *)
(* below a bound (RNG.cpp).  Characters are their ASCII codes.  A register of  *)
(* the checks is the set of the positions of its ones (Polynomials).  The      *)
(* twister's words have W bits, and N, M and R are small; its constants are    *)
(* those of the source cut down to W bits.                                     *)
EXTENDS Integers, Sequences, FiniteSets, Bitwise, Polynomials
LOCAL INSTANCE SequencesExt

CONSTANTS W, N, M, R

Violation == <<-1>>                            \* the answer of a call that faults

-----------------------------------------------------------------------------
(* BASE64.                                                                     *)

Pad == 61
B64(x) == CASE x < 26 -> 65 + x
            [] x \in 26 .. 51 -> 97 + (x - 26)
            [] x \in 52 .. 61 -> 48 + (x - 52)
            [] x = 62 -> 43
            [] x = 63 -> 47

\* The sextet that begins at a bit of the data; the last one may lack bits.
SextetAt(data, position) ==
  LET byte == data[(position \div 8) + 1]
      next == data[(position \div 8) + 2]
      available == 8 * Len(data) - position
  IN CASE available < 6 -> (byte * 2 ^ (6 - available)) % 64
       [] available >= 6 /\ position % 8 = 0 -> byte \div 4
       [] available >= 6 /\ position % 8 = 2 -> byte % 64
       [] available >= 6 /\ position % 8 = 4 -> (byte % 16) * 4 + (next \div 64)
       [] available >= 6 /\ position % 8 = 6 -> (byte % 4) * 16 + (next \div 16)

Encode(data) ==
  LET bits == 8 * Len(data)
      sextets == (bits \div 6) + (IF bits % 6 = 0 THEN 0 ELSE 1)
      padding == (3 - ((bits % 6) \div 2)) % 3
  IN [k \in 1 .. sextets |-> B64(SextetAt(data, 6 * (k - 1)))] \o [k \in 1 .. padding |-> Pad]

\* The value of a character, 64 for one that is not of the alphabet.
ValueOf(c) == CASE c \in 65 .. 90 -> c - 65
                [] c \in 97 .. 122 -> 26 + (c - 97)
                [] c \in 48 .. 57 -> 52 + (c - 48)
                [] c = 43 -> 62
                [] c = 47 -> 63
                [] OTHER -> 64

\* One turn of decode's loop: `pos` bits of the byte begun are known, and the
\* other bits of the last characters are dropped as they are.
Faulted == -1
DecodeNext(s, c) ==
  LET x == ValueOf(c)
      Out(byte, temp, pos) == [out |-> Append(s.out, byte), temp |-> temp, pos |-> pos]
  IN CASE s.pos = Faulted \/ x = 64 -> [s EXCEPT !.pos = Faulted]
       [] s.pos = 0 /\ x < 64 -> [s EXCEPT !.temp = x * 4, !.pos = 6]
       [] s.pos = 6 /\ x < 64 -> Out(s.temp + (x \div 16), (x * 16) % 256, 4)
       [] s.pos = 4 /\ x < 64 -> Out(s.temp + (x \div 4), (x * 64) % 256, 2)
       [] s.pos = 2 /\ x < 64 -> Out(s.temp + x, 0, 0)

\* Two '=' are looked for, each at its place whatever the other one is.
Decode(text) ==
  LET n == Len(text)
      Ends(i) == IF n > 0 /\ text[n - i] = Pad THEN 1 ELSE 0
      append == Ends(0) + Ends(1)
      end == FoldLeft(DecodeNext, [out |-> <<>>, temp |-> 0, pos |-> 0], SubSeq(text, 1, n - append))
  IN IF n % 4 # 0 \/ end.pos = Faulted THEN Violation ELSE end.out

-----------------------------------------------------------------------------
(* Cyclic redundancy checks.                                                   *)

\* The rows of ARGUMENT of up to 16 bits: INIT, REFI and REFO (always equal),
\* POLY, XORO and WIDT; MASK is all ones.
Row(init, ref, poly, xoro, widt) ==
  [init |-> BitsOf(init), ref |-> ref, poly |-> BitsOf(poly), xoro |-> BitsOf(xoro), widt |-> widt]
ARGUMENT == <<
  Row(0, TRUE, 3, 0, 4), Row(9, FALSE, 9, 0, 5), Row(0, TRUE, 21, 0, 5), Row(31, TRUE, 5, 31, 5),
  Row(0, TRUE, 3, 0, 6), Row(0, FALSE, 9, 0, 7), Row(0, FALSE, 7, 0, 8), Row(0, FALSE, 7, 85, 8),
  Row(255, TRUE, 7, 0, 8), Row(0, TRUE, 49, 0, 8), Row(0, TRUE, 32773, 0, 16),
  Row(0, TRUE, 32773, 65535, 16), Row(65535, TRUE, 32773, 65535, 16), Row(65535, TRUE, 32773, 0, 16),
  Row(0, TRUE, 4129, 0, 16), Row(65535, FALSE, 4129, 0, 16), Row(65535, TRUE, 4129, 65535, 16),
  Row(0, FALSE, 4129, 0, 16), Row(0, TRUE, 33800, 0, 16), Row(0, TRUE, 15717, 65535, 16)>>

\* The bits of a byte from the one taken first: REF turns the byte round.
InOrder(row, byte) ==
  [j \in 1 .. 8 |-> LET e == IF row.ref THEN j - 1 ELSE 8 - j IN (byte \div 2 ^ e) % 2 = 1]

Shifted(crc, row, bit) ==
  LET left == {e + 1 : e \in crc} \cap 0 .. row.widt - 1
  IN IF (row.widt - 1 \in crc) # bit THEN Plus(left, row.poly) ELSE left
Update(crc, row, bytes) ==
  FoldLeft(LAMBDA register, byte :
             FoldLeft(LAMBDA r, bit : Shifted(r, row, bit), register, InOrder(row, byte)),
           crc, bytes)
CrcValue(crc, row) ==
  Plus(IF row.ref THEN {row.widt - 1 - e : e \in crc} ELSE crc, row.xoro)

-----------------------------------------------------------------------------
(* The Mersenne twister: K of its N words are used up.                         *)

Word == 2 ^ W
LOWER_MASK == 2 ^ R - 1
A == 233 % Word                     \* of each constant, a byte that is not 0
F == 45 % Word
U == (29 * W) \div 64
S == (17 * W) \div 64
T == (37 * W) \div 64
L == (43 * W) \div 64
D == 85 % Word
B == 113 % Word
C == 255 % Word

Seed(seed) ==
  LET mt[i \in 0 .. N - 1] ==
        IF i = 0 THEN seed
        ELSE LET previous == mt[i - 1]
             IN (F * (previous ^^ (previous \div 2 ^ (W - 2))) + i) % Word
  IN [MT |-> [i \in 0 .. N - 1 |-> mt[i]], K |-> N]

Joined(upper, lower) == (upper - (upper % (LOWER_MASK + 1))) + (lower % (LOWER_MASK + 1))
Mixed(x) == (x \div 2) ^^ ((x % 2) * A)
TwistAt(mt, i) ==
  [mt EXCEPT ![i] = mt[(i + M) % N] ^^ Mixed(Joined(mt[i], mt[(i + 1) % N]))]
\* Every word from the words before the call.
Twist_Copied(twister) ==
  [MT |-> [i \in 0 .. N - 1 |-> TwistAt(twister.MT, i)[i]], K |-> 0]
Twist(twister) ==
  [MT |-> FoldLeft(TwistAt, twister.MT, [i \in 1 .. N |-> i - 1]), K |-> 0]

Tempered(x) ==
  LET y == x ^^ ((x \div 2 ^ U) & D)
      v == y ^^ (((y * 2 ^ S) % Word) & B)
      u == v ^^ (((v * 2 ^ T) % Word) & C)
  IN u ^^ (u \div 2 ^ L)

Random(twister) ==
  LET ready == IF twister.K >= N THEN Twist(twister) ELSE twister
  IN [twister |-> [ready EXCEPT !.K = @ + 1], value |-> Tempered(ready.MT[ready.K])]

-----------------------------------------------------------------------------
(* Numbers below a bound: r * max in two words, by shifts and sums without a   *)
(* multiplication; `h` and `l` are a number's high and low word.               *)

Doubled(h, l) == <<((h * 2) + (l \div 2 ^ (W - 1))) % Word, (l * 2) % Word>>
RECURSIVE Sum2(_, _, _, _)
Sum2(rh, rl, h, l) ==
  IF h = 0 /\ l = 0 THEN <<rh, rl>>
  ELSE LET carry == Doubled(rh & h, rl & l)
       IN Sum2(rh ^^ h, rl ^^ l, carry[1], carry[2])
RECURSIVE Product(_, _, _, _, _)
Product(max, rh, rl, ah, al) ==
  IF max = 0 THEN rh
  ELSE LET sum == IF max % 2 = 1 THEN Sum2(rh, rl, ah, al) ELSE <<rh, rl>>
           a == Doubled(ah, al)
       IN Product(max \div 2, sum[1], sum[2], a[1], a[2])
Below(r, max) == Product(max, 0, 0, 0, r)

-----------------------------------------------------------------------------
(* What they are, without the code's loops.                                    *)

\* RFC 2045: three bytes are the digits in base 256 of what four characters are
\* in base 64; one or two bytes alone are completed by zeros.
Groups(n, size) == 1 .. ((n + size - 1) \div size)
Digit(s, i) == IF i <= Len(s) THEN s[i] ELSE 0
Triple(data, g) == 65536 * Digit(data, 3 * g - 2) + 256 * Digit(data, 3 * g - 1) + Digit(data, 3 * g)
CharacterAt(data, i) ==
  IF i > (4 * Len(data) + 2) \div 3 THEN Pad
  ELSE LET g == (i + 3) \div 4
       IN B64((Triple(data, g) \div 64 ^ (4 * g - i)) % 64)
Encoding(data) == [i \in 1 .. 4 * Cardinality(Groups(Len(data), 3)) |-> CharacterAt(data, i)]

Pads(text) == Cardinality({i \in 1 .. Len(text) : \A j \in i .. Len(text) : text[j] = Pad})
IsEncoding(text) ==
  /\ Len(text) % 4 = 0 /\ Pads(text) <= 2
  /\ \A i \in 1 .. Len(text) - Pads(text) : ValueOf(text[i]) < 64
Quad(text, g) ==
  LET X(i) == IF text[i] = Pad THEN 0 ELSE ValueOf(text[i])
  IN 64 * (64 * (64 * X(4 * g - 3) + X(4 * g - 2)) + X(4 * g - 1)) + X(4 * g)
Meaning(text) ==
  [i \in 1 .. 3 * (Len(text) \div 4) - Pads(text) |->
     LET g == (i + 2) \div 3 IN (Quad(text, g) \div 256 ^ (3 * g - i)) % 256]

\* Bytes are encoded as RFC 2045 says and decoded as they were; a text is either
\* decoded to what it means or refused (BASE64.cpp).  The bits that a last
\* character has too many need not be zero.
BytesExact(data) == Encode(data) = Encoding(data) /\ Decode(Encode(data)) = data
TextExact(text) == Decode(text) = IF IsEncoding(text) THEN Meaning(text) ELSE Violation

\* A check is the remainder of the message, with INIT over its first bits and
\* WIDT zeros behind it, however the message is cut into updates (CRC.cpp).
CrcExact(row, bytes, cut) ==
  LET bits == FlattenSeq([i \in DOMAIN bytes |-> InOrder(row, bytes[i])])
      n == Len(bits)
      message == {(n - i) + row.widt : i \in {i \in 1 .. n : bits[i]}}
      start == {e + n : e \in row.init}
      divided == Remainder(Plus(message, start), row.poly \cup {row.widt}, row.widt)
      crc == Update(Update(row.init, row, SubSeq(bytes, 1, cut)), row, SubSeq(bytes, cut + 1, Len(bytes)))
  IN CrcValue(crc, row) = CrcValue(divided, row)

\* The words of the twister are the infinite sequence of its recurrence, although
\* twist() overwrites the words it still reads (MersenneTwister.cpp:12-22).
Sequence(seed, length) ==
  LET first == Seed(seed).MT
      x[k \in 0 .. length] ==
        IF k < N THEN first[k]
        ELSE x[k - N + M] ^^ Mixed(Joined(x[k - N], x[k - N + 1]))
  IN x
Draws(seed, n) ==
  LET d[k \in 1 .. n] == Random(IF k = 1 THEN Seed(seed) ELSE d[k - 1].twister) IN d
TwisterExact(seed) ==
  LET n == 2 * N + 1
      x == Sequence(seed, N + n)
      draws == Draws(seed, n)
  IN \A k \in 1 .. n : draws[k].value = Tempered(x[N + k - 1])

\* "This works looks like: r * (max / 2^64)" (RNG.h:20-21), for every r and max.
BelowExact(r, max) == Below(r, max) = (r * max) \div Word
=============================================================================
