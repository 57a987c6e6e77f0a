------------------------------- MODULE Hashes -------------------------------
(* The hash of one block of MD4, MD5, SHA-1 and SHA-2, which MessageDigest     *)
(* takes as given, and the digests of whole messages.  A word of w bits is the *)
(* set of the positions of its ones; a number of the source's tables is given  *)
(* by its digits to the base 2^16, the highest first.                          *)
EXTENDS Integers, Sequences, Polynomials
LOCAL INSTANCE SequencesExt

Word(digits) ==
  UNION {{16 * (Len(digits) - i) + e : e \in BitsOf(digits[i])} : i \in DOMAIN digits}

\* Sums carry, and drop what passes the word.
RECURSIVE Added(_, _, _)
Added(x, y, w) ==
  IF y = {} THEN x ELSE Added(Plus(x, y), {e + 1 : e \in x \cap y} \cap (0 .. w - 1), w)
Sum(words, w) == FoldLeft(LAMBDA x, y : Added(x, y, w), {}, words)
Not(x, w) == (0 .. w - 1) \ x
ROTL(x, n, w) == {(e + n) % w : e \in x}
ROTR(x, n, w) == {(e + w - n) % w : e \in x}
Shifted(x, n) == {e - n : e \in {e \in x : e >= n}}

\* Memory::LE::get and Memory::BE::get: word i of a block of bytes.
LE(block, i, w) == UNION {{8 * k + e : e \in BitsOf(block[(w \div 8) * i + k + 1])} : k \in 0 .. (w \div 8) - 1}
BE(block, i, w) == UNION {{w - 8 - 8 * k + e : e \in BitsOf(block[(w \div 8) * i + k + 1])} : k \in 0 .. (w \div 8) - 1}
\* What transform saves of a digest's words.
Byte(x, k) == FoldLeft(LAMBDA n, e : n + (IF 8 * k + e \in x THEN 2 ^ e ELSE 0), 0, [e \in 1 .. 8 |-> e - 1] )
Saved(H, w, order) ==
  LET n == w \div 8
  IN [i \in 1 .. n * Len(H) |->
       LET k == (i - 1) % n
       IN Byte(H[((i - 1) \div n) + 1], IF order = "LE" THEN k ELSE n - 1 - k)]

\* The state after n turns of a loop.  CHOOSE from one binds each state once.
Turns(Turn(_, _), state, n) ==
  LET after[t \in 0 .. n] ==
        IF t = 0 THEN state ELSE CHOOSE next \in {Turn(s, t - 1) : s \in {after[t - 1]}} : TRUE
  IN after[n]
\* The digest and the registers, word by word.
PlusWords(H, registers, w) == [i \in DOMAIN H |-> Added(H[i], registers[i], w)]

Ch(x, y, z, w) == Plus(x \cap y, Not(x, w) \cap z)
Maj(x, y, z) == Plus(Plus(x \cap y, x \cap z), y \cap z)

-----------------------------------------------------------------------------
(* MD4 and MD5: each step changes one of the registers A, B, C and D.          *)

MD4K == <<<<0, 1, 2, 3, 4, 5, 6, 7, 8, 9, 10, 11, 12, 13, 14, 15>>,
          <<0, 4, 8, 12, 1, 5, 9, 13, 2, 6, 10, 14, 3, 7, 11, 15>>,
          <<0, 8, 4, 12, 2, 10, 6, 14, 1, 9, 5, 13, 3, 11, 7, 15>>>>
MD4S == <<<<3, 7, 11, 19>>, <<3, 5, 9, 13>>, <<3, 9, 11, 15>>>>
MD4CONSTANT == <<<<0, 0>>, <<23170, 31129>>, <<28377, 60321>>>>
MD4Func(i, X, Y, Z) ==
  CASE i = 0 -> (X \cap Y) \cup (Not(X, 32) \cap Z)
    [] i = 1 -> Maj(X, Y, Z)
    [] i = 2 -> Plus(Plus(X, Y), Z)

MD5K == <<<<0, 1, 2, 3, 4, 5, 6, 7, 8, 9, 10, 11, 12, 13, 14, 15>>,
          <<1, 6, 11, 0, 5, 10, 15, 4, 9, 14, 3, 8, 13, 2, 7, 12>>,
          <<5, 8, 11, 14, 1, 4, 7, 10, 13, 0, 3, 6, 9, 12, 15, 2>>,
          <<0, 7, 14, 5, 12, 3, 10, 1, 8, 15, 6, 13, 4, 11, 2, 9>>>>
MD5S == <<<<7, 12, 17, 22>>, <<5, 9, 14, 20>>, <<4, 11, 16, 23>>, <<6, 10, 15, 21>>>>
MD5T ==
  <<<<55146, 42104>>, <<59591, 46934>>, <<9248, 28891>>, <<49597, 52974>>,
    <<62844, 4015>>, <<18311, 50730>>, <<43056, 17939>>, <<64838, 38145>>,
    <<27008, 39128>>, <<35652, 63407>>, <<65535, 23473>>, <<35164, 55230>>,
    <<27536, 4386>>, <<64920, 29075>>, <<42617, 17294>>, <<18868, 2081>>,
    <<63006, 9570>>, <<49216, 45888>>, <<9822, 23121>>, <<59830, 51114>>,
    <<54831, 4189>>, <<580, 5203>>, <<55457, 59009>>, <<59347, 64456>>,
    <<8673, 52710>>, <<49975, 2006>>, <<62677, 3463>>, <<17754, 5357>>,
    <<43491, 59653>>, <<64751, 41976>>, <<26479, 729>>, <<36138, 19594>>,
    <<65530, 14658>>, <<34673, 63105>>, <<28061, 24866>>, <<64997, 14348>>,
    <<42174, 59972>>, <<19422, 53161>>, <<63163, 19296>>, <<48831, 48240>>,
    <<10395, 32454>>, <<60065, 10234>>, <<54511, 12421>>, <<1160, 7429>>,
    <<55764, 53305>>, <<59099, 39397>>, <<8098, 31992>>, <<50348, 22117>>,
    <<62505, 8772>>, <<17194, 65431>>, <<43924, 9127>>, <<64659, 41017>>,
    <<25947, 22979>>, <<36620, 52370>>, <<65519, 62589>>, <<34180, 24017>>,
    <<28584, 32335>>, <<65068, 59104>>, <<41729, 17172>>, <<19976, 4513>>,
    <<63315, 32386>>, <<48442, 62005>>, <<10967, 53947>>, <<60294, 54161>>>>

MD5Func(i, X, Y, Z) ==
  CASE i = 0 -> (X \cap Y) \cup (Not(X, 32) \cap Z)
    [] i = 1 -> (X \cap Z) \cup (Y \cap Not(Z, 32))
    [] i = 2 -> Plus(Plus(X, Y), Z)
    [] i = 3 -> Plus(Y, X \cup Not(Z, 32))

\* Step j of round i adds to one register a function of the others, a word of the
\* block and a constant, and turns it.
CalculateMD4(X, H) ==
  LET Turn(ABCD, t) ==
        LET i == t \div 16
            j == t % 16
            idx == (4 - (j % 4)) % 4
            R(k) == ABCD[((idx + k) % 4) + 1]
        IN [ABCD EXCEPT ![idx + 1] =
              ROTL(Sum(<<R(0), MD4Func(i, R(1), R(2), R(3)), LE(X, MD4K[i + 1][j + 1], 32),
                         Word(MD4CONSTANT[i + 1])>>, 32), MD4S[i + 1][(j % 4) + 1], 32)]
  IN PlusWords(Turns(Turn, H, 48), H, 32)
CalculateMD5(X, H) ==
  LET Turn(ABCD, t) ==
        LET i == t \div 16
            j == t % 16
            idx == (4 - (j % 4)) % 4
            R(k) == ABCD[((idx + k) % 4) + 1]
        IN [ABCD EXCEPT ![idx + 1] =
              Added(ROTL(Sum(<<R(0), MD5Func(i, R(1), R(2), R(3)), LE(X, MD5K[i + 1][j + 1], 32),
                               Word(MD5T[t + 1])>>, 32), MD5S[i + 1][(j % 4) + 1], 32),
                    R(1), 32)]
  IN PlusWords(Turns(Turn, H, 64), H, 32)

-----------------------------------------------------------------------------
(* SHA-1 and SHA-2: the words of the block are extended as the loop runs, and  *)
(* the registers move on by one.  A turn's state is the registers and W so far.*)

SHA1K == <<<<23170, 31129>>, <<28377, 60321>>, <<36635, 48348>>, <<51810, 49622>>>>
SHA1Func(q, B, C, D) ==
  CASE q = 0 -> (B \cap C) \cup (Not(B, 32) \cap D)
    [] q = 2 -> (B \cap C) \cup (B \cap D) \cup (C \cap D)
    [] OTHER -> Plus(Plus(B, C), D)

CalculateSHA1(block, H) ==
  LET Turn(s, t) ==
        LET r == s.registers
            W(k) == s.W[t + 1 - k]
            Wt == IF t > 15
                  THEN ROTL(Plus(Plus(W(3), W(8)), Plus(W(14), W(16))), 1, 32)
                  ELSE BE(block, t, 32)
            TEMP == Sum(<<ROTL(r[1], 5, 32), SHA1Func(t \div 20, r[2], r[3], r[4]), r[5], Wt,
                          Word(SHA1K[(t \div 20) + 1])>>, 32)
        IN [registers |-> <<TEMP, r[1], ROTL(r[2], 30, 32), r[3], r[4]>>, W |-> Append(s.W, Wt)]
  IN PlusWords(Turns(Turn, [registers |-> H, W |-> <<>>], 80).registers, H, 32)

SHA512K ==
  <<<<17034, 12184, 55080, 44578>>, <<28983, 17553, 9199, 26061>>,
    <<46528, 64463, 60493, 15151>>, <<59829, 56229, 33161, 56252>>,
    <<14678, 49755, 62280, 46392>>, <<23025, 4593, 46597, 53273>>,
    <<37439, 33444, 44825, 20379>>, <<43804, 24277, 55917, 33048>>,
    <<55303, 43672, 41731, 578>>, <<4739, 23297, 17776, 28606>>,
    <<9265, 34238, 20196, 45708>>, <<21772, 32195, 54783, 46306>>,
    <<29374, 23924, 62075, 35183>>, <<32990, 45566, 15126, 38577>>,
    <<39900, 1703, 9671, 4661>>, <<49563, 61812, 53097, 9876>>,
    <<58523, 27073, 40689, 19154>>, <<61374, 18310, 14415, 9699>>,
    <<4033, 40390, 35724, 54709>>, <<9228, 41420, 30636, 40037>>,
    <<11753, 11375, 22827, 629>>, <<19060, 33962, 28326, 58499>>,
    <<23728, 43484, 48449, 64468>>, <<30457, 35034, 33553, 21429>>,
    <<38974, 20818, 61030, 57259>>, <<43057, 50797, 11700, 12816>>,
    <<45059, 10184, 39163, 8511>>, <<48985, 32711, 48879, 3812>>,
    <<50912, 3059, 15784, 36802>>, <<54695, 37191, 37642, 42789>>,
    <<1738, 25425, 57347, 33391>>, <<5161, 10599, 2574, 28272>>,
    <<10167, 2693, 18130, 12284>>, <<11803, 8504, 23590, 51494>>,
    <<19756, 28156, 23236, 10989>>, <<21304, 3347, 40341, 46047>>,
    <<25866, 29524, 35759, 25566>>, <<30314, 2747, 15479, 45736>>,
    <<33218, 51502, 18413, 44774>>, <<37490, 11397, 5250, 13627>>,
    <<41663, 59553, 19697, 868>>, <<43034, 26187, 48194, 12289>>,
    <<49739, 35696, 53496, 38801>>, <<51052, 20899, 1620, 48688>>,
    <<53650, 59417, 55023, 21016>>, <<54937, 1572, 21861, 43280>>,
    <<62478, 13701, 22385, 8234>>, <<4202, 41072, 12987, 53688>>,
    <<6564, 49430, 47314, 53448>>, <<7735, 27656, 20801, 43859>>,
    <<10056, 30540, 57230, 60313>>, <<13488, 48309, 57755, 18600>>,
    <<14620, 3251, 50633, 23139>>, <<20184, 43594, 58177, 35531>>,
    <<23452, 51791, 30563, 58227>>, <<26670, 28659, 54962, 47267>>,
    <<29839, 33518, 24047, 45820>>, <<30885, 25455, 17175, 12128>>,
    <<33992, 30740, 41456, 43890>>, <<36039, 520, 6756, 14828>>,
    <<37054, 65530, 9059, 7720>>, <<42064, 27883, 56962, 48617>>,
    <<48889, 41975, 45766, 30997>>, <<50801, 30962, 58226, 21291>>,
    <<51751, 16078, 59942, 24988>>, <<53638, 47303, 8640, 49671>>,
    <<60122, 32214, 52704, 60190>>, <<62845, 20351, 61038, 53624>>,
    <<1776, 26538, 29207, 28602>>, <<2659, 32197, 41672, 39078>>,
    <<4415, 38916, 48889, 3502>>, <<7025, 2869, 4892, 18203>>,
    <<10459, 30709, 8964, 32132>>, <<13002, 43899, 16583, 9363>>,
    <<15518, 48650, 5577, 48828>>, <<17181, 26564, 39952, 3404>>,
    <<19653, 54462, 52030, 17078>>, <<22911, 10652, 64613, 32298>>,
    <<24523, 28587, 15062, 64236>>, <<27716, 6540, 19015, 22551>>>>

\* SHA256K holds the upper halves of the first 64 of SHA512K.
SHA256K == [t \in 1 .. 64 |-> SubSeq(SHA512K[t], 1, 2)]

Turned(x, n, w) == Plus(Plus(ROTR(x, n[1], w), ROTR(x, n[2], w)), ROTR(x, n[3], w))
TurnedOut(x, n, w) == Plus(Plus(ROTR(x, n[1], w), ROTR(x, n[2], w)), Shifted(x, n[3]))

\* The functions of SHA-256 and of SHA-512 differ in their words and in how far
\* they turn them.
SHA256Form == [w |-> 32, turns |-> 64, SIGMA0 |-> <<2, 13, 22>>, SIGMA1 |-> <<6, 11, 25>>,
               Sigma0 |-> <<7, 18, 3>>, Sigma1 |-> <<17, 19, 10>>]
SHA512Form == [w |-> 64, turns |-> 80, SIGMA0 |-> <<28, 34, 39>>, SIGMA1 |-> <<14, 18, 41>>,
               Sigma0 |-> <<1, 8, 7>>, Sigma1 |-> <<19, 61, 6>>]
CalculateSHA2(f, K, block, H) ==
  LET Turn(s, t) ==
        LET r == s.registers
            W(k) == s.W[t + 1 - k]
            Wt == IF t > 15
                  THEN Sum(<<TurnedOut(W(2), f.Sigma1, f.w), W(7),
                             TurnedOut(W(15), f.Sigma0, f.w), W(16)>>, f.w)
                  ELSE BE(block, t, f.w)
            T1 == Sum(<<r[8], Turned(r[5], f.SIGMA1, f.w), Ch(r[5], r[6], r[7], f.w), Word(K[t + 1]), Wt>>, f.w)
            T2 == Added(Turned(r[1], f.SIGMA0, f.w), Maj(r[1], r[2], r[3]), f.w)
        IN [registers |-> <<Added(T1, T2, f.w), r[1], r[2], r[3], Added(r[4], T1, f.w), r[5], r[6], r[7]>>,
            W |-> Append(s.W, Wt)]
  IN PlusWords(Turns(Turn, [registers |-> H, W |-> <<>>], f.turns).registers, H, f.w)
CalculateSHA256(block, H) == CalculateSHA2(SHA256Form, SHA256K, block, H)
CalculateSHA512(block, H) == CalculateSHA2(SHA512Form, SHA512K, block, H)

-----------------------------------------------------------------------------
(* The subclasses: the digest a message starts from, the function for a block, *)
(* the bytes its length takes, the order of bytes, and how much of the digest  *)
(* is the answer.                                                              *)

Start32 == <<<<26437, 8961>>, <<61389, 43913>>, <<39098, 56574>>, <<4146, 21622>>>>
Common(calculate, w, order, length, start) ==
  [calculate |-> calculate, w |-> w, order |-> order, length |-> length, start |-> start]
MD4 == Common("MD4", 32, "LE", 16, Start32)
MD5 == Common("MD5", 32, "LE", 16, Start32)
SHA1 == Common("SHA1", 32, "BE", 20, Start32 \o <<<<50130, 57840>>>>)
SHA224 == Common("SHA256", 32, "BE", 28,
  <<<<49413, 40664>>, <<13948, 54535>>, <<12400, 56599>>, <<63246, 22841>>,
    <<65472, 2865>>, <<26712, 5393>>, <<25849, 36775>>, <<48890, 20388>>>>)
SHA256 == Common("SHA256", 32, "BE", 32,
  <<<<27145, 58983>>, <<47975, 44677>>, <<15470, 62322>>, <<42319, 62778>>,
    <<20750, 21119>>, <<39685, 26764>>, <<8067, 55723>>, <<23520, 52505>>>>)
SHA384 == Common("SHA512", 64, "BE", 48,
  <<<<52155, 40285, 49413, 40664>>, <<25242, 10538, 13948, 54535>>, <<37209, 346, 12400, 56599>>,
    <<5423, 60632, 63246, 22841>>, <<26419, 9831, 65472, 2865>>, <<36532, 19079, 26712, 5393>>,
    <<56076, 11789, 25849, 36775>>, <<18357, 18461, 48890, 20388>>>>)
SHA512 == Common("SHA512", 64, "BE", 64,
  <<<<27145, 58983, 62396, 51464>>, <<47975, 44677, 33994, 42811>>, <<15470, 62322, 65172, 63531>>,
    <<42319, 62778, 24349, 14065>>, <<20750, 21119, 44518, 33489>>, <<39685, 26764, 11070, 27679>>,
    <<8067, 55723, 64321, 48491>>, <<23520, 52505, 4990, 8569>>>>)

Calculate(type, block, H) ==
  CASE type.calculate = "MD4" -> CalculateMD4(block, H)
    [] type.calculate = "MD5" -> CalculateMD5(block, H)
    [] type.calculate = "SHA1" -> CalculateSHA1(block, H)
    [] type.calculate = "SHA256" -> CalculateSHA256(block, H)
    [] type.calculate = "SHA512" -> CalculateSHA512(block, H)

\* The message in whole blocks, as MessageDigest!HashesPadded states it.
Padded(type, message) ==
  LET size == 2 * type.w
      zeros == (2 * size - 1 - (type.w \div 4) - (Len(message) % size)) % size
      bits == 8 * Len(message)
      field == [i \in 1 .. type.w \div 4 |->
                 LET k == IF type.order = "LE" THEN i - 1 ELSE (type.w \div 4) - i
                 IN IF k < 3 THEN (bits \div 256 ^ k) % 256 ELSE 0]
  IN message \o <<128>> \o [i \in 1 .. zeros |-> 0] \o field
Digest(type, message) ==
  LET padded == Padded(type, message)
      size == 2 * type.w
      Block(H, n) == Calculate(type, SubSeq(padded, size * n + 1, size * n + size), H)
      start == [i \in DOMAIN type.start |-> Word(type.start[i])]
  IN SubSeq(Saved(Turns(Block, start, Len(padded) \div size), type.w, type.order), 1, type.length)

\* The answer is the one that RFC 1320, RFC 1321, RFC 3174 and FIPS 180-4 publish
\* (MD4, MD5, SHA1, SHA224, SHA256, SHA384, SHA512.cpp).
DigestExact(type, message, answer) == Digest(type, message) = answer
=============================================================================
