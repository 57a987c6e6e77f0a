--------------------------- MODULE StaticDictionary ---------------------------
(***************************************************************************)
(* The static dictionary of Compression/src/StaticDictionary.cpp: where    *)
(* the words of each length lie, and the transforms.  Bytes are numbers.   *)
(***************************************************************************)
EXTENDS Naturals, Sequences

CONSTANTS DICT,           \* the letters of all the words, shortest words first
          NDBITS,         \* NDBITS[n]: bits of the index of a word of n letters
          transformation  \* the transforms, [prefix, kind, suffix]: 121 in the code

ASSUME DictionaryAssumption ==
  /\ DICT \in Seq(0 .. 255)
  /\ NDBITS \in [4 .. 24 -> Nat] /\ \A n \in 4 .. 24 : 2 ^ NDBITS[n] \in Nat \ {0}
  /\ transformation \in Seq([prefix : Seq(0 .. 255), kind : 0 .. 20, suffix : Seq(0 .. 255)])

Lengths == 4 .. 24

(* DllMainStaticDictionary *)
NWORDS(n) == IF n < 4 THEN 0 ELSE 2 ^ NDBITS[n]
DOFFSET[n \in 0 .. 24] == IF n = 0 THEN 0 ELSE DOFFSET[n - 1] + (n - 1) * NWORDS(n - 1)

Place(n, index) == DOFFSET[n] + index * n
Word(n, index) == [k \in 1 .. n |-> DICT[Place(n, index) + k]]

-----------------------------------------------------------------------------
(* ferment changes the case of one character of UTF-8, in its last byte; a word *)
(* may end before that.                                                         *)

FlipBit(byte, weight) == IF (byte \div weight) % 2 = 1 THEN byte - weight ELSE byte + weight
Width(byte) == IF byte < 192 THEN 1 ELSE IF byte < 224 THEN 2 ELSE 3

(* Byte k of a word, when the character that begins at `start` is fermented. *)
Letter(word, start, k) ==
  LET width == Width(word[start])
  IN IF k # start + width - 1 THEN word[k]
     ELSE CASE width = 1 -> IF word[k] \in 97 .. 122 THEN FlipBit(word[k], 32) ELSE word[k]
            [] width = 2 -> FlipBit(word[k], 32)
            [] width = 3 -> FlipBit(FlipBit(word[k], 4), 1)

FermentFirst(word) == [k \in 1 .. Len(word) |-> Letter(word, 1, k)]

FermentAll(word) ==
  LET start[k \in 1 .. Len(word)] ==
        IF k = 1 THEN 1
        ELSE LET before == start[k - 1]
             IN IF k < before + Width(word[before]) THEN before ELSE k
  IN [k \in 1 .. Len(word) |-> Letter(word, start[k], k)]

OmitFirst(word, k) == SubSeq(word, k + 1, Len(word))

(* OmitLast keeps the whole word when it has k letters (line 164). *)
OmitLast(word, k) == IF Len(word) < k THEN <<>> ELSE word

Transformed(word, kind) ==
  CASE kind = 0 -> word
    [] kind = 1 -> FermentFirst(word)
    [] kind = 2 -> FermentAll(word)
    [] kind \in 3 .. 11 -> OmitFirst(word, kind - 2)
    [] kind \in 12 .. 20 -> OmitLast(word, kind - 11)

(* What dictionary() appends, and when it fails: too short or long a copy, *)
(* or a transform that does not exist.                                     *)
WordID(distance, allowed) == distance - (allowed + 1)
TransformID(id, n) == id \div 2 ^ NDBITS[n]
Exists(id, n) == n \in Lengths /\ TransformID(id, n) \in 0 .. Len(transformation) - 1
Appended(id, n) ==
  LET t == transformation[TransformID(id, n) + 1]
  IN t.prefix \o Transformed(Word(n, id % NWORDS(n)), t.kind) \o t.suffix
=============================================================================
